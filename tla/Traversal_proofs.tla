--------------------------- MODULE Traversal_proofs ---------------------------
(***************************************************************************)
(* Proofs about how two peers get through their NATs: the runner of the    *)
(* strategies, for any number of strategies and any set of stubs; the      *)
(* mixed id the peers call each other by; the punching itself, for any     *)
(* number of punches and turns and any calls; and what the loops that      *)
(* choose the strategies, predict the next port and classify the NAT       *)
(* compute, turn by turn.                                                  *)
(***************************************************************************)
EXTENDS MCParallelRunner, NatPunch, FiniteSetTheorems, SequenceTheorems,
        WellFoundedInduction, TLAPS

----------------------------------------------------------------------------
(* ParallelRunner.  The inductive invariant says how far the join has      *)
(* come, that the winner is a task that succeeded, and that the polling    *)
(* counts no further than the number of tasks.                             *)

Over(k) == thread[k] \in {"none", "ended"}

Typed ==
  /\ pc \in {"call", "launch", "poll", "scan", "join", "done"}
  /\ i \in 1 .. N + 1
  /\ completed \in Nat
  /\ winner \in 0 .. N
  /\ ret \in {-1, 0, 1}
  /\ chosen \in 0 .. N
  /\ thread \in [Tasks -> {"none", "running", "ending", "ended"}]
  /\ success \in [Tasks -> BOOLEAN]
  /\ failed \in [Tasks -> BOOLEAN]
  /\ freed \in BOOLEAN
  /\ cancelled \in BOOLEAN

Joined ==
  /\ pc = "join" => \A k \in Tasks : k < i => Over(k)
  /\ freed => pc = "done" /\ \A k \in Tasks : Over(k)

Winner ==
  /\ winner # 0 => success[winner] /\ thread[winner] # "none"
  /\ \A k \in Tasks : success[k] => thread[k] # "none"
  /\ ret = 0 => pc = "done" /\ freed /\ winner # 0 /\ chosen = winner
  /\ pc = "done" \/ ret = 1

Counting ==
  /\ pc \in {"call", "launch"} => completed = 0 /\ winner = 0
  /\ pc \in {"poll", "scan", "join"} => Started # {}
  /\ pc = "scan" => completed < Cardinality(Started)
  /\ completed <= Cardinality(Started)

Inv == Typed /\ Joined /\ Winner /\ Counting

----------------------------------------------------------------------------
LEMMA TasksFinite == IsFiniteSet(Tasks) /\ Cardinality(Tasks) = N
  BY CountAssumption, FS_Interval DEF Tasks

\* What the started tasks are depends on the threads alone; they are finitely
\* many.
StartedIn(t) == {k \in Tasks : t[k] # "none"}

LEMMA StartedIs == Started = StartedIn(thread) /\ Started' = StartedIn(thread')
  BY DEF Started, StartedIn

LEMMA StartedFinite ==
  ASSUME NEW t
  PROVE  Cardinality(StartedIn(t)) \in Nat
  <1>1. StartedIn(t) \subseteq Tasks  BY DEF StartedIn
  <1> QED  BY <1>1, TasksFinite, FS_Subset, FS_CardinalityType

\* A task whose thread goes on to another state stays among the started ones.
LEMMA StartedStays ==
  ASSUME NEW k \in Tasks, NEW where, where # "none", thread[k] # "none",
         thread \in [Tasks -> {"none", "running", "ending", "ended"}]
  PROVE  StartedIn([thread EXCEPT ![k] = where]) = StartedIn(thread)
  BY DEF StartedIn

LEMMA InitInv == Init => Inv
  <1> SUFFICES ASSUME Init PROVE Inv  OBVIOUS
  <1> USE DEF Init
  <1>1. Typed
    <2>1. i \in 1 .. N + 1 /\ winner \in 0 .. N /\ chosen \in 0 .. N /\ completed \in Nat
      BY CountAssumption
    <2>2. freed \in BOOLEAN /\ cancelled \in BOOLEAN  BY Zenon
    <2>3. success \in [Tasks -> BOOLEAN] /\ failed \in [Tasks -> BOOLEAN]  BY Zenon
    <2>4. thread \in [Tasks -> {"none", "running", "ending", "ended"}]  OBVIOUS
    <2>5. pc = "call" /\ ret = 1  OBVIOUS
    <2> QED  BY <2>1, <2>2, <2>3, <2>4, <2>5 DEF Typed
  <1>2. Joined  BY DEF Joined
  <1>3. Winner  BY DEF Winner
  <1>4. Counting  BY StartedFinite, StartedIs DEF Counting
  <1> QED  BY <1>1, <1>2, <1>3, <1>4 DEF Inv

----------------------------------------------------------------------------
(* The caller's steps.                                                      *)

LEMMA BeginInv == Inv /\ Begin => Inv'
  <1> SUFFICES ASSUME Inv, Begin PROVE Inv'  OBVIOUS
  <1> USE DEF Inv, Begin, At, Step, Return, task
  <1>1. Typed'
    <2>1. CASE N = 0  BY <2>1 DEF Typed
    <2>2. CASE N # 0
      <3>1. cancelled' = FALSE /\ pc' = "launch" /\ i' = 1 /\ UNCHANGED <<ret, chosen>>
        BY <2>2
      <3>2. cancelled' \in BOOLEAN  BY <3>1, Zenon
      <3>3. 1 \in 1 .. N + 1  BY CountAssumption
      <3> QED  BY <3>1, <3>2, <3>3 DEF Typed
    <2> QED  BY <2>1, <2>2
  <1>2. Joined'  BY DEF Joined
  <1>3. Winner'  BY DEF Winner, Counting
  <1>4. Counting'  BY StartedIs DEF Counting
  <1> QED  BY <1>1, <1>2, <1>3, <1>4

LEMMA LaunchInv == Inv /\ Launch => Inv'
  <1> SUFFICES ASSUME Inv, Launch PROVE Inv'  OBVIOUS
  <1> USE DEF Inv, Launch, At, Step
  <1>1. Typed'  BY CountAssumption DEF Typed, Tasks
  <1>2. Joined'  BY DEF Joined
  <1>3. Winner'
    <2>1. \A k \in Tasks : thread[k] # "none" => thread'[k] # "none"  BY DEF Typed
    <2>2. winner = 0  BY DEF Counting
    <2> QED  BY <2>1, <2>2 DEF Winner
  <1>4. Counting'  BY StartedIs, StartedFinite DEF Counting
  <1> QED  BY <1>1, <1>2, <1>3, <1>4

LEMMA LaunchedInv == Inv /\ Launched => Inv'
  <1> SUFFICES ASSUME Inv, Launched PROVE Inv'  OBVIOUS
  <1> USE DEF Inv, Launched, At, Step, Return, task
  <1>1. Typed'  BY CountAssumption DEF Typed
  <1>2. Joined'  BY DEF Joined
  <1>3. Winner'  BY DEF Winner, Counting
  <1>4. Counting'  BY StartedIs DEF Counting
  <1> QED  BY <1>1, <1>2, <1>3, <1>4

LEMMA PollInv == Inv /\ Poll => Inv'
  <1> SUFFICES ASSUME Inv, Poll PROVE Inv'  OBVIOUS
  <1> USE DEF Inv, Poll, At, Step, task
  <1>1. Typed'  BY CountAssumption DEF Typed
  <1>2. Joined'  BY CountAssumption DEF Joined, Tasks
  <1>3. Winner'  BY DEF Winner
  <1>4. Counting'  BY StartedIs DEF Counting, Waiting
  <1> QED  BY <1>1, <1>2, <1>3, <1>4

LEMMA ScanInv == Inv /\ Scan => Inv'
  <1> SUFFICES ASSUME Inv, Scan PROVE Inv'  OBVIOUS
  <1> USE DEF Inv, Scan, At, Step, task
  <1>0. i \in Tasks  BY CountAssumption DEF Typed, Tasks
  <1>1. Typed'  BY <1>0, CountAssumption DEF Typed, Tasks
  <1>2. Joined'  BY DEF Joined
  <1>3. Winner'  BY <1>0 DEF Winner
  <1>4. Counting'  BY StartedIs, StartedFinite DEF Counting, Typed
  <1> QED  BY <1>1, <1>2, <1>3, <1>4

LEMMA ScanOnInv == Inv /\ ScanOn => Inv'
  <1> SUFFICES ASSUME Inv, ScanOn PROVE Inv'  OBVIOUS
  <1> USE DEF Inv, ScanOn, At, Step, task
  <1>1. Typed'  BY CountAssumption DEF Typed
  <1>2. Joined'  BY DEF Joined
  <1>3. Winner'  BY DEF Winner
  <1>4. Counting'  BY StartedIs DEF Counting
  <1> QED  BY <1>1, <1>2, <1>3, <1>4

LEMMA JoinInv == Inv /\ Join => Inv'
  <1> SUFFICES ASSUME Inv, Join PROVE Inv'  OBVIOUS
  <1> USE DEF Inv, Join, At, Step, task
  <1>1. Typed'  BY CountAssumption DEF Typed
  <1>2. Joined'  BY CountAssumption DEF Joined, Tasks, Over, Typed
  <1>3. Winner'  BY DEF Winner
  <1>4. Counting'  BY StartedIs DEF Counting
  <1> QED  BY <1>1, <1>2, <1>3, <1>4

\* The first of the started tasks exists: they are some of 1 .. N.
LEMMA FirstStarted ==
  ASSUME Started # {}
  PROVE  (CHOOSE k \in Started : \A j \in Started : k <= j) \in Tasks
  <1> DEFINE R == {ss \in Nat \X Nat : ss[1] < ss[2]}
  <1>1. IsWellFoundedOn(R, Nat)  BY NatLessThanWellFounded DEF OpToRel
  <1>2. Started \subseteq Nat  BY CountAssumption DEF Started, Tasks
  <1>0. \A x, y \in Nat : x < y => <<x, y>> \in R  OBVIOUS
  <1> HIDE DEF R
  <1>3. PICK m \in Started : \A j \in Started : ~(<<j, m>> \in R)
    BY <1>1, <1>2, WFMin
  <1>4. \A j \in Started : m <= j
    <2>1. TAKE j \in Started
    <2>2. j \in Nat /\ m \in Nat  BY <1>2
    <2>3. ~(j < m)  BY <1>0, <1>3, <2>2
    <2> QED  BY <2>2, <2>3
  <1>5. Started \subseteq Tasks  BY DEF Started
  <1> QED  BY <1>4, <1>5

LEMMA FinishInv == Inv /\ Finish => Inv'
  <1> SUFFICES ASSUME Inv, Finish PROVE Inv'  OBVIOUS
  <1> USE DEF Inv, Finish, At, Step, Return, task
  <1>1. Typed'
    <2>1. CASE winner # 0
      <3>1. chosen' = winner /\ ret' = 0  BY <2>1
      <3> QED  BY <3>1 DEF Typed
    <2>2. CASE winner = 0
      <3>1. chosen' = (CHOOSE k \in Started : \A j \in Started : k <= j) /\ ret' = -1
        BY <2>2
      <3>2. Started # {}  BY DEF Counting
      <3>3. chosen' \in Tasks  BY <3>1, <3>2, FirstStarted
      <3>4. chosen' \in 0 .. N  BY <3>3, CountAssumption DEF Tasks
      <3> QED  BY <3>1, <3>4 DEF Typed
    <2> QED  BY <2>1, <2>2
  <1>2. Joined'  BY CountAssumption DEF Joined, Over, Tasks, Typed
  <1>3. Winner'  BY DEF Winner
  <1>4. Counting'  BY StartedIs DEF Counting
  <1> QED  BY <1>1, <1>2, <1>3, <1>4

----------------------------------------------------------------------------
(* The tasks' steps, and a cancel.                                          *)

LEMMA TaskInv == ASSUME NEW k \in Tasks PROVE Inv /\ Task(k) => Inv'
  <1> SUFFICES ASSUME Inv, Task(k) PROVE Inv'  OBVIOUS
  <1> USE DEF Inv, Task, runner
  <1>0. thread[k] \in {"running", "ending"}  BY DEF Succeed, Fail, End
  <1>1. Typed'
    <2>1. thread' \in [Tasks -> {"none", "running", "ending", "ended"}]
      BY DEF Succeed, Fail, End, Typed
    <2>2. success' \in [Tasks -> BOOLEAN] /\ failed' \in [Tasks -> BOOLEAN]
      BY DEF Succeed, Fail, End, Typed
    <2>3. UNCHANGED <<runner, cancelled>>  BY DEF Succeed, Fail, End
    <2> QED  BY <2>1, <2>2, <2>3 DEF Typed
  <1>2. Joined'  BY <1>0 DEF Succeed, Fail, End, Joined, Over, Typed
  <1>3. Winner'
    <2>1. \A j \in Tasks : thread[j] # "none" => thread'[j] # "none"
      BY DEF Succeed, Fail, End, Typed
    <2>2. \A j \in Tasks : success[j] => success'[j]
      BY DEF Succeed, Fail, End, Typed
    <2>3. \A j \in Tasks : success'[j] => thread'[j] # "none"
      BY <1>0, <2>1 DEF Succeed, Fail, End, Typed, Winner
    <2>4. winner # 0 => winner \in Tasks  BY CountAssumption DEF Typed, Tasks
    <2>5. UNCHANGED runner  BY DEF Succeed, Fail, End
    <2> QED  BY <2>1, <2>2, <2>3, <2>4, <2>5 DEF Winner
  <1>4. Counting'
    <2>1. PICK where \in {"ending", "ended"} : thread' = [thread EXCEPT ![k] = where]
      BY DEF Succeed, Fail, End
    <2>2. Started' = Started  BY <1>0, <2>1, StartedStays, StartedIs DEF Typed
    <2>3. UNCHANGED runner  BY DEF Succeed, Fail, End
    <2> QED  BY <2>2, <2>3 DEF Counting
  <1> QED  BY <1>1, <1>2, <1>3, <1>4

LEMMA IdleInv == Inv /\ (Cancel \/ UNCHANGED vars) => Inv'
  <1> SUFFICES ASSUME Inv, Cancel \/ UNCHANGED vars PROVE Inv'  OBVIOUS
  <1>1. UNCHANGED <<runner, task>> /\ cancelled' \in BOOLEAN
    BY DEF Inv, Typed, Cancel, vars
  <1>2. Typed'  BY <1>1 DEF Inv, Typed, runner, task
  <1>3. Joined'  BY <1>1 DEF Inv, Joined, Over, runner, task
  <1>4. Winner'  BY <1>1 DEF Inv, Winner, runner, task
  <1>5. Counting'  BY <1>1, StartedIs DEF Inv, Counting, runner, task
  <1> QED  BY <1>2, <1>3, <1>4, <1>5 DEF Inv

----------------------------------------------------------------------------
\* The invariant holds of parallel_run, however its threads interleave.
THEOREM Safety == Spec => []Inv
  <1>1. Inv /\ [Next]_vars => Inv'
    BY BeginInv, LaunchInv, LaunchedInv, PollInv, ScanInv, ScanOnInv, JoinInv,
       FinishInv, TaskInv, IdleInv DEF Next, Caller
  <1> QED  BY InitInv, <1>1, PTL DEF Spec

\* parallel_run frees the tasks only when every thread has ended.
THEOREM FreedSafely == Spec => []FreedWhenAllEnded
  <1>1. Inv => FreedWhenAllEnded  BY DEF Inv, Joined, Over, FreedWhenAllEnded
  <1> QED  BY Safety, <1>1, PTL

\* parallel_run reports success only with the whole result of a task that
\* succeeded.
THEOREM SuccessReal == Spec => []SuccessIsReal
  <1>1. Inv => SuccessIsReal
    <2> SUFFICES ASSUME Inv, pc = "done", ret = 0
                 PROVE  chosen # 0 /\ success[chosen] /\ thread[chosen] = "ended"
      BY DEF SuccessIsReal
    <2>1. chosen # 0 /\ chosen = winner /\ success[winner] /\ thread[winner] # "none"
      BY DEF Inv, Winner
    <2>2. chosen \in Tasks  BY <2>1, CountAssumption DEF Inv, Typed, Tasks
    <2>3. thread[chosen] \in {"none", "ended"}  BY <2>2 DEF Inv, Winner, Joined, Over
    <2> QED  BY <2>1, <2>3
  <1> QED  BY Safety, <1>1, PTL

----------------------------------------------------------------------------
(* Why it gave up.  The count is moved only by a result, so when no winner  *)
(* was found a task that was counted had failed.                            *)

SomeFailed == \E k \in Tasks : failed[k]

GaveUp ==
  /\ completed # 0 /\ winner = 0 => SomeFailed
  /\ pc = "join" /\ winner = 0 /\ ~cancelled => completed # 0
  /\ pc = "done" /\ ret = -1 /\ ~cancelled /\ Started # {} => SomeFailed

LEMMA StartedCounted == Started # {} => Cardinality(Started) # 0
  <1>1. Started \subseteq Tasks  BY DEF Started
  <1> QED  BY <1>1, TasksFinite, FS_Subset, FS_EmptySet

LEMMA CallerGaveUp == Inv /\ GaveUp /\ Caller => GaveUp'
  <1> SUFFICES ASSUME Inv, GaveUp, Caller PROVE GaveUp'  OBVIOUS
  <1> USE DEF Inv, GaveUp, At, Step, Return, task, SomeFailed
  <1>1. CASE Begin
    <2>1. completed' = 0 /\ pc' # "join"  BY <1>1 DEF Begin, Counting
    <2>2. N = 0 => Started' = {}  BY DEF Started, Tasks
    <2>3. pc' = "done" => N = 0  BY <1>1 DEF Begin
    <2> QED  BY <2>1, <2>2, <2>3
  <1>2. CASE Launch
    BY <1>2 DEF Launch, Counting
  <1>3. CASE Launched
    <2>1. completed' = 0 /\ pc' # "join"  BY <1>3 DEF Launched, Counting
    <2>2. pc' = "done" => Started' = {}  BY <1>3, StartedIs DEF Launched
    <2> QED  BY <2>1, <2>2
  <1>4. CASE Poll
    <2>1. pc' = "join" /\ winner = 0 /\ ~cancelled => completed # 0
      <3>1. Started # {} => Cardinality(Started) # 0  BY StartedCounted
      <3>2. Cardinality(Started) \in Nat  BY StartedFinite, StartedIs
      <3>3. Started # {}  BY <1>4 DEF Poll, Counting
      <3>4. pc' = "join" => ~Waiting  BY <1>4 DEF Poll
      <3> QED  BY <3>1, <3>2, <3>3, <3>4 DEF Waiting, Typed
    <2> QED  BY <1>4, <2>1 DEF Poll
  <1>5. CASE Scan
    <2>1. i \in Tasks  BY <1>5, CountAssumption DEF Scan, Typed, Tasks
    <2>2. CASE success[i]
      <3>1. winner' # 0  BY <1>5, <2>1, <2>2, CountAssumption DEF Scan, Tasks
      <3> QED  BY <1>5, <3>1 DEF Scan
    <2>3. CASE failed[i]
      BY <1>5, <2>1, <2>3 DEF Scan
    <2> QED  BY <1>5, <2>2, <2>3 DEF Scan, HasResult
  <1>6. CASE ScanOn  BY <1>6 DEF ScanOn
  <1>7. CASE Join  BY <1>7 DEF Join
  <1>8. CASE Finish
    <2>1. ret' = -1 => winner = 0  BY <1>8 DEF Finish
    <2> QED  BY <1>8, <2>1 DEF Finish
  <1> QED  BY <1>1, <1>2, <1>3, <1>4, <1>5, <1>6, <1>7, <1>8 DEF Caller

LEMMA TaskGaveUp == ASSUME NEW k \in Tasks PROVE Inv /\ GaveUp /\ Task(k) => GaveUp'
  <1> SUFFICES ASSUME Inv, GaveUp, Task(k) PROVE GaveUp'  OBVIOUS
  <1>1. SomeFailed => SomeFailed'
    BY DEF Task, Succeed, Fail, End, SomeFailed, Inv, Typed
  <1>2. UNCHANGED <<runner, cancelled>>  BY DEF Task, Succeed, Fail, End
  <1>3. Started' # {} => Started # {}
    BY DEF Task, Succeed, Fail, End, Inv, Typed, Started
  <1> QED  BY <1>1, <1>2, <1>3 DEF GaveUp, runner

LEMMA IdleGaveUp == GaveUp /\ (Cancel \/ UNCHANGED vars) => GaveUp'
  <1> SUFFICES ASSUME GaveUp, Cancel \/ UNCHANGED vars PROVE GaveUp'  OBVIOUS
  <1>1. UNCHANGED <<runner, task>> /\ (cancelled' \/ cancelled' = cancelled)
    BY DEF Cancel, vars
  <1>2. Started' = Started /\ SomeFailed' = SomeFailed
    BY <1>1 DEF Started, SomeFailed, task
  <1> QED  BY <1>1, <1>2 DEF GaveUp, runner

\* parallel_run gives up of itself only after a task that it started has
\* failed; tasks that are slow never make it do so.
THEOREM GivesUp == Spec => []GivesUpOnFailure
  <1>1. Init => GaveUp  BY DEF Init, GaveUp
  <1>2. Inv /\ GaveUp /\ [Next]_vars => GaveUp'
    BY CallerGaveUp, TaskGaveUp, IdleGaveUp DEF Next
  <1>3. GaveUp => GivesUpOnFailure  BY DEF GaveUp, SomeFailed, GivesUpOnFailure
  <1> QED  BY Safety, <1>1, <1>2, <1>3, PTL DEF Spec

----------------------------------------------------------------------------
\* Every variable of parallel_run keeps its type, and it counts no more
\* completions than it started tasks.
THEOREM TypeCorrect == Spec => []TypeOK
  <1>1. Inv => TypeOK
    BY StartedIs, StartedFinite DEF Inv, Typed, Counting, TypeOK
  <1> QED  BY Safety, <1>1, PTL

----------------------------------------------------------------------------
\* Two octets packed in 16 bits are unpacked as they were.
LEMMA PairUnpacks ==
  ASSUME NEW a \in Octets, NEW b \in Octets
  PROVE  /\ Pair(a, b) = a * 256 + b
         /\ High(Pair(a, b)) = a
         /\ Low(Pair(a, b)) = b
<1> a \in Int /\ b \in Int /\ 0 <= a /\ a <= 255 /\ 0 <= b /\ b <= 255
  BY DEF Octets
<1>1. Pair(a, b) = a * 256 + b
  BY SMT DEF Pair
<1>2. (a * 256 + b) \div 256 = a /\ (a * 256 + b) % 256 = b
  BY SMT
<1> QED
  BY <1>1, <1>2 DEF High, Low

\* mixed_id_auto_parse gives back what mixed_id_encode was given, for every id, every
\* address and every port that is one.
THEOREM MixedIdRoundTrips ==
  ASSUME NEW id \in Nat, NEW ip \in Seq(Nat), NEW port \in Nat
  PROVE  RoundTrips(id, ip, port)
<1> SUFFICES ASSUME IsIp(ip), IdInRange(id), PortInRange(port)
             PROVE  AutoParse(Encode(id, ip, port)) = [id |-> id, ip |-> ip, port |-> port]
  BY DEF RoundTrips
<1> DEFINE text == Encode(id, ip, port)
           h == Pair(ip[1], ip[2])
           l == Pair(ip[3], ip[4])
<1>1. ip[1] \in Octets /\ ip[2] \in Octets /\ ip[3] \in Octets /\ ip[4] \in Octets
  BY DEF IsIp
<1>2. text = <<id, h, l, port>>
  BY DEF Encode
<1>3. ip = <<ip[1], ip[2], ip[3], ip[4]>>
  BY DEF IsIp
<1> HIDE DEF text, h, l
<1>4. /\ Len(text) = 4
      /\ text[1] = id /\ text[2] = h /\ text[3] = l /\ text[4] = port
  BY <1>2
<1>5. ExtractIp(text) = ip
  <2>1. High(h) = ip[1] /\ Low(h) = ip[2] /\ High(l) = ip[3] /\ Low(l) = ip[4]
    BY <1>1, PairUnpacks DEF h, l
  <2> QED
    BY <2>1, <1>3, <1>4 DEF ExtractIp
<1>6. Decodes(text)
  BY <1>4 DEF Decodes, ExtractId, ExtractPort
<1>7. DetectType(text) = "MIXED"
  BY <1>4, <1>5, <1>6 DEF DetectType, IsMixed, IsValid
<1>8. Decode(text) = [id |-> id, ip |-> ip, port |-> port]
  BY <1>4, <1>5, <1>6 DEF Decode, ExtractId, ExtractPort
<1> QED
  BY <1>7, <1>8 DEF AutoParse, text

\* Whatever peer is named while an attempt to connect is computed, its mixed id gives
\* it back: MixedIdRoundTrips, for the ids, addresses and ports that are named.
THEOREM MixedIds == Spec => []MixedIdsRoundTrip
<1>1. IdsMC \subseteq Nat /\ PortsMC \subseteq Nat
  BY DEF IdsMC, PortsMC
<1>2. ASSUME NEW ip \in IpsMC  PROVE ip \in Seq(Nat)
  <2>1. ip \in [1 .. 4 -> Nat]
    BY DEF IpsMC, OctetsMC
  <2>2. ip \in UNION {[1 .. n -> Nat] : n \in Nat}
    BY <2>1
  <2> QED
    BY <2>2, SeqDef, Zenon
<1>3. MixedIdsRoundTrip
  BY <1>1, <1>2, MixedIdRoundTrips DEF MixedIdsRoundTrip
<1> QED
  BY <1>3, PTL

----------------------------------------------------------------------------
(* NatPunch.  The inductive invariant: when both have punched in attempts  *)
(* that are under way, a punch is in one's buffer, for the later of the    *)
(* two found the NAT and the socket of the other open; and once they       *)
(* overlap, the one with the punch has more turns left to listen than      *)
(* there are datagrams in front of it.                                     *)

\* There are two ends, each the peer of the other.
LEMMA Others ==
  ASSUME NEW e \in Ends
  PROVE  /\ Peer(e) \in Ends /\ Peer(e) # e /\ Peer(Peer(e)) = e
         /\ \A f \in Ends : f = e \/ f = Peer(e)
BY EndsAssumption DEF Ends, Peer

\* A technique is tried once, and udp before the others; an end that has not opened its
\* socket has punched no one.
Ordered(r) ==
  /\ \A m \in 2 .. Len(r.todo) : r.todo[m] # "udp"
  /\ r.todo # << >> /\ Head(r.todo) = "udp" => r.outcome["udp"] = "untried"
  /\ r.phase = "open" => r.n = 0
  /\ r.todo = << >> => r.phase = "open"
  /\ r.call = "none" => r.todo = << >> /\ r.outcome["udp"] = "untried"

PunchTyped == PunchTypeOK /\ \A e \in Ends : Ordered(end[e])

\* It has sent a punch to where the peer listens in the same attempt.
Sent(e) ==
  /\ Trying(e, "udp") /\ end[e].target = "udp"
  /\ end[e].phase = "listen" \/ (end[e].phase = "send" /\ end[e].n > 0)

Punched(e) == \E m \in 1 .. Len(inbox[e]) : inbox[e][m].text # "other"

\* The turns it has left to listen.
Left(e) == IF end[e].phase = "listen" THEN MaxRetry - end[e].n ELSE MaxRetry

\* A punch will be in front before its turns are over.
WillHear(e) ==
  /\ Trying(e, "udp") /\ end[e].phase # "open"
  /\ \E m \in 1 .. Len(inbox[e]) : inbox[e][m].text # "other" /\ m <= Left(e)

Heard(e) == end[e].outcome["udp"] = "ok"

\* Whoever has punched the peer's udp port has opened its own NAT for what comes from there.
Opened == \A e \in Ends : Sent(e) => <<"udp", "udp">> \in holes[e]

\* Of two that have punched each other one has a punch in its buffer; of two that have
\* overlapped one has heard, or will.
Met ==
  ~delayed =>
    /\ wire = {}
    /\ (\A e \in Ends : Sent(e)) => \E e \in Ends : Punched(e)
    /\ overlap => \E e \in Ends : Heard(e) \/ WillHear(e)

PunchInv == PunchTyped /\ Opened /\ Met

----------------------------------------------------------------------------
\* What multi_strategy tries has udp at its head or not at all.
LEMMA ChosenIs ==
  ASSUME NEW call \in Calls
  PROVE  /\ Chosen(call) \in Seq(Techniques) /\ Chosen(call) # << >>
         /\ \A m \in 2 .. Len(Chosen(call)) : Chosen(call)[m] # "udp"
<1> DEFINE first == IF call.symmetric = Ends THEN << >> ELSE <<"udp">>
           last == IF call.symmetric = {} THEN << >> ELSE <<"pred">>
           all == first \o <<"ttl", "sim">> \o last
<1>1. CASE call.of # "multi_strategy"
  BY <1>1 DEF Chosen, Techniques
<1>2. CASE call.of = "multi_strategy"
  <2>1. Chosen(call) = all
    BY <1>2 DEF Chosen
  <2>2. first \in Seq(Techniques) /\ Len(first) \in {0, 1}
    <3>1. CASE call.symmetric = Ends
      BY <3>1
    <3>2. CASE call.symmetric # Ends
      BY <3>2 DEF Techniques
    <3> QED
      BY <3>1, <3>2
  <2>3. last \in Seq(Techniques) /\ \A m \in 1 .. Len(last) : last[m] = "pred"
    <3>1. CASE call.symmetric = {}
      BY <3>1
    <3>2. CASE call.symmetric # {}
      <4>1. last = <<"pred">>
        BY <3>2
      <4>2. <<"pred">> \in Seq(Techniques) /\ \A m \in 1 .. 1 : <<"pred">>[m] = "pred"
        BY DEF Techniques
      <4> QED
        BY <4>1, <4>2
    <3> QED
      BY <3>1, <3>2
  <2>4. <<"ttl", "sim">> \in Seq(Techniques) /\ Len(<<"ttl", "sim">>) = 2
    BY DEF Techniques
  <2> HIDE DEF first, last
  <2> DEFINE front == first \o <<"ttl", "sim">>
  <2>5. /\ front \in Seq(Techniques) /\ Len(front) = Len(first) + 2
        /\ \A m \in 2 .. Len(front) : front[m] # "udp"
    BY <2>2, <2>4
  <2> HIDE DEF front
  <2>6. /\ front \o last \in Seq(Techniques) /\ Len(front \o last) = Len(front) + Len(last)
        /\ \A m \in 1 .. Len(front) : (front \o last)[m] = front[m]
        /\ \A m \in 1 .. Len(last) : (front \o last)[m + Len(front)] = last[m]
    BY <2>3, <2>5
  <2>7. all = front \o last
    BY DEF front
  <2> HIDE DEF all
  <2>8. Len(front) \in Nat /\ Len(last) \in Nat /\ Len(front) > 0
    BY <2>2, <2>3, <2>5
  <2>9. \A m \in 2 .. Len(all) : all[m] # "udp"
    <3> SUFFICES ASSUME NEW m \in 2 .. Len(all)  PROVE all[m] # "udp"
      OBVIOUS
    <3>1. CASE m <= Len(front)
      BY <3>1, <2>5, <2>6, <2>7, <2>8
    <3>2. CASE m > Len(front)
      <4> DEFINE j == m - Len(front)
      <4>1. j \in 1 .. Len(last) /\ m = j + Len(front)
        BY <3>2, <2>6, <2>7, <2>8
      <4> HIDE DEF j
      <4> QED
        BY <4>1, <2>3, <2>6, <2>7
    <3> QED
      BY <3>1, <3>2, <2>8
  <2>10. all # << >>
    BY <2>6, <2>7, <2>8
  <2> QED
    BY <2>1, <2>6, <2>7, <2>9, <2>10
<1> QED
  BY <1>1, <1>2

\* When a technique ends, the next is begun or the call returns.
LEMMA DoneIs ==
  ASSUME PunchTyped, NEW e \in Ends, NEW result \in {"ok", "failed"}, end[e].todo # << >>,
         Done(e, result)
  PROVE  /\ end' \in [Ends -> Progress]
         /\ \A f \in Ends : Ordered(end'[f])
         /\ end'[Peer(e)] = end[Peer(e)]
         /\ end'[e].phase = "open" /\ ~Trying(e, "udp")'
         /\ Trying(e, "udp") => end'[e].outcome["udp"] = result
         /\ ~Trying(e, "udp") => end'[e].outcome["udp"] = end[e].outcome["udp"]
<1> DEFINE r == end[e]
           o == [r.outcome EXCEPT ![Head(r.todo)] = result]
           back == IF Len(r.todo) = 1 THEN Report(o) ELSE r.ret
           rest == Tail(r.todo)
           s == [r EXCEPT !.todo = rest, !.phase = "open", !.n = 0, !.outcome = o, !.ret = back]
<1>1. r \in Progress /\ Ordered(r) /\ end \in [Ends -> Progress]
  BY DEF PunchTyped, PunchTypeOK
<1>2. end' = [end EXCEPT ![e] = s]
  BY <1>1 DEF Done, Progress
<1>3. /\ rest \in Seq(Techniques) /\ Head(r.todo) \in Techniques
      /\ \A m \in 1 .. Len(rest) : rest[m] # "udp"
      /\ rest # << >> => Head(rest) # "udp"
  <2>1. r.todo \in Seq(Techniques) /\ r.todo # << >>
    BY <1>1 DEF Progress
  <2>2. rest \in Seq(Techniques) /\ Head(r.todo) \in Techniques
        /\ Len(rest) = Len(r.todo) - 1 /\ \A m \in 1 .. Len(rest) : rest[m] = r.todo[m + 1]
    BY <2>1
  <2>3. \A m \in 1 .. Len(rest) : rest[m] # "udp"
    BY <1>1, <2>1, <2>2 DEF Ordered
  <2> HIDE DEF rest
  <2>4. rest # << >> => Head(rest) = rest[1] /\ 1 \in 1 .. Len(rest)
    BY <2>2
  <2> QED
    BY <2>2, <2>3, <2>4
<1>4. /\ o \in [Techniques -> {"untried", "ok", "failed"}]
      /\ Head(r.todo) = "udp" => o["udp"] = result
      /\ Head(r.todo) # "udp" => o["udp"] = r.outcome["udp"]
  BY <1>1, <1>3 DEF Progress, Techniques
<1>5. back \in {"none", "ok", "failed"}
  BY <1>1 DEF Progress, Report
<1>6. r.call # "none"
  BY <1>1 DEF Ordered
<1> HIDE DEF o, back, rest
<1>7. /\ s \in Progress /\ s.todo = rest /\ s.phase = "open" /\ s.n = 0 /\ s.outcome = o
      /\ s.call = r.call
  BY <1>1, <1>3, <1>4, <1>5 DEF Progress
<1> HIDE DEF s
<1>8. Ordered(s)
  BY <1>3, <1>6, <1>7 DEF Ordered
<1>9. end'[e] = s /\ \A f \in Ends \ {e} : end'[f] = end[f]
  BY <1>1, <1>2
<1>10. end' \in [Ends -> Progress]
  BY <1>1, <1>2, <1>7
<1> HIDE DEF r
<1>11. ~Trying(e, "udp")'
  BY <1>3, <1>7, <1>9 DEF Trying
<1> QED
  BY <1>4, <1>7, <1>8, <1>9, <1>10, <1>11, Others DEF Trying, PunchTyped, r

----------------------------------------------------------------------------
(* The network *)

\* A buffer is as it was, or a datagram longer.
Grown(f) == inbox'[f] = inbox[f] \/ \E d \in Datagram : inbox'[f] = Append(inbox[f], d)

LEMMA AppendIs ==
  ASSUME NEW b \in Seq(Datagram), NEW d \in Datagram
  PROVE  /\ Append(b, d) \in Seq(Datagram) /\ Len(Append(b, d)) = Len(b) + 1
         /\ Len(b) \in Nat
         /\ \A m \in 1 .. Len(b) : Append(b, d)[m] = b[m]
         /\ Append(b, d)[Len(b) + 1] = d
OBVIOUS

LEMMA BufferedIs ==
  ASSUME PunchTyped, NEW d \in Datagram
  PROVE  /\ Buffered(d) \in [Ends -> Seq(Datagram)]
         /\ Buffered(d)[d.dest] = Append(inbox[d.dest], d)
         /\ \A f \in Ends \ {d.dest} : Buffered(d)[f] = inbox[f]
<1>1. inbox \in [Ends -> Seq(Datagram)] /\ d.dest \in Ends
  BY DEF PunchTyped, PunchTypeOK, Datagram
<1>2. Append(inbox[d.dest], d) \in Seq(Datagram)
  BY <1>1, AppendIs
<1> QED
  BY <1>1, <1>2 DEF Buffered

\* What a punch does: it opens the NAT, and if it comes through at once it is in the
\* peer's buffer.
LEMMA TransmitIs ==
  ASSUME PunchTyped, NEW e \in Ends, NEW text \in {"PUNCH", "TTL"}, NEW from \in Sources,
         NEW rest \in Seq(Datagram), Transmit(e, text, from, rest)
  PROVE  /\ inbox' \in [Ends -> Seq(Datagram)]
         /\ holes' \in [Ends -> SUBSET (Sources \X Targets)]
         /\ wire' \subseteq Datagram /\ delayed' \in BOOLEAN /\ (delayed => delayed')
         /\ inbox'[e] = rest /\ Grown(Peer(e))
         /\ holes'[e] = holes[e] \cup {<<from, end[e].target>>}
         /\ holes'[Peer(e)] = holes[Peer(e)]
         /\ ~delayed' => wire' = wire
         /\ ~delayed' /\ LetsIn([text |-> text, from |-> from, to |-> end[e].target,
                                dest |-> Peer(e)])
            => /\ Len(inbox'[Peer(e)]) = Len(inbox[Peer(e)]) + 1
               /\ inbox'[Peer(e)][Len(inbox[Peer(e)]) + 1].text = text
<1> DEFINE d == [text |-> text, from |-> from, to |-> end[e].target, dest |-> Peer(e)]
           f == Peer(e)
<1>1. f \in Ends /\ f # e
  BY Others
<1>2. d \in Datagram /\ d.dest = f /\ d.text = text /\ end[e].target \in Targets
  BY <1>1 DEF PunchTyped, PunchTypeOK, Progress, Datagram
<1>3. /\ inbox \in [Ends -> Seq(Datagram)] /\ wire \subseteq Datagram
      /\ holes \in [Ends -> SUBSET (Sources \X Targets)] /\ delayed \in BOOLEAN
  BY DEF PunchTyped, PunchTypeOK
<1>4. /\ holes' = [holes EXCEPT ![e] = @ \cup {<<from, d.to>>}]
      /\ \/ /\ inbox' = [IF LetsIn(d) THEN Buffered(d) ELSE inbox EXCEPT ![e] = rest]
            /\ UNCHANGED <<wire, delayed>>
         \/ /\ wire' = wire \cup {d}
            /\ delayed' = TRUE
            /\ inbox' = [inbox EXCEPT ![e] = rest]
  BY DEF Transmit
<1>5. d.to = end[e].target
  OBVIOUS
<1> HIDE DEF d, f
<1>6. /\ holes' \in [Ends -> SUBSET (Sources \X Targets)]
      /\ holes'[e] = holes[e] \cup {<<from, end[e].target>>} /\ holes'[f] = holes[f]
  BY <1>1, <1>2, <1>3, <1>4, <1>5
<1>7. /\ Buffered(d) \in [Ends -> Seq(Datagram)] /\ Buffered(d)[f] = Append(inbox[f], d)
  BY <1>2, BufferedIs
<1>8. /\ Len(Append(inbox[f], d)) = Len(inbox[f]) + 1
      /\ Append(inbox[f], d)[Len(inbox[f]) + 1].text = text
  BY <1>1, <1>2, <1>3, AppendIs
<1>9. CASE LetsIn(d) /\ inbox' = [Buffered(d) EXCEPT ![e] = rest] /\ UNCHANGED <<wire, delayed>>
  <2>1. inbox' \in [Ends -> Seq(Datagram)] /\ inbox'[e] = rest /\ inbox'[f] = Append(inbox[f], d)
    BY <1>1, <1>7, <1>9
  <2> QED
    BY <2>1, <1>2, <1>3, <1>6, <1>8, <1>9 DEF Grown, f
<1>10. CASE ~LetsIn(d) /\ inbox' = [inbox EXCEPT ![e] = rest] /\ UNCHANGED <<wire, delayed>>
  <2>1. inbox' \in [Ends -> Seq(Datagram)] /\ inbox'[e] = rest /\ inbox'[f] = inbox[f]
    BY <1>1, <1>3, <1>10
  <2> QED
    BY <2>1, <1>3, <1>6, <1>10 DEF Grown, f, d
<1>11. CASE wire' = wire \cup {d} /\ delayed' = TRUE /\ inbox' = [inbox EXCEPT ![e] = rest]
  <2>1. inbox' \in [Ends -> Seq(Datagram)] /\ inbox'[e] = rest /\ inbox'[f] = inbox[f]
    BY <1>1, <1>3, <1>11
  <2> QED
    BY <2>1, <1>2, <1>3, <1>6, <1>11 DEF Grown, f
<1> QED
  BY <1>4, <1>9, <1>10, <1>11

LEMMA QuietIs ==
  ASSUME PunchTyped, NEW e \in Ends, NEW rest \in Seq(Datagram), Quiet(e, rest)
  PROVE  /\ inbox' \in [Ends -> Seq(Datagram)] /\ inbox'[e] = rest
         /\ inbox'[Peer(e)] = inbox[Peer(e)]
         /\ UNCHANGED <<holes, wire, delayed>>
BY Others DEF Quiet, PunchTyped, PunchTypeOK
----------------------------------------------------------------------------
(* The steps *)

\* What a step of e must see to, for the other end still to be right.
Acts(e) ==
  /\ end'[Peer(e)] = end[Peer(e)] /\ Grown(Peer(e)) /\ holes'[Peer(e)] = holes[Peer(e)]
  /\ delayed => delayed'
  /\ ~delayed' => wire' \subseteq wire
  /\ Sent(e)' => <<"udp", "udp">> \in holes'[e]
  /\ ~delayed' /\ Sent(e)' =>
        \/ Sent(e) /\ (Punched(e) => Punched(e)')
        \/ Sent(Peer(e)) => Punched(Peer(e))'
  /\ Heard(e) \/ WillHear(e) => Heard(e)' \/ WillHear(e)'

\* All types but those of the histories.
KeepsTypes ==
  /\ end' \in [Ends -> Progress] /\ \A f \in Ends : Ordered(end'[f])
  /\ inbox' \in [Ends -> Seq(Datagram)]
  /\ holes' \in [Ends -> SUBSET (Sources \X Targets)]
  /\ wire' \subseteq Datagram /\ delayed' \in BOOLEAN /\ noise' \in 0 .. MaxNoise

\* Only the turn and the phase of an end change.
LEMMA MovesIs ==
  ASSUME PunchTyped, NEW e \in Ends, NEW x \in Nat, NEW p \in {"send", "listen"},
         end[e].todo # << >>,
         end' = [end EXCEPT ![e] = [end[e] EXCEPT !.n = x, !.phase = p]]
  PROVE  /\ end' \in [Ends -> Progress] /\ \A f \in Ends : Ordered(end'[f])
         /\ end'[Peer(e)] = end[Peer(e)]
         /\ end'[e].todo = end[e].todo /\ end'[e].target = end[e].target
         /\ end'[e].outcome = end[e].outcome /\ end'[e].call = end[e].call
         /\ end'[e].n = x /\ end'[e].phase = p
<1> DEFINE r == end[e]
           s == [r EXCEPT !.n = x, !.phase = p]
<1>1. r \in Progress /\ Ordered(r) /\ end \in [Ends -> Progress]
  BY DEF PunchTyped, PunchTypeOK
<1>2. /\ s \in Progress /\ s.todo = r.todo /\ s.target = r.target /\ s.outcome = r.outcome
      /\ s.call = r.call /\ s.n = x /\ s.phase = p
  BY <1>1 DEF Progress
<1> HIDE DEF s
<1>3. Ordered(s)
  BY <1>1, <1>2 DEF Ordered
<1>4. end' = [end EXCEPT ![e] = s]
  BY DEF s
<1>5. end'[e] = s /\ end' \in [Ends -> Progress] /\ \A f \in Ends \ {e} : end'[f] = end[f]
  BY <1>1, <1>2, <1>4
<1> QED
  BY <1>2, <1>3, <1>5, Others DEF PunchTyped

LEMMA BeginActs ==
  ASSUME PunchTyped, NEW e \in Ends, BeginCall(e)
  PROVE  KeepsTypes /\ Acts(e)
<1> DEFINE r == end[e]
<1>1. PICK call \in Calls :
        end' = [end EXCEPT ![e].call = call.of, ![e].target = call.target, ![e].todo = Chosen(call)]
  BY DEF BeginCall
<1> DEFINE todo == Chosen(call)
           s == [r EXCEPT !.call = call.of, !.target = call.target, !.todo = todo]
<1>2. /\ r \in Progress /\ Ordered(r) /\ end \in [Ends -> Progress] /\ r.call = "none"
      /\ r.todo = << >> /\ r.phase = "open" /\ r.n = 0 /\ r.outcome["udp"] = "untried"
  BY DEF PunchTyped, PunchTypeOK, Ordered, BeginCall
<1>3. call.of \in {"try_connect", "punch", "multi_strategy"} /\ call.target \in Targets
  BY CallsAssumption
<1>4. /\ todo \in Seq(Techniques) /\ todo # << >> /\ \A m \in 2 .. Len(todo) : todo[m] # "udp"
  BY ChosenIs
<1>5. end' = [end EXCEPT ![e] = s]
  BY <1>1, <1>2
<1> HIDE DEF todo
<1>6. /\ s \in Progress /\ s.todo = todo /\ s.call = call.of /\ s.outcome = r.outcome
      /\ s.phase = "open" /\ s.n = 0
  BY <1>2, <1>3, <1>4 DEF Progress
<1> HIDE DEF s
<1>7. Ordered(s)
  BY <1>2, <1>3, <1>4, <1>6 DEF Ordered
<1>8. end'[e] = s /\ end' \in [Ends -> Progress] /\ \A f \in Ends \ {e} : end'[f] = end[f]
  BY <1>2, <1>5, <1>6
<1>9. UNCHANGED <<inbox, holes, wire, delayed, noise>>
  BY DEF BeginCall
<1>10. KeepsTypes
  BY <1>7, <1>8, <1>9 DEF KeepsTypes, PunchTyped, PunchTypeOK
<1>11. ~Sent(e)' /\ ~WillHear(e) /\ ~Heard(e)
  BY <1>2, <1>6, <1>8 DEF Sent, WillHear, Heard
<1> QED
  BY <1>8, <1>9, <1>10, <1>11, Others DEF Acts, Grown

\* A technique ends: its end no longer counts as one that has punched.
LEMMA DoneActs ==
  ASSUME PunchTyped, Opened, NEW e \in Ends, NEW result \in {"ok", "failed"}, end[e].todo # << >>,
         Done(e, result),
         inbox' \in [Ends -> Seq(Datagram)], Grown(Peer(e)),
         holes' \in [Ends -> SUBSET (Sources \X Targets)], holes'[Peer(e)] = holes[Peer(e)],
         wire' \subseteq Datagram, delayed' \in BOOLEAN, delayed => delayed',
         ~delayed' => wire' \subseteq wire, UNCHANGED noise,
         result = "ok" \/ ~WillHear(e)
  PROVE  KeepsTypes /\ Acts(e)
<1>1. /\ end' \in [Ends -> Progress] /\ \A f \in Ends : Ordered(end'[f])
      /\ end'[Peer(e)] = end[Peer(e)] /\ ~Trying(e, "udp")'
      /\ Trying(e, "udp") => end'[e].outcome["udp"] = result
      /\ ~Trying(e, "udp") => end'[e].outcome["udp"] = end[e].outcome["udp"]
  BY DoneIs
<1>2. KeepsTypes
  BY <1>1 DEF KeepsTypes, PunchTyped, PunchTypeOK
<1>3. ~Sent(e)'
  BY <1>1 DEF Sent
<1>4. Heard(e) \/ WillHear(e) => Heard(e)'
  <2>1. CASE Trying(e, "udp")
    <3>1. end[e].outcome["udp"] = "untried"
      BY <2>1 DEF PunchTyped, Ordered, Trying
    <3> QED
      BY <3>1, <2>1, <1>1 DEF Heard
  <2>2. CASE ~Trying(e, "udp")
    BY <2>2, <1>1 DEF Heard, WillHear
  <2> QED
    BY <2>1, <2>2
<1> QED
  BY <1>1, <1>2, <1>3, <1>4 DEF Acts

\* With more in the buffer a punch in it is still heard in time.
LEMMA GrownHears ==
  ASSUME PunchTyped, NEW f \in Ends, Grown(f), end'[f] = end[f]
  PROVE  /\ Punched(f) => Punched(f)'
         /\ WillHear(f) => WillHear(f)'
         /\ Sent(f)' <=> Sent(f)
         /\ Heard(f)' <=> Heard(f)
<1>1. inbox[f] \in Seq(Datagram)
  BY DEF PunchTyped, PunchTypeOK
<1>2. /\ Len(inbox[f]) \in Nat /\ Len(inbox'[f]) \in Nat /\ Len(inbox'[f]) >= Len(inbox[f])
      /\ \A m \in 1 .. Len(inbox[f]) : inbox'[f][m] = inbox[f][m]
  <2>1. CASE inbox'[f] = inbox[f]
    BY <1>1, <2>1
  <2>2. ASSUME NEW d \in Datagram, inbox'[f] = Append(inbox[f], d)
        PROVE  <1>2
    BY <1>1, <2>2, AppendIs
  <2> QED
    BY <2>1, <2>2 DEF Grown
<1>3. \A m \in 1 .. Len(inbox[f]) : m \in 1 .. Len(inbox'[f]) /\ inbox'[f][m] = inbox[f][m]
  BY <1>2
<1>4. Left(f)' = Left(f)
  BY DEF Left
<1>5. Punched(f) => Punched(f)'
  BY <1>3 DEF Punched
<1>6. WillHear(f) => WillHear(f)'
  BY <1>3, <1>4 DEF WillHear, Trying
<1> QED
  BY <1>5, <1>6 DEF Sent, Heard, Trying

LEMMA OpenActs ==
  ASSUME PunchTyped, Opened, NEW e \in Ends, Open(e)
  PROVE  KeepsTypes /\ Acts(e)
<1>1. /\ UNCHANGED <<inbox, holes, wire, delayed, noise>>
      /\ end[e].phase = "open" /\ end[e].todo # << >>
  BY DEF Open
<1>2. Grown(Peer(e)) /\ ~WillHear(e)
  BY <1>1 DEF Grown, WillHear
<1>3. CASE Done(e, "failed")
  BY <1>1, <1>2, <1>3, DoneActs DEF PunchTyped, PunchTypeOK
<1>4. CASE end' = [end EXCEPT ![e].phase = "send"]
  <2>1. end[e] \in Progress /\ end[e].n = 0
    BY <1>1 DEF PunchTyped, PunchTypeOK, Ordered
  <2>2. [end[e] EXCEPT !.phase = "send"] = [end[e] EXCEPT !.n = 0, !.phase = "send"]
    BY <2>1 DEF Progress
  <2>3. end' = [end EXCEPT ![e] = [end[e] EXCEPT !.n = 0, !.phase = "send"]]
    BY <1>4, <2>2
  <2>4. /\ end' \in [Ends -> Progress] /\ \A f \in Ends : Ordered(end'[f])
        /\ end'[Peer(e)] = end[Peer(e)] /\ end'[e].n = 0 /\ end'[e].phase = "send"
        /\ end'[e].outcome = end[e].outcome
    BY <1>1, <2>3, MovesIs
  <2>5. KeepsTypes
    BY <1>1, <2>4 DEF KeepsTypes, PunchTyped, PunchTypeOK
  <2>6. ~Sent(e)' /\ (Heard(e) => Heard(e)')
    BY <2>4 DEF Sent, Heard
  <2> QED
    BY <1>1, <1>2, <2>4, <2>5, <2>6 DEF Acts
<1> QED
  BY <1>3, <1>4 DEF Open

\* The n-th punch.  It comes into the peer's buffer at once, when the peer has punched:
\* its NAT is open and its socket too.
LEMMA SendActs ==
  ASSUME PunchTyped, Opened, NEW e \in Ends, Send(e)
  PROVE  KeepsTypes /\ Acts(e)
<1> DEFINE f == Peer(e)
           d == [text |-> "PUNCH", from |-> "udp", to |-> end[e].target, dest |-> f]
           p == IF end[e].n + 1 < FirstPunches(e) THEN "send" ELSE "listen"
           x == IF end[e].n + 1 < FirstPunches(e) THEN end[e].n + 1 ELSE 0
<1>1. /\ Trying(e, "udp") /\ end[e].phase = "send" /\ end[e].todo # << >>
      /\ end[e] \in Progress /\ end[e].n \in Nat /\ f \in Ends /\ f # e
      /\ inbox[e] \in Seq(Datagram) /\ inbox[f] \in Seq(Datagram) /\ noise' \in 0 .. MaxNoise
  BY Others DEF Send, Doing, Trying, PunchTyped, PunchTypeOK, Progress
<1>2. /\ inbox' \in [Ends -> Seq(Datagram)]
      /\ holes' \in [Ends -> SUBSET (Sources \X Targets)]
      /\ wire' \subseteq Datagram /\ delayed' \in BOOLEAN /\ (delayed => delayed')
      /\ inbox'[e] = inbox[e] /\ Grown(f)
      /\ holes'[e] = holes[e] \cup {<<"udp", end[e].target>>} /\ holes'[f] = holes[f]
      /\ ~delayed' => wire' \subseteq wire
      /\ ~delayed' /\ LetsIn(d)
         => /\ Len(inbox'[f]) = Len(inbox[f]) + 1
            /\ inbox'[f][Len(inbox[f]) + 1].text = "PUNCH"
  <2>1. Transmit(e, "PUNCH", "udp", inbox[e])
    BY DEF Send, Punch
  <2>2. "udp" \in Sources /\ "PUNCH" \in {"PUNCH", "TTL"}
    BY DEF Sources, Techniques
  <2> QED
    BY <1>1, <2>1, <2>2, TransmitIs
<1> HIDE DEF x, p
<1>3. /\ x \in Nat /\ p \in {"send", "listen"} /\ (p = "listen" => x = 0)
      /\ end' = [end EXCEPT ![e] = [end[e] EXCEPT !.n = x, !.phase = p]]
  <2>1. CASE end[e].n + 1 < FirstPunches(e)
    <3>1. [end[e] EXCEPT !.n = @ + 1] = [end[e] EXCEPT !.n = end[e].n + 1, !.phase = "send"]
      BY <1>1 DEF Progress
    <3>2. end' = [end EXCEPT ![e] = [end[e] EXCEPT !.n = end[e].n + 1, !.phase = "send"]]
      BY <2>1, <3>1 DEF Send
    <3>3. x = end[e].n + 1 /\ p = "send"
      BY <2>1 DEF x, p
    <3> QED
      BY <1>1, <3>2, <3>3
  <2>2. CASE ~(end[e].n + 1 < FirstPunches(e))
    <3>1. end' = [end EXCEPT ![e] = [end[e] EXCEPT !.n = 0, !.phase = "listen"]]
      BY <2>2 DEF Send
    <3>2. x = 0 /\ p = "listen"
      BY <2>2 DEF x, p
    <3> QED
      BY <3>1, <3>2
  <2> QED
    BY <2>1, <2>2
<1>4. /\ end' \in [Ends -> Progress] /\ \A g \in Ends : Ordered(end'[g])
      /\ end'[f] = end[f]
      /\ end'[e].todo = end[e].todo /\ end'[e].target = end[e].target
      /\ end'[e].outcome = end[e].outcome
      /\ end'[e].n = x /\ end'[e].phase = p
  BY <1>1, <1>3, MovesIs
<1>5. KeepsTypes
  BY <1>1, <1>2, <1>4 DEF KeepsTypes
<1>6. Sent(e)' => end[e].target = "udp" /\ <<"udp", "udp">> \in holes'[e]
  BY <1>2, <1>4 DEF Sent
<1>7. ~delayed' /\ Sent(e)' /\ Sent(f) => Punched(f)'
  <2> SUFFICES ASSUME ~delayed', Sent(e)', Sent(f)  PROVE Punched(f)'
    OBVIOUS
  <2>1. d.dest = f /\ d.to = "udp" /\ d.from = "udp"
    BY <1>6
  <2>2. LetsIn(d)
    BY <1>1, <2>1 DEF LetsIn, Sent, Opened
  <2>3. /\ Len(inbox'[f]) = Len(inbox[f]) + 1
        /\ inbox'[f][Len(inbox[f]) + 1].text = "PUNCH"
    BY <1>2, <2>2
  <2>4. Len(inbox[f]) + 1 \in 1 .. Len(inbox'[f])
    BY <1>1, <2>3
  <2> QED
    BY <2>3, <2>4 DEF Punched
<1>8. Heard(e) => Heard(e)'
  BY <1>4 DEF Heard
<1>9. WillHear(e) => WillHear(e)'
  <2>1. BoundsAssumption /\ MaxRetry \in Nat
    BY BoundsAssumption
  <2>2. Left(e)' = Left(e)
    BY <1>1, <1>3, <1>4, <2>1 DEF Left
  <2> QED
    BY <1>1, <1>2, <1>3, <1>4, <2>2 DEF WillHear, Trying
<1> HIDE DEF d
<1> QED
  BY <1>2, <1>4, <1>5, <1>6, <1>7, <1>8, <1>9 DEF Acts

LEMMA SendTtlActs ==
  ASSUME PunchTyped, Opened, NEW e \in Ends, SendTtl(e)
  PROVE  KeepsTypes /\ Acts(e)
<1>1. /\ Trying(e, "ttl") /\ end[e].phase = "send" /\ end[e].todo # << >>
      /\ end[e] \in Progress /\ end[e].n \in Nat /\ inbox[e] \in Seq(Datagram)
      /\ noise' \in 0 .. MaxNoise
  BY DEF SendTtl, Doing, Trying, PunchTyped, PunchTypeOK, Progress
<1>2. /\ inbox' \in [Ends -> Seq(Datagram)]
      /\ holes' \in [Ends -> SUBSET (Sources \X Targets)]
      /\ wire' \subseteq Datagram /\ delayed' \in BOOLEAN /\ (delayed => delayed')
      /\ Grown(Peer(e)) /\ holes'[Peer(e)] = holes[Peer(e)]
      /\ ~delayed' => wire' \subseteq wire
  <2>1. CASE Transmit(e, "TTL", "single", inbox[e])
    <3>1. "single" \in Sources /\ "TTL" \in {"PUNCH", "TTL"}
      BY DEF Sources
    <3> QED
      BY <1>1, <2>1, <3>1, TransmitIs
  <2>2. CASE Quiet(e, inbox[e])
    BY <1>1, <2>2, QuietIs DEF Grown, PunchTyped, PunchTypeOK
  <2> QED
    BY <2>1, <2>2 DEF SendTtl
<1>3. end' = [end EXCEPT ![e] = [end[e] EXCEPT !.n = end[e].n, !.phase = "listen"]]
  <2>1. [end[e] EXCEPT !.phase = "listen"] = [end[e] EXCEPT !.n = end[e].n, !.phase = "listen"]
    BY <1>1 DEF Progress
  <2> QED
    BY <2>1 DEF SendTtl
<1>4. /\ end' \in [Ends -> Progress] /\ \A g \in Ends : Ordered(end'[g])
      /\ end'[Peer(e)] = end[Peer(e)]
      /\ end'[e].todo = end[e].todo /\ end'[e].outcome = end[e].outcome
  BY <1>1, <1>3, MovesIs
<1>5. KeepsTypes
  BY <1>1, <1>2, <1>4 DEF KeepsTypes
<1>6. ~Sent(e)' /\ ~WillHear(e) /\ (Heard(e) => Heard(e)')
  BY <1>1, <1>4 DEF Sent, WillHear, Heard, Trying
<1> QED
  BY <1>2, <1>4, <1>5, <1>6 DEF Acts

LEMMA HearActs ==
  ASSUME PunchTyped, Opened, NEW e \in Ends, Hear(e)
  PROVE  KeepsTypes /\ Acts(e)
<1>1. end[e].phase = "listen" /\ Done(e, "ok") /\ Quiet(e, << >>) /\ noise' = noise
  BY DEF Hear
<1>2. end[e].todo # << >>
  BY <1>1 DEF PunchTyped, Ordered
<1>3. << >> \in Seq(Datagram)
  OBVIOUS
<1>4. /\ inbox' \in [Ends -> Seq(Datagram)] /\ inbox'[Peer(e)] = inbox[Peer(e)]
      /\ UNCHANGED <<holes, wire, delayed>>
  BY <1>1, <1>3, QuietIs
<1> QED
  BY <1>1, <1>2, <1>4, DoneActs DEF PunchTyped, PunchTypeOK, Grown

LEMMA ElsewhereActs ==
  ASSUME PunchTyped, Opened, NEW e \in Ends, Elsewhere(e)
  PROVE  KeepsTypes /\ Acts(e)
<1>1. /\ end[e].todo # << >> /\ Head(end[e].todo) # "udp"
      /\ UNCHANGED <<inbox, holes, wire, delayed, noise>>
  BY DEF Elsewhere, Doing, Trying
<1>2. ~WillHear(e)
  BY <1>1 DEF WillHear, Trying
<1>3. PICK result \in {"ok", "failed"} : Done(e, result)
  BY DEF Elsewhere
<1> QED
  BY <1>1, <1>2, <1>3, DoneActs DEF PunchTyped, PunchTypeOK, Grown

\* A turn with no punch in front takes one datagram out: what is behind it comes one
\* place nearer as one turn less is left.
LEMMA HearNothingActs ==
  ASSUME PunchTyped, Opened, NEW e \in Ends, HearNothing(e)
  PROVE  KeepsTypes /\ Acts(e)
<1> DEFINE last == Turns(e) = MaxTurns(e)
           b == inbox[e]
           rest == IF last \/ b = << >> THEN << >> ELSE Tail(b)
<1>1. /\ end[e].phase = "listen" /\ end[e].todo # << >> /\ end[e] \in Progress
      /\ end[e].n \in Nat /\ b \in Seq(Datagram) /\ noise' \in 0 .. MaxNoise /\ noise' = noise
      /\ b # << >> => Head(b).text = "other"
      /\ MaxRetry \in Nat
  BY BoundsAssumption DEF HearNothing, IsPunch, PunchTyped, PunchTypeOK, Ordered, Progress
<1>2. rest \in Seq(Datagram)
  <2>1. b # << >> => Tail(b) \in Seq(Datagram)
    BY <1>1
  <2>2. << >> \in Seq(Datagram)
    OBVIOUS
  <2> QED
    BY <2>1, <2>2
<1>3. /\ IF last THEN Done(e, "failed")
         ELSE end' = [end EXCEPT ![e].n = Turns(e),
                                 ![e].phase = IF Trying(e, "ttl") THEN "send" ELSE @]
      /\ IF SendsAgain(e) THEN Punch(e, rest) ELSE Quiet(e, rest)
  BY DEF HearNothing
<1>4. \A m \in 1 .. Len(b) : b[m].text # "other" => m > 1
  BY <1>1
<1>5. ~last => \A m \in 2 .. Len(b) : m - 1 \in 1 .. Len(rest) /\ rest[m - 1] = b[m]
  BY <1>1
<1> HIDE DEF rest
<1>6. /\ inbox' \in [Ends -> Seq(Datagram)]
      /\ holes' \in [Ends -> SUBSET (Sources \X Targets)]
      /\ wire' \subseteq Datagram /\ delayed' \in BOOLEAN /\ (delayed => delayed')
      /\ inbox'[e] = rest /\ Grown(Peer(e)) /\ holes'[Peer(e)] = holes[Peer(e)]
      /\ holes[e] \subseteq holes'[e]
      /\ ~delayed' => wire' \subseteq wire
  <2>1. CASE SendsAgain(e)
    <3>1. Transmit(e, "PUNCH", "udp", rest)
      BY <1>3, <2>1 DEF Punch
    <3>2. "udp" \in Sources /\ "PUNCH" \in {"PUNCH", "TTL"}
      BY DEF Sources, Techniques
    <3>3. /\ inbox' \in [Ends -> Seq(Datagram)]
          /\ holes' \in [Ends -> SUBSET (Sources \X Targets)]
          /\ wire' \subseteq Datagram /\ delayed' \in BOOLEAN /\ (delayed => delayed')
          /\ inbox'[e] = rest /\ Grown(Peer(e))
          /\ holes'[e] = holes[e] \cup {<<"udp", end[e].target>>}
          /\ holes'[Peer(e)] = holes[Peer(e)]
          /\ ~delayed' => wire' = wire
      BY <1>2, <3>1, <3>2, TransmitIs
    <3> QED
      BY <3>3
  <2>2. CASE ~SendsAgain(e)
    <3>1. Quiet(e, rest)
      BY <1>3, <2>2
    <3> QED
      BY <1>2, <3>1, QuietIs DEF Grown, PunchTyped, PunchTypeOK
  <2> QED
    BY <2>1, <2>2
<1>7. CASE last
  <2>1. ~WillHear(e)
    <3>1. Trying(e, "udp") => Left(e) = 1
      BY <1>1, <1>7 DEF Left, Turns, MaxTurns
    <3> QED
      BY <3>1, <1>1, <1>4 DEF WillHear
  <2> QED
    BY <1>1, <1>3, <1>6, <1>7, <2>1, DoneActs
<1>8. CASE ~last
  <2> DEFINE p == IF Trying(e, "ttl") THEN "send" ELSE "listen"
             x == end[e].n + 1
  <2>1. x \in Nat /\ p \in {"send", "listen"} /\ (p = "send" => Trying(e, "ttl"))
    BY <1>1
  <2>2. end' = [end EXCEPT ![e] = [end[e] EXCEPT !.n = x, !.phase = p]]
    <3>1. end' = [end EXCEPT ![e].n = x, ![e].phase = IF Trying(e, "ttl") THEN "send" ELSE @]
      BY <1>3, <1>8 DEF Turns
    <3>2. [end[e] EXCEPT !.n = x, !.phase = IF Trying(e, "ttl") THEN "send" ELSE @]
          = [end[e] EXCEPT !.n = x, !.phase = p]
      BY <1>1 DEF Progress
    <3> QED
      BY <3>1, <3>2
  <2>3. x = end[e].n + 1
    OBVIOUS
  <2> HIDE DEF x, p
  <2>4. /\ end' \in [Ends -> Progress] /\ \A f \in Ends : Ordered(end'[f])
        /\ end'[Peer(e)] = end[Peer(e)]
        /\ end'[e].todo = end[e].todo /\ end'[e].target = end[e].target
        /\ end'[e].outcome = end[e].outcome /\ end'[e].n = x /\ end'[e].phase = p
    BY <1>1, <2>1, <2>2, MovesIs
  <2>5. KeepsTypes
    BY <1>1, <1>6, <2>4 DEF KeepsTypes
  <2>6. Sent(e)' => Sent(e)
    BY <1>1, <2>4 DEF Sent, Trying
  <2>7. Sent(e)' => <<"udp", "udp">> \in holes'[e]
    BY <1>6, <2>6 DEF Opened
  <2>8. Punched(e) => Punched(e)'
    <3> SUFFICES ASSUME NEW m \in 1 .. Len(b), b[m].text # "other"  PROVE Punched(e)'
      BY DEF Punched
    <3>1. m \in 2 .. Len(b)
      BY <1>4
    <3>2. m - 1 \in 1 .. Len(rest) /\ rest[m - 1] = b[m]
      BY <1>5, <1>8, <3>1
    <3> QED
      BY <1>6, <3>2 DEF Punched
  <2>9. WillHear(e) => WillHear(e)'
    <3> SUFFICES ASSUME Trying(e, "udp"), NEW m \in 1 .. Len(b), b[m].text # "other", m <= Left(e)
                 PROVE  WillHear(e)'
      BY DEF WillHear
    <3>1. m \in 2 .. Len(b)
      BY <1>4
    <3>2. m - 1 \in 1 .. Len(rest) /\ rest[m - 1] = b[m]
      BY <1>5, <1>8, <3>1
    <3>3. p = "listen"
      BY <2>1 DEF Trying
    <3>4. Left(e)' = Left(e) - 1
      BY <1>1, <2>3, <2>4, <3>3 DEF Left
    <3>5. m - 1 <= Left(e)'
      BY <1>1, <3>1, <3>4 DEF Left
    <3>6. Trying(e, "udp")' /\ end'[e].phase # "open"
      BY <2>4, <3>3 DEF Trying
    <3> QED
      BY <1>6, <3>2, <3>5, <3>6 DEF WillHear
  <2>10. Heard(e) => Heard(e)'
    BY <2>4 DEF Heard
  <2> QED
    BY <1>6, <2>4, <2>5, <2>6, <2>7, <2>8, <2>9, <2>10 DEF Acts
<1> QED
  BY <1>7, <1>8

LEMMA NoiseActs ==
  ASSUME PunchTyped, Opened, NEW e \in Ends, Noise(e)
  PROVE  KeepsTypes /\ Acts(e)
<1>1. PICK from \in Sources, to \in Targets :
        inbox' = Buffered([text |-> "other", from |-> from, to |-> to, dest |-> e])
  BY DEF Noise
<1> DEFINE d == [text |-> "other", from |-> from, to |-> to, dest |-> e]
<1>2. d \in Datagram /\ d.dest = e /\ inbox' = Buffered(d)
  BY <1>1 DEF Datagram
<1> HIDE DEF d
<1>3. /\ inbox' \in [Ends -> Seq(Datagram)] /\ inbox'[e] = Append(inbox[e], d)
      /\ inbox'[Peer(e)] = inbox[Peer(e)]
  BY <1>2, BufferedIs, Others
<1>4. UNCHANGED <<end, holes, wire, delayed>> /\ noise' \in 0 .. MaxNoise
  BY BoundsAssumption DEF Noise, PunchTyped, PunchTypeOK
<1>5. KeepsTypes
  BY <1>3, <1>4 DEF KeepsTypes, PunchTyped, PunchTypeOK
<1>6. Grown(e) /\ Grown(Peer(e))
  BY <1>2, <1>3 DEF Grown
<1>7. /\ Punched(e) => Punched(e)'
      /\ WillHear(e) => WillHear(e)'
      /\ Sent(e)' <=> Sent(e)
      /\ Heard(e)' <=> Heard(e)
  BY <1>4, <1>6, GrownHears
<1> QED
  BY <1>4, <1>5, <1>6, <1>7 DEF Acts, Opened

----------------------------------------------------------------------------
(* The invariant *)

LEMMA InitPunch == PunchInit => PunchInv
<1> SUFFICES ASSUME PunchInit  PROVE PunchInv
  OBVIOUS
<1>1. << >> \in Seq(Techniques) /\ << >> \in Seq(Datagram)
  OBVIOUS
<1>2. PunchTypeOK
  <2> DEFINE o == [t \in Techniques |-> "untried"]
             r == [call |-> "none", target |-> "udp", todo |-> << >>, phase |-> "open", n |-> 0,
                   outcome |-> o, ret |-> "none"]
  <2>1. o \in [Techniques -> {"untried", "ok", "failed"}]
    OBVIOUS
  <2>2. end = [e \in Ends |-> r]
    BY DEF PunchInit
  <2> HIDE DEF o
  <2>3. r \in Progress
    BY <1>1, <2>1 DEF Progress, Targets
  <2> HIDE DEF r
  <2>4. end \in [Ends -> Progress]
    BY <2>2, <2>3
  <2>5. /\ inbox \in [Ends -> Seq(Datagram)] /\ holes \in [Ends -> SUBSET (Sources \X Targets)]
        /\ wire = {} /\ overlap = FALSE /\ delayed = FALSE /\ noise = 0
    BY <1>1 DEF PunchInit
  <2>6. 0 \in 0 .. MaxNoise
    BY BoundsAssumption
  <2> QED
    BY <2>4, <2>5, <2>6 DEF PunchTypeOK
<1>3. \A e \in Ends : Ordered(end[e])
  BY DEF PunchInit, Ordered, Techniques
<1>4. \A e \in Ends : ~Sent(e)
  BY DEF PunchInit, Sent, Trying
<1>5. A \in Ends
  BY DEF Ends
<1> QED
  BY <1>2, <1>3, <1>4, <1>5 DEF PunchInv, PunchTyped, Opened, Met, PunchInit

\* Both are listening, or still punching, when they overlap: one of them has a punch in its
\* buffer, with more turns left than there are datagrams in it.
LEMMA ActKeeps ==
  ASSUME PunchInv, NEW e \in Ends, KeepsTypes, Acts(e), Overlap
  PROVE  PunchInv'
<1> DEFINE f == Peer(e)
<1>1. f \in Ends /\ \A g \in Ends : g = e \/ g = f
  BY Others
<1>2. /\ Punched(f) => Punched(f)'
      /\ WillHear(f) => WillHear(f)'
      /\ Sent(f)' <=> Sent(f)
      /\ Heard(f)' <=> Heard(f)
  BY <1>1, GrownHears DEF Acts, PunchInv
<1> HIDE DEF f
<1>3. PunchTyped'
  BY DEF KeepsTypes, PunchTyped, PunchTypeOK, Overlap, PunchInv
<1>4. Opened'
  BY <1>1, <1>2 DEF Acts, Opened, PunchInv, f
<1>5. ASSUME ~delayed'  PROVE wire' = {}
  BY <1>5 DEF Acts, Met, PunchInv
<1>6. ASSUME ~delayed', \A g \in Ends : Sent(g)'  PROVE \E g \in Ends : Punched(g)'
  <2>1. Sent(e)' /\ Sent(f)
    BY <1>1, <1>2, <1>6
  <2>2. CASE Sent(f) => Punched(f)'
    BY <1>1, <2>1, <2>2
  <2>3. CASE Sent(e) /\ (Punched(e) => Punched(e)')
    <3>1. ~delayed
      BY <1>6 DEF Acts
    <3>2. PICK g \in Ends : Punched(g)
      BY <1>1, <2>1, <2>3, <3>1 DEF Met, PunchInv
    <3> QED
      BY <1>1, <1>2, <2>3, <3>2
  <2> QED
    BY <1>6, <2>1, <2>2, <2>3 DEF Acts, f
<1>7. ASSUME ~delayed', overlap'  PROVE \E g \in Ends : Heard(g)' \/ WillHear(g)'
  <2>1. CASE overlap
    <3>1. ~delayed
      BY <1>7 DEF Acts
    <3>2. PICK g \in Ends : Heard(g) \/ WillHear(g)
      BY <2>1, <3>1 DEF Met, PunchInv
    <3> QED
      BY <1>1, <1>2, <3>2 DEF Acts
  <2>2. CASE \A g \in Ends : UnderWay(g)'
    <3>1. \A g \in Ends : Sent(g)'
      BY <2>2 DEF UnderWay, Sent
    <3>2. PICK g \in Ends : Punched(g)'
      BY <1>6, <1>7, <3>1
    <3>3. PICK m \in 1 .. Len(inbox'[g]) : inbox'[g][m].text # "other"
      BY <3>2 DEF Punched
    <3>4. UnderWay(g)'
      BY <2>2
    <3>5. Len(inbox'[g]) \in Nat /\ MaxRetry \in Nat /\ end'[g].n \in Nat
      BY <1>3, BoundsAssumption DEF PunchTyped, PunchTypeOK, Progress
    <3>6. Left(g)' \in Int /\ Len(inbox'[g]) < Left(g)'
      BY <3>4, <3>5 DEF UnderWay, Left
    <3>7. m <= Left(g)'
      BY <3>5, <3>6
    <3>8. Trying(g, "udp")' /\ end'[g].phase # "open"
      BY <3>4 DEF UnderWay
    <3> QED
      BY <3>3, <3>7, <3>8 DEF WillHear
  <2> QED
    BY <1>7, <2>1, <2>2 DEF Overlap
<1> QED
  BY <1>3, <1>4, <1>5, <1>6, <1>7 DEF PunchInv, Met

\* A datagram that comes late was delayed: nothing is promised any more.
LEMMA ArriveKeeps ==
  ASSUME PunchInv, NEW d \in wire, Arrive(d), Overlap
  PROVE  PunchInv'
<1>1. d \in Datagram /\ PunchTyped
  BY DEF PunchInv, PunchTyped, PunchTypeOK
<1>2. inbox' \in [Ends -> Seq(Datagram)]
  BY <1>1, BufferedIs DEF Arrive
<1>3. PunchTyped'
  BY <1>1, <1>2 DEF Arrive, Overlap, PunchTyped, PunchTypeOK
<1>4. delayed'
  BY DEF PunchInv, Met, Arrive
<1> QED
  BY <1>3, <1>4 DEF Arrive, PunchInv, Opened, Met, Sent, Trying

LEMMA NextPunch == PunchInv /\ [PunchNext]_punchVars => PunchInv'
<1> SUFFICES ASSUME PunchInv, [PunchNext]_punchVars  PROVE PunchInv'
  OBVIOUS
<1>1. PunchTyped /\ Opened
  BY DEF PunchInv
<1>2. ASSUME NEW e \in Ends, BeginCall(e) \/ GoOn(e) \/ Noise(e), Overlap  PROVE PunchInv'
  BY <1>1, <1>2, BeginActs, OpenActs, SendActs, SendTtlActs, HearActs, HearNothingActs,
     ElsewhereActs, NoiseActs, ActKeeps DEF GoOn
<1>3. CASE UNCHANGED punchVars
  BY <1>3 DEF punchVars, PunchInv, PunchTyped, PunchTypeOK, Opened, Met, Sent, Trying, Punched,
       Heard, WillHear, Left
<1> QED
  BY <1>2, <1>3, ArriveKeeps DEF PunchNext

LEMMA PunchHolds == PunchSpec => []PunchInv
<1> QED
  BY InitPunch, NextPunch, PTL DEF PunchSpec

\* The two ends of punch.c, their buffers, their NATs' holes and what is under way keep
\* their types, whatever comes in.
THEOREM PunchTypeCorrect == PunchSpec => []PunchTypeOK
<1>1. PunchInv => PunchTypeOK
  BY DEF PunchInv, PunchTyped
<1> QED
  BY <1>1, PunchHolds, PTL

\* Two calls of punch_try_connect or punch_punch that overlap do not both fail on the udp
\* port, unless the network has held a datagram back.
THEOREM OneHears == PunchSpec => []NotBothFail
<1>1. PunchInv => NotBothFail
  <2> SUFFICES ASSUME PunchInv, overlap, ~delayed
               PROVE  \E e \in Ends : end[e].outcome["udp"] # "failed"
    BY DEF NotBothFail
  <2>1. PICK e \in Ends : Heard(e) \/ WillHear(e)
    BY DEF PunchInv, Met
  <2>2. CASE Heard(e)
    BY <2>2 DEF Heard
  <2>3. CASE WillHear(e)
    BY <2>3 DEF WillHear, Trying, PunchInv, PunchTyped, Ordered
  <2> QED
    BY <2>1, <2>2, <2>3
<1> QED
  BY <1>1, PunchHolds, PTL

----------------------------------------------------------------------------
(* Loops.  A loop of the code is a recursive function of its turns.  What   *)
(* it computes is a set of turns that has the first one and, with any turn  *)
(* but the last, the next: then it has them all.                            *)

\* A set of numbers that is not empty has a least one.
LEMMA Least ==
  ASSUME NEW T \in SUBSET Nat, T # {}
  PROVE  \E m \in T : \A y \in T : m <= y
<1> DEFINE R == OpToRel(<, Nat)
<1>1. IsWellFoundedOn(R, Nat)
  BY NatLessThanWellFounded
<1>2. \A x, y \in Nat : <<x, y>> \in R <=> x < y
  BY DEF OpToRel
<1> HIDE DEF R
<1>3. PICK m \in T : \A y \in T : ~(<<y, m>> \in R)
  <2>1. T \subseteq Nat /\ T # {}
    OBVIOUS
  <2> QED
    BY <1>1, <2>1, WFMin
<1>4. ASSUME NEW y \in T PROVE m <= y
  <2>1. m \in Nat /\ y \in Nat /\ ~(y < m)
    BY <1>2, <1>3
  <2> QED
    BY <2>1
<1> QED
  BY <1>4

\* Induction over the numbers, of a set.
LEMMA Induction ==
  ASSUME NEW S, 0 \in S, \A n \in Nat : n \in S => n + 1 \in S
  PROVE  Nat \subseteq S
<1> SUFFICES ASSUME Nat \ S # {}
             PROVE  FALSE
  OBVIOUS
<1>1. PICK m \in Nat \ S : \A y \in Nat \ S : m <= y
  BY Least
<1>2. m - 1 \in Nat /\ (m - 1) + 1 = m
  BY <1>1
<1> QED
  BY <1>1, <1>2

\* A set with turn 0 and, with a turn of n, the next has them all.
LEMMA EveryTurn ==
  ASSUME NEW n \in Nat, NEW S, 0 \in S, \A k \in 1 .. n : k - 1 \in S => k \in S
  PROVE  0 .. n \subseteq S
<1> DEFINE G == {k \in Nat : k <= n => k \in S}
<1>1. 0 \in G
  OBVIOUS
<1>2. ASSUME NEW k \in Nat, k \in G PROVE k + 1 \in G
  <2>1. k + 1 <= n => k + 1 \in 1 .. n /\ (k + 1) - 1 = k /\ k \in S
    BY <1>2
  <2> QED
    BY <2>1
<1>3. Nat \subseteq G
  <2> HIDE DEF G
  <2> QED
    BY <1>1, <1>2, Induction
<1> QED
  BY <1>3

\* Whenever f and t agree after a turn, they agree after the next one.
InStep(f, t, n) ==
  /\ f[0] = t[0]
  /\ \A k \in 1 .. n : f[k - 1] = t[k - 1] => f[k] = t[k]

\* Then they agree after every turn.
LEMMA SameTurns ==
  ASSUME NEW n \in Nat, NEW f, NEW t, InStep(f, t, n)
  PROVE  \A k \in 0 .. n : f[k] = t[k]
<1> DEFINE S == {k \in 0 .. n : f[k] = t[k]}
<1>1. 0 \in S
  BY DEF InStep
<1>2. ASSUME NEW k \in 1 .. n, k - 1 \in S PROVE k \in S
  BY <1>2 DEF InStep
<1>3. 0 .. n \subseteq S
  <2> HIDE DEF S
  <2> QED
    BY <1>1, <1>2, EveryTurn
<1> QED
  BY <1>3

\* f is what a loop of n turns computes: it begins with base, and turn k makes g[x][k]
\* of x.
Computes(f, S, base, g, n) ==
  f \in [0 .. n -> S] /\ f[0] = base /\ \A k \in 1 .. n : f[k] = g[f[k - 1]][k]

\* Every loop computes something, ...
LEMMA Recursion ==
  ASSUME NEW S, NEW base \in S, NEW g \in [S -> [Nat -> S]], NEW n \in Nat
  PROVE  \E f : Computes(f, S, base, g, n)
<1> DEFINE Good(m) == \E f \in [0 .. m -> S] :
                        f[0] = base /\ \A k \in 1 .. m : f[k] = g[f[k - 1]][k]
           G == {m \in Nat : Good(m)}
<1>1. Good(0)
  <2> DEFINE h == [k \in 0 .. 0 |-> base]
  <2>1. h \in [0 .. 0 -> S] /\ h[0] = base
    OBVIOUS
  <2>2. \A k \in 1 .. 0 : h[k] = g[h[k - 1]][k]
    OBVIOUS
  <2> HIDE DEF h
  <2> QED
    BY <2>1, <2>2
<1>2. ASSUME NEW m \in Nat, Good(m) PROVE Good(m + 1)
  <2>1. PICK f \in [0 .. m -> S] : f[0] = base /\ \A k \in 1 .. m : f[k] = g[f[k - 1]][k]
    BY <1>2
  <2> DEFINE h == [k \in 0 .. m + 1 |-> IF k <= m THEN f[k] ELSE g[f[m]][m + 1]]
  <2>2. f[m] \in S /\ m + 1 \in Nat
    BY <2>1
  <2>3. g[f[m]][m + 1] \in S
    BY <2>2
  <2>4. h \in [0 .. m + 1 -> S]
    BY <2>1, <2>3
  <2>5. ASSUME NEW k \in 1 .. m + 1 PROVE h[k] = g[h[k - 1]][k]
    <3>1. k \in 1 .. m \/ k = m + 1
      OBVIOUS
    <3>2. k - 1 \in 0 .. m
      OBVIOUS
    <3>3. h[k - 1] = f[k - 1]
      BY <3>2
    <3>4. CASE k \in 1 .. m
      <4>1. h[k] = f[k]
        BY <3>4
      <4> HIDE DEF h
      <4> QED
        BY <4>1, <2>1, <3>3, <3>4
    <3>5. CASE k = m + 1
      <4>1. h[k] = g[f[m]][m + 1] /\ k - 1 = m
        BY <3>5
      <4> HIDE DEF h
      <4> QED
        BY <4>1, <3>3, <3>5
    <3> QED
      BY <3>1, <3>4, <3>5
  <2>6. h[0] = base
    BY <2>1
  <2> HIDE DEF h
  <2> QED
    BY <2>4, <2>5, <2>6
<1> HIDE DEF Good
<1>3. \A m \in Nat : m \in G => m + 1 \in G
  BY <1>2
<1>4. Nat \subseteq G
  <2> HIDE DEF G
  <2>1. 0 \in G
    BY <1>1 DEF G
  <2> QED
    BY <1>3, <2>1, Induction
<1>5. Good(n)
  BY <1>4
<1> QED
  BY <1>5 DEF Good, Computes

\* t does what the loop does, as long as it stays in S.
Follows(t, S, base, g, n) ==
  /\ t = [k \in 0 .. n |-> t[k]] /\ t[0] = base
  /\ \A k \in 1 .. n : t[k - 1] \in S => t[k] = g[t[k - 1]][k]

\* ... and nothing else.
LEMMA OnlyOne ==
  ASSUME NEW f, NEW S, NEW base, NEW g, NEW n \in Nat, Computes(f, S, base, g, n),
         NEW t, Follows(t, S, base, g, n)
  PROVE  t = f
<1>1. /\ f \in [0 .. n -> S] /\ f[0] = base
      /\ \A k \in 1 .. n : k - 1 \in 0 .. n /\ f[k] = g[f[k - 1]][k]
  BY DEF Computes
<1>2. InStep(t, f, n)
  BY <1>1 DEF InStep, Follows
<1>3. \A k \in 0 .. n : t[k] = f[k]
  BY <1>2, SameTurns
<1>4. f = [k \in 0 .. n |-> f[k]]
  BY <1>1
<1> DEFINE T == [k \in 0 .. n |-> t[k]]
           U == [k \in 0 .. n |-> f[k]]
<1>5. T = U /\ t = T /\ f = U
  BY <1>3, <1>4, Zenon DEF Follows
<1> HIDE DEF T, U
<1> QED
  BY <1>5

----------------------------------------------------------------------------
(* Strategies.  The table lists every type once, with its own priority.     *)

\* g_strategy_info, entry by entry.
LEMMA TableIs ==
  /\ Len(Info) = 11 /\ DOMAIN Info = 1 .. 11
  /\ Info[1].type = "NONE" /\ Info[1].priority = 99
  /\ Info[2].type = "IPV6_DIRECT" /\ Info[2].priority = 1
  /\ Info[3].type = "UPNP" /\ Info[3].priority = 2
  /\ Info[4].type = "UDP_PUNCH" /\ Info[4].priority = 3
  /\ Info[5].type = "TTL_PUNCH" /\ Info[5].priority = 4
  /\ Info[6].type = "SIMULTANEOUS_OPEN" /\ Info[6].priority = 5
  /\ Info[7].type = "PORT_PREDICTION" /\ Info[7].priority = 6
  /\ Info[8].type = "TCP_PUNCH" /\ Info[8].priority = 7
  /\ Info[9].type = "FRIEND_RELAY" /\ Info[9].priority = 8
  /\ Info[10].type = "TURN_RELAY" /\ Info[10].priority = 9
  /\ Info[11].type = "MANUAL_PORT" /\ Info[11].priority = 10
  BY DEF Info

\* No type is listed twice.
LEMMA TypesDiffer ==
  \A j, k \in 1 .. 11 : Info[j].type = Info[k].type => j = k
<1> SUFFICES ASSUME NEW j \in 1 .. 11, NEW k \in 1 .. 11, j < k
             PROVE  Info[j].type # Info[k].type
  OBVIOUS
<1>1. CASE j = 1
  BY <1>1, TableIs
<1>2. CASE j = 2
  BY <1>2, TableIs
<1>3. CASE j = 3
  BY <1>3, TableIs
<1>4. CASE j = 4
  BY <1>4, TableIs
<1>5. CASE j = 5
  BY <1>5, TableIs
<1>6. CASE j = 6
  BY <1>6, TableIs
<1>7. CASE j = 7
  BY <1>7, TableIs
<1>8. CASE j = 8
  BY <1>8, TableIs
<1>9. CASE j = 9
  BY <1>9, TableIs
<1>10. CASE j = 10
  BY <1>10, TableIs
<1> QED
  BY <1>1, <1>2, <1>3, <1>4, <1>5, <1>6, <1>7, <1>8, <1>9, <1>10

\* strategy_get_priority finds the priority of the entry, which is its place in the
\* table.
LEMMA PriorityIs ==
  /\ \A k \in 1 .. 11 : Priority(Info[k].type) = Info[k].priority
  /\ \A k \in 2 .. 11 : Priority(Info[k].type) = k - 1
<1>1. ASSUME NEW k \in 1 .. 11 PROVE Priority(Info[k].type) = Info[k].priority
  <2> DEFINE types == Range(Info)
  <2>1. \A info \in types : \E j \in 1 .. 11 : info = Info[j]
    BY TableIs DEF Range
  <2>2. Info[k] \in types
    BY TableIs DEF Range
  <2> HIDE DEF types
  <2>3. \A info \in types : info.type = Info[k].type => info = Info[k]
    BY <2>1, TypesDiffer
  <2>4. (CHOOSE info \in types : info.type = Info[k].type) = Info[k]
    BY <2>2, <2>3
  <2> QED
    BY <2>4 DEF Priority, types
<1>2. \A k \in 2 .. 11 : Info[k].priority = k - 1
  <2> TAKE k \in 2 .. 11
  <2>1. k = 2 \/ k = 3 \/ k = 4 \/ k = 5 \/ k = 6 \/ k = 7 \/ k = 8 \/ k = 9 \/ k = 10 \/ k = 11
    OBVIOUS
  <2> QED
    BY <2>1, TableIs
<1> QED
  BY <1>1, <1>2

\* The types strategy_filter looks at: all but the first.
Listed == {Info[k].type : k \in 2 .. 11}

\* The priorities of a list go up.
InOrder(list) ==
  \A a, b \in 1 .. Len(list) : a < b => Priority(list[a]) < Priority(list[b])

\* The type with priority p.
Kind(p) == Info[p + 1].type

\* There is one such type for each priority from 1 to 10.
LEMMA KindIs ==
  /\ \A p \in 1 .. 10 : Kind(p) \in Listed /\ Priority(Kind(p)) = p /\ Info[p + 1].priority = p
  /\ \A type \in Listed : Priority(type) \in 1 .. 10 /\ type = Kind(Priority(type))
<1>1. ASSUME NEW p \in 1 .. 10
      PROVE  Kind(p) \in Listed /\ Priority(Kind(p)) = p /\ Info[p + 1].priority = p
  <2>1. p + 1 \in 2 .. 11 /\ p + 1 \in 1 .. 11 /\ (p + 1) - 1 = p
    OBVIOUS
  <2>2. Kind(p) \in Listed
    BY <2>1 DEF Listed, Kind
  <2>3. Priority(Kind(p)) = p
    BY <2>1, PriorityIs DEF Kind
  <2>4. Priority(Kind(p)) = Info[p + 1].priority
    BY <2>1, PriorityIs DEF Kind
  <2> QED
    BY <2>2, <2>3, <2>4
<1>2. ASSUME NEW type \in Listed
      PROVE  Priority(type) \in 1 .. 10 /\ type = Kind(Priority(type))
  <2>1. PICK k \in 2 .. 11 : type = Info[k].type
    BY DEF Listed
  <2>2. Priority(type) = k - 1 /\ (k - 1) + 1 = k /\ k - 1 \in 1 .. 10
    BY <2>1, PriorityIs
  <2> QED
    BY <2>1, <2>2 DEF Kind
<1> QED
  BY <1>1, <1>2

\* Two types have two priorities.
LEMMA PrioritiesDiffer ==
  /\ \A type \in Listed : Priority(type) \in Nat
  /\ \A one, other \in Listed : Priority(one) = Priority(other) => one = other
  BY KindIs

\* Of two lists in order that name the same types the first is the beginning of the
\* second: where they part, the first of the two types would be missing in one.
LEMMA Agreeing ==
  ASSUME NEW u \in Seq(Listed), NEW v \in Seq(Listed), InOrder(u), InOrder(v),
         Range(u) = Range(v)
  PROVE  Len(u) <= Len(v) /\ \A k \in 1 .. Len(u) : u[k] = v[k]
<1> DEFINE n == Len(u)
           m == Len(v)
           S == {k \in 0 .. n : k <= m /\ \A q \in 1 .. k : u[q] = v[q]}
<1>1. /\ n \in Nat /\ m \in Nat
      /\ \A k \in 1 .. n : u[k] \in Listed
      /\ \A k \in 1 .. m : v[k] \in Listed
  OBVIOUS
<1>2. /\ \A k \in 1 .. n : Priority(u[k]) \in Nat
      /\ \A k \in 1 .. m : Priority(v[k]) \in Nat
  BY <1>1, PrioritiesDiffer
<1>3. /\ \A k \in 1 .. n : \E b \in 1 .. m : u[k] = v[b]
      /\ \A k \in 1 .. m : \E b \in 1 .. n : v[k] = u[b]
  <2>1. DOMAIN u = 1 .. n /\ DOMAIN v = 1 .. m
    OBVIOUS
  <2> QED
    BY <2>1 DEF Range
<1>4. /\ \A a, b \in 1 .. n : a < b => Priority(u[a]) < Priority(u[b])
      /\ \A a, b \in 1 .. m : a < b => Priority(v[a]) < Priority(v[b])
  BY DEF InOrder
<1>5. 0 \in S
  BY <1>1
<1> HIDE DEF n, m
<1>6. ASSUME NEW k \in 1 .. n, k - 1 \in S PROVE k \in S
  <2>1. k - 1 <= m /\ \A q \in 1 .. k - 1 : u[q] = v[q]
    BY <1>6
  <2>2. PICK b \in 1 .. m : u[k] = v[b]
    BY <1>3
  <2>3. b >= k
    <3> SUFFICES ASSUME b < k PROVE FALSE
      BY <1>1
    <3>1. b \in 1 .. k - 1 /\ b \in 1 .. n
      BY <1>1
    <3>2. u[b] = u[k] /\ Priority(u[b]) < Priority(u[k])
      BY <1>4, <2>1, <2>2, <3>1
    <3> QED
      BY <1>2, <3>1, <3>2
  <2>4. k \in 1 .. m
    BY <1>1, <2>3
  <2>5. PICK a \in 1 .. n : v[k] = u[a]
    BY <1>3, <2>4
  <2>6. a >= k
    <3> SUFFICES ASSUME a < k PROVE FALSE
      BY <1>1
    <3>1. a \in 1 .. k - 1 /\ a \in 1 .. m
      BY <1>1, <2>4
    <3>2. v[a] = v[k] /\ Priority(v[a]) < Priority(v[k])
      BY <1>4, <2>1, <2>4, <2>5, <3>1
    <3> QED
      BY <1>2, <3>1, <3>2
  <2>7. Priority(v[k]) <= Priority(u[k])
    <3>1. b = k \/ Priority(v[k]) < Priority(v[b])
      BY <1>1, <1>4, <2>3, <2>4
    <3> QED
      BY <1>2, <2>2, <2>4, <3>1
  <2>8. Priority(u[k]) <= Priority(v[k])
    <3>1. a = k \/ Priority(u[k]) < Priority(u[a])
      BY <1>1, <1>4, <2>6
    <3> QED
      BY <1>2, <2>5, <2>4, <3>1
  <2>9. u[k] = v[k]
    <3>1. Priority(u[k]) = Priority(v[k])
      BY <1>2, <2>4, <2>7, <2>8
    <3> QED
      BY <1>1, <2>4, <3>1, PrioritiesDiffer
  <2>10. \A q \in 1 .. k : q = k \/ q \in 1 .. k - 1
    BY <1>1
  <2> QED
    BY <1>1, <2>1, <2>4, <2>9, <2>10
<1>7. 0 .. n \subseteq S
  <2> HIDE DEF S
  <2> QED
    BY <1>1, <1>5, <1>6, EveryTurn
<1>8. n \in S
  <2>1. n \in 0 .. n
    BY <1>1
  <2> HIDE DEF S
  <2> QED
    BY <1>7, <2>1
<1> QED
  BY <1>8 DEF n, m

\* There is one list of given types whose priorities go up.
LEMMA OneOrder ==
  ASSUME NEW u \in Seq(Listed), NEW v \in Seq(Listed), InOrder(u), InOrder(v),
         Range(u) = Range(v)
  PROVE  u = v
<1>1. Len(u) <= Len(v) /\ \A k \in 1 .. Len(u) : u[k] = v[k]
  BY Agreeing
<1>2. Len(v) <= Len(u)
  BY Agreeing
<1>3. Len(u) = Len(v)
  <2>1. Len(u) \in Nat /\ Len(v) \in Nat
    OBVIOUS
  <2> QED
    BY <1>1, <1>2, <2>1
<1> QED
  BY <1>1, <1>3, SeqEqual

----------------------------------------------------------------------------
(* strategy_filter                                                          *)

\* The inner loop of strategy_filter adds the one type with the priority, if it
\* applies.
LEMMA AddedIs ==
  ASSUME NEW list, NEW p \in 1 .. 10, NEW R
  PROVE  Added(list, p, R) =
           IF Kind(p) \in R THEN Append(list, Kind(p)) ELSE list
<1> DEFINE Turn(t, k) == IF Info[k + 1].priority = p /\ Info[k + 1].type \in R
                         THEN Append(t, Info[k + 1].type) ELSE t
           F(t) == [k \in 0 .. 10 |-> IF k = 0 THEN list ELSE Turn(t[k - 1], k)]
           last == IF Kind(p) \in R THEN Append(list, Kind(p)) ELSE list
           f == [k \in 0 .. 10 |-> IF k < p THEN list ELSE last]
<1>1. Added(list, p, R) = (CHOOSE t : t = F(t))[10]
  <2> DEFINE entries == Len(Info) - 1
  <2>1. Added(list, p, R) =
          (CHOOSE t : t = [k \in 0 .. entries |->
                              IF k = 0 THEN list ELSE Turn(t[k - 1], k)])[entries]
    BY DEF Added
  <2>2. entries = 10
    BY TableIs
  <2> HIDE DEF entries
  <2> QED
    BY <2>1, <2>2
<1>2. ASSUME NEW k \in 1 .. 10
      PROVE  f[k] = Turn(f[k - 1], k)
  <2>1. Info[k + 1].priority = k /\ Info[k + 1].type = Kind(k)
    BY KindIs DEF Kind
  <2>2. k < p => f[k] = list /\ f[k - 1] = list
    OBVIOUS
  <2>3. k = p => f[k] = last /\ f[k - 1] = list
    OBVIOUS
  <2>4. k > p => f[k] = last /\ f[k - 1] = last
    OBVIOUS
  <2> HIDE DEF f
  <2> QED
    BY <2>1, <2>2, <2>3, <2>4
<1>3. f[0] = list /\ f[10] = last
  OBVIOUS
<1>4. f = [k \in 0 .. 10 |-> f[k]]
  OBVIOUS
<1> HIDE DEF Turn, last, f
<1>5. 0 \in 0 .. 10 /\ \A k \in 1 .. 10 : k \in 0 .. 10 /\ k # 0
  OBVIOUS
<1>6. \A k \in 0 .. 10 : k # 0 => k \in 1 .. 10
  OBVIOUS
<1>7. f = F(f)
  BY <1>2, <1>3, <1>4, <1>6
<1>8. ASSUME NEW t, t = F(t) PROVE t = f
  <2>1. t = [k \in 0 .. 10 |-> t[k]] /\ t[0] = list /\ \A k \in 1 .. 10 : t[k] = Turn(t[k - 1], k)
    BY <1>5, <1>8
  <2>2. InStep(t, f, 10)
    BY <1>2, <1>3, <2>1 DEF InStep
  <2>3. \A k \in 0 .. 10 : t[k] = f[k]
    BY <2>2, SameTurns
  <2> QED
    BY <1>4, <2>1, <2>3
<1> HIDE DEF F
<1>9. (CHOOSE t : t = F(t)) = f
  BY <1>7, <1>8
<1> QED
  BY <1>1, <1>3, <1>9 DEF last

\* f is what the outer loop has after every turn.
Selects(f, R) ==
  /\ f \in [0 .. 10 -> Seq(Listed)] /\ f[0] = << >>
  /\ \A p \in 1 .. 10 : f[p] = Added(f[p - 1], p, R)
  /\ Selected(R) = f[10]

\* The outer loop computes a list.
LEMMA SelectedIs ==
  ASSUME NEW R \in SUBSET Listed
  PROVE  \E f : Selects(f, R)
<1> DEFINE L == Seq(Listed)
           F(t) == [p \in 0 .. 10 |-> IF p = 0 THEN << >> ELSE Added(t[p - 1], p, R)]
           g == [t \in L |-> [p \in Nat |-> IF p \in 1 .. 10 THEN Added(t, p, R) ELSE << >>]]
<1>1. << >> \in L /\ 10 \in Nat
  OBVIOUS
<1>2. ASSUME NEW t \in L, NEW p \in 1 .. 10 PROVE Added(t, p, R) \in L
  <2>1. Kind(p) \in Listed
    BY KindIs
  <2>2. Added(t, p, R) = IF Kind(p) \in R THEN Append(t, Kind(p)) ELSE t
    BY AddedIs
  <2> QED
    BY <2>1, <2>2
<1>3. Selected(R) = (CHOOSE t : t = F(t))[10]
  BY DEF Selected
<1> HIDE DEF L
<1>4. g \in [L -> [Nat -> L]] /\ \A t \in L, p \in 1 .. 10 : g[t][p] = Added(t, p, R)
  BY <1>1, <1>2
<1>5. ASSUME NEW t
      PROVE  t = F(t) <=> /\ t = [p \in 0 .. 10 |-> t[p]] /\ t[0] = << >>
                          /\ \A p \in 1 .. 10 : t[p] = Added(t[p - 1], p, R)
  <2>1. 0 \in 0 .. 10 /\ \A p \in 1 .. 10 : p \in 0 .. 10 /\ p # 0
    OBVIOUS
  <2>2. \A p \in 0 .. 10 : p # 0 => p \in 1 .. 10
    OBVIOUS
  <2>3. ASSUME t = F(t)
        PROVE  /\ t = [p \in 0 .. 10 |-> t[p]] /\ t[0] = << >>
               /\ \A p \in 1 .. 10 : t[p] = Added(t[p - 1], p, R)
    BY <2>1, <2>3
  <2>4. ASSUME t = [p \in 0 .. 10 |-> t[p]] /\ t[0] = << >>,
               \A p \in 1 .. 10 : t[p] = Added(t[p - 1], p, R)
        PROVE  t = F(t)
    BY <2>2, <2>4
  <2> QED
    BY <2>3, <2>4
<1> HIDE DEF g, F
<1>6. PICK f : Computes(f, L, << >>, g, 10)
  BY <1>1, <1>4, Recursion
<1>7. f \in [0 .. 10 -> L] /\ f[0] = << >> /\ \A p \in 1 .. 10 : f[p] = Added(f[p - 1], p, R)
  <2>1. f \in [0 .. 10 -> L] /\ f[0] = << >> /\ \A p \in 1 .. 10 : f[p] = g[f[p - 1]][p]
    BY <1>6 DEF Computes
  <2>2. \A p \in 1 .. 10 : f[p - 1] \in L
    BY <2>1
  <2> QED
    BY <1>4, <2>1, <2>2
<1>8. f = F(f)
  BY <1>5, <1>7
<1>9. ASSUME NEW t, t = F(t) PROVE t = f
  <2>1. t = [p \in 0 .. 10 |-> t[p]] /\ t[0] = << >>
    BY <1>5, <1>9
  <2>2. \A p \in 1 .. 10 : t[p - 1] \in L => t[p] = g[t[p - 1]][p]
    BY <1>4, <1>5, <1>9
  <2>3. Follows(t, L, << >>, g, 10)
    BY <2>1, <2>2 DEF Follows
  <2>4. 10 \in Nat
    BY <1>1
  <2> QED
    BY <1>6, <2>3, <2>4, OnlyOne
<1>10. (CHOOSE t : t = F(t)) = f
  BY <1>8, <1>9
<1> QED
  BY <1>3, <1>7, <1>10 DEF L, Selects

\* strategy_filter lists what applies, by priority: after turn p it has those up to
\* priority p.
LEMMA SelectedIsInOrder ==
  ASSUME NEW R \in SUBSET Listed
  PROVE  Selected(R) \in Seq(Listed) /\ InOrder(Selected(R)) /\ Range(Selected(R)) = R
<1>1. PICK f : Selects(f, R)
  BY SelectedIs
<1> DEFINE Upto(p) == {type \in R : Priority(type) <= p}
           S == {p \in 0 .. 10 : f[p] \in Seq(Listed) /\ InOrder(f[p]) /\ Range(f[p]) = Upto(p)}
<1>2. f[0] = << >> /\ Selected(R) = f[10] /\ \A p \in 1 .. 10 : f[p] = Added(f[p - 1], p, R)
  BY <1>1 DEF Selects
<1>3. \A type \in R : Priority(type) \in 1 .. 10 /\ type = Kind(Priority(type))
  BY KindIs
<1>4. 0 \in S
  <2>1. Len(<< >>) = 0 /\ DOMAIN << >> = {}
    OBVIOUS
  <2>2. Upto(0) = {}
    BY <1>3
  <2>3. InOrder(<< >>)
    BY <2>1 DEF InOrder
  <2>4. Range(<< >>) = {}
    BY <2>1 DEF Range
  <2> HIDE DEF Upto
  <2>5. << >> \in Seq(Listed)
    OBVIOUS
  <2>6. f[0] \in Seq(Listed) /\ InOrder(f[0]) /\ Range(f[0]) = Upto(0)
    <3> DEFINE none == << >>
    <3>1. f[0] = none /\ none \in Seq(Listed) /\ InOrder(none) /\ Range(none) = Upto(0)
      BY <1>2, <2>2, <2>3, <2>4, <2>5, Zenon
    <3> HIDE DEF none
    <3> QED
      BY <3>1
  <2> QED
    BY <2>6
<1>5. ASSUME NEW p \in 1 .. 10, p - 1 \in S PROVE p \in S
  <2> DEFINE l == f[p - 1]
             type == Kind(p)
             n == Len(l)
  <2>1. p - 1 \in 0 .. 10 /\ l \in Seq(Listed) /\ InOrder(l) /\ Range(l) = Upto(p - 1)
    BY <1>5
  <2>2. type \in Listed /\ Priority(type) = p
    BY KindIs
  <2>3. f[p] = IF type \in R THEN Append(l, type) ELSE l
    <3>1. f[p] = Added(l, p, R)
      BY <1>2
    <3>2. Added(l, p, R) = IF type \in R THEN Append(l, type) ELSE l
      BY AddedIs
    <3> QED
      BY <3>1, <3>2
  <2>4. \A other \in R : Priority(other) = p => other = type
    BY <1>3
  <2> HIDE DEF l, type
  <2>5. CASE type \notin R
    <3>1. Upto(p) = Upto(p - 1)
      BY <1>3, <2>4, <2>5
    <3> QED
      BY <2>1, <2>3, <2>5, <3>1
  <2>6. CASE type \in R
    <3> DEFINE longer == Append(l, type)
    <3>1. /\ n \in Nat /\ Len(longer) = n + 1 /\ longer[n + 1] = type
          /\ \A k \in 1 .. n : longer[k] = l[k]
      BY <2>1, <2>2, AppendProperties
    <3>2. DOMAIN longer = 1 .. n + 1 /\ DOMAIN l = 1 .. n
      BY <2>1, <2>2
    <3> HIDE DEF longer, n
    <3>3. \A k \in 1 .. n : l[k] \in Range(l)
      BY <3>2 DEF Range
    <3>4. \A k \in 1 .. n : Priority(l[k]) \in 1 .. 10 /\ Priority(l[k]) <= p - 1
      BY <1>3, <2>1, <3>3
    <3>5. InOrder(longer)
      <4> SUFFICES ASSUME NEW a \in 1 .. n + 1, NEW b \in 1 .. n + 1, a < b
                   PROVE  Priority(longer[a]) < Priority(longer[b])
        BY <3>1 DEF InOrder
      <4>1. a \in 1 .. n
        BY <3>1
      <4>2. CASE b \in 1 .. n
        BY <2>1, <3>1, <4>1, <4>2 DEF InOrder, n
      <4>3. CASE b = n + 1
        BY <2>2, <3>1, <3>4, <4>1, <4>3
      <4> QED
        BY <3>1, <4>2, <4>3
    <3>6. Upto(p) = Upto(p - 1) \cup {type}
      BY <1>3, <2>2, <2>4, <2>6
    <3>7. Range(longer) = Range(l) \cup {type}
      <4>1. \A x : x \in Range(longer) <=> \E k \in 1 .. n + 1 : x = longer[k]
        BY <3>2 DEF Range
      <4>2. \A x : x \in Range(l) <=> \E k \in 1 .. n : x = l[k]
        BY <3>2 DEF Range
      <4>3. \A k : k \in 1 .. n + 1 <=> k \in 1 .. n \/ k = n + 1
        BY <3>1
      <4> QED
        BY <3>1, <4>1, <4>2, <4>3
    <3> HIDE DEF Upto
    <3>8. f[p] = longer
      BY <2>3, <2>6 DEF longer
    <3>9. longer \in Seq(Listed)
      BY <2>1, <2>2, AppendProperties DEF longer
    <3>10. Range(longer) = Upto(p)
      BY <2>1, <3>6, <3>7
    <3> QED
      BY <3>5, <3>8, <3>9, <3>10
  <2> QED
    BY <2>5, <2>6
<1>6. 10 \in S
  <2>1. 10 \in Nat /\ 10 \in 0 .. 10
    OBVIOUS
  <2> HIDE DEF S
  <2>2. 0 .. 10 \subseteq S
    BY <1>4, <1>5, <2>1, EveryTurn
  <2> QED
    BY <2>1, <2>2
<1>7. Upto(10) = R
  BY <1>3
<1> QED
  BY <1>6, <1>7, <1>2

----------------------------------------------------------------------------
(* strategy_sort_by_priority.  A round moves the largest of what is not yet *)
(* settled to its end, so that after round r the last r are.                *)

\* The lists of n types that name each of R once.
Arranged(n, R) == {l \in Seq(Listed) : Len(l) = n /\ Range(l) = R /\ IsInjective(l)}

\* e is l with its entries j and j + 1 in order.
Compared(e, l, j, n) ==
  /\ \A k \in 1 .. n : k # j /\ k # j + 1 => e[k] = l[k]
  /\ \/ e[j] = l[j] /\ e[j + 1] = l[j + 1]
     \/ e[j] = l[j + 1] /\ e[j + 1] = l[j]
  /\ Priority(e[j]) <= Priority(e[j + 1])

\* One comparison of the bubble sort neither loses nor repeats a type.
LEMMA ExchangedIs ==
  ASSUME NEW n \in Nat, NEW R, NEW l \in Arranged(n, R), NEW j \in 1 .. n - 1
  PROVE  Exchanged(l, j) \in Arranged(n, R) /\ Compared(Exchanged(l, j), l, j, n)
<1>1. /\ l \in Seq(Listed) /\ Len(l) = n /\ DOMAIN l = 1 .. n
      /\ Range(l) = R /\ IsInjective(l)
  BY DEF Arranged
<1>2. j \in 1 .. n /\ j + 1 \in 1 .. n /\ j # j + 1
  OBVIOUS
<1>3. \A k \in 1 .. n : l[k] \in Listed /\ Priority(l[k]) \in Nat
  BY <1>1, PrioritiesDiffer
<1> DEFINE e == [l EXCEPT ![j] = l[j + 1], ![j + 1] = l[j]]
<1>4. CASE Priority(l[j]) > Priority(l[j + 1])
  <2>1. Exchanged(l, j) = e
    BY <1>4 DEF Exchanged
  <2>2. /\ e \in [1 .. n -> Listed] /\ e[j] = l[j + 1] /\ e[j + 1] = l[j]
        /\ \A k \in 1 .. n : k # j /\ k # j + 1 => e[k] = l[k]
    <3>1. l \in [1 .. n -> Listed]
      BY <1>1
    <3>2. DOMAIN e = 1 .. n /\ e[j] = l[j + 1] /\ e[j + 1] = l[j]
      BY <1>2, <3>1
    <3>3. \A k \in 1 .. n : k # j /\ k # j + 1 => e[k] = l[k]
      BY <1>2, <3>1
    <3>4. e = [k \in 1 .. n |-> e[k]]
      BY <3>1
    <3> HIDE DEF e
    <3>5. \A k \in 1 .. n : e[k] \in Listed
      BY <1>2, <1>3, <3>2, <3>3
    <3> QED
      BY <3>2, <3>3, <3>4, <3>5
  <2> HIDE DEF e
  <2>3. e \in Seq(Listed) /\ Len(e) = n /\ DOMAIN e = 1 .. n
    BY <2>2
  <2>4. \A a, b \in 1 .. n : l[a] = l[b] => a = b
    BY <1>1 DEF IsInjective
  <2>5. \A a, b \in 1 .. n : e[a] = e[b] => a = b
    BY <1>2, <2>2, <2>4
  <2>6. IsInjective(e)
    BY <2>3, <2>5 DEF IsInjective
  <2>7. Range(e) = R
    <3>1. \A x : x \in R <=> \E k \in 1 .. n : x = l[k]
      BY <1>1 DEF Range
    <3>2. \A x : x \in Range(e) <=> \E k \in 1 .. n : x = e[k]
      BY <2>3 DEF Range
    <3>3. ASSUME NEW x, x \in R PROVE x \in Range(e)
      <4>1. PICK k \in 1 .. n : x = l[k]
        BY <3>1, <3>3
      <4> QED
        BY <1>2, <2>2, <3>2, <4>1
    <3>4. ASSUME NEW x, x \in Range(e) PROVE x \in R
      <4>1. PICK k \in 1 .. n : x = e[k]
        BY <3>2, <3>4
      <4> QED
        BY <1>2, <2>2, <3>1, <4>1
    <3> QED
      BY <3>3, <3>4
  <2>8. e \in Arranged(n, R)
    BY <2>3, <2>6, <2>7 DEF Arranged
  <2>9. Compared(e, l, j, n)
    BY <1>2, <1>3, <1>4, <2>2 DEF Compared
  <2> QED
    BY <2>1, <2>8, <2>9
<1>5. CASE ~(Priority(l[j]) > Priority(l[j + 1]))
  <2>1. Exchanged(l, j) = l
    BY <1>5 DEF Exchanged
  <2>2. Compared(l, l, j, n)
    BY <1>2, <1>3, <1>5 DEF Compared
  <2> QED
    BY <2>1, <2>2
<1> QED
  BY <1>4, <1>5

\* f is what the inner loop of the r-th round has after every turn.
Bubbles(f, l, r, n, R) ==
  /\ f \in [0 .. n - r -> Arranged(n, R)] /\ f[0] = l
  /\ \A j \in 1 .. n - r : f[j] = Exchanged(f[j - 1], j)
  /\ Round(l, r) = f[n - r]

\* The inner loop computes a list.
LEMMA RoundIs ==
  ASSUME NEW n \in Nat, NEW R, NEW l \in Arranged(n, R), NEW r \in 1 .. n - 1
  PROVE  \E f : Bubbles(f, l, r, n, R)
<1> DEFINE L == Arranged(n, R)
           m == n - r
           F(t) == [j \in 0 .. m |-> IF j = 0 THEN l ELSE Exchanged(t[j - 1], j)]
           g == [t \in L |-> [j \in Nat |-> IF j \in 1 .. m THEN Exchanged(t, j) ELSE l]]
<1>1. m \in Nat /\ l \in L /\ Len(l) = n /\ \A j \in 1 .. m : j \in 1 .. n - 1
  BY DEF Arranged
<1>2. \A t \in L, j \in 1 .. m : Exchanged(t, j) \in L
  BY <1>1, ExchangedIs
<1>3. Round(l, r) = (CHOOSE t : t = F(t))[m]
  <2>1. Len(l) - r = m
    BY <1>1
  <2> QED
    BY <2>1 DEF Round
<1> HIDE DEF L, m
<1>4. g \in [L -> [Nat -> L]] /\ \A t \in L, j \in 1 .. m : g[t][j] = Exchanged(t, j)
  BY <1>1, <1>2
<1>5. ASSUME NEW t
      PROVE  t = F(t) <=> /\ t = [j \in 0 .. m |-> t[j]] /\ t[0] = l
                          /\ \A j \in 1 .. m : t[j] = Exchanged(t[j - 1], j)
  <2>1. 0 \in 0 .. m /\ \A j \in 1 .. m : j \in 0 .. m /\ j # 0
    BY <1>1
  <2>2. \A j \in 0 .. m : j # 0 => j \in 1 .. m
    BY <1>1
  <2>3. ASSUME t = F(t)
        PROVE  /\ t = [j \in 0 .. m |-> t[j]] /\ t[0] = l
               /\ \A j \in 1 .. m : t[j] = Exchanged(t[j - 1], j)
    BY <2>1, <2>3
  <2>4. ASSUME t = [j \in 0 .. m |-> t[j]] /\ t[0] = l,
               \A j \in 1 .. m : t[j] = Exchanged(t[j - 1], j)
        PROVE  t = F(t)
    BY <2>2, <2>4
  <2> QED
    BY <2>3, <2>4
<1> HIDE DEF g, F
<1>6. PICK f : Computes(f, L, l, g, m)
  BY <1>1, <1>4, Recursion
<1>7. f \in [0 .. m -> L] /\ f[0] = l /\ \A j \in 1 .. m : f[j] = Exchanged(f[j - 1], j)
  <2>1. f \in [0 .. m -> L] /\ f[0] = l /\ \A j \in 1 .. m : f[j] = g[f[j - 1]][j]
    BY <1>6 DEF Computes
  <2>2. \A j \in 1 .. m : j - 1 \in 0 .. m
    BY <1>1
  <2>3. \A j \in 1 .. m : f[j - 1] \in L
    BY <2>1, <2>2
  <2> QED
    BY <1>4, <2>1, <2>3
<1>8. f = F(f)
  BY <1>5, <1>7
<1>9. ASSUME NEW t, t = F(t) PROVE t = f
  <2>1. t = [j \in 0 .. m |-> t[j]] /\ t[0] = l
    BY <1>5, <1>9
  <2>2. \A j \in 1 .. m : t[j - 1] \in L => t[j] = g[t[j - 1]][j]
    BY <1>4, <1>5, <1>9
  <2>3. Follows(t, L, l, g, m)
    BY <2>1, <2>2 DEF Follows
  <2>4. m \in Nat
    BY <1>1
  <2> QED
    BY <1>6, <2>3, <2>4, OnlyOne
<1>10. (CHOOSE t : t = F(t)) = f
  BY <1>8, <1>9
<1> QED
  BY <1>3, <1>7, <1>10 DEF L, m, Bubbles

\* What is behind place m is in order, and not before anything in front of it.
Settled(l, m, n) ==
  \A a, b \in 1 .. n : a < b /\ b > m => Priority(l[a]) <= Priority(l[b])

\* A round settles one more place: after turn j the largest of the first j + 1 entries is
\* the last of them, and what was settled stays so.
LEMMA RoundSettles ==
  ASSUME NEW n \in Nat, NEW R, NEW l \in Arranged(n, R), NEW r \in 1 .. n - 1,
         Settled(l, n - r + 1, n)
  PROVE  Round(l, r) \in Arranged(n, R) /\ Settled(Round(l, r), n - r, n)
<1> DEFINE m == n - r + 1
           L == Arranged(n, R)
           Highest(t, j) == \A a \in 1 .. j : Priority(t[a]) <= Priority(t[j])
<1>1. PICK f : Bubbles(f, l, r, n, R)
  BY RoundIs
<1>2. /\ f \in [0 .. m - 1 -> L] /\ f[0] = l
      /\ \A j \in 1 .. m - 1 : f[j] = Exchanged(f[j - 1], j)
      /\ Round(l, r) = f[m - 1]
  <2>1. n - r = m - 1
    OBVIOUS
  <2> QED
    BY <1>1, <2>1 DEF Bubbles
<1>3. /\ m \in Nat /\ m >= 2 /\ m <= n /\ m - 1 = n - r
  OBVIOUS
<1>4. \A t \in L, k \in 1 .. n : Priority(t[k]) \in Nat
  BY PrioritiesDiffer DEF Arranged
<1> DEFINE S == {j \in 0 .. m - 1 : Settled(f[j], m, n) /\ Highest(f[j], j + 1)}
<1>5. 0 \in S
  <2>1. Highest(l, 1)
    <3>1. l \in L /\ 1 \in 1 .. n /\ \A a \in 1 .. 1 : a = 1
      BY <1>3
    <3> QED
      BY <1>4, <3>1
  <2>2. Settled(l, m, n) /\ 0 + 1 = 1
    OBVIOUS
  <2> HIDE DEF Highest, m, L
  <2>3. 0 \in 0 .. m - 1
    BY <1>3
  <2> QED
    BY <1>2, <2>1, <2>2, <2>3
<1> HIDE DEF m, L
<1>6. ASSUME NEW j \in 1 .. m - 1, j - 1 \in S PROVE j \in S
  <2> DEFINE t == f[j - 1]
             e == f[j]
  <2>1. j - 1 \in 0 .. m - 1 /\ (j - 1) + 1 = j /\ j \in 1 .. n - 1 /\ j + 1 <= m /\ j \in Nat
    BY <1>3
  <2>2. t \in L /\ Settled(t, m, n) /\ Highest(t, j)
    BY <1>2, <1>6, <2>1
  <2>3. e = Exchanged(t, j)
    BY <1>2
  <2> HIDE DEF t, e
  <2>4. e \in L /\ Compared(e, t, j, n)
    BY <2>1, <2>2, <2>3, ExchangedIs DEF L
  <2>5. j \in 1 .. n /\ j + 1 \in 1 .. n /\ j # j + 1
    BY <1>3, <2>1
  <2>6. /\ \A k \in 1 .. n : k # j /\ k # j + 1 => e[k] = t[k]
        /\ \/ e[j] = t[j] /\ e[j + 1] = t[j + 1]
           \/ e[j] = t[j + 1] /\ e[j + 1] = t[j]
        /\ Priority(e[j]) <= Priority(e[j + 1])
    BY <2>4 DEF Compared
  <2>7. \A k \in 1 .. n : Priority(t[k]) \in Nat /\ Priority(e[k]) \in Nat
    BY <1>4, <2>2, <2>4
  <2>8. Settled(e, m, n)
    <3> SUFFICES ASSUME NEW a \in 1 .. n, NEW b \in 1 .. n, a < b, b > m
                 PROVE  Priority(e[a]) <= Priority(e[b])
      BY DEF Settled
    <3>1. b # j /\ b # j + 1 /\ j < b /\ j + 1 < b
      BY <1>3, <2>1
    <3>2. e[b] = t[b]
      BY <2>6, <3>1
    <3>3. /\ Priority(t[a]) <= Priority(t[b]) /\ Priority(t[j]) <= Priority(t[b])
          /\ Priority(t[j + 1]) <= Priority(t[b])
      BY <2>2, <2>5, <3>1 DEF Settled
    <3> QED
      BY <2>6, <3>2, <3>3
  <2>9. Highest(e, j + 1)
    <3> SUFFICES ASSUME NEW a \in 1 .. j + 1
                 PROVE  Priority(e[a]) <= Priority(e[j + 1])
      OBVIOUS
    <3>1. a \in 1 .. n /\ (a = j + 1 \/ a = j \/ (a \in 1 .. j /\ a # j /\ a # j + 1))
      BY <2>1, <2>5
    <3>2. CASE a = j + 1
      BY <2>5, <2>7, <3>2
    <3>3. CASE a = j
      BY <2>6, <3>3
    <3>4. CASE a \in 1 .. j /\ a # j /\ a # j + 1
      <4>1. e[a] = t[a] /\ Priority(t[a]) <= Priority(t[j])
        BY <2>2, <2>6, <3>1, <3>4
      <4>2. t[j] = e[j] \/ t[j] = e[j + 1]
        BY <2>6
      <4> QED
        BY <2>5, <2>6, <2>7, <3>1, <4>1, <4>2
    <3> QED
      BY <3>1, <3>2, <3>3, <3>4
  <2> HIDE DEF Highest
  <2>10. j \in 0 .. m - 1
    BY <2>1
  <2> QED
    BY <2>8, <2>9, <2>10 DEF e
<1> DEFINE e == f[m - 1]
<1>7. m - 1 \in S
  <2>1. m - 1 \in Nat /\ m - 1 \in 0 .. m - 1
    BY <1>3
  <2> HIDE DEF S
  <2>2. 0 .. m - 1 \subseteq S
    BY <1>5, <1>6, <2>1, EveryTurn
  <2> QED
    BY <2>1, <2>2
<1>8. e \in L /\ Settled(e, m, n) /\ Highest(e, m)
  <2>1. m - 1 \in 0 .. m - 1 /\ (m - 1) + 1 = m
    BY <1>3
  <2> QED
    BY <1>2, <1>7, <2>1
<1> HIDE DEF e
<1>9. Settled(e, m - 1, n)
  <2> SUFFICES ASSUME NEW a \in 1 .. n, NEW b \in 1 .. n, a < b, b > m - 1
               PROVE  Priority(e[a]) <= Priority(e[b])
    BY DEF Settled
  <2>1. CASE b = m
    <3>1. a \in 1 .. m
      BY <1>3, <2>1
    <3> QED
      BY <1>8, <2>1, <3>1
  <2>2. CASE b > m
    BY <1>8, <2>2 DEF Settled
  <2> QED
    BY <1>3, <2>1, <2>2
<1> QED
  BY <1>2, <1>3, <1>8, <1>9 DEF L, e

\* A round neither loses nor repeats a type.
LEMMA RoundArranges ==
  ASSUME NEW n \in Nat, NEW R, NEW l \in Arranged(n, R), NEW r \in 1 .. n - 1
  PROVE  Round(l, r) \in Arranged(n, R)
<1>1. PICK f : Bubbles(f, l, r, n, R)
  BY RoundIs
<1>2. f \in [0 .. n - r -> Arranged(n, R)] /\ Round(l, r) = f[n - r]
  BY <1>1 DEF Bubbles
<1>3. n - r \in 0 .. n - r
  OBVIOUS
<1> QED
  BY <1>2, <1>3

\* f is what strategy_sort_by_priority has after every round.
Sorts(f, list, n, R) ==
  /\ f \in [0 .. n - 1 -> Arranged(n, R)] /\ f[0] = list
  /\ \A r \in 1 .. n - 1 : f[r] = Round(f[r - 1], r)
  /\ Sort(list) = f[n - 1]

\* The outer loop computes a list.
LEMMA SortIs ==
  ASSUME NEW n \in Nat, n >= 2, NEW R, NEW list \in Arranged(n, R)
  PROVE  \E f : Sorts(f, list, n, R)
<1> DEFINE L == Arranged(n, R)
           m == n - 1
           F(t) == [r \in 0 .. m |-> IF r = 0 THEN list ELSE Round(t[r - 1], r)]
           g == [t \in L |-> [r \in Nat |-> IF r \in 1 .. m THEN Round(t, r) ELSE list]]
<1>1. m \in Nat /\ list \in L /\ Len(list) = n
  BY DEF Arranged
<1>2. \A t \in L, r \in 1 .. m : Round(t, r) \in L
  BY RoundArranges
<1>3. Sort(list) = (CHOOSE t : t = F(t))[m]
  <2>1. Len(list) - 1 = m /\ ~(Len(list) <= 1)
    BY <1>1
  <2> QED
    BY <2>1 DEF Sort
<1> HIDE DEF L, m
<1>4. g \in [L -> [Nat -> L]] /\ \A t \in L, r \in 1 .. m : g[t][r] = Round(t, r)
  BY <1>1, <1>2
<1>5. ASSUME NEW t
      PROVE  t = F(t) <=> /\ t = [r \in 0 .. m |-> t[r]] /\ t[0] = list
                          /\ \A r \in 1 .. m : t[r] = Round(t[r - 1], r)
  <2>1. 0 \in 0 .. m /\ \A r \in 1 .. m : r \in 0 .. m /\ r # 0
    BY <1>1
  <2>2. \A r \in 0 .. m : r # 0 => r \in 1 .. m
    BY <1>1
  <2>3. ASSUME t = F(t)
        PROVE  /\ t = [r \in 0 .. m |-> t[r]] /\ t[0] = list
               /\ \A r \in 1 .. m : t[r] = Round(t[r - 1], r)
    BY <2>1, <2>3
  <2>4. ASSUME t = [r \in 0 .. m |-> t[r]] /\ t[0] = list,
               \A r \in 1 .. m : t[r] = Round(t[r - 1], r)
        PROVE  t = F(t)
    BY <2>2, <2>4
  <2> QED
    BY <2>3, <2>4
<1> HIDE DEF g, F
<1>6. PICK f : Computes(f, L, list, g, m)
  BY <1>1, <1>4, Recursion
<1>7. f \in [0 .. m -> L] /\ f[0] = list /\ \A r \in 1 .. m : f[r] = Round(f[r - 1], r)
  <2>1. f \in [0 .. m -> L] /\ f[0] = list /\ \A r \in 1 .. m : f[r] = g[f[r - 1]][r]
    BY <1>6 DEF Computes
  <2>2. \A r \in 1 .. m : r - 1 \in 0 .. m
    BY <1>1
  <2>3. \A r \in 1 .. m : f[r - 1] \in L
    BY <2>1, <2>2
  <2> QED
    BY <1>4, <2>1, <2>3
<1>8. f = F(f)
  BY <1>5, <1>7
<1>9. ASSUME NEW t, t = F(t) PROVE t = f
  <2>1. t = [r \in 0 .. m |-> t[r]] /\ t[0] = list
    BY <1>5, <1>9
  <2>2. \A r \in 1 .. m : t[r - 1] \in L => t[r] = g[t[r - 1]][r]
    BY <1>4, <1>5, <1>9
  <2>3. Follows(t, L, list, g, m)
    BY <2>1, <2>2 DEF Follows
  <2>4. m \in Nat
    BY <1>1
  <2> QED
    BY <1>6, <2>3, <2>4, OnlyOne
<1>10. (CHOOSE t : t = F(t)) = f
  BY <1>8, <1>9
<1> QED
  BY <1>3, <1>7, <1>10 DEF L, m, Sorts

\* After all rounds, everything behind the first place is settled.
LEMMA SortSorts ==
  ASSUME NEW n \in Nat, n >= 2, NEW R, NEW list \in Arranged(n, R)
  PROVE  Sort(list) \in Arranged(n, R) /\ Settled(Sort(list), 1, n)
<1>1. PICK f : Sorts(f, list, n, R)
  BY SortIs
<1>2. /\ f \in [0 .. n - 1 -> Arranged(n, R)] /\ f[0] = list
      /\ \A r \in 1 .. n - 1 : f[r] = Round(f[r - 1], r)
      /\ Sort(list) = f[n - 1]
  BY <1>1 DEF Sorts
<1> DEFINE S == {r \in 0 .. n - 1 : Settled(f[r], n - r, n)}
<1>3. 0 \in S
  BY DEF Settled
<1>4. ASSUME NEW r \in 1 .. n - 1, r - 1 \in S PROVE r \in S
  <2>1. r - 1 \in 0 .. n - 1 /\ n - (r - 1) = n - r + 1 /\ r \in 0 .. n - 1
    OBVIOUS
  <2>2. f[r - 1] \in Arranged(n, R) /\ Settled(f[r - 1], n - r + 1, n)
    BY <1>2, <1>4, <2>1
  <2>3. Settled(Round(f[r - 1], r), n - r, n)
    BY <2>2, RoundSettles
  <2> QED
    BY <1>2, <2>1, <2>3
<1>5. n - 1 \in S
  <2>1. n - 1 \in Nat /\ n - 1 \in 0 .. n - 1
    OBVIOUS
  <2> HIDE DEF S
  <2>2. 0 .. n - 1 \subseteq S
    BY <1>3, <1>4, <2>1, EveryTurn
  <2> QED
    BY <2>1, <2>2
<1>6. n - 1 \in 0 .. n - 1 /\ n - (n - 1) = 1
  OBVIOUS
<1> QED
  BY <1>2, <1>5, <1>6

\* strategy_sort_by_priority puts any list of different types in the order of their
\* priorities, and keeps its types.
THEOREM SortedInOrder ==
  ASSUME NEW list \in Seq(Listed), IsInjective(list)
  PROVE  Sort(list) \in Seq(Listed) /\ InOrder(Sort(list)) /\ Range(Sort(list)) = Range(list)
<1> DEFINE n == Len(list)
           R == Range(list)
           s == Sort(list)
<1>1. n \in Nat /\ list \in Arranged(n, R)
  BY DEF Arranged
<1>2. s \in Arranged(n, R) /\ Settled(s, 1, n)
  <2>1. CASE n <= 1
    <3>1. s = list
      BY <2>1 DEF Sort
    <3>2. \A a, b \in 1 .. n : ~(a < b)
      BY <1>1, <2>1
    <3> QED
      BY <1>1, <3>1, <3>2 DEF Settled
  <2>2. CASE n >= 2
    <3> HIDE DEF n, R
    <3> QED
      BY <1>1, <2>2, SortSorts
  <2> QED
    BY <1>1, <2>1, <2>2
<1> HIDE DEF n, R, s
<1>3. s \in Seq(Listed) /\ Len(s) = n /\ DOMAIN s = 1 .. n /\ Range(s) = R /\ IsInjective(s)
  BY <1>2 DEF Arranged
<1>4. InOrder(s)
  <2> SUFFICES ASSUME NEW a \in 1 .. n, NEW b \in 1 .. n, a < b
               PROVE  Priority(s[a]) < Priority(s[b])
    BY <1>3 DEF InOrder
  <2>1. Priority(s[a]) <= Priority(s[b])
    BY <1>1, <1>2 DEF Settled
  <2>2. s[a] # s[b]
    BY <1>1, <1>3 DEF IsInjective
  <2>3. s[a] \in Listed /\ s[b] \in Listed
    BY <1>3
  <2>4. Priority(s[a]) # Priority(s[b]) /\ Priority(s[a]) \in Nat /\ Priority(s[b]) \in Nat
    BY <2>2, <2>3, PrioritiesDiffer
  <2> QED
    BY <2>1, <2>4
<1> QED
  BY <1>3, <1>4 DEF s, R

----------------------------------------------------------------------------
(* Both ends agree.                                                         *)

\* What strategy_filter chooses from the table.
Suitable(local, remote) == {type \in Types : Applicable(type, local, remote)}

\* Two strategies always apply, and STRATEGY_NONE never does.
LEMMA SuitableIs ==
  ASSUME NEW local, NEW remote
  PROVE  /\ Suitable(local, remote) \in SUBSET Listed
         /\ {"TTL_PUNCH", "TURN_RELAY"} \subseteq Suitable(local, remote)
         /\ Filter(local, remote) = Selected(Suitable(local, remote))
<1>1. Types = Listed \cup {"NONE"}
  <2>1. Types = {Info[k].type : k \in 1 .. 11}
    BY TableIs DEF Types
  <2>2. \A k : k \in 1 .. 11 <=> k = 1 \/ k \in 2 .. 11
    OBVIOUS
  <2>3. Info[1].type = "NONE"
    BY TableIs
  <2> QED
    BY <2>1, <2>2, <2>3 DEF Listed
<1>2. ~Applicable("NONE", local, remote)
  BY DEF Applicable
<1>3. Applicable("TTL_PUNCH", local, remote) /\ Applicable("TURN_RELAY", local, remote)
  BY DEF Applicable
<1>4. "TTL_PUNCH" \in Types /\ "TURN_RELAY" \in Types
  <2>1. /\ Info[5].type = "TTL_PUNCH" /\ 5 \in 2 .. 11
        /\ Info[10].type = "TURN_RELAY" /\ 10 \in 2 .. 11
    BY TableIs
  <2> QED
    BY <1>1, <2>1 DEF Listed
<1>5. Suitable(local, remote) \in SUBSET Listed
  BY <1>1, <1>2 DEF Suitable
<1> QED
  BY <1>3, <1>4, <1>5 DEF Suitable, Filter

\* EndsAgree: both ends of any two profiles choose the same strategies in the same order.
THEOREM BothAgree ==
  ASSUME NEW one \in Profiles, NEW other \in Profiles
  PROVE  EndsAgree(one, other)
<1>1. ASSUME NEW type \in Types
      PROVE  Applicable(type, one, other) <=> Applicable(type, other, one)
  BY DEF Applicable, PredictionHelps
<1>2. Suitable(one, other) = Suitable(other, one)
  BY <1>1 DEF Suitable
<1> QED
  BY <1>2, SuitableIs DEF EndsAgree

\* SortsToFilter: from any list of the applicable types, in whatever order,
\* strategy_sort_by_priority makes the list of strategy_filter.
THEOREM AnyList ==
  ASSUME NEW list \in Seq(Listed), NEW local, NEW remote
  PROVE  SortsToFilter(list, local, remote)
<1> DEFINE R == Suitable(local, remote)
<1> SUFFICES ASSUME Range(list) = R, IsInjective(list)
             PROVE  Sort(list) = Filter(local, remote)
  BY DEF SortsToFilter, Suitable
<1>1. R \in SUBSET Listed /\ Filter(local, remote) = Selected(R)
  BY SuitableIs
<1> HIDE DEF R
<1>2. Sort(list) \in Seq(Listed) /\ InOrder(Sort(list)) /\ Range(Sort(list)) = R
  BY SortedInOrder
<1>3. Selected(R) \in Seq(Listed) /\ InOrder(Selected(R)) /\ Range(Selected(R)) = R
  BY <1>1, SelectedIsInOrder
<1> QED
  BY <1>1, <1>2, <1>3, OneOrder

\* A list turned round, and one with its halves exchanged, is a list.
LEMMA Turned ==
  ASSUME NEW list \in Seq(Listed), Len(list) >= 2
  PROVE  /\ Reverse(list) \in Seq(Listed)
         /\ LET half == Len(list) \div 2
            IN  SubSeq(list, half, Len(list)) \o SubSeq(list, 1, half - 1) \in Seq(Listed)
<1> DEFINE n == Len(list)
           half == n \div 2
<1>1. n \in Nat /\ half \in Nat /\ 1 <= half /\ half <= n /\ \A k \in 1 .. n : list[k] \in Listed
  OBVIOUS
<1>2. Reverse(list) \in Seq(Listed)
  BY <1>1 DEF Reverse
<1>3. SubSeq(list, half, n) \in Seq(Listed)
  BY <1>1
<1>4. SubSeq(list, 1, half - 1) \in Seq(Listed)
  BY <1>1
<1> QED
  BY <1>2, <1>3, <1>4

\* What StrategiesAgree says of two profiles.
Agree(local, remote) ==
  LET list == Filter(local, remote)
      half == Len(list) \div 2
  IN  /\ EndsAgree(local, remote)
      /\ SortsToFilter(Reverse(list), local, remote)
      /\ SortsToFilter(SubSeq(list, half, Len(list)) \o SubSeq(list, 1, half - 1),
                       local, remote)

\* While an attempt to connect is computed, the two ends would choose the same strategies
\* in the same order, and sorting gives the order of strategy_filter: StrategiesAgree, of all
\* profiles.
THEOREM Agreement == Spec => []StrategiesAgree
<1>1. ASSUME NEW local \in Profiles, NEW remote \in Profiles
      PROVE  Agree(local, remote)
  <2> DEFINE list == Filter(local, remote)
             half == Len(list) \div 2
             turned == SubSeq(list, half, Len(list)) \o SubSeq(list, 1, half - 1)
  <2>1. list \in Seq(Listed) /\ Range(list) = Suitable(local, remote)
    BY SuitableIs, SelectedIsInOrder
  <2>2. Len(list) >= 2
    <3>1. "TTL_PUNCH" \in Range(list) /\ "TURN_RELAY" \in Range(list)
      BY <2>1, SuitableIs
    <3>2. DOMAIN list = 1 .. Len(list) /\ Len(list) \in Nat
      BY <2>1
    <3>3. PICK a \in 1 .. Len(list), b \in 1 .. Len(list) :
                 list[a] = "TTL_PUNCH" /\ list[b] = "TURN_RELAY"
      BY <3>1, <3>2 DEF Range
    <3>4. a # b
      BY <3>3
    <3> QED
      BY <3>2, <3>4
  <2> HIDE DEF list
  <2>3. Reverse(list) \in Seq(Listed) /\ turned \in Seq(Listed)
    BY <2>1, <2>2, Turned
  <2> HIDE DEF turned
  <2>4. SortsToFilter(Reverse(list), local, remote) /\ SortsToFilter(turned, local, remote)
    BY <2>3, AnyList
  <2> QED
    BY <2>4, BothAgree DEF Agree, list, turned
<1>2. StrategiesAgree
  BY <1>1, Zenon DEF StrategiesAgree, Agree
<1> QED
  BY <1>2, PTL

----------------------------------------------------------------------------
(* PortPrediction.  The line through a few ports, by the sums it is computed *)
(* from; then every pattern in turn.                                         *)

\* A sum is what its loop computes.
LEMMA SumIs ==
  ASSUME NEW s \in Seq(Int)
  PROVE  \E f \in [0 .. Len(s) -> Int] :
           /\ f[0] = 0 /\ \A k \in 1 .. Len(s) : f[k] = f[k - 1] + s[k]
           /\ Sum(s) = f[Len(s)]
<1> DEFINE n == Len(s)
           Z == Int
           zero == 0
           Turn(t, k) == t + s[k]
           F(t) == [k \in 0 .. n |-> IF k = 0 THEN zero ELSE Turn(t[k - 1], k)]
           g == [t \in Z |-> [k \in Nat |-> IF k \in 1 .. n THEN Turn(t, k) ELSE zero]]
<1>1. n \in Nat /\ zero \in Z
  OBVIOUS
<1>2. \A t \in Z, k \in 1 .. n : Turn(t, k) \in Z
  OBVIOUS
<1>3. Sum(s) = (CHOOSE t : t = F(t))[n]
  BY DEF Sum
<1> HIDE DEF n, Turn, zero, Z
<1>4. g \in [Z -> [Nat -> Z]] /\ \A t \in Z, k \in 1 .. n : g[t][k] = Turn(t, k)
  BY <1>1, <1>2
<1>5. ASSUME NEW t
      PROVE  t = F(t) <=> /\ t = [k \in 0 .. n |-> t[k]] /\ t[0] = zero
                          /\ \A k \in 1 .. n : t[k] = Turn(t[k - 1], k)
  <2>1. 0 \in 0 .. n /\ \A k \in 1 .. n : k \in 0 .. n /\ k # 0
    BY <1>1
  <2>2. \A k \in 0 .. n : k # 0 => k \in 1 .. n
    BY <1>1
  <2>3. ASSUME t = F(t)
        PROVE  /\ t = [k \in 0 .. n |-> t[k]] /\ t[0] = zero
               /\ \A k \in 1 .. n : t[k] = Turn(t[k - 1], k)
    BY <2>1, <2>3
  <2>4. ASSUME t = [k \in 0 .. n |-> t[k]] /\ t[0] = zero,
               \A k \in 1 .. n : t[k] = Turn(t[k - 1], k)
        PROVE  t = F(t)
    BY <2>2, <2>4
  <2> QED
    BY <2>3, <2>4
<1> HIDE DEF g, F
<1>6. PICK f : Computes(f, Z, zero, g, n)
  BY <1>1, <1>4, Recursion
<1>7. f \in [0 .. n -> Z] /\ f[0] = zero /\ \A k \in 1 .. n : f[k] = Turn(f[k - 1], k)
  <2>1. f \in [0 .. n -> Z] /\ f[0] = zero /\ \A k \in 1 .. n : f[k] = g[f[k - 1]][k]
    BY <1>6 DEF Computes
  <2>2. \A k \in 1 .. n : k - 1 \in 0 .. n
    BY <1>1
  <2>3. \A k \in 1 .. n : f[k - 1] \in Z
    BY <2>1, <2>2
  <2> QED
    BY <1>4, <2>1, <2>3
<1>8. f = F(f)
  BY <1>5, <1>7
<1>9. ASSUME NEW t, t = F(t) PROVE t = f
  <2>1. t = [k \in 0 .. n |-> t[k]] /\ t[0] = zero
    BY <1>5, <1>9
  <2>2. \A k \in 1 .. n : t[k - 1] \in Z => t[k] = g[t[k - 1]][k]
    BY <1>4, <1>5, <1>9
  <2>3. Follows(t, Z, zero, g, n)
    BY <2>1, <2>2 DEF Follows
  <2>4. n \in Nat
    BY <1>1
  <2> QED
    BY <1>6, <2>3, <2>4, OnlyOne
<1>10. (CHOOSE t : t = F(t)) = f
  BY <1>8, <1>9
<1>11. Sum(s) = f[n]
  BY <1>3, <1>10
<1> QED
  BY <1>7, <1>11 DEF n, Turn, zero, Z

\* The sums of four, five and six numbers.
Sums(s) ==
  /\ Sum(s) \in Int
  /\ Len(s) = 4 => Sum(s) = s[1] + s[2] + s[3] + s[4]
  /\ Len(s) = 5 => Sum(s) = s[1] + s[2] + s[3] + s[4] + s[5]
  /\ Len(s) = 6 => Sum(s) = s[1] + s[2] + s[3] + s[4] + s[5] + s[6]

\* A sum of a few numbers is their sum.
LEMMA SumOfFew ==
  ASSUME NEW n \in Nat, NEW s \in [1 .. n -> Int]
  PROVE  Sums(s)
<1>1. s \in Seq(Int) /\ Len(s) = n
  OBVIOUS
<1>2. PICK f \in [0 .. n -> Int] : /\ f[0] = 0 /\ \A k \in 1 .. n : f[k] = f[k - 1] + s[k]
                                   /\ Sum(s) = f[n]
  BY <1>1, SumIs
<1>3. Sum(s) \in Int /\ \A k \in 0 .. n : f[k] \in Int
  BY <1>2
<1>4. \A k \in 1 .. n : s[k] \in Int
  OBVIOUS
<1>5. n >= 4 => f[4] = s[1] + s[2] + s[3] + s[4]
  <2> SUFFICES ASSUME n >= 4 PROVE f[4] = s[1] + s[2] + s[3] + s[4]
    OBVIOUS
  <2>1. /\ f[0] = 0
        /\ f[1] = f[1 - 1] + s[1] /\ f[2] = f[2 - 1] + s[2]
        /\ f[3] = f[3 - 1] + s[3] /\ f[4] = f[4 - 1] + s[4]
    <3>1. 1 \in 1 .. n /\ 2 \in 1 .. n /\ 3 \in 1 .. n /\ 4 \in 1 .. n
      OBVIOUS
    <3> QED
      BY <1>2, <3>1
  <2>2. s[1] \in Int /\ s[2] \in Int /\ s[3] \in Int /\ s[4] \in Int
    BY <1>4
  <2> QED
    BY <2>1, <2>2
<1>6. n >= 5 => f[5] = f[4] + s[5]
  BY <1>2
<1>7. n >= 6 => f[6] = f[5] + s[6]
  BY <1>2
<1>8. Len(s) = 4 => Sum(s) = s[1] + s[2] + s[3] + s[4]
  BY <1>1, <1>2, <1>5
<1>9. Len(s) = 5 => Sum(s) = s[1] + s[2] + s[3] + s[4] + s[5]
  BY <1>1, <1>2, <1>5, <1>6
<1>10. Len(s) = 6 => Sum(s) = s[1] + s[2] + s[3] + s[4] + s[5] + s[6]
  BY <1>1, <1>2, <1>5, <1>6, <1>7
<1> QED
  BY <1>3, <1>8, <1>9, <1>10 DEF Sums

\* The ports and the next one go up, by step at most.
Climbs(ports, next, step) ==
  /\ \A k \in 1 .. Len(ports) - 1 : ports[k + 1] - ports[k] \in 1 .. step
  /\ next - ports[Len(ports)] \in 1 .. step

\* What a quotient is.
LEMMA Division ==
  ASSUME NEW a \in Int, NEW b \in Nat \ {0}
  PROVE  a \div b \in Int /\ b * (a \div b) <= a /\ a < b * (a \div b) + b
  OBVIOUS

\* The line through four such ports comes near the next: it is off by step - 1 at most, and by
\* one for the float and the rounding.
LEMMA LineOfFour ==
  ASSUME NEW ports \in [1 .. 4 -> Int], NEW next \in Int, NEW step \in Nat,
         Climbs(ports, next, step), 4 * (step - 1) <= 3 * (Reach - 1),
         NEW port \in NextOnLine(ports)
  PROVE  port \in next - Reach .. next + Reach
<1> DEFINE xy == [k \in 1 .. 4 |-> (k - 1) * ports[k]]
           xs == [k \in 1 .. 4 |-> k - 1]
           x2 == [k \in 1 .. 4 |-> (k - 1) * (k - 1)]
<1>1. Len(ports) = 4 /\ DOMAIN ports = 1 .. 4
  OBVIOUS
<1>2. /\ ports[1] \in Int /\ ports[2] \in Int /\ ports[3] \in Int
      /\ ports[4] \in Int
  OBVIOUS
<1>3. /\ xy \in [1 .. 4 -> Int] /\ Len(xy) = 4
      /\ xy[1] = 0 /\ xy[2] = ports[2] /\ xy[3] = 2 * ports[3]
      /\ xy[4] = 3 * ports[4]
  OBVIOUS
<1>4. /\ xs \in [1 .. 4 -> Int] /\ Len(xs) = 4
      /\ xs[1] = 0 /\ xs[2] = 1 /\ xs[3] = 2 /\ xs[4] = 3
  OBVIOUS
<1>5. /\ x2 \in [1 .. 4 -> Int] /\ Len(x2) = 4
      /\ x2[1] = 0 /\ x2[2] = 1 /\ x2[3] = 4 /\ x2[4] = 9
  OBVIOUS
<1>6. SumXY(ports) = Sum(xy) /\ SumX(ports) = Sum(xs) /\ SumX2(ports) = Sum(x2)
  BY <1>1, Zenon DEF SumXY, SumX, SumX2
<1> HIDE DEF xy, xs, x2
<1>7. Sums(xy) /\ Sums(xs) /\ Sums(x2) /\ Sums(ports)
  BY <1>3, <1>4, <1>5, SumOfFew
<1>8. /\ SumXY(ports) = ports[2] + 2 * ports[3] + 3 * ports[4]
      /\ SumX(ports) = 6 /\ SumX2(ports) = 14
  BY <1>2, <1>3, <1>4, <1>5, <1>6, <1>7 DEF Sums
<1>9. Sum(ports) = ports[1] + ports[2] + ports[3] + ports[4]
  BY <1>1, <1>7 DEF Sums
<1>10. Run(ports) = 20
  BY <1>1, <1>8 DEF Run
<1>11. Rise(ports) = 4 * (ports[2] + 2 * ports[3] + 3 * ports[4])
                      - 6 * (ports[1] + ports[2] + ports[3] + ports[4])
  BY <1>1, <1>8, <1>9 DEF Rise
<1> DEFINE above == Sum(ports) * 20 + Rise(ports) * 10
           value == above \div 80
<1>12. port \in value - 1 .. value + 1
  BY <1>1, <1>8, <1>10 DEF NextOnLine
<1>13. above \in Int /\ above = 40 * (2 * ports[4] + ports[3] - ports[1])
  BY <1>2, <1>9, <1>11
<1> HIDE DEF above
<1>14. value \in Int /\ 80 * value <= above /\ above < 80 * value + 80
  BY <1>13, Division
<1>15. /\ ports[2] - ports[1] \in 1 .. step /\ ports[3] - ports[2] \in 1 .. step
       /\ ports[4] - ports[3] \in 1 .. step /\ next - ports[4] \in 1 .. step
  BY <1>1 DEF Climbs
<1> HIDE DEF value
<1> QED
  BY <1>2, <1>12, <1>13, <1>14, <1>15, PortsAssumption

\* The line through five: off by six fifths of step - 1.
LEMMA LineOfFive ==
  ASSUME NEW ports \in [1 .. 5 -> Int], NEW next \in Int, NEW step \in Nat,
         Climbs(ports, next, step), 4 * (step - 1) <= 3 * (Reach - 1),
         NEW port \in NextOnLine(ports)
  PROVE  port \in next - Reach .. next + Reach
<1> DEFINE xy == [k \in 1 .. 5 |-> (k - 1) * ports[k]]
           xs == [k \in 1 .. 5 |-> k - 1]
           x2 == [k \in 1 .. 5 |-> (k - 1) * (k - 1)]
<1>1. Len(ports) = 5 /\ DOMAIN ports = 1 .. 5
  OBVIOUS
<1>2. /\ ports[1] \in Int /\ ports[2] \in Int /\ ports[3] \in Int
      /\ ports[4] \in Int /\ ports[5] \in Int
  OBVIOUS
<1>3. /\ xy \in [1 .. 5 -> Int] /\ Len(xy) = 5
      /\ xy[1] = 0 /\ xy[2] = ports[2] /\ xy[3] = 2 * ports[3]
      /\ xy[4] = 3 * ports[4] /\ xy[5] = 4 * ports[5]
  OBVIOUS
<1>4. /\ xs \in [1 .. 5 -> Int] /\ Len(xs) = 5
      /\ xs[1] = 0 /\ xs[2] = 1 /\ xs[3] = 2 /\ xs[4] = 3 /\ xs[5] = 4
  OBVIOUS
<1>5. /\ x2 \in [1 .. 5 -> Int] /\ Len(x2) = 5
      /\ x2[1] = 0 /\ x2[2] = 1 /\ x2[3] = 4 /\ x2[4] = 9 /\ x2[5] = 16
  OBVIOUS
<1>6. SumXY(ports) = Sum(xy) /\ SumX(ports) = Sum(xs) /\ SumX2(ports) = Sum(x2)
  BY <1>1, Zenon DEF SumXY, SumX, SumX2
<1> HIDE DEF xy, xs, x2
<1>7. Sums(xy) /\ Sums(xs) /\ Sums(x2) /\ Sums(ports)
  BY <1>3, <1>4, <1>5, SumOfFew
<1>8. /\ SumXY(ports) = ports[2] + 2 * ports[3] + 3 * ports[4] + 4 * ports[5]
      /\ SumX(ports) = 10 /\ SumX2(ports) = 30
  BY <1>2, <1>3, <1>4, <1>5, <1>6, <1>7 DEF Sums
<1>9. Sum(ports) = ports[1] + ports[2] + ports[3] + ports[4] + ports[5]
  BY <1>1, <1>7 DEF Sums
<1>10. Run(ports) = 50
  BY <1>1, <1>8 DEF Run
<1>11. Rise(ports) = 5 * (ports[2] + 2 * ports[3] + 3 * ports[4] + 4 * ports[5])
                      - 10 * (ports[1] + ports[2] + ports[3] + ports[4] + ports[5])
  BY <1>1, <1>8, <1>9 DEF Rise
<1> DEFINE above == Sum(ports) * 50 + Rise(ports) * 15
           value == above \div 250
<1>12. port \in value - 1 .. value + 1
  BY <1>1, <1>8, <1>10 DEF NextOnLine
<1>13. /\ above \in Int
       /\ above = 25 * (8 * ports[5] + 5 * ports[4] + 2 * ports[3] - ports[2] - 4 * ports[1])
  BY <1>2, <1>9, <1>11
<1> HIDE DEF above
<1>14. value \in Int /\ 250 * value <= above /\ above < 250 * value + 250
  BY <1>13, Division
<1>15. /\ ports[2] - ports[1] \in 1 .. step /\ ports[3] - ports[2] \in 1 .. step
       /\ ports[4] - ports[3] \in 1 .. step /\ ports[5] - ports[4] \in 1 .. step
       /\ next - ports[5] \in 1 .. step
  BY <1>1 DEF Climbs
<1> HIDE DEF value
<1> QED
  BY <1>2, <1>12, <1>13, <1>14, <1>15, PortsAssumption

\* The line through six: off by four thirds of step - 1.
LEMMA LineOfSix ==
  ASSUME NEW ports \in [1 .. 6 -> Int], NEW next \in Int, NEW step \in Nat,
         Climbs(ports, next, step), 4 * (step - 1) <= 3 * (Reach - 1),
         NEW port \in NextOnLine(ports)
  PROVE  port \in next - Reach .. next + Reach
<1> DEFINE xy == [k \in 1 .. 6 |-> (k - 1) * ports[k]]
           xs == [k \in 1 .. 6 |-> k - 1]
           x2 == [k \in 1 .. 6 |-> (k - 1) * (k - 1)]
<1>1. Len(ports) = 6 /\ DOMAIN ports = 1 .. 6
  OBVIOUS
<1>2. /\ ports[1] \in Int /\ ports[2] \in Int /\ ports[3] \in Int
      /\ ports[4] \in Int /\ ports[5] \in Int /\ ports[6] \in Int
  OBVIOUS
<1>3. /\ xy \in [1 .. 6 -> Int] /\ Len(xy) = 6
      /\ xy[1] = 0 /\ xy[2] = ports[2] /\ xy[3] = 2 * ports[3]
      /\ xy[4] = 3 * ports[4] /\ xy[5] = 4 * ports[5] /\ xy[6] = 5 * ports[6]
  OBVIOUS
<1>4. /\ xs \in [1 .. 6 -> Int] /\ Len(xs) = 6
      /\ xs[1] = 0 /\ xs[2] = 1 /\ xs[3] = 2 /\ xs[4] = 3 /\ xs[5] = 4 /\ xs[6] = 5
  OBVIOUS
<1>5. /\ x2 \in [1 .. 6 -> Int] /\ Len(x2) = 6
      /\ x2[1] = 0 /\ x2[2] = 1 /\ x2[3] = 4 /\ x2[4] = 9 /\ x2[5] = 16
      /\ x2[6] = 25
  OBVIOUS
<1>6. SumXY(ports) = Sum(xy) /\ SumX(ports) = Sum(xs) /\ SumX2(ports) = Sum(x2)
  BY <1>1, Zenon DEF SumXY, SumX, SumX2
<1> HIDE DEF xy, xs, x2
<1>7. Sums(xy) /\ Sums(xs) /\ Sums(x2) /\ Sums(ports)
  BY <1>3, <1>4, <1>5, SumOfFew
<1>8. /\ SumXY(ports) = ports[2] + 2 * ports[3] + 3 * ports[4] + 4 * ports[5] + 5 * ports[6]
      /\ SumX(ports) = 15 /\ SumX2(ports) = 55
  BY <1>2, <1>3, <1>4, <1>5, <1>6, <1>7 DEF Sums
<1>9. Sum(ports) = ports[1] + ports[2] + ports[3] + ports[4] + ports[5] + ports[6]
  BY <1>1, <1>7 DEF Sums
<1>10. Run(ports) = 105
  BY <1>1, <1>8 DEF Run
<1>11. Rise(ports) = 6 * (ports[2] + 2 * ports[3] + 3 * ports[4] + 4 * ports[5] + 5 * ports[6])
                      - 15 * (ports[1] + ports[2] + ports[3] + ports[4] + ports[5] + ports[6])
  BY <1>1, <1>8, <1>9 DEF Rise
<1> DEFINE above == Sum(ports) * 105 + Rise(ports) * 21
           value == above \div 630
<1>12. port \in value - 1 .. value + 1
  BY <1>1, <1>8, <1>10 DEF NextOnLine
<1>13. /\ above \in Int
       /\ above = 42 * (10 * ports[6] + 7 * ports[5] + 4 * ports[4] + ports[3] - 2 * ports[2] - 5 * ports[1])
  BY <1>2, <1>9, <1>11
<1> HIDE DEF above
<1>14. value \in Int /\ 630 * value <= above /\ above < 630 * value + 630
  BY <1>13, Division
<1>15. /\ ports[2] - ports[1] \in 1 .. step /\ ports[3] - ports[2] \in 1 .. step
       /\ ports[4] - ports[3] \in 1 .. step /\ ports[5] - ports[4] \in 1 .. step
       /\ ports[6] - ports[5] \in 1 .. step /\ next - ports[6] \in 1 .. step
  BY <1>1 DEF Climbs
<1> HIDE DEF value
<1> QED
  BY <1>2, <1>12, <1>13, <1>14, <1>15, PortsAssumption

\* port_predictor_punch observes every port that its six probes come back from.
LEMMA AllObserved ==
  ASSUME NEW n \in 0 .. Probes, NEW ports \in [1 .. n -> Int],
         \A k \in 1 .. n : Observable(ports[k])
  PROVE  Probed(ports) = ports
<1> DEFINE Turn(t, k) == IF ports[k] > 0 THEN Observed(t, ports[k]) ELSE t
           none == << >>
           F(t) == [k \in 0 .. n |-> IF k = 0 THEN none ELSE Turn(t[k - 1], k)]
           f == [k \in 0 .. n |-> [j \in 1 .. k |-> ports[j]]]
<1>1. n \in Nat /\ n <= 6 /\ Len(ports) = n
  BY DEF Probes
<1>2. Probed(ports) = (CHOOSE t : t = F(t))[n]
  <2> DEFINE probes == IF Len(ports) < Probes THEN Len(ports) ELSE Probes
  <2>1. Probed(ports) =
          (CHOOSE t : t = [k \in 0 .. probes |-> IF k = 0 THEN none ELSE Turn(t[k - 1], k)])[probes]
    BY DEF Probed
  <2>2. probes = n
    BY <1>1 DEF Probes
  <2> HIDE DEF probes
  <2> QED
    BY <2>1, <2>2
<1>3. f[0] = none
  OBVIOUS
<1>4. ASSUME NEW k \in 1 .. n
      PROVE  f[k] = Turn(f[k - 1], k)
  <2> DEFINE before == [j \in 1 .. k - 1 |-> ports[j]]
             after == [j \in 1 .. k |-> ports[j]]
  <2>1. f[k - 1] = before /\ f[k] = after
    BY <1>1
  <2>2. ports[k] > 0 /\ Observable(ports[k])
    BY PortsAssumption DEF Observable
  <2>3. before \in Seq(Int) /\ Len(before) = k - 1 /\ k - 1 \in Nat /\ k - 1 < Samples
    BY <1>1 DEF Samples
  <2>4. Append(before, ports[k]) = after
    <3>1. ports[k] \in Int /\ after \in Seq(Int) /\ Len(after) = k
      BY <1>1
    <3>2. \A j \in 1 .. k : after[j] = IF j = k THEN ports[k] ELSE before[j]
      BY <1>1
    <3> HIDE DEF before, after
    <3>3. /\ Append(before, ports[k]) \in Seq(Int) /\ Len(Append(before, ports[k])) = k
          /\ \A j \in 1 .. k : Append(before, ports[k])[j] = IF j = k THEN ports[k] ELSE before[j]
      BY <2>3, <3>1
    <3> QED
      BY <3>1, <3>2, <3>3, SeqEqual
  <2> HIDE DEF f, before, after
  <2> QED
    BY <2>1, <2>2, <2>3, <2>4 DEF Observed
<1> HIDE DEF Turn, none
<1>5. 0 \in 0 .. n /\ \A k \in 1 .. n : k \in 0 .. n /\ k # 0
  BY <1>1
<1>6. \A k \in 0 .. n : k # 0 => k \in 1 .. n
  BY <1>1
<1>7. f = [k \in 0 .. n |-> f[k]]
  OBVIOUS
<1> HIDE DEF f
<1>8. f = F(f)
  BY <1>3, <1>4, <1>6, <1>7
<1>9. ASSUME NEW t, t = F(t) PROVE t = f
  <2>1. t = [k \in 0 .. n |-> t[k]] /\ t[0] = none /\ \A k \in 1 .. n : t[k] = Turn(t[k - 1], k)
    BY <1>5, <1>9
  <2>2. InStep(t, f, n)
    BY <1>3, <1>4, <2>1 DEF InStep
  <2>3. \A k \in 0 .. n : t[k] = f[k]
    BY <1>1, <2>2, SameTurns
  <2> QED
    BY <1>7, <2>1, <2>3
<1> HIDE DEF F
<1>10. (CHOOSE t : t = F(t)) = f
  BY <1>8, <1>9
<1>11. f[n] = ports
  BY <1>1 DEF f
<1> QED
  BY <1>2, <1>10, <1>11

\* NextIsTried: after three to six ports of a NAT that goes up by step at most, the next is
\* among those port_predictor_punch tries, whichever pattern port_analyze_pattern sees,
\* whatever it rolls and rounds, and however near the end of the port range it is.
THEOREM NextTried ==
  ASSUME NEW n \in 3 .. 6, NEW ports \in [1 .. n -> Int], NEW next \in Int, NEW step \in Nat \ {0},
         4 * (step - 1) <= 3 * (Reach - 1)
  PROVE  NextIsTried(ports, next, step)
<1>1. Len(ports) = n /\ n >= 3 /\ n \in Nat /\ n \in 1 .. n /\ n \in 0 .. Probes
  BY DEF Probes
<1> SUFFICES ASSUME Walks(Append(ports, next), step), Observable(ports[1]), next <= MaxPort,
                    NEW tried \in Tried(ports, ports[n])
             PROVE  next \in tried
  BY <1>1 DEF NextIsTried
<1>2. \A k \in 1 .. n : ports[k] \in Int
  OBVIOUS
<1>3. Climbs(ports, next, step)
  <2> DEFINE all == Append(ports, next)
  <2>1. Len(all) = n + 1 /\ all[n + 1] = next /\ \A k \in 1 .. n : all[k] = ports[k]
    BY <1>1
  <2>2. Len(all) - 1 = n
    BY <1>1, <2>1
  <2>3. \A k \in 1 .. n : all[k + 1] - all[k] \in 1 .. step
    BY <2>2 DEF Walks
  <2> HIDE DEF all
  <2>4. \A k \in 1 .. n - 1 : all[k + 1] = ports[k + 1] /\ all[k] = ports[k] /\ k \in 1 .. n
    BY <1>1, <2>1
  <2> QED
    BY <1>1, <2>1, <2>3, <2>4 DEF Climbs
<1>4. \A k \in 1 .. n - 1 : ports[k + 1] - ports[k] \in 1 .. step
  BY <1>1, <1>3 DEF Climbs
<1>5. next - ports[n] \in 1 .. step
  BY <1>1, <1>3 DEF Climbs
<1>6. /\ 2 \in 1 .. n - 1 + 1 /\ 1 \in 1 .. n - 1 /\ 2 \in 1 .. n - 1
      /\ n >= 4 => 3 \in 1 .. n - 1
      /\ n >= 5 => 4 \in 1 .. n - 1
      /\ n >= 6 => 5 \in 1 .. n - 1
  OBVIOUS
<1>7. /\ ports[2] - ports[1] \in 1 .. step /\ ports[3] - ports[2] \in 1 .. step
      /\ n >= 4 => ports[4] - ports[3] \in 1 .. step
      /\ n >= 5 => ports[5] - ports[4] \in 1 .. step
      /\ n >= 6 => ports[6] - ports[5] \in 1 .. step
  BY <1>4, <1>6
<1>8. \A k \in 1 .. n : Observable(ports[k])
  <2>1. MinPort <= ports[1] /\ ports[1] \in Int /\ ports[2] \in Int /\ ports[3] \in Int
    BY <1>2 DEF Observable
  <2>2. (n >= 4 => ports[4] \in Int) /\ (n >= 5 => ports[5] \in Int) /\ (n >= 6 => ports[6] \in Int)
    BY <1>2
  <2>3. CASE n = 3
    <3>1. \A k \in 1 .. n : k = 1 \/ k = 2 \/ k = 3
      BY <2>3
    <3> QED
      BY <1>5, <1>7, <2>1, <2>3, <3>1, PortsAssumption DEF Observable
  <2>4. CASE n = 4
    <3>1. \A k \in 1 .. n : k = 1 \/ k = 2 \/ k = 3 \/ k = 4
      BY <2>4
    <3> QED
      BY <1>5, <1>7, <2>1, <2>2, <2>4, <3>1, PortsAssumption DEF Observable
  <2>5. CASE n = 5
    <3>1. \A k \in 1 .. n : k = 1 \/ k = 2 \/ k = 3 \/ k = 4 \/ k = 5
      BY <2>5
    <3> QED
      BY <1>5, <1>7, <2>1, <2>2, <2>5, <3>1, PortsAssumption DEF Observable
  <2>6. CASE n = 6
    <3>1. \A k \in 1 .. n : k = 1 \/ k = 2 \/ k = 3 \/ k = 4 \/ k = 5 \/ k = 6
      BY <2>6
    <3> QED
      BY <1>5, <1>7, <2>1, <2>2, <2>6, <3>1, PortsAssumption DEF Observable
  <2> QED
    BY <2>3, <2>4, <2>5, <2>6
<1>9. MinPort <= next /\ next <= MaxPort
  BY <1>1, <1>2, <1>5, <1>8, PortsAssumption DEF Observable
<1>10. Probed(ports) = ports
  BY <1>1, <1>8, AllObserved
<1>11. PICK port \in Predictions(ports) : tried = {port} \cup Scanned(port)
  BY <1>1, <1>10 DEF Tried
<1>12. ASSUME port \in Int, next - Reach <= port, port <= next + Reach
       PROVE  next \in Scanned(port)
  BY <1>9, <1>12, PortsAssumption DEF Scanned
<1>13. ASSUME NEW other \in Int, next - Reach <= other, other <= next + Reach, port = Clamped(other)
       PROVE  port \in Int /\ next - Reach <= port /\ port <= next + Reach
  BY <1>9, <1>13, PortsAssumption DEF Clamped
<1> DEFINE last == ports[n]
<1>14. last \in Int /\ next - last \in 1 .. step
  BY <1>1, <1>2, <1>5
<1> HIDE DEF last
<1>15. CASE Sequential(ports)
  <2>1. Steps(ports) = [k \in 1 .. n - 1 |-> ports[k + 1] - ports[k]]
    BY <1>1 DEF Steps
  <2>2. Steps(ports)[1] \in 1 .. step
    BY <1>1, <1>7, <2>1
  <2>3. port = last + Steps(ports)[1]
    BY <1>1, <1>15 DEF Predictions, last
  <2> HIDE DEF last
  <2>4. port \in Int /\ next - Reach <= port /\ port <= next + Reach
    BY <1>14, <2>2, <2>3, PortsAssumption
  <2> QED
    BY <1>11, <1>12, <2>4
<1>16. CASE ~Sequential(ports) /\ Evens(ports) > 2 * Odds(ports)
  <2>1. port = last - (last % 2) + 2
    BY <1>1, <1>16 DEF Predictions, last
  <2>2. last % 2 \in 0 .. 1
    BY <1>14
  <2>3. port \in Int /\ next - Reach <= port /\ port <= next + Reach
    BY <1>14, <2>1, <2>2, PortsAssumption
  <2> QED
    BY <1>11, <1>12, <2>3
<1>17. CASE /\ ~Sequential(ports) /\ ~(Evens(ports) > 2 * Odds(ports))
            /\ Odds(ports) > 2 * Evens(ports)
  <2>1. port = last - (last % 2) + 3
    BY <1>1, <1>17 DEF Predictions, last
  <2>2. last % 2 \in 0 .. 1
    BY <1>14
  <2>3. port \in Int /\ next - Reach <= port /\ port <= next + Reach
    BY <1>14, <2>1, <2>2, PortsAssumption
  <2> QED
    BY <1>11, <1>12, <2>3
<1>18. CASE /\ ~Sequential(ports) /\ ~(Evens(ports) > 2 * Odds(ports))
            /\ ~(Odds(ports) > 2 * Evens(ports))
            /\ Len(ports) >= 4 /\ Rising(ports)
  <2>1. PICK other \in NextOnLine(ports) : port = Clamped(other)
    BY <1>1, <1>18 DEF Predictions
  <2>2. other \in next - Reach .. next + Reach
    <3>1. CASE n = 4
      BY <1>3, <3>1, LineOfFour
    <3>2. CASE n = 5
      BY <1>3, <3>2, LineOfFive
    <3>3. CASE n = 6
      BY <1>3, <3>3, LineOfSix
    <3>4. n = 4 \/ n = 5 \/ n = 6
      BY <1>1, <1>18
    <3> QED
      BY <3>1, <3>2, <3>3, <3>4
  <2>3. other \in Int /\ next - Reach <= other /\ other <= next + Reach
    BY <2>2, PortsAssumption
  <2> QED
    BY <1>11, <1>12, <1>13, <2>1, <2>3
<1>19. CASE /\ ~Sequential(ports) /\ ~(Evens(ports) > 2 * Odds(ports))
            /\ ~(Odds(ports) > 2 * Evens(ports))
            /\ ~(Len(ports) >= 4 /\ Rising(ports))
  <2>1. PICK other \in last + 1 .. last + 5 : port = IF other > MaxPort THEN MaxPort ELSE other
    BY <1>1, <1>19 DEF Predictions, last
  <2>2. port \in Int /\ next - Reach <= port /\ port <= next + Reach
    BY <1>9, <1>14, <2>1, PortsAssumption
  <2> QED
    BY <1>11, <1>12, <2>2
<1> QED
  BY <1>15, <1>16, <1>17, <1>18, <1>19

\* The largest of the strides.
LEMMA Largest ==
  Max(Strides) \in Strides /\ \A stride \in Strides : stride <= Max(Strides)
<1> DEFINE bound == 3 * Reach
           T == {k \in Nat : bound - k \in Strides}
<1>1. bound \in Nat /\ \A stride \in Strides : stride \in Nat /\ stride <= bound
  BY PortsAssumption, StridesAssumption
<1> HIDE DEF bound
<1>2. \A stride \in Strides : bound - stride \in T
  BY <1>1
<1>3. PICK m \in T : \A k \in T : m <= k
  <2> HIDE DEF T
  <2>1. T # {} /\ T \in SUBSET Nat
    BY <1>2, StridesAssumption DEF T
  <2> QED
    BY <2>1, Least
<1>4. bound - m \in Strides /\ m \in Nat
  OBVIOUS
<1>5. \A stride \in Strides : bound - m >= stride
  BY <1>1, <1>2, <1>3
<1> QED
  BY <1>1, <1>4, <1>5 DEF Max

\* What NextPortIsTried says of one walk of the NAT.
Foreseen(first, steps, seen) ==
  NextIsTried([k \in 1 .. seen |-> Walk(first, steps, k)],
              Walk(first, steps, seen + 1), Max(Strides))

\* While an attempt to connect is computed, the next port of every walk of the NAT is among
\* those tried: NextPortIsTried, for every range of ports, every reach and every set of strides
\* that suits it.
THEOREM NextPort == Spec => []NextPortIsTried
<1>1. Max(Strides) \in Nat \ {0} /\ 4 * (Max(Strides) - 1) <= 3 * (Reach - 1)
  BY Largest, StridesAssumption
<1>2. Strides \subseteq Int
  BY StridesAssumption
<1>3. ASSUME NEW first \in Int, NEW n \in 3 .. 6, NEW steps \in [1 .. n -> Strides]
      PROVE  Foreseen(first, steps, n)
  <2>1. ASSUME NEW k \in 1 .. n + 1
        PROVE  Walk(first, steps, k) \in Int
    <3> DEFINE s == [j \in 1 .. k - 1 |-> steps[j]]
    <3>1. k - 1 \in Nat /\ \A j \in 1 .. k - 1 : j \in 1 .. n
      OBVIOUS
    <3>2. s \in [1 .. k - 1 -> Int]
      BY <1>2, <3>1
    <3> HIDE DEF s
    <3>3. Sum(s) \in Int
      BY <3>1, <3>2, SumOfFew DEF Sums
    <3> QED
      BY <3>3 DEF Walk, s
  <2>2. n + 1 \in 1 .. n + 1 /\ \A k \in 1 .. n : k \in 1 .. n + 1
    OBVIOUS
  <2> DEFINE ports == [k \in 1 .. n |-> Walk(first, steps, k)]
             next == Walk(first, steps, n + 1)
  <2>3. ports \in [1 .. n -> Int] /\ next \in Int
    BY <2>1, <2>2
  <2> HIDE DEF ports, next
  <2>4. NextIsTried(ports, next, Max(Strides))
    BY <1>1, <2>3, NextTried
  <2> QED
    BY <2>4 DEF ports, next, Foreseen
<1>4. ASSUME NEW first \in FirstPorts PROVE first \in Int
  BY PortsAssumption DEF FirstPorts
<1>5. \A first \in FirstPorts, seen \in 3 .. 6 :
        \A steps \in [1 .. seen -> Strides] : Foreseen(first, steps, seen)
  BY <1>3, <1>4
<1>6. NextPortIsTried
  BY <1>5, Zenon DEF NextPortIsTried, Foreseen
<1> QED
  BY <1>6, PTL

----------------------------------------------------------------------------
(* NatClassifier.                                                           *)

\* What counts as an answer is a list of datagrams that came.
LEMMA ReceivedIs ==
  ASSUME NEW D, NEW arrivals \in Seq(D)
  PROVE  Received(arrivals) \in Seq(D)
<1> DEFINE L == Seq(D)
           waits == IF Len(arrivals) < 12 THEN Len(arrivals) ELSE 12
           Turn(t, k) == IF Valid(arrivals[k]) /\ Len(t) < 6 THEN Append(t, arrivals[k]) ELSE t
           F(t) == [k \in 0 .. waits |-> IF k = 0 THEN << >> ELSE Turn(t[k - 1], k)]
           g == [t \in L |-> [k \in Nat |-> IF k \in 1 .. waits THEN Turn(t, k) ELSE << >>]]
<1>1. waits \in Nat /\ waits <= Len(arrivals) /\ << >> \in L
  OBVIOUS
<1>2. ASSUME NEW t \in L, NEW k \in 1 .. waits PROVE Turn(t, k) \in L
  BY <1>1
<1>3. Received(arrivals) = (CHOOSE t : t = F(t))[waits]
  BY DEF Received
<1> HIDE DEF Turn, waits, L
<1>4. g \in [L -> [Nat -> L]] /\ \A t \in L, k \in 1 .. waits : g[t][k] = Turn(t, k)
  BY <1>1, <1>2
<1>5. ASSUME NEW t
      PROVE  t = F(t) <=> /\ t = [k \in 0 .. waits |-> t[k]] /\ t[0] = << >>
                          /\ \A k \in 1 .. waits : t[k] = Turn(t[k - 1], k)
  BY <1>1
<1> HIDE DEF g, F
<1>6. PICK f : Computes(f, L, << >>, g, waits)
  BY <1>1, <1>4, Recursion
<1>7. /\ f \in [0 .. waits -> L] /\ f[0] = << >>
      /\ \A k \in 1 .. waits : k - 1 \in 0 .. waits /\ f[k] = Turn(f[k - 1], k)
  <2>1. f \in [0 .. waits -> L] /\ f[0] = << >> /\ \A k \in 1 .. waits : f[k] = g[f[k - 1]][k]
    BY <1>6 DEF Computes
  <2>2. \A k \in 1 .. waits : k - 1 \in 0 .. waits
    BY <1>1
  <2>3. \A k \in 1 .. waits : f[k - 1] \in L
    BY <2>1, <2>2
  <2> QED
    BY <1>4, <2>1, <2>2, <2>3
<1>8. f = F(f)
  BY <1>5, <1>7
<1>9. ASSUME NEW t, t = F(t) PROVE t = f
  <2>1. t = [k \in 0 .. waits |-> t[k]] /\ t[0] = << >>
    BY <1>5, <1>9
  <2>2. \A k \in 1 .. waits : t[k - 1] \in L => t[k] = g[t[k - 1]][k]
    BY <1>4, <1>5, <1>9
  <2>3. Follows(t, L, << >>, g, waits)
    BY <2>1, <2>2 DEF Follows
  <2>4. waits \in Nat
    BY <1>1
  <2> QED
    BY <1>6, <2>3, <2>4, OnlyOne
<1>10. (CHOOSE t : t = F(t)) = f
  BY <1>8, <1>9
<1>11. f[waits] \in L
  BY <1>1, <1>7
<1> QED
  BY <1>3, <1>10, <1>11 DEF L

\* Counting what differs from the first tells one value from several.
OneOrMany(v, n) ==
  LET all == {v[k] : k \in 1 .. n}
      others == {k \in 2 .. n : v[k] # v[1]}
  IN  /\ Cardinality(others) \in Nat
      /\ Cardinality(all) \in Nat
      /\ Cardinality(others) = 0 => Cardinality(all) = 1
      /\ Cardinality(others) # 0 => Cardinality(all) > 1

\* It does for any values.
LEMMA ManyOrOne ==
  ASSUME NEW n \in Nat, n >= 1, NEW v
  PROVE  OneOrMany(v, n)
<1> DEFINE all == {v[k] : k \in 1 .. n}
           others == {k \in 2 .. n : v[k] # v[1]}
<1>1. IsFiniteSet(others) /\ Cardinality(others) \in Nat
  <2>1. others \in SUBSET (2 .. n) /\ IsFiniteSet(2 .. n)
    BY FS_Interval
  <2> HIDE DEF others
  <2> QED
    BY <2>1, FS_Subset, FS_CardinalityType
<1>2. IsFiniteSet(all) /\ Cardinality(all) \in Nat
  <2> DEFINE w == [k \in 1 .. n |-> v[k]]
  <2>1. w \in Surjection(1 .. n, all) /\ IsFiniteSet(1 .. n)
    <3>1. w \in [1 .. n -> all] /\ \A x \in all : \E k \in 1 .. n : w[k] = x
      OBVIOUS
    <3>2. IsFiniteSet(1 .. n)
      BY FS_Interval
    <3> HIDE DEF all, w
    <3> QED
      BY <3>1, <3>2 DEF Surjection
  <2> HIDE DEF all, w
  <2> QED
    BY <2>1, FS_Surjection, FS_CardinalityType
<1>3. CASE others = {}
  <2>1. all = {v[1]}
    BY <1>3
  <2>2. Cardinality({v[1]}) = 1 /\ Cardinality({}) = 0
    BY FS_Singleton, FS_EmptySet
  <2> QED
    BY <1>1, <1>2, <1>3, <2>1, <2>2 DEF OneOrMany
<1>4. CASE others # {}
  <2>1. PICK k \in 2 .. n : v[k] # v[1]
    BY <1>4
  <2>2. v[k] \in all /\ v[1] \in all
    OBVIOUS
  <2>3. Cardinality(all) # 0 /\ Cardinality(all) # 1
    <3> HIDE DEF all, others
    <3>1. Cardinality(all) = 0 <=> all = {}
      BY <1>2, FS_EmptySet
    <3>2. Cardinality(all) = 1 <=> \E x : all = {x}
      BY <1>2, FS_Singleton
    <3> QED
      BY <2>1, <2>2, <3>1, <3>2
  <2>4. Cardinality(others) # 0
    BY <1>1, <1>4, FS_EmptySet
  <2>5. Cardinality(all) > 1
    <3> HIDE DEF all, others
    <3> QED
      BY <1>2, <2>3
  <2> QED
    BY <1>1, <1>2, <2>4, <2>5 DEF OneOrMany
<1> QED
  BY <1>3, <1>4

\* OrderIrrelevant: however many datagrams come, of whatever kind and in whatever order, the
\* verdict of nat_classify_via_dht is by the set of addresses and ports that answered, not by
\* which of them was the first.
THEOREM AnyOrder ==
  ASSUME NEW D, NEW arrivals \in Seq(D), NEW echo, NEW gateway
  PROVE  OrderIrrelevant(arrivals, echo, gateway)
<1> DEFINE responses == Received(arrivals)
           n == Len(responses)
           ips == [k \in 1 .. n |-> responses[k].ip]
           ports == [k \in 1 .. n |-> responses[k].port]
<1> SUFFICES ASSUME n >= 2
             PROVE  OrderIrrelevant(arrivals, echo, gateway)
  BY DEF OrderIrrelevant
<1>1. responses \in Seq(D) /\ n \in Nat /\ DOMAIN responses = 1 .. n
  BY ReceivedIs
<1> HIDE DEF responses, n
<1>2. \A k \in 1 .. n : ips[k] = responses[k].ip /\ ports[k] = responses[k].port
  OBVIOUS
<1>3. /\ {ips[k] : k \in 1 .. n} = {responses[k].ip : k \in DOMAIN responses}
      /\ {ports[k] : k \in 1 .. n} = {responses[k].port : k \in DOMAIN responses}
  BY <1>1
<1>4. /\ {k \in 2 .. n : ips[k] # ips[1]} = {k \in 2 .. n : responses[k].ip # responses[1].ip}
      /\ {k \in 2 .. n : ports[k] # ports[1]}
           = {k \in 2 .. n : responses[k].port # responses[1].port}
  BY <1>1
<1> HIDE DEF ips, ports
<1>5. OneOrMany(ips, n) /\ OneOrMany(ports, n)
  BY <1>1, ManyOrOne
<1>6. ViaDht(TRUE, 3, arrivals, echo, gateway) = Analysis(responses)
  BY DEF ViaDht, responses, n
<1> DEFINE allIps == {responses[k].ip : k \in DOMAIN responses}
           allPorts == {responses[k].port : k \in DOMAIN responses}
<1>7. OrderIrrelevant(arrivals, echo, gateway) <=>
        Analysis(responses) =
          CASE Cardinality(allIps) = 1 /\ Cardinality(allPorts) = 1 -> "FULL_CONE"
            [] Cardinality(allIps) > 1 /\ Cardinality(allPorts) = 1 -> "RESTRICTED_CONE"
            [] Cardinality(allIps) = 1 /\ Cardinality(allPorts) > 1 -> "PORT_RESTRICTED"
            [] Cardinality(allIps) > 1 /\ Cardinality(allPorts) > 1 -> "SYMMETRIC"
  BY <1>6 DEF OrderIrrelevant, responses, n
<1>8. /\ IpChanges(responses) = Cardinality({k \in 2 .. n : ips[k] # ips[1]})
      /\ PortChanges(responses) = Cardinality({k \in 2 .. n : ports[k] # ports[1]})
      /\ allIps = {ips[k] : k \in 1 .. n} /\ allPorts = {ports[k] : k \in 1 .. n}
  BY <1>3, <1>4, Zenon DEF IpChanges, PortChanges, n
<1> HIDE DEF allIps, allPorts
<1>9. /\ IpChanges(responses) \in Nat /\ PortChanges(responses) \in Nat
      /\ Cardinality(allIps) \in Nat /\ Cardinality(allPorts) \in Nat
      /\ IpChanges(responses) = 0 => Cardinality(allIps) = 1
      /\ IpChanges(responses) # 0 => Cardinality(allIps) > 1
      /\ PortChanges(responses) = 0 => Cardinality(allPorts) = 1
      /\ PortChanges(responses) # 0 => Cardinality(allPorts) > 1
  BY <1>5, <1>8, Zenon DEF OneOrMany
<1> QED
  BY <1>7, <1>9 DEF Analysis

\* ConfidenceIsEarned: nat_classify_combined is ninety percent sure only with two signs of a
\* gateway, and says it detected a type just when there was a sign of one.
THEOREM Earned ==
  ASSUME NEW g \in [1 .. 4 -> Searches], NEW e \in [1 .. 2 -> Echoes]
  PROVE  ConfidenceIsEarned(g, e)
<1> DEFINE dht == ViaIcmp(e[1], g[2])
           upnp == ViaUpnp(g[3])
           icmp == ViaIcmp(e[2], g[4])
<1>1. ViaDht(FALSE, 0, << >>, e[1], g[2]) = dht
  BY DEF ViaDht
<1>2. /\ upnp = IF g[3] = "OK" THEN "FULL_CONE" ELSE "UNKNOWN"
      /\ HasUpnp(g[1]) <=> g[1] = "OK"
  BY DEF ViaUpnp, HasUpnp
<1>3. Combined(g, e) = Decided(HasUpnp(g[1]), dht, upnp, icmp)
  BY <1>1 DEF Combined
<1> HIDE DEF dht, upnp, icmp
<1>4. ASSUME NEW type, NEW via, NEW confidence, Combined(g, e) = Result(type, via, confidence)
      PROVE  /\ Combined(g, e).confidence = confidence
             /\ Combined(g, e).detected = (type # "UNKNOWN")
  BY <1>4 DEF Result
<1> DEFINE result == Combined(g, e)
<1>5. ConfidenceIsEarned(g, e) <=>
        /\ result.confidence = 90 => g[1] = "OK" /\ g[3] = "OK"
        /\ result.detected <=> (g[1] = "OK" /\ g[3] = "OK") \/ dht # "UNKNOWN" \/ icmp # "UNKNOWN"
  BY DEF ConfidenceIsEarned, dht, icmp
<1>6. CASE g[1] = "OK" /\ g[3] = "OK"
  <2>1. result = Result("FULL_CONE", "UPnP", 90)
    BY <1>2, <1>3, <1>6 DEF Decided
  <2>2. result.confidence = 90 /\ result.detected = TRUE
    <3>1. PICK type : type = "FULL_CONE"
      OBVIOUS
    <3>2. type # "UNKNOWN" /\ result = Result(type, "UPnP", 90)
      BY <2>1, <3>1
    <3>3. Combined(g, e).confidence = 90
      BY <1>4, <3>2
    <3>4. Combined(g, e).detected = (type # "UNKNOWN")
      BY <1>4, <3>2
    <3> QED
      BY <3>2, <3>3, <3>4
  <2> QED
    BY <1>5, <1>6, <2>2
<1>7. CASE ~(g[1] = "OK" /\ g[3] = "OK") /\ dht # "UNKNOWN"
  <2>1. result = Result(dht, "DHT", 70)
    BY <1>2, <1>3, <1>7 DEF Decided
  <2>2. result.confidence = 70 /\ result.detected = TRUE
    BY <1>4, <1>7, <2>1
  <2> QED
    BY <1>5, <1>7, <2>2
<1>8. CASE ~(g[1] = "OK" /\ g[3] = "OK") /\ dht = "UNKNOWN" /\ icmp # "UNKNOWN"
  <2>1. result = Result(icmp, "ICMP", 50)
    BY <1>2, <1>3, <1>8 DEF Decided
  <2>2. result.confidence = 50 /\ result.detected = TRUE
    BY <1>4, <1>8, <2>1
  <2> QED
    BY <1>5, <1>8, <2>2
<1>9. CASE ~(g[1] = "OK" /\ g[3] = "OK") /\ dht = "UNKNOWN" /\ icmp = "UNKNOWN"
  <2>1. result = Result("UNKNOWN", "NONE", 0)
    BY <1>2, <1>3, <1>9 DEF Decided
  <2>2. result.confidence = 0 /\ result.detected = FALSE
    BY <1>4, <1>9, <2>1
  <2> QED
    BY <1>5, <1>9, <2>2
<1> QED
  BY <1>6, <1>7, <1>8, <1>9

\* While an attempt to connect is computed, the verdicts about the NAT are earned:
\* VerdictsAreEarned, whatever the probes bring back.
THEOREM Verdicts == Spec => []VerdictsAreEarned
<1>1. ASSUME NEW n \in 0 .. 4, NEW arrivals \in [1 .. n -> Datagrams]
      PROVE  arrivals \in Seq(Datagrams)
  OBVIOUS
<1>2. VerdictsAreEarned
  BY <1>1, AnyOrder, Earned DEF VerdictsAreEarned
<1> QED
  BY <1>2, PTL
==============================================================================
