-------------------------- MODULE MCParallelRunner ---------------------------
(* An attempt to connect: what is computed before parallel_run is called,   *)
(* with inputs around their boundaries, and the run of the strategies that  *)
(* were chosen: three, the last a stub, for strategy_filter always puts two *)
(* stubs behind those that work.                                            *)
EXTENDS ParallelRunner, MixedId, Strategies, PortPrediction, NatClassifier, FiniteSetsExt

CONSTANTS Strides \* how far apart two successive mappings of the NAT may be

\* A line through four to six ports, each up to stride above the one before it, is off
\* by four thirds of stride - 1 at most, and one for the float and the rounding.
ASSUME StridesAssumption ==
  /\ Strides # {}
  /\ \A stride \in Strides : stride \in Nat \ {0} /\ 4 * (stride - 1) <= 3 * (Reach - 1)

\* Ids, octets and ports at the ends of their ranges, and a little beyond.
IdsMC == {0, 1, 255, 256, 999, 1000}
PortsMC == {0, 1, 9000, 65535, 65536}
OctetsMC == {0, 1, 168, 255, 256}
IpsMC == [1 .. 4 -> OctetsMC]

Computing == pc = "call"

\* RoundTrips, of every peer named.
MixedIdsRoundTrip ==
  Computing => \A id \in IdsMC, ip \in IpsMC, port \in PortsMC : RoundTrips(id, ip, port)

\* EndsAgree, and SortsToFilter of a list turned round and of one with its halves
\* exchanged.
StrategiesAgree ==
  Computing => \A local, remote \in Profiles :
    LET list == Filter(local, remote)
        half == Len(list) \div 2
    IN  /\ EndsAgree(local, remote)
        /\ SortsToFilter(Reverse(list), local, remote)
        /\ SortsToFilter(SubSeq(list, half, Len(list)) \o SubSeq(list, 1, half - 1),
                         local, remote)

\* The first port a NAT gives: near an end of the port range, or between the two.
FirstPorts == {MinPort, MinPort + 1, 40000, MaxPort - 20, MaxPort - 7}

\* The port it gives for the k-th time.
Walk(first, steps, k) == first + Sum([j \in 1 .. k - 1 |-> steps[j]])

\* NextIsTried, after three to six observations of every walk of the NAT.
NextPortIsTried ==
  Computing => \A first \in FirstPorts, seen \in 3 .. 6 :
    \A steps \in [1 .. seen -> Strides] :
      Walk(first, steps, seen) <= MaxPort
        => NextIsTried([k \in 1 .. seen |-> Walk(first, steps, k)],
                       Walk(first, steps, seen + 1), Max(Strides))

Datagrams == [ip : {"i", "j"}, port : {1, 2}, text : {"RESPONSE"}]
               \cup [ip : {"j"}, port : {3}, text : Texts \ {"RESPONSE"}]

\* OrderIrrelevant and ConfidenceIsEarned, whatever the probes bring back.
VerdictsAreEarned ==
  Computing =>
  /\ \A n \in 0 .. 4 : \A arrivals \in [1 .. n -> Datagrams] :
       OrderIrrelevant(arrivals, "SILENCE", FALSE)
  /\ \A gateways \in [1 .. 4 -> Searches], echoes \in [1 .. 2 -> Echoes] :
       ConfidenceIsEarned(gateways, echoes)
==============================================================================
