------------------------------ MODULE Strategies -----------------------------
(***************************************************************************)
(* strategy_selector.c: which ways of reaching a peer suit the NATs of the *)
(* two ends, and in which order they are tried.                            *)
(***************************************************************************)
EXTENDS Integers, Sequences, SequencesExt

NatTypes == {"UNKNOWN", "FULL_CONE", "RESTRICTED_CONE", "PORT_RESTRICTED", "SYMMETRIC"}

\* The fields of PeerProfile that are read.
Profiles == [nat_type : NatTypes, has_ipv6 : BOOLEAN, has_upnp : BOOLEAN,
             has_relay : BOOLEAN]

\* g_strategy_info: the types with their priorities; the first is STRATEGY_NONE.
Info == <<[type |-> "NONE", priority |-> 99],
          [type |-> "IPV6_DIRECT", priority |-> 1],
          [type |-> "UPNP", priority |-> 2],
          [type |-> "UDP_PUNCH", priority |-> 3],
          [type |-> "TTL_PUNCH", priority |-> 4],
          [type |-> "SIMULTANEOUS_OPEN", priority |-> 5],
          [type |-> "PORT_PREDICTION", priority |-> 6],
          [type |-> "TCP_PUNCH", priority |-> 7],
          [type |-> "FRIEND_RELAY", priority |-> 8],
          [type |-> "TURN_RELAY", priority |-> 9],
          [type |-> "MANUAL_PORT", priority |-> 10]>>

Types == {Info[k].type : k \in DOMAIN Info}

Priority(type) == (CHOOSE info \in Range(Info) : info.type = type).priority

Restricted(profile) == profile.nat_type \in {"RESTRICTED_CONE", "PORT_RESTRICTED"}
Symmetric(profile) == profile.nat_type = "SYMMETRIC"

\* A slip: port prediction is for the remote end's NAT only.
PredictionHelpsThem(local, remote) == Symmetric(remote)
PredictionHelps(local, remote) == Symmetric(local) \/ Symmetric(remote)

Applicable(type, local, remote) ==
  CASE type = "IPV6_DIRECT" -> local.has_ipv6 /\ remote.has_ipv6
    [] type = "UPNP" -> local.has_upnp /\ remote.has_upnp
    [] type = "UDP_PUNCH" -> ~(Symmetric(local) /\ Symmetric(remote))
    [] type = "SIMULTANEOUS_OPEN" -> Restricted(local) \/ Restricted(remote)
    [] type = "PORT_PREDICTION" -> PredictionHelps(local, remote)
    [] type = "TCP_PUNCH" -> ~Symmetric(local) /\ ~Symmetric(remote)
    [] type = "FRIEND_RELAY" -> local.has_relay \/ remote.has_relay
    [] type \in {"TTL_PUNCH", "TURN_RELAY", "MANUAL_PORT"} -> TRUE
    [] type = "NONE" -> FALSE

\* The inner loop of strategy_filter, over the table but for its first entry.
Added(list, priority, applicable) ==
  LET added[i \in 0 .. Len(Info) - 1] ==
        IF i = 0 THEN list
        ELSE IF Info[i + 1].priority = priority /\ Info[i + 1].type \in applicable
             THEN Append(added[i - 1], Info[i + 1].type)
             ELSE added[i - 1]
  IN  added[Len(Info) - 1]

Selected(applicable) ==
  LET selected[priority \in 0 .. 10] ==
        IF priority = 0 THEN << >> ELSE Added(selected[priority - 1], priority, applicable)
  IN  selected[10]

Filter(local, remote) == Selected({type \in Types : Applicable(type, local, remote)})

\* strategy_sort_by_priority, a bubble sort.
Exchanged(list, j) ==
  IF Priority(list[j]) > Priority(list[j + 1])
  THEN [list EXCEPT ![j] = list[j + 1], ![j + 1] = list[j]] ELSE list

Round(list, i) ==
  LET bubbled[j \in 0 .. Len(list) - i] ==
        IF j = 0 THEN list ELSE Exchanged(bubbled[j - 1], j)
  IN  bubbled[Len(list) - i]

Sort(list) ==
  LET sorted[i \in 0 .. Len(list) - 1] ==
        IF i = 0 THEN list ELSE Round(sorted[i - 1], i)
  IN  IF Len(list) <= 1 THEN list ELSE sorted[Len(list) - 1]

\* Both ends, each with its own profile as the local one, choose the same
\* strategies in the same order, or neither would be heard by the other: the
\* punching ones need both.
EndsAgree(one, other) == Filter(one, other) = Filter(other, one)

\* The list strategy_filter makes is the one strategy_sort_by_priority would
\* make of the applicable strategies, in whatever order they come.
SortsToFilter(list, local, remote) ==
  Range(list) = {type \in Types : Applicable(type, local, remote)} /\ IsInjective(list)
    => Sort(list) = Filter(local, remote)
==============================================================================
