----------------------------- MODULE NatClassifier ---------------------------
(***************************************************************************)
(* nat_classifier.c: the kind of NAT, guessed from what probes bring back. *)
(*                                                                         *)
(* What a probe meets is a parameter: the nodes the DHT knows, what comes  *)
(* in after the UDP probes, the fate of an ICMP echo and of a search for a *)
(* UPnP gateway.  Every call probes anew and may meet something else.      *)
(***************************************************************************)
EXTENDS Integers, Sequences, FiniteSets, SequencesExt

\* What becomes of an ICMP echo: it needs a raw socket, and may not be sent.
Echoes == {"NO_SOCKET", "NOT_SENT", "SILENCE", "OTHER", "REPLY"}

\* What becomes of a search for a gateway: its port may be taken, and the first
\* datagram that comes need not be the answer.
Searches == {"NO_SOCKET", "SILENCE", "OTHER", "OK"}

\* nat_has_upnp
HasUpnp(gateway) == gateway = "OK"

ViaUpnp(gateway) == IF HasUpnp(gateway) THEN "FULL_CONE" ELSE "UNKNOWN"

\* No socket and no packet: the gateway is asked instead.
ViaIcmp(echo, gateway) ==
  CASE echo \in {"NO_SOCKET", "NOT_SENT"} -> ViaUpnp(gateway)
    [] echo = "REPLY" -> "FULL_CONE"
    [] echo \in {"SILENCE", "OTHER"} -> "SYMMETRIC"

\* A slip: the second answer is not compared.
PortChangesFromThird(responses) ==
  Cardinality({k \in 3 .. Len(responses) : responses[k].port # responses[1].port})

\* How many answers came from another port, and another address, than the first.
PortChanges(responses) ==
  Cardinality({k \in 2 .. Len(responses) : responses[k].port # responses[1].port})
IpChanges(responses) ==
  Cardinality({k \in 2 .. Len(responses) : responses[k].ip # responses[1].ip})

Analysis(responses) ==
  LET ports == PortChanges(responses)
      ips == IpChanges(responses)
  IN  CASE ports = 0 /\ ips = 0 -> "FULL_CONE"
        [] ports = 0 /\ ips > 0 -> "RESTRICTED_CONE"
        [] ports > 0 /\ ips = 0 -> "PORT_RESTRICTED"
        [] ports > 0 /\ ips > 0 -> "SYMMETRIC"
        [] OTHER -> "UNKNOWN"

\* receive_probe_response: what is too short, of another program or itself a probe is
\* no answer.
Texts == {"SHORT", "FOREIGN", "PROBE", "RESPONSE"}
Valid(datagram) == datagram.text = "RESPONSE"

\* Twelve times a datagram is waited for, until there are six valid ones.
Received(arrivals) ==
  LET waits == IF Len(arrivals) < 12 THEN Len(arrivals) ELSE 12
      responses[i \in 0 .. waits] ==
        IF i = 0 THEN << >>
        ELSE IF Valid(arrivals[i]) /\ Len(responses[i - 1]) < 6
             THEN Append(responses[i - 1], arrivals[i])
             ELSE responses[i - 1]
  IN  responses[waits]

\* nat_classify_via_dht: node says whether there is a DHT node, a socket for the
\* probes and an answer from the DHT, and nodes how many it knows.
ViaDht(node, nodes, arrivals, echo, gateway) ==
  IF node /\ nodes >= 3 /\ Len(Received(arrivals)) >= 2
  THEN Analysis(Received(arrivals))
  ELSE ViaIcmp(echo, gateway)

Result(type, via, confidence) ==
  [type |-> type, detected_via |-> via, confidence |-> confidence,
   detected |-> type # "UNKNOWN"]

\* What the three verdicts and the first look for a gateway come to.
Decided(has_upnp, dht, upnp, icmp) ==
  LET by_upnp == upnp = "FULL_CONE" /\ has_upnp
  IN  CASE by_upnp -> Result(upnp, "UPnP", 90)
        [] ~by_upnp /\ dht # "UNKNOWN" -> Result(dht, "DHT", 70)
        [] ~by_upnp /\ dht = "UNKNOWN" /\ icmp # "UNKNOWN" -> Result(icmp, "ICMP", 50)
        [] OTHER -> Result("UNKNOWN", "NONE", 0)

\* nat_classify_combined asks for the gateway first, and again by each of the three
\* calls that need it; it has no DHT node to give, so that the call by the name of the
\* DHT is an ICMP echo.  g and e are what the probes meet, in the order they are made.
Combined(g, e) ==
  Decided(HasUpnp(g[1]), ViaDht(FALSE, 0, << >>, e[1], g[2]), ViaUpnp(g[3]), ViaIcmp(e[2], g[4]))

\* The answers come in any order: the verdict is by the addresses they came from, not
\* by which of them was the first.
OrderIrrelevant(arrivals, echo, gateway) ==
  LET responses == Received(arrivals)
      ips == {responses[k].ip : k \in DOMAIN responses}
      ports == {responses[k].port : k \in DOMAIN responses}
  IN  Len(responses) >= 2 =>
        ViaDht(TRUE, 3, arrivals, echo, gateway) =
          CASE Cardinality(ips) = 1 /\ Cardinality(ports) = 1 -> "FULL_CONE"
            [] Cardinality(ips) > 1 /\ Cardinality(ports) = 1 -> "RESTRICTED_CONE"
            [] Cardinality(ips) = 1 /\ Cardinality(ports) > 1 -> "PORT_RESTRICTED"
            [] Cardinality(ips) > 1 /\ Cardinality(ports) > 1 -> "SYMMETRIC"

\* A gateway that comes and goes between the probes does not make a confident verdict:
\* ninety percent need two that found it, and only no sign of anything at all leaves
\* the type unknown.
ConfidenceIsEarned(g, e) ==
  LET result == Combined(g, e)
  IN  /\ result.confidence = 90 => g[1] = "OK" /\ g[3] = "OK"
      /\ result.detected <=> \/ g[1] = "OK" /\ g[3] = "OK"
                             \/ ViaIcmp(e[1], g[2]) # "UNKNOWN"
                             \/ ViaIcmp(e[2], g[4]) # "UNKNOWN"
==============================================================================
