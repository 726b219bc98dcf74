------------------------------- MODULE MixedId -------------------------------
(***************************************************************************)
(* mixed_id.c: an id, an IPv4 address and a port written as one dotted     *)
(* text, and the guess what a text a user typed is.                        *)
(*                                                                         *)
(* A text is the sequence of its dotted numbers: <<255>> is "255" and      *)
(* <<255, 49320, 258, 9000>> is "255.49320.258.9000".  Texts with anything *)
(* but digits and dots in them are left out.                               *)
(***************************************************************************)
EXTENDS Integers, Sequences

Octets == 0 .. 255

\* An address that inet_pton accepts.
IsIp(text) == Len(text) = 4 /\ \A k \in 1 .. 4 : text[k] \in Octets

IdInRange(id) == 0 < id /\ id <= 999
PortInRange(port) == 0 < port /\ port <= 65535

\* What a call that returns -1 leaves.
Invalid == [id |-> 0, ip |-> << >>, port |-> 0]

\* A slip: the octets of a pair change places.
PairSwapped(high, low) == (low * 256 + high) % 65536

\* Two octets in a uint16_t, and back.
Pair(high, low) == (high * 256 + low) % 65536
High(pair) == pair \div 256
Low(pair) == pair % 256

\* The port is not looked at.
Encode(id, ip, port) ==
  IF IsIp(ip) /\ IdInRange(id)
  THEN <<id, Pair(ip[1], ip[2]), Pair(ip[3], ip[4]), port>>
  ELSE << >>

ExtractId(text) == text[1]
ExtractIp(text) == <<High(text[2]), Low(text[2]), High(text[3]), Low(text[3])>>
ExtractPort(text) == text[4]

\* sscanf is content with four numbers and does not see what follows them.
Decodes(text) ==
  /\ Len(text) >= 4
  /\ IdInRange(ExtractId(text))
  /\ PortInRange(ExtractPort(text))

Decode(text) ==
  IF Decodes(text)
  THEN [id |-> ExtractId(text), ip |-> ExtractIp(text), port |-> ExtractPort(text)]
  ELSE Invalid

\* A pair of more than 16 bits gives a first octet that is none.
IsValid(text) == Decodes(text) /\ IsIp(ExtractIp(text))

IsId(text) == Len(text) = 1 /\ IdInRange(text[1])

IsMixed(text) == Len(text) = 4 /\ IsValid(text)

\* The mixed id is tried before the address.
DetectType(text) ==
  IF IsMixed(text) THEN "MIXED"
  ELSE IF IsIp(text) THEN "IP"
  ELSE IF IsId(text) THEN "ID"
  ELSE "UNKNOWN"

AutoParse(text) ==
  LET type == DetectType(text)
  IN  CASE type = "MIXED" -> Decode(text)
        [] type = "ID" -> [id |-> text[1], ip |-> <<0, 0, 0, 0>>, port |-> 0]
        [] type = "IP" -> [id |-> 0, ip |-> text, port |-> 9000]
        [] type = "UNKNOWN" -> Invalid

\* The mixed id of a peer, typed at another, names that peer: for every id from
\* 1 to 999, every address and every port but 0, mixed_id_auto_parse takes what
\* mixed_id_encode made for a mixed id and gives back all three.
RoundTrips(id, ip, port) ==
  IsIp(ip) /\ IdInRange(id) /\ PortInRange(port) =>
    AutoParse(Encode(id, ip, port)) = [id |-> id, ip |-> ip, port |-> port]
==============================================================================
