---------------------------- MODULE PortPrediction ---------------------------
(***************************************************************************)
(* port_prediction.c: from the ports a NAT was seen to use, the next one,  *)
(* and the ports around it that are tried.                                 *)
(*                                                                         *)
(* A prediction is a set of ports: the code calls rand in one branch and   *)
(* computes with floats in another.                                        *)
(***************************************************************************)
EXTENDS Integers, Sequences, SequencesExt

CONSTANTS
  MinPort,   \* PORT_PREDICT_MIN_PORT
  MaxPort,   \* PORT_PREDICT_MAX_PORT
  Reach      \* PORT_PREDICT_RANGE

\* A predicted port is at most five above the last one: what a port tells is within
\* reach of it.
ASSUME PortsAssumption ==
  /\ MinPort \in Nat /\ 0 < MinPort
  /\ MaxPort \in Nat /\ MinPort <= MaxPort
  /\ Reach \in Nat /\ 4 <= Reach

Samples == 10 \* PORT_PREDICT_SAMPLES
Probes == 6   \* the probes port_predictor_punch sends

Observable(port) == MinPort <= port /\ port <= MaxPort

\* port_predictor_add_observation
Observed(ports, port) ==
  IF Len(ports) < Samples /\ Observable(port) THEN Append(ports, port) ELSE ports

\* The six probes of port_predictor_punch, plain or with a TTL: the port an
\* answer came from, 0 if there was none.
Probed(answers) ==
  LET probes == IF Len(answers) < Probes THEN Len(answers) ELSE Probes
      seen[i \in 0 .. probes] ==
        IF i = 0 THEN << >>
        ELSE IF answers[i] > 0 THEN Observed(seen[i - 1], answers[i])
        ELSE seen[i - 1]
  IN  seen[probes]

Steps(ports) == [k \in 1 .. Len(ports) - 1 |-> ports[k + 1] - ports[k]]

Sequential(ports) ==
  LET steps == Steps(ports)
  IN  \A k \in DOMAIN steps : steps[k] = steps[1] /\ 0 < steps[k] /\ steps[k] < 20

Evens(ports) == Len(SelectSeq(ports, LAMBDA port : port % 2 = 0))
Odds(ports) == Len(ports) - Evens(ports)

Clamped(port) ==
  IF port < MinPort THEN MinPort ELSE IF port > MaxPort THEN MaxPort ELSE port

Sum(s) ==
  LET sum[i \in 0 .. Len(s)] == IF i = 0 THEN 0 ELSE sum[i - 1] + s[i]
  IN  sum[Len(s)]

\* Least squares over the points (0, ports[1]), (1, ports[2]), ...: slope and
\* intercept are Rise / Run and (SumY - slope * SumX) / n.
SumX(ports) == Sum([k \in DOMAIN ports |-> k - 1])
SumXY(ports) == Sum([k \in DOMAIN ports |-> (k - 1) * ports[k]])
SumX2(ports) == Sum([k \in DOMAIN ports |-> (k - 1) * (k - 1)])
Rise(ports) == Len(ports) * SumXY(ports) - SumX(ports) * Sum(ports)
Run(ports) == Len(ports) * SumX2(ports) - SumX(ports) * SumX(ports)

\* Between 1/2 and 10.
Rising(ports) == Run(ports) < 2 * Rise(ports) /\ Rise(ports) < 10 * Run(ports)

\* slope * n + intercept, rounded down; a float may be a little off, and then the
\* conversion to int one.
NextOnLine(ports) ==
  LET n == Len(ports)
      value == (Sum(ports) * Run(ports) + Rise(ports) * (n * n - SumX(ports)))
                 \div (n * Run(ports))
  IN  value - 1 .. value + 1

\* port_analyze_pattern, and port_predictor_predict, which draws once more after
\* the last branch.
Predictions(ports) ==
  LET last == ports[Len(ports)]
  IN  IF Sequential(ports) THEN {last + Steps(ports)[1]}
      ELSE IF Evens(ports) > 2 * Odds(ports) THEN {last - (last % 2) + 2}
      ELSE IF Odds(ports) > 2 * Evens(ports) THEN {last - (last % 2) + 3}
      ELSE IF Len(ports) >= 4 /\ Rising(ports)
           THEN {Clamped(port) : port \in NextOnLine(ports)}
           ELSE {IF port > MaxPort THEN MaxPort ELSE port : port \in last + 1 .. last + 5}

\* A slip: the range ends where it begins.
ScannedBelow(center) == Clamped(center - Reach) .. Clamped(center)

\* The range port_predictor_punch and port_predict_range scan; the predicted port
\* itself is tried first.
Scanned(center) ==
  LET first == IF center - Reach < MinPort THEN MinPort ELSE center - Reach
      last == IF center + Reach > MaxPort THEN MaxPort ELSE center + Reach
  IN  first .. last

\* With three observations the predicted port and its neighbours are tried, with
\* less the neighbours of the port the peer is known by.
Tried(answers, target) ==
  LET ports == Probed(answers)
  IN  IF Len(ports) < 3
      THEN {Scanned(target)}
      ELSE {{port} \cup Scanned(port) : port \in Predictions(ports)}

\* port_prediction_possible: the pattern is one of the first four.
Possible(ports) ==
  /\ Len(ports) >= 3
  /\ \/ Sequential(ports)
     \/ Evens(ports) > 2 * Odds(ports) \/ Odds(ports) > 2 * Evens(ports)
     \/ Len(ports) >= 4 /\ Rising(ports)

\* The NAT the prediction is for: each new mapping is at a port a little above the
\* last one, and never wraps around.
Walks(ports, step) ==
  \A k \in 1 .. Len(ports) - 1 : ports[k + 1] - ports[k] \in 1 .. step

\* Whatever is rolled and rounded, the port the NAT uses next is among those tried,
\* also next to the end of the port range.
NextIsTried(ports, next, step) ==
  Len(ports) >= 3 /\ Walks(Append(ports, next), step) /\ Observable(ports[1]) /\ next <= MaxPort =>
    \A tried \in Tried(ports, ports[Len(ports)]) : next \in tried
==============================================================================
