---------------------------- MODULE StatMetrics ----------------------------
(***************************************************************************)
(* The metrics of the statistics module as functions of the traffic of an  *)
(* endpoint in this interval and the one before.  The only step draws the  *)
(* counters; the metrics are operators on them.                            *)
(***************************************************************************)
EXTENDS Integers, FiniteSets

CONSTANTS
  MaxCount,                 \* bound: largest counter
  noise_threshold_packets, noise_threshold_bytes,
  Factor                    \* of the quasi-difference, a whole number here

VARIABLES info, prev        \* counters of both intervals, [unit -> [in, out]]

Units == {"packets", "bytes", "records"}
Info  == [Units -> [in : 0 .. MaxCount, out : 0 .. MaxCount]]
Zero  == [u \in Units |-> [in |-> 0, out |-> 0]]

\* PACKETS_IN ... RECORDS_IN_MINUS_RECORDS_OUT: a counter, a ratio of two
\* counters of one direction, or the difference of the two directions.
Metrics ==
  [kind : {"count"}, unit : Units, dir : {"in", "out"}]
  \cup ([kind : {"ratio"}, unit : {"packets", "bytes"}, per : {"packets", "records"},
         dir : {"in", "out"}] \ [kind : {"ratio"}, unit : {"packets"}, per : {"packets"},
         dir : {"in", "out"}])
  \cup [kind : {"minus"}, unit : Units, dir : {"in", "out"}]

\* mInfos, row by row for both directions: the counters that a metric makes the
\* module subscribe to; it counts the records itself.
Requires(m) ==
  CASE m.kind # "ratio" /\ m.unit = "bytes"            -> {"bytes"}
    [] m.kind # "ratio" /\ m.unit = "packets"          -> {"packets"}
    [] m.kind # "ratio" /\ m.unit = "records"          -> {}
    [] m.kind = "ratio" /\ m.unit = "bytes"   /\ m.per = "packets" -> {"bytes", "packets"}
    [] m.kind = "ratio" /\ m.unit = "bytes"   /\ m.per = "records" -> {"bytes"}
    [] m.kind = "ratio" /\ m.unit = "packets" /\ m.per = "records" -> {"packets"}

Reverse(dir) == IF dir = "in" THEN "out" ELSE "in"
Quotient(a, b) == IF b = 0 THEN 0 ELSE a \div b

\* Counters of packets and bytes below their threshold are noise; records are
\* never noise.
Loud(i, unit, dir) ==
  CASE unit = "packets" -> i[unit][dir] >= noise_threshold_packets
    [] unit = "bytes"   -> i[unit][dir] >= noise_threshold_bytes
    [] OTHER            -> TRUE

\* Mutant: a difference is noise as soon as one direction is.
get_metric_both(i, m) ==
  CASE m.kind = "count" -> IF Loud(i, m.unit, m.dir) THEN i[m.unit][m.dir] ELSE 0
    [] m.kind = "ratio" ->
         IF Loud(i, m.unit, m.dir) \/ (m.per = "packets" /\ Loud(i, m.per, m.dir))
           THEN Quotient(i[m.unit][m.dir], i[m.per][m.dir]) ELSE 0
    [] OTHER ->
         IF Loud(i, m.unit, m.dir)
           THEN i[m.unit][m.dir] - i[m.unit][Reverse(m.dir)] ELSE 0

get_metric(i, m) ==
  CASE m.kind = "count" -> IF Loud(i, m.unit, m.dir) THEN i[m.unit][m.dir] ELSE 0
    [] m.kind = "ratio" ->
         IF Loud(i, m.unit, m.dir) \/ (m.per = "packets" /\ Loud(i, m.per, m.dir))
           THEN Quotient(i[m.unit][m.dir], i[m.per][m.dir]) ELSE 0
    [] OTHER ->
         IF Loud(i, m.unit, m.dir) \/ Loud(i, m.unit, Reverse(m.dir))
           THEN i[m.unit][m.dir] - i[m.unit][Reverse(m.dir)] ELSE 0

\* extract_data for one metric with its attributes.
extract_data(m, quasi, absolute, negate) ==
  LET new_value == get_metric(info, m) - (IF quasi THEN Factor * get_metric(prev, m) ELSE 0)
      size == IF absolute /\ new_value < 0 THEN -new_value ELSE new_value
  IN IF negate THEN -size ELSE size

Init == info = Zero /\ prev = Zero

Next == info' \in Info /\ prev' = info

Spec == Init /\ [][Next]_<<info, prev>>
-----------------------------------------------------------------------------
\* The two differences of a unit are opposite, whichever direction is noise;
\* traffic that is noise in every unit shows in no metric of packets or bytes,
\* whatever its records; and a metric is the same from the counters it has
\* subscribed to alone, the others being 0.
Silent(i) == \A u \in {"packets", "bytes"}, d \in {"in", "out"} : ~Loud(i, u, d)

Received(i, m) ==
  [u \in Units |-> IF u \in Requires(m) \cup {"records"} THEN i[u] ELSE Zero[u]]

MetricsConsistent ==
  /\ \A m \in {n \in Metrics : n.kind = "minus"} :
       extract_data(m, TRUE, FALSE, FALSE)
         = extract_data([m EXCEPT !.dir = Reverse(m.dir)], TRUE, FALSE, TRUE)
  /\ Silent(info) /\ Silent(prev) =>
       \A m \in {n \in Metrics : n.unit # "records"} :
         extract_data(m, TRUE, TRUE, FALSE) = 0
  /\ \A m \in Metrics : get_metric(Received(info, m), m) = get_metric(info, m)
=============================================================================
