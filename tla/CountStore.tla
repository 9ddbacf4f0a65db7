----------------------------- MODULE CountStore -----------------------------
(***************************************************************************)
(* The storage of the count module: packets and flows per key, where a     *)
(* Bloom filter shared by all storages tells whether a 5-tuple is new.     *)
(*                                                                         *)
(* A flow is a record of its five fields; a record of a flow counts one    *)
(* packet, and its octets as packets.  A hash function maps a flow to a    *)
(* bit: only the bits of a flow matter.                                    *)
(***************************************************************************)
EXTENDS Naturals, Sequences, FiniteSets, FiniteSetsExt, Functions

CONSTANTS
  Flows,          \* bound: 5-tuples [srcIp, dstIp, srcPort, dstPort, proto]
  filter_size,    \* bits of the filter (1024)
  max_size,       \* of a std::map
  Configured,     \* bound: sets of tables to count
  Thresholds,     \* bound: values of packetThreshold and flowThreshold
  MaxInterval     \* bound: records in an interval

VARIABLES
  counted,        \* the tables that are enabled: countPerSrcIp, ...
  hash,           \* the bits of each flow under the seeds drawn in initHF
  packetThreshold, flowThreshold,
  filter,         \* bits set in bfilter
  tables,         \* per enabled table, the Counters of its keys
  seen,           \* history: the flows recorded since the last test
  report          \* what the last test has reported, as pairs of table and key

config == <<counted, hash, packetThreshold, flowThreshold>>
vars   == <<config, filter, tables, seen, report>>

Tables == {"srcIp", "dstIp", "srcPort", "dstPort"}

\* addFieldData: the protocol is part of a port's key.
KeyOf(flow, t) == IF t \in {"srcIp", "dstIp"} THEN flow[t] ELSE <<flow.proto, flow[t]>>
Default(t) == IF t \in {"srcIp", "dstIp"} THEN 0 ELSE <<0, 0>>

NewTables == [t \in counted |-> <<>>]

\* BloomFilter::init: a seed is drawn for each hash function, and a flow has the
\* bits that they give it, different ones or not.
initHF == [Flows -> SUBSET (0 .. filter_size - 1)]

\* The Bitmap of the filter, as the set of its bits.
set(bits) == filter \cup (bits \cap 0 .. filter_size - 1)
test(bits) == bits \subseteq filter
cleared == {}

\* Without a counting section there are no hash functions and no tables.
Init ==
  /\ hash \in initHF
  /\ counted \in Configured
  /\ packetThreshold \in Thresholds /\ flowThreshold \in Thresholds
  /\ filter = cleared /\ tables = NewTables
  /\ seen = <<>> /\ report = {}
-----------------------------------------------------------------------------
\* Mutant: the first clear bit ends the loop.
testBeforeInsertStops(flow) ==
  [known |-> test(hash[flow]),
   filter |-> IF test(hash[flow]) THEN filter ELSE set({Min(hash[flow] \ filter)})]

\* All bits are set, whatever the test says.
testBeforeInsert(flow) ==
  [known |-> test(hash[flow]), filter |-> set(hash[flow])]

\* updateIpCountMap, updatePortCountMap.
UpdateCountMap(map, key, default, newFlowKey) ==
  LET at == IF key \in DOMAIN map \/ Cardinality(DOMAIN map) < max_size - 1
              THEN key ELSE default
      flow == IF newFlowKey THEN 1 ELSE 0
  IN IF at \in DOMAIN map
       THEN [map EXCEPT ![at] = [packets |-> @.packets + 1, flows |-> @.flows + flow]]
       ELSE [k \in DOMAIN map \cup {at} |->
               IF k = at THEN [packets |-> 1, flows |-> 1] ELSE map[k]]

\* A flow whose key is missing from a table is new, whatever the filter says.
NewFlowKey(flow, known) ==
  ~known \/ \E t \in counted : KeyOf(flow, t) \notin DOMAIN tables[t]

\* recordStart, addFieldData for the fields, recordEnd.
Record ==
  /\ Len(seen) < MaxInterval
  /\ \E flow \in Flows :
       LET inserted == testBeforeInsert(flow)
           new == NewFlowKey(flow, inserted.known)
       IN /\ filter' = inserted.filter
          /\ tables' = [t \in counted |->
                          UpdateCountMap(tables[t], KeyOf(flow, t), Default(t), new)]
          /\ seen' = Append(seen, flow)
  /\ UNCHANGED <<config, report>>

\* Mutant: both thresholds have to be reached.
checkThresholdsBoth(c) == c.packets >= packetThreshold /\ c.flows >= flowThreshold

checkThresholds(c) == c.packets >= packetThreshold \/ c.flows >= flowThreshold

\* getStorage makes a new storage, whose constructor clears the filter, while
\* no record is parsed; test() reports the old one.
Test ==
  /\ seen # <<>>
  /\ report' = {r \in UNION {{t} \X DOMAIN tables[t] : t \in counted} :
                  checkThresholds(tables[r[1]][r[2]])}
  /\ tables' = NewTables
  /\ filter' = cleared
  /\ seen' = <<>>
  /\ UNCHANGED config

Next == Record \/ Test

Spec == Init /\ [][Next]_vars
-----------------------------------------------------------------------------
(* Properties *)

FlowsOf(t, k)   == {f \in {seen[i] : i \in DOMAIN seen} : KeyOf(f, t) = k}
PacketsOf(t, k) == Cardinality({i \in DOMAIN seen : KeyOf(seen[i], t) = k})
NeverFull == \A t \in counted : Cardinality({KeyOf(f, t) : f \in Flows}) < max_size

\* Every packet is counted under its keys, and a flow is never counted twice;
\* it is missed only if other flows of the interval have set all its bits.  No
\* packet is lost when a table is full: the default entry takes it.
PacketsAreKept(t) ==
  SumFunction([k \in DOMAIN tables[t] |-> tables[t][k].packets]) = Len(seen)
CountsAreExact ==
  /\ \A t \in counted : PacketsAreKept(t)
  /\ NeverFull =>
    \A t \in counted : \A k \in {KeyOf(f, t) : f \in Flows} :
      IF PacketsOf(t, k) = 0 THEN k \notin DOMAIN tables[t]
      ELSE /\ tables[t][k].packets = PacketsOf(t, k)
           /\ tables[t][k].flows <= Cardinality(FlowsOf(t, k))
           /\ \/ tables[t][k].flows = Cardinality(FlowsOf(t, k))
              \/ \E f \in FlowsOf(t, k) :
                   hash[f] \subseteq UNION {hash[seen[i]] : i \in {j \in DOMAIN seen : seen[j] # f}}

\* A key that has reached the packet threshold in the interval is reported.
LoudAreReported ==
  (NeverFull /\ seen' = <<>> /\ seen # <<>>) =>
     \A t \in counted : \A k \in {KeyOf(seen[i], t) : i \in DOMAIN seen} :
        PacketsOf(t, k) >= packetThreshold => <<t, k>> \in report'
ReportedIfLoud == [][LoudAreReported]_vars
=============================================================================
