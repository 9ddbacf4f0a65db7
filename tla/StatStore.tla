----------------------------- MODULE StatStore -----------------------------
(***************************************************************************)
(* The storage of the statistics module: records are counted per endpoint  *)
(* until the next test, the tests see the data of the test before, and a   *)
(* stored run is read again offline.                                       *)
(*                                                                         *)
(* An address has AddressBits bits; the port stands for port and protocol. *)
(* A record counts 1 for packets, bytes and records alike.                 *)
(***************************************************************************)
EXTENDS Integers, Sequences, FiniteSets, FiniteSetsExt, Functions

CONSTANTS
  AddressBits,          \* 32
  Ends,                 \* the endpoints [ip, port] of the traffic
  endPointListMaxSize,  \* StatStore::endPointListMaxSize
  Setups,               \* bound: configuration files, see init_endpoints
  MaxSeen,              \* bound: records per interval
  MaxIntervals          \* bound: calls of test() in the online run

VARIABLES
  setup,          \* the static members read from the configuration
  offline,        \* built with OFFLINE_ENABLED
  endPointList, Data, PreviousData,
  interval,       \* history: the records of this interval, as pairs of ends
  storefile,      \* what test() has written, one map of endpoints per call
  replayed        \* intervals read back

vars == <<setup, offline, endPointList, Data, PreviousData, interval, storefile,
          replayed>>

Empty == <<>>
Absent == -1   \* x_frequent_endpoints is not given

\* remanent_mask(n) keeps the n leading bits.
Masked(ip, n) == ip - (ip % 2 ^ (AddressBits - n))

\* The fields that are not part of the key stay 0: they are not subscribed to,
\* or set to 0 offline.
KeyUnder(s, end) ==
  [ip   |-> IF "address" \in s.key THEN Masked(end.ip, s.netmask) ELSE 0,
   port |-> IF "port" \in s.key THEN end.port ELSE 0]

Key(end) == KeyUnder(setup, end)

\* FilterEndPoint::fromString with a netmask.
FilterEndPoint(rule) ==
  [rule EXCEPT !.ip = IF rule.nmask \in 1 .. AddressBits - 1
                        THEN Masked(@, rule.nmask) ELSE @]

\* init_endpoints without x_frequent_endpoints: xml.all says that no file of
\* endpoints to monitor is named, xml.rules are its lines.
init_endpoints(xml) ==
  [netmask |-> xml.netmask, key |-> xml.key, all |-> xml.all,
   filter |-> IF xml.all THEN {} ELSE {FilterEndPoint(rule) : rule \in xml.rules}]

\* With it, offline: the endpoints that the most lines of the data file are of,
\* the first in the order of the map among equals; all if there are not enough.
MostFrequent(xml, file) ==
  LET lines   == UNION {{<<i, line.ep>> : line \in file[i]} : i \in DOMAIN file}
      feps    == {KeyUnder(xml, line[2]) : line \in lines}
      count   == [f \in feps |-> Cardinality({line \in lines : KeyUnder(xml, line[2]) = f})]
      Before(f, g) == \/ count[f] > count[g]
                      \/ count[f] = count[g] /\ f.ip < g.ip
                      \/ count[f] = count[g] /\ f.ip = g.ip /\ f.port < g.port
      most    == {f \in feps : Cardinality({g \in feps : Before(g, f)}) < xml.frequent}
      all     == Cardinality(feps) < xml.frequent
  IN [netmask |-> xml.netmask, key |-> xml.key, all |-> all,
      filter |-> IF all THEN {}
                 ELSE {[ip |-> f.ip, nmask |-> AddressBits, port |-> f.port] : f \in most}]

matchesWithEndPoint(f, ep) ==
  LET ip == IF f.nmask < setup.netmask /\ f.nmask \in 1 .. AddressBits - 1
              THEN Masked(ep.ip, f.nmask) ELSE ep.ip
  IN /\ ip = f.ip \/ f.nmask = 0
     /\ ep.port = f.port \/ f.port = -1

monitorEndPoint(ep) ==
  setup.all \/ \E f \in setup.filter : matchesWithEndPoint(f, ep)

NoInfo == [in |-> 0, out |-> 0]
InfoOf(data, ep) == IF ep \in DOMAIN data THEN data[ep] ELSE NoInfo
Added(data, ep, info) ==
  [x \in DOMAIN data \cup {ep} |->
     IF x = ep THEN [in  |-> InfoOf(data, ep).in + info.in,
                     out |-> InfoOf(data, ep).out + info.out]
     ELSE data[x]]

\* Mutant: a full list stops the counting of the endpoints in it.
CountIfRoom(store, ep, info) ==
  IF monitorEndPoint(ep) /\ Cardinality(store.list) < endPointListMaxSize
    THEN [list |-> store.list \cup {ep},
          data |-> Added(store.data, ep, info)]
    ELSE store

\* One end of a record, or one line of a file: an endpoint that is not listed
\* yet is listed if there is room, and ignored otherwise.
Count(store, ep, info) ==
  IF /\ monitorEndPoint(ep)
     /\ ep \in store.list \/ Cardinality(store.list) < endPointListMaxSize
    THEN [list |-> store.list \cup {ep},
          data |-> Added(store.data, ep, info)]
    ELSE store

Init ==
  /\ \E xml \in Setups : setup = init_endpoints(xml)
  /\ offline = FALSE
  /\ endPointList = {} /\ Data = Empty /\ PreviousData = Empty
  /\ interval = <<>> /\ storefile = <<>> /\ replayed = 0
-----------------------------------------------------------------------------
\* recordStart, addFieldData for the subscribed fields, recordEnd: the source
\* end first.
Record ==
  /\ ~offline /\ Len(interval) < MaxSeen /\ Len(storefile) < MaxIntervals
  /\ \E src, dst \in Ends :
       LET first  == Count([list |-> endPointList, data |-> Data], Key(src),
                           [in |-> 0, out |-> 1])
           second == Count(first, Key(dst), [in |-> 1, out |-> 0])
       IN /\ endPointList' = second.list /\ Data' = second.data
          /\ interval' = Append(interval, <<src, dst>>)
  /\ UNCHANGED <<setup, offline, PreviousData, storefile, replayed>>

\* What test() appends to the store file: a line for each endpoint of the map.
Lines(data) == {[ep |-> ep, info |-> data[ep]] : ep \in DOMAIN data}
Stored == Append(storefile, Lines(Data))

\* test() takes the storage and deletes it, and its destructor keeps the data;
\* an empty storage is neither tested nor deleted.
Test ==
  /\ ~offline /\ Len(storefile) < MaxIntervals
  /\ storefile' = Stored
  /\ PreviousData' = IF Data = Empty THEN PreviousData ELSE Data
  /\ Data' = Empty /\ interval' = <<>>
  /\ UNCHANGED <<setup, offline, endPointList, replayed>>

\* The same program built for offline use, with a configuration of its own,
\* reads the file of that run.
StartOffline ==
  /\ ~offline /\ Len(storefile) = MaxIntervals
  /\ offline' = TRUE
  /\ \E xml \in Setups :
       setup' = IF xml.frequent # Absent THEN MostFrequent(xml, storefile)
                ELSE init_endpoints(xml)
  /\ endPointList' = {} /\ Data' = Empty /\ PreviousData' = Empty
  /\ UNCHANGED <<interval, storefile, replayed>>

\* Mutant: a line replaces what the line before it has put there.
ReadLinesOver(lines, list) ==
  LET last(ep) == CHOOSE line \in lines : Key(line.ep) = ep
  IN [list |-> list \cup {Key(line.ep) : line \in lines},
      data |-> [ep \in {Key(line.ep) : line \in lines} |-> last(ep).info]]

\* operator>> on a new storage (the lines of a map are ordered, here by CHOOSE),
\* and the test of what the call before has read.
ReadLines(lines, list) ==
  FoldSet(LAMBDA line, store : Count(store, Key(line.ep), line.info),
          [list |-> list, data |-> Empty], lines)

ReadInterval ==
  /\ offline /\ replayed < Len(storefile)
  /\ LET read == ReadLines(storefile[replayed + 1], endPointList)
     IN Data' = read.data /\ endPointList' = read.list
  /\ PreviousData' = IF Data = Empty THEN PreviousData ELSE Data
  /\ replayed' = replayed + 1
  /\ UNCHANGED <<setup, offline, interval, storefile>>

EndOfFile == offline /\ replayed = Len(storefile) /\ UNCHANGED vars

Next == Record \/ Test \/ StartOffline \/ ReadInterval \/ EndOfFile

Spec == Init /\ [][Next]_vars
-----------------------------------------------------------------------------
(* Properties *)

Occurrences(e, side) ==
  Cardinality({i \in DOMAIN interval : Key(interval[i][side]) = e})

\* Where a filter is not finer than the global netmask, it selects the
\* addresses of its subnet and no others.
FiltersSelectSubnets ==
  \A f \in setup.filter : \A end \in Ends :
    f.nmask <= setup.netmask /\ "address" \in setup.key /\ f.port = -1 =>
      (matchesWithEndPoint(f, Key(end))
         <=> Masked(end.ip, f.nmask) = Masked(f.ip, f.nmask))

\* An endpoint in the list has been counted in every record of the interval,
\* whatever else reached the limit of the list, and no other endpoint at all;
\* a filter lets in the endpoints of its subnet.
CountsExact ==
  /\ Cardinality(endPointList) <= endPointListMaxSize
  /\ DOMAIN Data \subseteq endPointList
  /\ ~offline => \A e \in endPointList :
                   InfoOf(Data, e) = [out |-> Occurrences(e, 1), in |-> Occurrences(e, 2)]
  /\ FiltersSelectSubnets

\* What test() takes for the previous data is that of its last call, as the
\* comment at stat-store.h:51-56 and stat-main.cpp:965 has it (MCPrevious.cfg).
PreviousIsLast ==
  ~offline /\ storefile # <<>> => Lines(PreviousData) = storefile[Len(storefile)]

\* What it is instead: the storage of an empty interval is not deleted, so that
\* the data of the last interval that had any stays.
PreviousIsLastNonEmpty ==
  LET nonEmpty == {i \in DOMAIN storefile : storefile[i] # {}}
  IN ~offline => Lines(PreviousData) = IF nonEmpty = {} THEN {}
                                       ELSE storefile[Max(nonEmpty)]

\* Read back, an interval is what was stored, summed over the endpoints that
\* the key of the offline run puts together; its list never overflows.
SumOver(lines, e, side) ==
  SumFunctionOnSet([line \in lines |-> line.info[side]], {line \in lines : Key(line.ep) = e})

ReplayIsExact ==
  replayed > 0 =>
    LET lines == storefile[replayed]
    IN \A e \in {Key(line.ep) : line \in lines} :
         InfoOf(Data, e) = IF monitorEndPoint(e)
                             THEN [in |-> SumOver(lines, e, "in"),
                                   out |-> SumOver(lines, e, "out")]
                             ELSE NoInfo
=============================================================================
