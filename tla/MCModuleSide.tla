---------------------------- MODULE MCModuleSide ----------------------------
(* The components of a detection module, checked side by side: the state   *)
(* graph is the union of theirs, one component moving in each behaviour.   *)
(* They run in one process one after the other on the same record (parser, *)
(* policy, store, test) and share no variable but through those calls.     *)
(* The threads' module is extended, so that its properties are named as    *)
(* they stand there; where it is not looked at, its threads are at rest.   *)
EXTENDS DetectionBase, Integers, Sequences

CONSTANTS
  Sources, SetRecords, Paddings, MaxSets,  \* IpfixParser
  filter_size, max_size, Thresholds, MaxInterval,  \* CountStore
  AddressBits, endPointListMaxSize, MaxSeen, MaxIntervals,  \* StatStore
  MaxCount, noise_threshold_packets, noise_threshold_bytes, Factor,  \* StatMetrics
  sample_old_size, sample_new_size, cusum_learning_phase, pca_learning_phase,
  MaxTests,                                \* StatTests
  IntWidth, Expected,                      \* RankTests
  Instances, Nobody, MaxWritten,           \* SnortModule
  TotalLengths, SectionSizes, PaddingBuffer, MaxJunk, MaxPackets  \* PcapWriter

VARIABLES
  component,  \* the one this behaviour is of
  templates, set, record, handed, live, message, sent, want, sets, garbled,
  counted, hash, packetThreshold, flowThreshold, filter, tables, seen,
  report,
  setup, offline, endPointList, Data, PreviousData, interval, storefile,
  replayed,
  info, prev,
  config, test_counter, P, got, trace,
  kind, sample1, sample2, rest1, rest2, rank, rs1, rs2, D, Dmin, Dmax, n1,
  n2, categories,
  module, file, phase, step, flag, idList, sourceIdList, alarm, monitors,
  packet, given,
  fifo, pc, fifofd, snort, reads, shutdown, stopped, written, asked,
  store, announced, stream, pieces, packets, short

(* The parser: octets in base 4, so that 3 stands for 255 and 15 for 65535 *)
Base == 4
TemplateIds == {8}
Fixed == [enterprise |-> FALSE, length |-> 1]
Enterprise == [enterprise |-> TRUE, length |-> 2]
Varying == [enterprise |-> FALSE, length |-> 15]
Record(k, sc, fs, d, v) == [kind |-> k, scopes |-> sc, fields |-> fs, data |-> d, values |-> v]
Specs == {Record("template", <<>>, fs, <<>>, <<>>) :
            fs \in {<<Fixed, Enterprise>>, <<Varying, Fixed>>}}
         \cup {Record("options", o[1], o[2], <<>>, <<>>) :
                 o \in {<<<<>>, <<Varying, Enterprise>>>>, <<<<Enterprise>>, <<Fixed>>>>,
                        <<<<Enterprise>>, <<Varying>>>>, <<<<Varying>>, <<Fixed>>>>}}
         \cup {Record("data", <<>>, <<Enterprise, Varying>>, d[1], d[2]) :
                 d \in {<<<<Varying, Fixed>>, <<<<1, 0>>, <<2>>>>>>,
                        <<<<Varying, Fixed>>, <<<<1, 0, 2, 1>>, <<2>>>>>>}}
\* Lengths below 255, 255 itself, and one whose octets say less in host order.
Values(n) ==
  LET Octets(k) == [i \in 1..k |-> (i + 1) % Base]
  IN IF n = 15 THEN {Octets(k) : k \in {0, 2, 3, 4}} ELSE {Octets(n)}

(* Count module: three flows, two of them from one host. *)
Flow(src, dst, sport, dport) ==
  [srcIp |-> src, dstIp |-> dst, srcPort |-> sport, dstPort |-> dport, proto |-> 6]
Flows == {Flow(1, 3, 10, 80), Flow(1, 4, 10, 53), Flow(2, 3, 11, 22)}
Configured == {{}, {"srcIp"}, {"dstIp", "srcPort"}, {"dstPort"}}

(* Statistics module: endpoints of two-bit addresses, set-ups with and     *)
(* without a filter; configurations of the three tests.                    *)
EndPoint(ip, port) == [ip |-> ip, port |-> port]
Ends == {EndPoint(0, 1), EndPoint(1, 1), EndPoint(3, 2)}
Rule(ip, nmask, port) == [ip |-> ip, nmask |-> nmask, port |-> port]
Setups == {
  [netmask |-> 2, key |-> {"address", "port"}, all |-> TRUE, rules |-> {}, frequent |-> -1],
  [netmask |-> 1, key |-> {"address"}, all |-> FALSE, rules |-> {Rule(1, 1, -1)}, frequent |-> 1],
  [netmask |-> 2, key |-> {"address", "port"}, all |-> FALSE,
   rules |-> {Rule(1, 1, -1), Rule(3, 0, 2)}, frequent |-> -1]}
Xml(frequency, pause, pca, cusum, tests, section) ==
  [test_frequency |-> frequency, pause |-> pause, pca |-> pca, cusum_test |-> cusum,
   tests |-> tests, metrics |-> {1}, wkp_section |-> section]
Xmls == {[Xml("absent", p, FALSE, "true", {}, TRUE) EXCEPT !.metrics = {1, 2}] : p \in 0..4}
        \cup {Xml("absent", p, FALSE, "false", {"wmw", "ks", "pcs"}, TRUE) : p \in 0..3}
        \cup {Xml("2", 1, FALSE, "true", {"ks"}, TRUE), Xml("false", 1, FALSE, "true", {"ks"}, TRUE),
              Xml("absent", 1, TRUE, "true", {"wmw"}, TRUE), Xml("absent", 1, FALSE, "no section", {}, FALSE)}

(* Configuration files of the modules: for the statistics module each      *)
(* element unusable once, each combination of tests, builds and sources;   *)
(* sources with the id in the first and in the last octets.                *)
StatisticsFile ==
  [module |-> "statistics", offline |-> FALSE, preferences |-> TRUE, bad |-> {},
   all_sources |-> FALSE, source_ids |-> <<>>, alarm_time |-> 10,
   metrics |-> {{"bytes", "packets"}}, key |-> {"address", "port"}, frequent |-> FALSE,
   cusum |-> "enabled", wkp |-> "enabled"]
Elements ==
  {"warning_verbosity", "logfile", "logfile_output_verbosity", "netmask", "output_dir",
   "existing output_dir", "offline_file", "offline data", "endpoints_to_monitor", "amplitude_percentage",
   "smoothing_constant", "significance_level"}
With(o, f, b, c, w) ==
  [StatisticsFile EXCEPT !.offline = o, !.frequent = f, !.bad = b, !.cusum = c, !.wkp = w]
WithFields(m, k, p) == [StatisticsFile EXCEPT !.metrics = m, !.key = k, !.preferences = p]
WithSources(f, a, s) == [f EXCEPT !.all_sources = a, !.source_ids = s]
OtherFile(m, p, b) == [StatisticsFile EXCEPT !.module = m, !.preferences = p, !.bad = b]
OtherFiles ==
  {OtherFile(m, p, b) : m \in {"count", "snort"}, p \in BOOLEAN, b \in {{}, {"output_file"}}}
Files ==
  {With(o, o /\ f, b, c, w) :
     o \in BOOLEAN, f \in BOOLEAN, b \in {{}} \cup {{e} : e \in Elements},
     c \in {"absent", "disabled", "enabled"}, w \in {"absent", "disabled", "enabled"}}
  \cup {WithFields(m, k, p) : m \in {{}, {{}}, {{"unknown"}, {"packets"}}, {{"bytes"}, {"packets"}}},
                             k \in {{}, {"protocol"}, {"address", "protocol"}}, p \in BOOLEAN}
  \cup {WithSources(f, a, s) : f \in OtherFiles \cup {StatisticsFile}, a \in BOOLEAN,
                              s \in {<<>>, <<1234>>, <<1234, 53764>>}}
Packets == {[source |-> s, fields |-> {"bytes", "packets", "section", "source address",
                                       "destination address", "source port"},
                           fixed |-> {"protocol", "destination port"}] :
              s \in {<<0, 0, 4, 210>>, <<4, 210, 0, 0>>}}

(* Sorted samples with ties: four observations, for KS's two steps behind  *)
(* a tie.                                                                  *)
Samples == {s \in UNION {[1..n -> {0, 1, 2, 5}] : n \in 1..4} :
              \A i \in 1..(Len(s) - 1) : s[i] <= s[i + 1]}

Parser == INSTANCE IpfixParser WITH got <- handed, MaxRecords <- SetRecords
Count == INSTANCE CountStore
Store == INSTANCE StatStore
Metrics == INSTANCE StatMetrics
Tests == INSTANCE StatTests
Ranks == INSTANCE RankTests
Beginning == INSTANCE ModuleInit
Snort == INSTANCE SnortModule
Writer == INSTANCE PcapWriter

Components == {"threads", "parser", "count", "store", "metrics", "tests", "ranks", "init", "snort", "writer"}
ThreadsVars == <<policy, alarmTime, state, main, work, test, buffers,
                 packetLock, recordMutex, held, arrived, eof, accepted,
                 tested>>
ParserVars == <<templates, set, record, handed, live, message, sent, want,
                sets, garbled>>
CountVars == <<counted, hash, packetThreshold, flowThreshold, filter,
               tables, seen, report>>
StoreVars == <<setup, offline, endPointList, Data, PreviousData, interval,
               storefile, replayed>>
MetricsVars == <<info, prev>>
TestsVars == <<config, test_counter, P, got, trace>>
RanksVars == <<kind, sample1, sample2, rest1, rest2, rank, rs1, rs2, D,
               Dmin, Dmax, n1, n2, categories>>
BeginningVars == <<module, file, phase, step, flag, idList, sourceIdList,
                   alarm, monitors, packet, given>>
SnortVars == <<fifo, pc, fifofd, snort, reads, shutdown, stopped, written,
               asked>>
WriterVars == <<store, announced, stream, pieces, packets, short>>
sideVars == <<component, ThreadsVars, ParserVars, CountVars, StoreVars, MetricsVars,
              TestsVars, RanksVars, BeginningVars, SnortVars, WriterVars>>

(* The components that are not looked at are at rest. *)
ThreadsIdle ==
  policy = "none" /\ alarmTime = 0 /\ state = "RUN" /\ main = "idle" /\ work
  = "none" /\ test = "none" /\ buffers = <<>> /\ packetLock = 0 /\
  recordMutex = 0 /\ held = NewStorage /\ arrived = 0 /\ eof = 0 /\ accepted
  = <<>> /\ tested = <<>>
ParserIdle ==
  templates = 0 /\ set = 0 /\ record = 0 /\ handed = 0 /\ live = 0 /\
  message = 0 /\ sent = 0 /\ want = 0 /\ sets = 0 /\ garbled = 0
CountIdle ==
  counted = 0 /\ hash = 0 /\ packetThreshold = 0 /\ flowThreshold = 0 /\
  filter = 0 /\ tables = 0 /\ seen = 0 /\ report = 0
StoreIdle ==
  setup = 0 /\ offline = 0 /\ endPointList = 0 /\ Data = 0 /\ PreviousData =
  0 /\ interval = 0 /\ storefile = 0 /\ replayed = 0
MetricsIdle ==
  info = 0 /\ prev = 0
TestsIdle ==
  config = 0 /\ test_counter = 0 /\ P = 0 /\ got = 0 /\ trace = 0
RanksIdle ==
  kind = 0 /\ sample1 = 0 /\ sample2 = 0 /\ rest1 = 0 /\ rest2 = 0 /\ rank =
  0 /\ rs1 = 0 /\ rs2 = 0 /\ D = 0 /\ Dmin = 0 /\ Dmax = 0 /\ n1 = 0 /\ n2 =
  0 /\ categories = 0
BeginningIdle ==
  module = 0 /\ file = 0 /\ phase = 0 /\ step = 0 /\ flag = 0 /\ idList = 0
  /\ sourceIdList = 0 /\ alarm = 0 /\ monitors = 0 /\ packet = 0 /\ given =
  0
SnortIdle ==
  fifo = 0 /\ pc = 0 /\ fifofd = 0 /\ snort = 0 /\ reads = 0 /\ shutdown = 0
  /\ stopped = 0 /\ written = 0 /\ asked = 0
WriterIdle ==
  store = 0 /\ announced = 0 /\ stream = 0 /\ pieces = 0 /\ packets = 0 /\ short = 0

SideInit ==
  /\ component \in Components
  /\ IF component = "threads" THEN Init ELSE ThreadsIdle
  /\ IF component = "parser" THEN Parser!Init ELSE ParserIdle
  /\ IF component = "count" THEN Count!Init ELSE CountIdle
  /\ IF component = "store" THEN Store!Init ELSE StoreIdle
  /\ IF component = "metrics" THEN Metrics!Init ELSE MetricsIdle
  /\ IF component = "tests" THEN Tests!Init ELSE TestsIdle
  /\ IF component = "ranks" THEN Ranks!Init ELSE RanksIdle
  /\ IF component = "init" THEN Beginning!Init ELSE BeginningIdle
  /\ IF component = "snort" THEN Snort!Init ELSE SnortIdle
  /\ IF component = "writer" THEN Writer!Init ELSE WriterIdle

SideNext ==
  \/ /\ component = "threads" /\ Next
     /\ UNCHANGED <<component, ParserVars, CountVars, StoreVars,
                     MetricsVars, TestsVars, RanksVars, BeginningVars,
                     SnortVars, WriterVars>>
  \/ /\ component = "parser" /\ Parser!Next
     /\ UNCHANGED <<component, ThreadsVars, CountVars, StoreVars,
                     MetricsVars, TestsVars, RanksVars, BeginningVars,
                     SnortVars, WriterVars>>
  \/ /\ component = "count" /\ Count!Next
     /\ UNCHANGED <<component, ThreadsVars, ParserVars, StoreVars,
                     MetricsVars, TestsVars, RanksVars, BeginningVars,
                     SnortVars, WriterVars>>
  \/ /\ component = "store" /\ Store!Next
     /\ UNCHANGED <<component, ThreadsVars, ParserVars, CountVars,
                     MetricsVars, TestsVars, RanksVars, BeginningVars,
                     SnortVars, WriterVars>>
  \/ /\ component = "metrics" /\ Metrics!Next
     /\ UNCHANGED <<component, ThreadsVars, ParserVars, CountVars,
                     StoreVars, TestsVars, RanksVars, BeginningVars,
                     SnortVars, WriterVars>>
  \/ /\ component = "tests" /\ Tests!Next
     /\ UNCHANGED <<component, ThreadsVars, ParserVars, CountVars,
                     StoreVars, MetricsVars, RanksVars, BeginningVars,
                     SnortVars, WriterVars>>
  \/ /\ component = "ranks" /\ Ranks!Next
     /\ UNCHANGED <<component, ThreadsVars, ParserVars, CountVars,
                     StoreVars, MetricsVars, TestsVars, BeginningVars,
                     SnortVars, WriterVars>>
  \/ /\ component = "init" /\ Beginning!Next
     /\ UNCHANGED <<component, ThreadsVars, ParserVars, CountVars,
                     StoreVars, MetricsVars, TestsVars, RanksVars,
                     SnortVars, WriterVars>>
  \/ /\ component = "snort" /\ Snort!Next
     /\ UNCHANGED <<component, ThreadsVars, ParserVars, CountVars,
                     StoreVars, MetricsVars, TestsVars, RanksVars,
                     BeginningVars, WriterVars>>
  \/ /\ component = "writer" /\ Writer!Next
     /\ UNCHANGED <<component, ThreadsVars, ParserVars, CountVars,
                     StoreVars, MetricsVars, TestsVars, RanksVars,
                     BeginningVars, SnortVars>>

(* Of the threads and of the Snort module only what the code does by itself: *)
(* a thread that can go on does, an interrupted snort ends.                *)
SideFairness ==
  /\ WF_ThreadsVars(component = "threads" /\ MainThread)
  /\ WF_ThreadsVars(component = "threads" /\ WorkingThread)
  /\ WF_ThreadsVars(component = "threads" /\ TestThread)
  /\ \A i \in Instances :
       /\ WF_SnortVars(component = "snort" /\ Snort!ExecReturns(i))
       /\ WF_SnortVars(component = "snort" /\ Snort!CleanExit(i))
       /\ WF_SnortVars(component = "snort" /\ snort[i] = "interrupted" /\ Snort!SnortEnds(i))

SideSpec == SideInit /\ [][SideNext]_sideVars /\ SideFairness

\* One component by itself, for what the documents say of it and it does not do.
Alone(c) == component = c /\ SideInit
ParserSpec == Alone("parser") /\ [][SideNext]_sideVars
StoreSpec  == Alone("store") /\ [][SideNext]_sideVars
StartSpec  == Alone("init") /\ [][SideNext]_sideVars

-----------------------------------------------------------------------------
(* rcvIpfix.c, templateBuffer.c: the callbacks are given the records the   *)
(* exporter encoded and know the templates it has announced.               *)
DecodedAsSent == component = "parser" => Parser!DecodedAsSent
(* rcvIpfix.h:33: only a field of variable length changes its length from  *)
(* record to record.                                                       *)
FixedLengthsStay == Parser!FixedLengthsStay

(* countstore.cpp: every packet is counted under its keys; a flow is never *)
(* counted twice, and missed only if other flows of the interval have set  *)
(* all its bits in the Bloom filter; packets of keys for which the table   *)
(* has no room are counted in its default entry.                           *)
CountsAreExact == component = "count" => Count!CountsAreExact

(* A key that reaches the packet threshold in the interval is reported.    *)
ReportedIfLoud == [][component = "count" => Count!LoudAreReported]_sideVars

(* stat-store.cpp, shared.cpp: an endpoint in the list has been counted in *)
(* every record of the interval, and no other endpoint at all; a filter    *)
(* lets in the subnets it names.                                           *)
CountsExact == component = "store" => Store!CountsExact

(* What test() takes for the previous data is, as stat-store.h:51-56 has it, *)
(* the data of its last call; of an empty interval it is that of the last   *)
(* call that had any.                                                       *)
PreviousIsLast == component = "store" => Store!PreviousIsLast
PreviousIsLastNonEmpty == component = "store" => Store!PreviousIsLastNonEmpty

(* Read back, an interval is what was stored, summed over the endpoints    *)
(* that the key of the offline run puts together.                          *)
ReplayIsExact == component = "store" => Store!ReplayIsExact

(* stat-main.cpp, get_metric: the two differences of a unit are opposite,  *)
(* and noise shows in no metric of packets or bytes.                       *)
MetricsConsistent == component = "metrics" => Metrics!MetricsConsistent

(* stat-main.cpp: the two samples the tests compare are the most recent    *)
(* values the pause rules let in, old before new and without a gap.        *)
SamplesAreRecent == component = "tests" => Tests!SamplesAreRecent

(* The alarms of a test are the attacks it has found or, if only the first *)
(* is reported, the runs of tests that found one; a test without new data  *)
(* ends a run.                                                             *)
AlarmsCountRuns == component = "tests" => Tests!AlarmsCountRuns

(* The mean is that of all values but the current one and those that       *)
(* alarmed, as the pause setting says.                                     *)
AttacksAreNotLearned == component = "tests" => Tests!AttacksAreNotLearned

(* wmw-test.cpp: rank sums with ties are those of the definition;          *)
(* ks-test.cpp: the statistic is the supremum of the distance of the two   *)
(* empirical distribution functions.                                       *)
StatisticsExact == component = "ranks" => Ranks!StatisticsExact

(* pcs-test.cpp: the categories divide the range and have enough expected  *)
(* observations each.                                                      *)
CategoriesDivide == component = "ranks" => Ranks!CategoriesDivide

(* stat-main.cpp, countmodule.cpp, snortmodule.cpp, filepolicy.h: a module *)
(* that runs has a usable value in each element that its init looks at and *)
(* the run depends on, is given every packet if no sources are listed, and *)
(* all its fields.                                                         *)
RunsAsConfigured == component = "init" => Beginning!RunsAsConfigured

(* What the documents say of three preferences, and the code does not do:  *)
(* without a known metric the module exits (wkp-module/README:175), an     *)
(* output directory that exists only warns (225), and packets of a listed  *)
(* source are passed on (detectionbase.h:195-201).                         *)
NoMetricNoRun == component = "init" => Beginning!NoMetricNoRun
ExistingDirOnlyWarns == [][component = "init" => Beginning!ExistingDirOnlyWarns]_sideVars
ListedAreGiven == component = "init" => Beginning!ListedAreGiven

(* snortmodule.cpp: a module's packets reach its own snort, whatever other *)
(* instances share the pipe's name.                                        *)
OwnSnort == component = "snort" => Snort!OwnSnort

(* A SIGTERM that is not ignored ends the Snort module and its snort.      *)
SigTermEndsModule ==
  \A i \in Instances : (component = "snort" /\ asked[i]) ~> (component = "snort" /\ Snort!Ended(i))

(* pcapwriter.cpp: the octets written are those the headers announce,      *)
(* until a record announces less than the IP header written for it.        *)
StreamStaysFramed == component = "writer" => Writer!StreamStaysFramed
=============================================================================
