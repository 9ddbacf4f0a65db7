----------------------------- MODULE ModuleInit -----------------------------
(***************************************************************************)
(* The start of a detection module up to exec(): the statistics, the count *)
(* and the Snort module read their preferences, subscribe to the sources   *)
(* and fields they want and call stop() when a preference is refused; then *)
(* exec() runs the module or not, and the packet reader hands on what has  *)
(* been subscribed to.  A configuration file is a record of what matters   *)
(* about it; "bad" holds the elements with a value that cannot be used (a  *)
(* number out of range, a file that cannot be opened).                     *)
(***************************************************************************)
EXTENDS Naturals, Sequences, SequencesExt

CONSTANTS
  Files,          \* bound: configuration files
  Packets         \* bound: packets, [source |-> four octets, fields |-> ..., fixed |-> ...]

VARIABLES
  module,         \* "statistics", "count" or "snort"
  file,           \* its configuration file
  phase,          \* "init", "running", "returned" (from exec), "undefined"
  step,           \* what init does next, an index of Order
  flag,           \* DetectionBase::state
  idList, sourceIdList, alarm, \* subscriptions, DetectionBase::alarmTime
  monitors,       \* StatStore::beginMonitoring
  packet, given  \* the last packet imported, the fields its storage was given

vars == <<module, file, phase, step, flag, idList, sourceIdList, alarm, monitors,
          packet, given>>
reading == <<packet, given>>

NoPacket == [source |-> <<>>, fields |-> {}, fixed |-> {}]
Rejected == {"rejected"}
AddressFields == {"source address", "destination address"}
PortFields == {"source port", "destination port"}
CountFields == AddressFields \cup PortFields \cup {"protocol", "bytes", "packets"}
SnortFields == AddressFields \cup PortFields \cup {"protocol", "section"}

\* The order of the preferences in each init.
Order ==
  [statistics |->
     <<"preferences", "warning_verbosity", "logfile", "logfile_output_verbosity",
       "source ids", "alarm_time", "offline_file", "netmask", "metrics", "output_dir",
       "endpoint_key", "endpoints", "cusum", "wkp", "begin", "offline data", "exec">>,
   count |-> <<"preferences", "output_file", "alarm_time", "source ids", "fields", "exec">>,
   snort |-> <<"fields", "source ids", "exec">>]

Init ==
  /\ file \in Files /\ module = file.module
  /\ phase = "init" /\ step = 1 /\ flag = "RUN"
  /\ idList = {} /\ sourceIdList = <<>> /\ alarm = 10 /\ monitors = FALSE
  /\ packet = NoPacket /\ given = Rejected

At(s) == phase = "init" /\ Order[module][step] = s
Goto(s) == step' = SelectInSeq(Order[module], LAMBDA t : t = s)
Proceed == step' = step + 1
stop == flag' = "EXIT"
-----------------------------------------------------------------------------
(* The preferences *)

\* Without preferences the statistics module deletes its configuration, calls
\* stop() and goes on reading; the count module keeps its defaults.
Preferences ==
  /\ At("preferences")
  /\ IF file.preferences THEN Proceed /\ UNCHANGED <<phase, flag>>
     ELSE IF module = "count" THEN Goto("fields") /\ UNCHANGED <<phase, flag>>
     ELSE stop /\ phase' = "undefined" /\ UNCHANGED step
  /\ UNCHANGED <<module, file, idList, sourceIdList, alarm, monitors, reading>>

\* A value that is refused calls stop(), and init goes on.
Check(s, refused) ==
  /\ At(s) /\ Proceed
  /\ IF refused THEN stop ELSE UNCHANGED flag
  /\ UNCHANGED <<module, file, phase, idList, sourceIdList, alarm, monitors, reading>>

OutputVerbosity == Check("warning_verbosity", "warning_verbosity" \in file.bad)
LogFile         == Check("logfile", "logfile" \in file.bad)
LogVerbosity    == Check("logfile_output_verbosity", "logfile_output_verbosity" \in file.bad)
OutputFile      == Check("output_file", "output_file" \in file.bad)
Netmask         == Check("netmask", "netmask" \in file.bad)
OfflineFile     == Check("offline_file", file.offline /\ "offline_file" \in file.bad)

\* Every piece of the list is cut from its start: the first id, once for each.
Subscribed(list) == [i \in DOMAIN list |-> list[1]]

\* To the other modules "all" is a list, and atoi makes it 0.
ListedSources == IF file.all_sources THEN <<0>> ELSE Subscribed(file.source_ids)

SourceIds ==
  /\ At("source ids") /\ Proceed
  /\ sourceIdList' =
       IF file.offline \/ (module = "statistics" /\ file.all_sources) THEN <<>>
       ELSE ListedSources
  /\ UNCHANGED <<module, file, phase, flag, idList, alarm, monitors, reading>>

AlarmTime ==
  /\ At("alarm_time") /\ Proceed
  /\ alarm' = IF file.offline THEN 0 ELSE file.alarm_time
  /\ UNCHANGED <<module, file, phase, flag, idList, sourceIdList, monitors, reading>>

Subscribe(s, fields) ==
  /\ At(s) /\ Proceed
  /\ idList' = IF file.offline THEN idList ELSE idList \cup fields
  /\ UNCHANGED <<module, file, phase, flag, sourceIdList, monitors, reading>>

\* A metric is the set of the counters it requires.  Of a name that is no
\* metric, and of no metrics at all, init only prints a message.
UnknownMetric == {"unknown"}
Known == file.metrics \ {UnknownMetric}
Metrics == Subscribe("metrics", UNION Known) /\ UNCHANGED alarm

KeyFields(key) ==
  UNION {CASE k = "protocol" -> {"protocol"} [] k = "address" -> AddressFields
           [] k = "port" -> PortFields : k \in key}
EndpointKey == Subscribe("endpoint_key", KeyFields(file.key)) /\ UNCHANGED alarm

\* The fields that the count module's init and Snort's constructor name.
Fields ==
  /\ Subscribe("fields", IF module = "count" THEN CountFields ELSE SnortFields)
  /\ alarm' = IF module = "snort" THEN 0 ELSE alarm

\* Mutant: init returns, but the module is not stopped.
LeaveRunning == UNCHANGED flag
LeaveStopped == stop

\* A directory that mkdir cannot make, also because it exists already, ends init
\* at once.
NotMade == {"output_dir", "existing output_dir"}
OutputDir ==
  /\ At("output_dir")
  /\ IF NotMade \cap file.bad # {} THEN Goto("offline data") /\ LeaveStopped
                                  ELSE Proceed /\ UNCHANGED flag
  /\ UNCHANGED <<module, file, phase, idList, sourceIdList, alarm, monitors, reading>>

\* Either the data file is read for the most frequent endpoints, or the file of
\* the endpoints to monitor.
Unopenable == {"offline_file", "offline data"} \cap file.bad # {}
Endpoints ==
  Check("endpoints", IF file.offline /\ file.frequent THEN Unopenable
                     ELSE "endpoints_to_monitor" \in file.bad)

CusumTest ==
  Check("cusum", file.cusum = "enabled"
                 /\ {"amplitude_percentage", "smoothing_constant"} \cap file.bad # {})
WkpTest == Check("wkp", file.wkp = "enabled" /\ "significance_level" \in file.bad)

BeginMonitoring ==
  /\ At("begin") /\ Proceed
  /\ monitors' = TRUE
  /\ UNCHANGED <<module, file, phase, flag, idList, sourceIdList, alarm, reading>>

\* The constructor opens the offline file, if it is to be read.
OpenOffline == Check("offline data", file.offline /\ Unopenable)
-----------------------------------------------------------------------------
(* Signals, exec, and the reader *)

\* The handlers are installed before init and Snort's readConfig.
SigTerm ==
  /\ phase = "init" /\ flag = "RUN" /\ ~(module = "snort" /\ At("fields"))
  /\ stop
  /\ UNCHANGED <<module, file, phase, step, idList, sourceIdList, alarm, monitors, reading>>

\* Its races with a SIGTERM are DetectionBase's subject.
Exec ==
  /\ At("exec")
  /\ phase' = IF flag = "EXIT" THEN "returned" ELSE "running"
  /\ UNCHANGED <<module, file, step, flag, idList, sourceIdList, alarm, monitors, reading>>

isIdInList(id) == idList = {} \/ id \in idList
isSourceIdInList(id) ==
  sourceIdList = <<>> \/ \E i \in DOMAIN sourceIdList : sourceIdList[i] = id

\* Two octets of the header at 12, the first two of the source id, in the
\* order of a little-endian machine.
SourceField(p) == p.source[1] + 256 * p.source[2]

\* recordStart of the statistics module rejects records before init's end.  What
\* is passed are the fields of the record and the fixed ones of its template.
Passed(p) ==
  IF module = "statistics" /\ ~monitors THEN Rejected
  ELSE {f \in p.fields \cup p.fixed : isIdInList(f)}

Import(p) ==
  /\ phase = "running" /\ ~file.offline
  /\ packet' = p
  /\ given' = IF isSourceIdInList(SourceField(p)) THEN Passed(p) ELSE Rejected
  /\ UNCHANGED <<module, file, phase, step, flag, idList, sourceIdList, alarm, monitors>>

Over == phase # "init" /\ UNCHANGED vars

Next ==
  \/ Preferences \/ OutputVerbosity \/ LogFile \/ LogVerbosity \/ OutputFile \/ SourceIds
  \/ AlarmTime \/ OfflineFile \/ Netmask \/ Metrics \/ OutputDir \/ EndpointKey
  \/ Endpoints \/ CusumTest \/ WkpTest \/ BeginMonitoring \/ OpenOffline \/ Fields
  \/ SigTerm \/ Exec \/ Over
  \/ \E p \in Packets : Import(p)

Spec == Init /\ [][Next]_vars
-----------------------------------------------------------------------------
(* Properties *)

\* The elements of the file that a run depends on and whose value init looks at:
\* not those of a test that is switched off, nor those of another build.
Used ==
  CASE module = "statistics" ->
         {"warning_verbosity", "logfile", "logfile_output_verbosity", "netmask", "output_dir"}
         \cup (IF file.offline THEN {"offline_file", "offline data"} ELSE {})
         \cup (IF file.offline /\ file.frequent THEN {} ELSE {"endpoints_to_monitor"})
         \cup (IF file.cusum = "enabled" THEN {"amplitude_percentage", "smoothing_constant"}
                                         ELSE {})
         \cup (IF file.wkp = "enabled" THEN {"significance_level"} ELSE {})
    [] module = "count" -> IF file.preferences THEN {"output_file"} ELSE {}
    [] OTHER -> {}

\* What the module computes with.
Needed ==
  CASE module = "statistics" -> (UNION Known) \cup KeyFields(file.key)
    [] module = "count" -> CountFields
    [] OTHER -> SnortFields

\* No list of sources, or what the statistics module takes for none.
Unlisted == IF file.all_sources THEN module = "statistics" ELSE file.source_ids = <<>>

\* A module that runs has none of the elements refused that it depends on;
\* without a list of sources it is given every packet, and of a packet that it
\* is given every field that its metrics, key or packets are made of.
RunsAsConfigured ==
  phase = "running" =>
    /\ file.bad \cap Used = {}
    /\ packet # NoPacket =>
         /\ Unlisted => given # Rejected
         /\ given # Rejected => (packet.fields \cup packet.fixed) \cap Needed \subseteq given

\* The metrics, as wkp-module/README:175 has it: if nothing or something else is
\* given, the module exits after an error message (MCMetrics.cfg).
NoMetricNoRun ==
  phase = "running" /\ module = "statistics" => file.metrics # {} /\ Known = file.metrics

\* The output directory, as wkp-module/README:225 has it: if it exists already,
\* there is no output and a warning, so that it stops no module (MCOutputDir.cfg).
ExistingDirOnlyWarns ==
  file.bad = {"existing output_dir"} /\ step' # step => flag' = flag

\* The sources, as detectionbase.h:195-201 has it: packets with a subscribed
\* source id are passed on (MCSources.cfg).  The header has the id in network
\* order.
SourceId(p) == FoldLeft(LAMBDA id, octet : 256 * id + octet, 0, p.source)
ListedAreGiven ==
  phase = "running" /\ packet # NoPacket /\ file.preferences /\ ~file.all_sources
    /\ (\E i \in DOMAIN file.source_ids : file.source_ids[i] = SourceId(packet))
    => given # Rejected
=============================================================================
