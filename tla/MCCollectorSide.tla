-------------------------- MODULE MCCollectorSide --------------------------
(* The components of the collector around the packet exchange, checked     *)
(* side by side: start and end of its run, the reading of its              *)
(* configuration before, and the recorder that replaces its receiver.      *)
(* Collector is extended, so that its properties are named as they stand   *)
(* there; where it is not looked at, its threads are at rest.              *)
EXTENDS Collector, Integers, Sequences

CONSTANTS
  Collectors, FirstCollector, MaxProcesses, MaxEndings, MaxKills,  \* ModuleStart
  ClockWidth, MaxRecorded, MaxTime, MaxLateness  \* Recorder

VARIABLES
  component,  \* the one this behaviour is of
  body, unusable, cursor, reading, added, settings, entries,
  shm, sem, shmKey, storageKey, pc, frames, place, kept, semKey, semId, pid,
  pipe, childEnded, useFiles, restarting, missing, broken, process, endings,
  kills, orderly,
  mode, clock, start, index, number, files, line, t, wake, arrivals, delivered,
  aborted, cut

(* Configuration files: sections in every order, some of them missing,     *)
(* white space between some.                                               *)
Named(name, children) == [name |-> name, value |-> "", children |-> children]
Leaf(name, value) == [name |-> name, value |-> value, children |-> <<>>]
Text == Leaf("text", "")
Module(file, run, args) ==
  Named("detectionmodule", <<Text, Leaf("filename", file), Leaf("configfile", "c")>>
                           \o args \o <<Leaf("run", run)>>)
ModuleSections ==
  {Named("detectionmodules", ms) : ms \in
     {<<Text>>, <<Text, Module("f1", "yes", <<>>)>>, <<Module("f1", "maybe", <<>>)>>,
      <<Module("f1", "no", <<Leaf("arg", "a"), Text, Leaf("arg", "b")>>), Text,
        Named("detectionmodule", <<>>), Module("f2", "yes", <<Leaf("arg", "c")>>)>>}}
Protocols ==
  {[name |-> "exchangeprotocol", value |-> "files", children |-> <<Text, Leaf("packetdir", "dir/")>>],
   [name |-> "exchangeprotocol", value |-> "files", children |-> <<Leaf("packetdir", "dir")>>],
   [name |-> "exchangeprotocol", value |-> "shm", children |-> <<Leaf("shmsize", "n")>>],
   [name |-> "exchangeprotocol", value |-> "pipes", children |-> <<>>]}
Players == {Named("player", <<Leaf("action", "replay"), Leaf("trafficdir", "t")>>),
            Named("player", <<Text, Leaf("action", "record")>>)}
Settings == {Leaf("listenport", "4711"), Leaf("restartOnCrash", "yes"), Leaf("workingDir", "w")}
Orders == {p \in [1..4 -> 1..4] : \A i, j \in 1..4 : p[i] = p[j] => i = j}
Bodies == {<<Text>> \o [i \in 1..k |-> <<m, e, p, s>>[order[i]]] :
             m \in ModuleSections, e \in Protocols, p \in Players, s \in Settings,
             order \in Orders, k \in 3..4}

Slashed == {"dir/"}
Files == {"f1"}

(* Collectors of one host with a module each; the file of the first one's  *)
(* module may be missing or not executable.                                *)
ModuleCount == [c \in Collectors |-> 1]
Configurations ==
  {[useFiles |-> FALSE, restartOnCrash |-> TRUE, missing |-> {}, broken |-> {<<c, 1>>}] :
     c \in {FirstCollector}}
  \cup {[useFiles |-> TRUE, restartOnCrash |-> FALSE, missing |-> {}, broken |-> {}],
        [useFiles |-> FALSE, restartOnCrash |-> TRUE, missing |-> {<<FirstCollector, 1>>}, broken |-> {}]}

Conf == INSTANCE Configuration WITH config <- cursor, modules <- added
Start == INSTANCE ModuleStart WITH index <- place, container <- kept, sigchld <- childEnded,
  restartOnCrash <- restarting, ends <- endings, MaxEnds <- MaxEndings
Rec == INSTANCE Recorder WITH do_abort <- aborted, MaxPackets <- MaxRecorded

Components == {"collector", "configuration", "start", "recorder"}
CollVars == <<replaying, restartOnCrash, main, receivers, socket,
              processorCount, listener, mutex, exit, dropped, shutdown,
              do_abort, terminateCollector, posts, manager, erasing,
              container, state, killing, proc, sigchld, told, arrived,
              signals, ends, missed, overlapped>>
ConfVars == <<body, unusable, cursor, reading, added, settings, entries>>
StartVars == <<shm, sem, shmKey, storageKey, pc, frames, place, kept,
               semKey, semId, pid, pipe, childEnded, useFiles, restarting,
               missing, broken, process, endings, kills, orderly>>
RecVars == <<mode, clock, start, index, number, files, line, t, wake, arrivals,
             delivered, aborted, cut>>
sideVars == <<component, CollVars, ConfVars, StartVars, RecVars>>

(* The components that are not looked at are at rest. *)
CollIdle ==
  replaying = 0 /\ restartOnCrash = 0 /\ main = "idle" /\ receivers = 0 /\
  socket = 0 /\ processorCount = 0 /\ listener = "none" /\ mutex = 0 /\ exit
  = 0 /\ dropped = FALSE /\ shutdown = 0 /\ do_abort = 0 /\
  terminateCollector = FALSE /\ posts = 0 /\ manager = 0 /\ erasing = 0 /\
  container = 0 /\ state = 0 /\ killing = 0 /\ proc = 0 /\ sigchld = 0 /\
  told = 0 /\ arrived = 0 /\ signals = 0 /\ ends = 0 /\ missed = FALSE /\
  overlapped = FALSE
ConfIdle ==
  body = 0 /\ unusable = 0 /\ cursor = 0 /\ reading = 0 /\ added = 0 /\
  settings = 0 /\ entries = 0
StartIdle ==
  shm = 0 /\ sem = 0 /\ shmKey = 0 /\ storageKey = 0 /\ pc = 0 /\ frames = 0
  /\ place = 0 /\ kept = 0 /\ semKey = 0 /\ semId = 0 /\ pid = 0 /\ pipe = 0
  /\ childEnded = 0 /\ useFiles = 0 /\ restarting = 0 /\ missing = 0 /\
  broken = 0 /\ process = 0 /\ endings = 0 /\ kills = 0 /\ orderly = 0
RecIdle ==
  mode = 0 /\ clock = 0 /\ start = 0 /\ index = 0 /\ number = 0 /\ files = 0
  /\ line = 0 /\ t = 0 /\ wake = 0 /\ arrivals = 0 /\ delivered = 0 /\
  aborted = 0 /\ cut = 0

SideInit ==
  /\ component \in Components
  /\ IF component = "collector" THEN Init ELSE CollIdle
  /\ IF component = "configuration" THEN Conf!Init ELSE ConfIdle
  /\ IF component = "start" THEN Start!Init ELSE StartIdle
  /\ IF component = "recorder" THEN Rec!Init ELSE RecIdle

SideNext ==
  \/ /\ component = "collector" /\ Next
     /\ UNCHANGED <<component, ConfVars, StartVars, RecVars>>
  \/ /\ component = "configuration" /\ Conf!Next
     /\ UNCHANGED <<component, CollVars, StartVars, RecVars>>
  \/ /\ component = "start" /\ Start!Next
     /\ UNCHANGED <<component, CollVars, ConfVars, RecVars>>
  \/ /\ component = "recorder" /\ Rec!Next
     /\ UNCHANGED <<component, CollVars, ConfVars, StartVars>>

(* The main thread and the receiver's thread go on while they can, and so  *)
(* do the start of a module and the module that starts; nothing is assumed *)
(* of the manager, of modules that run and of the signals.                 *)
SideFairness ==
  /\ WF_CollVars(component = "collector" /\ MainThread)
  /\ WF_CollVars(component = "collector" /\ Listener)
  /\ WF_StartVars(component = "start" /\ Start!Progress)

SideSpec == SideInit /\ [][SideNext]_sideVars /\ SideFairness

-----------------------------------------------------------------------------
(* confobj.cpp, collector.cpp: in whatever order the file has its          *)
(* elements, modules and settings are those it gives.                      *)
ConfiguredAsWritten == component = "configuration" => Conf!ConfiguredAsWritten

(* sharedobj.cpp, detectmod.cpp, filepolicy.cpp: a module has its own      *)
(* semaphore and its own collector's block, whichever other collectors     *)
(* allocate, die and restart modules at the same time.                     *)
AttachedToOwn == component = "start" => Start!AttachedToOwn

(* A collector that ends in order leaves no semaphore of a module it still *)
(* had, and not its block.                                                 *)
OrderlyEndFrees == component = "start" => Start!OrderlyEndFrees

(* A module that has been forked attaches or ends, unless its collector is *)
(* over: the two sides of the start do not wait for each other.            *)
StartsEnd ==
  \A p \in 1..MaxProcesses :
    (component = "start" /\ Start!Begun(p)) ~> (component = "start" /\ Start!Settled(p))

(* recorder.cpp: a replay hands on the recorded packets in order, and early *)
(* only those whose own sleep a signal has ended.                          *)
EarlyOnlyIfCut == component = "recorder" => Rec!EarlyOnlyIfCut
=============================================================================
