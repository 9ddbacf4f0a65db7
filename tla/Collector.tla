----------------------------- MODULE Collector -----------------------------
(***************************************************************************)
(* Collector::run: the collector's start, its wait for a signal, and its   *)
(* shutdown, against the listener thread, the manager thread and the ends  *)
(* of detection modules.  Exchange of packets is PacketExchange's subject; *)
(* here a packet is a call of the callback and a post.                     *)
(*                                                                         *)
(* Handlers run on the main thread, which the kernel prefers for a signal  *)
(* to the process.                                                         *)
(***************************************************************************)
EXTENDS Naturals, Sequences, SequencesExt

CONSTANTS
  Modules,        \* the modules of the configuration
  MaxPackets,     \* bound: packets that arrive
  MaxSignals,     \* bound: SIGINT and SIGTERM
  MaxEnds         \* bound: modules that end

VARIABLES
  replaying, restartOnCrash,     \* configuration
  main,           \* pc of run()
  receivers,      \* IpfixCollector::ipfixReceivers: "receiver" or "NULL"
  socket,         \* the receiver's: "none", "unbound" or "bound"
  processorCount, \* the receiver's
  listener,       \* "none", "test", "recv", "lock", "callback", "ended"
  mutex,          \* the receiver's: "main", "listener" or "free"
  exit,           \* the receiver's
  shutdown, do_abort, terminateCollector,
  posts,          \* the manager's semaphore
  manager,        \* pc of Manager::run: "none", "test", "lock", "erase",
                  \* "remove", "notify", "ended"
  erasing,        \* the loop variable of notifyAll
  container,      \* ModuleContainer::detectionModules
  state,          \* DetectMod::state
  killing,        \* the iterator of killDetectionModules
  proc,           \* "alive", "exited", "crashed" (zombies), "gone"
  sigchld,        \* SIGCHLD pending
  told,           \* history: modules whose process has been sent SIGTERM
  arrived, signals, ends,        \* history, bounds
  dropped,        \* history: a packet has found no packet processor
  missed,         \* history: the last signal fell between test and pause
  overlapped      \* history: the manager erased while the modules were killed

config    == <<replaying, restartOnCrash>>
created   == <<receivers, socket, processorCount>>
receiver  == <<created, listener, mutex, exit, dropped>>
flags     == <<shutdown, do_abort, terminateCollector>>
managing  == <<posts, manager, erasing>>
modules   == <<container, state, proc, sigchld, told>>
history   == <<signals, ends, missed, overlapped>>
vars == <<config, main, receiver, flags, managing, modules, killing, arrived, history>>

Init ==
  /\ replaying \in BOOLEAN /\ restartOnCrash \in BOOLEAN
  /\ main = "create manager"
  /\ receivers = <<>> /\ socket = "none" /\ processorCount = 0
  /\ listener = "none" /\ mutex = "free" /\ exit = FALSE /\ dropped = FALSE
  /\ shutdown = FALSE /\ do_abort = FALSE /\ terminateCollector = FALSE
  /\ posts = 0 /\ manager = "none" /\ erasing = 1
  /\ container = SetToSeq(Modules) /\ state = [m \in Modules |-> "Running"]
  /\ proc = [m \in Modules |-> "alive"] /\ sigchld = FALSE /\ told = {}
  /\ killing = 1 /\ arrived = 0
  /\ signals = 0 /\ ends = 0 /\ missed = FALSE /\ overlapped = FALSE

\* run() ends by its return, by an exception, by a signal that has no handler
\* (SIGSEGV too), or by an iterator that has passed the end of the container.
Over == main \in {"returned", "thrown", "killed", "undefined"}
-----------------------------------------------------------------------------
(* The main thread *)

CreateManager ==
  /\ main = "create manager"
  /\ \/ main' = "handlers" /\ manager' = "test"
     \/ main' = "thrown" /\ UNCHANGED manager
  /\ UNCHANGED <<config, receiver, flags, posts, erasing, modules, killing, arrived, history>>

InstallHandlers ==
  /\ main = "handlers"
  /\ main' = IF replaying THEN "play" ELSE "create receiver"
  /\ UNCHANGED <<config, receiver, flags, managing, modules, killing, arrived, history>>

\* A packet of the recording goes through the callback on this thread.
Play ==
  /\ main = "play"
  /\ \/ /\ ~do_abort /\ arrived < MaxPackets
        /\ arrived' = arrived + 1 /\ posts' = posts + 1
        /\ UNCHANGED main
     \/ main' = "prepare" /\ UNCHANGED <<arrived, posts>>
  /\ UNCHANGED <<config, receiver, flags, manager, erasing, modules, killing, history>>

\* What socket and bind leave; createIpfixReceiver ignores their failures.
createUdpIpv4Receiver == {"none", "unbound", "bound"}

\* The socket is closed and the mutex unlocked; the receiver's is NULL.
destroyIpfixReceiver ==
  /\ socket' = "none" /\ mutex' = "free" /\ receivers' = Append(receivers, "NULL")
  /\ UNCHANGED listener

addIpfixReceiver(r) == receivers' = Append(receivers, r)

\* Mutant: the receiver is not locked while it has no packet processor.
CreateUnlocked ==
  /\ main = "create receiver" /\ main' = "add processor"
  /\ socket' \in createUdpIpv4Receiver
  /\ listener' = "test" /\ addIpfixReceiver("receiver")
  /\ UNCHANGED <<config, processorCount, mutex, exit, dropped, flags, managing, modules, killing,
                 arrived, history>>

\* createIpfixReceiver locks the receiver and starts its thread.  Without a
\* thread it returns NULL, and what it returns is added to the collector.
CreateReceiver ==
  /\ main = "create receiver" /\ main' = "add processor"
  /\ \/ /\ mutex' = "main"
        /\ socket' \in createUdpIpv4Receiver
        /\ listener' = "test" /\ addIpfixReceiver("receiver")
     \/ destroyIpfixReceiver
  /\ UNCHANGED <<config, processorCount, exit, dropped, flags, managing, modules, killing, arrived,
                 history>>

setPacketProcessors == processorCount' = processorCount + 1

\* The receiver, whose thread already runs, is given the packet processor;
\* NULL is dereferenced.
AddPacketProcessor ==
  /\ main = "add processor"
  /\ IF "NULL" \in ToSet(receivers)
       THEN main' = "killed" /\ UNCHANGED processorCount
       ELSE main' = "start receiver" /\ setPacketProcessors
  /\ UNCHANGED <<config, receivers, socket, listener, mutex, exit, dropped, flags, managing, modules,
                 killing, arrived, history>>

startIpfixReceiver == mutex' = IF mutex = "main" THEN "free" ELSE mutex

\* startIpfixCollector, for the receivers it has.
StartReceiver ==
  /\ main = "start receiver" /\ main' = "test"
  /\ \E r \in ToSet(receivers) : startIpfixReceiver
  /\ UNCHANGED <<config, created, listener, exit, dropped, flags, managing, modules, killing, arrived,
                 history>>

TestTerminate ==
  /\ main = "test"
  /\ main' = IF terminateCollector THEN "stop receiver" ELSE "about to pause"
  /\ UNCHANGED <<config, receiver, flags, managing, modules, killing, arrived, history>>

Pause ==
  /\ main = "about to pause"
  /\ main' = "paused"
  /\ UNCHANGED <<config, receiver, flags, managing, modules, killing, arrived, history>>

\* It keeps the lock.
stopIpfixReceiver == mutex = "free" /\ mutex' = "main" /\ exit' = TRUE

\* sleep(2) and stopIpfixCollector.
StopReceiver ==
  /\ main = "stop receiver" /\ main' = "prepare"
  /\ \E r \in ToSet(receivers) : stopIpfixReceiver
  /\ UNCHANGED <<config, created, listener, dropped, flags, managing, modules, killing, arrived, history>>

prepareShutdown == shutdown' = TRUE

PrepareShutdown ==
  /\ main = "prepare" /\ main' = "kill"
  /\ prepareShutdown
  /\ UNCHANGED <<config, receiver, do_abort, terminateCollector, managing, modules,
                 killing, arrived, history>>

\* An iteration of killDetectionModules, which compares the iterator with end().
KillModule ==
  /\ main = "kill"
  /\ IF killing > Len(container) + 1 THEN
       main' = "undefined" /\ UNCHANGED <<state, told, killing>>
     ELSE IF killing = Len(container) + 1 THEN
       main' = "cancel manager" /\ UNCHANGED <<state, told, killing>>
     ELSE LET m == container[killing] IN
       /\ state' = [state EXCEPT ![m] = "Crashed"]      \* stopModule
       /\ told' = told \cup {m}
       /\ killing' = killing + 1 /\ UNCHANGED main
  /\ UNCHANGED <<config, receiver, flags, managing, container, proc, sigchld, arrived, history>>

CancelManager ==
  /\ main = "cancel manager"
  /\ main' = "returned" /\ manager' = "ended"
  /\ UNCHANGED <<config, receiver, flags, posts, erasing, modules, killing, arrived, history>>
-----------------------------------------------------------------------------
(* The listener: udpListener *)

TestExit ==
  /\ listener = "test" /\ ~Over
  /\ listener' = IF exit THEN "ended" ELSE "recv"
  /\ UNCHANGED <<config, main, created, mutex, exit, dropped, flags, managing, modules, killing,
                 arrived, history>>

\* recvfrom fails without a socket, and waits for ever at one that is not bound.
ReceivePacket ==
  /\ listener = "recv" /\ ~Over
  /\ \/ socket = "none" /\ listener' = "ended" /\ UNCHANGED arrived
     \/ socket = "bound" /\ arrived < MaxPackets /\ listener' = "lock" /\ arrived' = arrived + 1
  /\ UNCHANGED <<config, main, created, mutex, exit, dropped, flags, managing, modules, killing, history>>

\* Without a processor the packet is lost.
LockReceiver ==
  /\ listener = "lock" /\ mutex = "free" /\ ~Over
  /\ IF processorCount = 0
       THEN listener' = "test" /\ dropped' = TRUE /\ UNCHANGED mutex
       ELSE mutex' = "listener" /\ listener' = "callback" /\ UNCHANGED dropped
  /\ UNCHANGED <<config, main, created, exit, flags, managing, modules, killing, arrived, history>>

\* messageCallBackFunction, up to newPacket.
Callback ==
  /\ listener = "callback" /\ ~Over
  /\ posts' = posts + 1
  /\ mutex' = "free" /\ listener' = "test"
  /\ UNCHANGED <<config, main, created, exit, dropped, flags, manager, erasing, modules, killing, arrived,
                 history>>
-----------------------------------------------------------------------------
(* The manager: Manager::run *)

ManagerTest ==
  /\ manager = "test" /\ ~Over
  /\ manager' = IF shutdown THEN "ended" ELSE "lock"
  /\ UNCHANGED <<config, main, receiver, flags, posts, erasing, modules, killing, arrived, history>>

ManagerLock ==
  /\ manager = "lock" /\ posts > 0 /\ ~Over
  /\ posts' = posts - 1 /\ manager' = "erase" /\ erasing' = 1
  /\ UNCHANGED <<config, main, receiver, flags, modules, killing, arrived, history>>

\* The loop of notifyAll that erases removed modules: it tests the state of
\* one, and erases what it has found, whatever has been made of it since.
TestRemoved ==
  /\ manager = "erase" /\ ~Over
  /\ IF erasing > Len(container)
       THEN manager' = "notify" /\ UNCHANGED erasing
       ELSE IF state[container[erasing]] = "Remove"
         THEN manager' = "remove" /\ UNCHANGED erasing
         ELSE erasing' = erasing + 1 /\ UNCHANGED manager
  /\ UNCHANGED <<config, main, receiver, flags, posts, modules, killing, arrived, history>>

EraseRemoved ==
  /\ manager = "remove" /\ ~Over
  /\ manager' = "erase"
  /\ container' = RemoveAt(container, erasing)
  /\ overlapped' = (overlapped \/ main = "kill")
  /\ UNCHANGED <<config, main, receiver, flags, posts, erasing, state, proc, sigchld, told, killing,
                 arrived, signals, ends, missed>>

\* The modules are told and waited for: one that is stopped has no semaphore
\* any more, and one that runs answers.
NotifyModules ==
  /\ manager = "notify" /\ ~Over
  /\ manager' = "test"
  /\ UNCHANGED <<config, main, receiver, flags, posts, erasing, modules, killing, arrived, history>>
-----------------------------------------------------------------------------
(* Signals *)

\* Mutant: a signal does not end the pause.
SleepOn == UNCHANGED main

\* A handler ends the pause.
Wake == main' = IF main = "paused" THEN "test" ELSE main

\* sigInt, for SIGINT and SIGTERM; without a handler the signal kills.
SigInt ==
  /\ ~Over /\ signals < MaxSignals
  /\ signals' = signals + 1
  /\ IF main \in {"create manager", "handlers"}
       THEN main' = "killed" /\ UNCHANGED <<flags, missed>>
       ELSE /\ shutdown' = TRUE /\ do_abort' = TRUE /\ terminateCollector' = TRUE
            /\ missed' = (main = "about to pause")
            /\ Wake
  /\ UNCHANGED <<config, receiver, managing, modules, killing, arrived, ends, overlapped>>

\* A module ends of itself, or of SIGTERM.
ModuleEnds ==
  /\ ~Over /\ ends < MaxEnds
  /\ \E m \in Modules, how \in {"exited", "crashed"} :
       /\ proc[m] = "alive"
       /\ proc' = [proc EXCEPT ![m] = how]
  /\ sigchld' = TRUE /\ ends' = ends + 1
  /\ UNCHANGED <<config, main, receiver, flags, managing, container, state, told, killing,
                 arrived, signals, missed, overlapped>>

\* Mutant: the handler treats a module's end also during the shutdown.
ShutdownIgnored == FALSE

\* sigAlarm and sigChild do nothing once the shutdown is announced.
ShutdownAnnounced == shutdown

\* The first module with the pid.
setState(m, to) == state' = [state EXCEPT ![m] = to]

\* sigChild reaps one module: an exit removes it, a crash restarts or removes.
SigChild ==
  /\ sigchld /\ ~Over
  /\ sigchld' = FALSE
  /\ Wake
  /\ IF ShutdownAnnounced THEN UNCHANGED <<state, proc, told>>
     ELSE \E m \in Modules :
       /\ proc[m] \in {"exited", "crashed"}
       /\ IF proc[m] = "crashed" /\ restartOnCrash
            THEN /\ state' = [state EXCEPT ![m] = "Running"]
                 /\ proc' = [proc EXCEPT ![m] = "alive"]
                 /\ told' = told \ {m}
            ELSE /\ setState(m, "Remove")
                 /\ proc' = [proc EXCEPT ![m] = "gone"]
                 /\ UNCHANGED told
  /\ UNCHANGED <<config, receiver, flags, managing, container, killing, arrived, history>>
-----------------------------------------------------------------------------
MainThread == \/ CreateManager \/ InstallHandlers \/ Play \/ CreateReceiver
              \/ AddPacketProcessor \/ StartReceiver
              \/ TestTerminate \/ Pause \/ StopReceiver \/ PrepareShutdown \/ KillModule
              \/ CancelManager
Listener == TestExit \/ ReceivePacket \/ LockReceiver \/ Callback
ManagerThread == \/ ManagerTest \/ ManagerLock \/ TestRemoved \/ EraseRemoved
                 \/ NotifyModules
Kernel == SigInt \/ ModuleEnds \/ SigChild

\* The system is over, or waits for packets and signals that do not come.
Idle == (Over \/ main = "paused") /\ UNCHANGED vars

Next == MainThread \/ Listener \/ ManagerThread \/ Kernel \/ Idle

Fairness == WF_vars(MainThread) /\ WF_vars(Listener)

Spec == Init /\ [][Next]_vars /\ Fairness
-----------------------------------------------------------------------------
(* Properties *)

\* The callback runs only while the receiver is started, and never again once it
\* is stopped, also for a packet that the listener was waiting for then; and no
\* packet is read before its processor is there.
CallbackOnlyWhileStarted ==
  /\ listener = "callback" =>
       main \in {"test", "about to pause", "paused", "stop receiver"} \/ Over
  /\ ~dropped

\* Unless the manager erases from the container at the same time, the modules
\* are killed without leaving the container, and when run() returns, every
\* module process that lives has been sent SIGTERM.
NoModuleSurvives ==
  main \in {"returned", "undefined"} /\ ~overlapped =>
    /\ main = "returned"
    /\ \A m \in Modules : proc[m] = "alive" => m \in told

\* What manager.h:115 promises of killModules, with no exception: when run()
\* returns, all running modules have been killed.  The manager may erase one
\* from the container while the iterator walks over it (MCKillModules.cfg).
AllModulesKilled ==
  main = "returned" => \A m \in Modules : proc[m] = "alive" => m \in told

\* A signal ends run(), unless it falls between the test and the pause.
Signalled == terminateCollector /\ ~missed
RunEnds == Over \/ missed
SignalEndsRun == Signalled ~> RunEnds
=============================================================================
