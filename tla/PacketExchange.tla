--------------------------- MODULE PacketExchange ---------------------------
(***************************************************************************)
(* How TOPAS hands IPFIX packets from the collector to its detection       *)
(* modules, with files as the exchange medium, and how the manager         *)
(* supervises the modules while it does so.  The actors:                   *)
(*                                                                         *)
(*  - the listener thread (Collector::messageCallBackFunction) writes a    *)
(*    packet file, registers it in the packet store and posts the          *)
(*    manager's semaphore;                                                 *)
(*  - the manager thread (Manager::run) takes one post per round, tells    *)
(*    each module in turn the range of new files, waits for each, and      *)
(*    deletes the files of the range;                                      *)
(*  - a detection module process sleeps on its own SysV semaphore, parses  *)
(*    the files of the range and lowers the semaphore again;               *)
(*  - the kernel's SIGALRM and SIGCHLD run the manager's handlers, which   *)
(*    kill slow modules and restart or remove dead ones.                   *)
(*                                                                         *)
(* The manager's "mutex" is a counting semaphore (commonutils/mutex.cpp),  *)
(* created at 1 and taken once by the constructor, so it starts at 0.      *)
(* Shutdown is not part of this module: the static flag Manager::shutdown  *)
(* is false throughout.                                                    *)
(***************************************************************************)
EXTENDS Integers, Sequences, SequencesExt, FileCounter

CONSTANTS
  NumModules,  \* modules the configuration starts; container order 1..NumModules
  Failures,    \* which failures happen: a subset of FailureKinds
  MaxPackets,  \* bound: packets that arrive
  MaxStored,   \* bound: packets in the store at once; the code has no such
               \* bound and relies on the manager to keep up
  MaxDeaths,   \* bound: module processes that die of themselves
  WrapsAtOnce  \* the build stores a wrapping FileCounter once; the default
               \* build, without optimisation, stores MAX_FILES first

FailureKinds == {"write", "crash", "exit", "hang"}

ASSUME ExchangeAssumption ==
  /\ NumModules \in Nat \ {0}
  /\ Failures \subseteq FailureKinds
  /\ MaxPackets \in Nat
  /\ MaxStored \in Nat
  /\ MaxStored < MAX_FILES
  /\ MaxDeaths \in Nat
  /\ WrapsAtOnce \in BOOLEAN

Modules == 1 .. NumModules

NoFile == 0      \* content of a file name that does not exist
NoModule == 0
Removed == -1    \* semaphore value after IPC_RMID: semop fails with EIDRM

VARIABLES
  \* the listener thread
  lpc,         \* "idle", "push" (file written), "wrap" (within ++newest),
               \* "post" (about to call newPacket)
  counter,     \* the static FileCounter of exportToSink
  arrived,     \* packets received so far (history, bounds the model)
  written,     \* packets written to a file so far (history, numbers the packets)
  \* the packet directory and the packet store
  disk,        \* file name -> number of the packet it holds, or NoFile
  fileNames,   \* IpfixFile::fileNames, oldest first
  stored,      \* IpfixPacketStore::files.size()
  newest,      \* fs.newest
  oldest,      \* fs.oldest
  \* the shared memory block
  from, to,
  \* the manager thread
  wakeups,     \* value of Manager::mutex
  mpc,         \* "lock", "erase", "set", "raise", "mark", "wait", "waiting",
               \* "clear", "aborted"
  cur,         \* position in the container of notifyAll's loops
  alarm,       \* TRUE while alarm(killTime) is running
  \* the module container
  container,   \* ModuleContainer::detectionModules
  state,       \* DetectMod::state
  busy,        \* DetectMod::busy
  restartOnCrash,
  \* the kernel
  proc,        \* "alive", "exited" or "crashed" (zombies), "gone" (reaped)
  sem,         \* the module's SysV semaphore
  sigterm,     \* SIGTERM sent to the process and not yet acted upon
  sigchld,     \* SIGCHLD pending: one bit, however many children died
  reaped,      \* the module whose crash the SIGCHLD handler is treating
  onManager,   \* the handler interrupted the manager thread
  deaths,      \* processes that died of themselves (bounds the model)
  \* the module processes
  dpc,         \* "wait", "begin", "import", "notify"
  pos,         \* the loop variable i of PacketReader::import
  parsed       \* the packets the current process has parsed (history)

listenerVars  == <<lpc, counter, arrived, written>>
storeVars     == <<disk, fileNames, stored, newest, oldest>>
rangeVars     == <<from, to>>
managerVars   == <<mpc, cur, alarm>>
containerVars == <<container, state, busy, restartOnCrash>>
kernelVars    == <<proc, sem, sigterm, sigchld, reaped, onManager, deaths>>
moduleVars    == <<dpc, pos, parsed>>
vars == <<listenerVars, storeVars, rangeVars, wakeups, managerVars,
          containerVars, kernelVars, moduleVars>>

-----------------------------------------------------------------------------
(* The listener thread.                                                    *)

\* recvfrom up to IpfixFile::writePacket.  A packet that cannot be written is
\* not registered, but the callback posts the manager all the same.
ReceivePacket ==
  /\ lpc = "idle"
  /\ arrived < MaxPackets
  /\ stored < MaxStored
  /\ arrived' = arrived + 1
  /\ \/ /\ disk' = [disk EXCEPT ![counter] = written + 1]
        /\ fileNames' = Append(fileNames, counter)
        /\ written' = written + 1
        /\ lpc' = "push"
     \/ /\ "write" \in Failures
        /\ lpc' = "post"
        /\ UNCHANGED <<disk, fileNames, written>>
  /\ UNCHANGED <<counter, stored, newest, oldest, rangeVars, wakeups,
                 managerVars, containerVars, kernelVars, moduleVars>>

\* IpfixPacketStore::pushIpfixPacket, then counter++ .  The store's mutex is
\* held, but getPacketStats does not take it: the manager may read newest
\* between the two stores of a wrapping ++newest.
PushPacket ==
  /\ lpc = "push"
  /\ stored' = stored + 1
  /\ \/ /\ WrapsAtOnce \/ newest + 1 # MAX_FILES
        /\ newest' = Inc(newest)
        /\ counter' = Inc(counter)
        /\ lpc' = "post"
     \/ /\ ~WrapsAtOnce /\ newest + 1 = MAX_FILES
        /\ newest' = MAX_FILES
        /\ lpc' = "wrap"
        /\ UNCHANGED counter
  /\ UNCHANGED <<arrived, written, disk, fileNames, oldest, rangeVars, wakeups,
                 managerVars, containerVars, kernelVars, moduleVars>>

\* The second store of ++newest, then counter++ .
WrapNewest ==
  /\ lpc = "wrap"
  /\ newest' = 0
  /\ counter' = Inc(counter)
  /\ lpc' = "post"
  /\ UNCHANGED <<arrived, written, disk, fileNames, stored, oldest, rangeVars,
                 wakeups, managerVars, containerVars, kernelVars, moduleVars>>

\* Mutant of Post: a signal that nobody remembers unless the manager sleeps.
PostIfAsleep == wakeups' = IF mpc = "lock" THEN wakeups + 1 ELSE wakeups

\* Mutex::unlock is sem_post: the value is not capped at 1.
Post == wakeups' = wakeups + 1

\* Manager::newPacket: one post per received packet.
NewPacket ==
  /\ lpc = "post"
  /\ Post
  /\ lpc' = "idle"
  /\ UNCHANGED <<counter, arrived, written, storeVars, rangeVars,
                 managerVars, containerVars, kernelVars, moduleVars>>

-----------------------------------------------------------------------------
(* The manager thread.  It takes no step while a SIGCHLD handler runs on   *)
(* top of it.                                                              *)

\* Mutant of TakePost: the manager does not wait for a post.
TakePostUnchecked == wakeups' = wakeups - 1

\* Mutex::lock is sem_wait.
TakePost == wakeups > 0 /\ wakeups' = wakeups - 1

\* lockMutex, alarm(killTime), and into notifyAll.
BeginRound ==
  /\ ~onManager
  /\ mpc = "lock"
  /\ TakePost
  /\ alarm' = TRUE
  /\ cur' = 1
  /\ mpc' = "erase"
  /\ UNCHANGED <<listenerVars, storeVars, rangeVars, containerVars, kernelVars,
                 moduleVars>>

\* One pass of notifyAll's erase loop, or its end.
EraseRemoved ==
  /\ ~onManager
  /\ mpc = "erase"
  /\ \/ /\ cur <= Len(container)
        /\ state[container[cur]] = "Remove"
        /\ container' = RemoveAt(container, cur)
        /\ UNCHANGED <<mpc, cur>>
     \/ /\ cur <= Len(container)
        /\ state[container[cur]] # "Remove"
        /\ cur' = cur + 1
        /\ UNCHANGED <<mpc, container>>
     \/ /\ cur > Len(container)
        /\ cur' = 1
        /\ mpc' = IF container = <<>> THEN "clear" ELSE "set"
        /\ UNCHANGED container
  /\ UNCHANGED <<listenerVars, storeVars, rangeVars, wakeups, alarm, state, busy,
                 restartOnCrash, kernelVars, moduleVars>>

\* Mutant of Announce: the start of the range is written once only.
AnnounceEndOnly == to' = newest /\ UNCHANGED from

\* setFrom and setTo from the store's statistics.
Announce == from' = oldest /\ to' = newest

\* DetectModExporter::notify, first half.  The range is written again for
\* every module, from the store's current counters.
SetRange ==
  /\ ~onManager
  /\ mpc = "set"
  /\ Announce
  /\ mpc' = "raise"
  /\ UNCHANGED <<listenerVars, storeVars, wakeups, cur, alarm,
                 containerVars, kernelVars, moduleVars>>

\* DetectModExporter::notify, the semop.  A failing one is only logged.
RaiseSemaphore ==
  /\ ~onManager
  /\ mpc = "raise"
  /\ LET m == container[cur] IN
       sem' = [sem EXCEPT ![m] = IF @ = Removed THEN @ ELSE @ + 2]
  /\ mpc' = "mark"
  /\ UNCHANGED <<listenerVars, storeVars, rangeVars, wakeups, cur, alarm,
                 containerVars, proc, sigterm, sigchld, reaped, onManager,
                 deaths, moduleVars>>

\* Its last line: setBusyState, behind the semop, when the module may be
\* running already.  notifyAll goes on to the next module, or to the waits.
MarkBusy ==
  /\ ~onManager
  /\ mpc = "mark"
  /\ busy' = [busy EXCEPT ![container[cur]] = TRUE]
  /\ IF cur = Len(container)
     THEN mpc' = "wait" /\ cur' = 1
     ELSE mpc' = "set"  /\ cur' = cur + 1
  /\ UNCHANGED <<listenerVars, storeVars, rangeVars, wakeups, alarm,
                 container, state, restartOnCrash, kernelVars, moduleVars>>

\* notifyAll's second loop goes on to the next module, or returns.
NextWait ==
  IF cur = Len(container)
  THEN mpc' = "clear" /\ cur' = cur
  ELSE mpc' = "wait"  /\ cur' = cur + 1

\* Mutant of HandedBack: a module that has only begun counts as done.
HandedBackEarly(m) == sem[m] \in {0, 1}

\* semtimedop with sem_op 0 succeeds.
HandedBack(m) == sem[m] = 0

\* DetectModExporter::wait, first test.  A module that is not Running is not
\* waited for, and keeps its busy flag.
BeginWait ==
  /\ ~onManager
  /\ mpc = "wait"
  /\ IF state[container[cur]] = "Running"
     THEN mpc' = "waiting" /\ UNCHANGED cur
     ELSE NextWait
  /\ UNCHANGED <<listenerVars, storeVars, rangeVars, wakeups, alarm,
                 containerVars, kernelVars, moduleVars>>

\* Its loop.  It blocks while the module is Running and its semaphore is above
\* 0.  A module that is Running no more and a removed semaphore end the wait
\* without touching the busy flag.
WaitModule ==
  /\ ~onManager
  /\ mpc = "waiting"
  /\ LET m == container[cur] IN
       \/ /\ HandedBack(m)
          /\ busy' = [busy EXCEPT ![m] = FALSE]
       \/ /\ ~HandedBack(m)
          /\ state[m] # "Running" \/ sem[m] = Removed
          /\ UNCHANGED busy
  /\ NextWait
  /\ UNCHANGED <<listenerVars, storeVars, rangeVars, wakeups, alarm, container,
                 state, restartOnCrash, kernelVars, moduleVars>>

\* Mutants of ToDelete: all that is stored, and one packet too few.
ToDeleteAll == Minus(newest, from)

ToDeleteLess == IF to = from THEN 0 ELSE Minus(to, from) - 1

\* How many packets clearSink pops: nps->to() - nps->from().
ToDelete == Minus(to, from)

\* clearSink, then alarm(0).  Asking for more packets than are stored throws
\* std::runtime_error, which nothing catches: the collector aborts.
ClearSink ==
  /\ ~onManager
  /\ mpc = "clear"
  /\ LET count == ToDelete
         gone  == {fileNames[j] : j \in 1 .. count}
     IN  IF count > stored
         THEN /\ mpc' = "aborted"
              /\ UNCHANGED <<disk, fileNames, stored, oldest, alarm>>
         ELSE /\ disk' = [n \in Counter |-> IF n \in gone THEN NoFile ELSE disk[n]]
              /\ fileNames' = SubSeq(fileNames, count + 1, Len(fileNames))
              /\ stored' = stored - count
              /\ oldest' = Plus(oldest, count)
              /\ alarm' = FALSE
              /\ mpc' = "lock"
  /\ UNCHANGED <<listenerVars, newest, rangeVars, wakeups, cur,
                 containerVars, kernelVars, moduleVars>>

-----------------------------------------------------------------------------
(* The signal handlers.  SIGALRM goes to the main thread, wherever in its  *)
(* round the manager is.  One SIGCHLD handler runs at a time, on the main  *)
(* thread or, when the kernel picks it, on the manager thread, whose       *)
(* semtimedop then fails with EINTR and ends the wait for the module.      *)

Zombies == {m \in Modules : proc[m] \in {"exited", "crashed"}}

\* SIGTERM is delivered to those of the modules that still have a process.
Terminate(slow) ==
  sigterm' = [m \in Modules |-> sigterm[m] \/ (m \in slow /\ proc[m] = "alive")]

\* Mutant of StopModules: the manager signals and leaves the rest to SIGCHLD.
StopModulesBySignal(slow) == Terminate(slow) /\ UNCHANGED <<state, sem>>

\* DetectMod::stopModule of each of the modules: Crashed, SIGTERM, IPC_RMID.
StopModules(slow) ==
  /\ state' = [m \in Modules |-> IF m \in slow THEN "Crashed" ELSE state[m]]
  /\ sem' = [m \in Modules |-> IF m \in slow THEN Removed ELSE sem[m]]
  /\ Terminate(slow)

\* Manager::sigAlarm, ModuleContainer::findAndKillSlowModule.
SigAlarm ==
  /\ "hang" \in Failures
  /\ alarm
  /\ mpc # "aborted"
  /\ alarm' = FALSE
  /\ StopModules({m \in Range(container) : busy[m]})
  /\ UNCHANGED <<listenerVars, storeVars, rangeVars, wakeups, mpc, cur,
                 container, busy, restartOnCrash, proc, sigchld, reaped,
                 onManager, deaths, moduleVars>>

\* The interrupted wait() returns -1, which notifyAll ignores.
EndHandler(interrupts) ==
  IF interrupts THEN NextWait ELSE UNCHANGED <<mpc, cur>>

\* Manager::sigChild up to the restart decision: one wait(), then the state of
\* the module whose process it returned.  Exit status 0 ends the handler.
SigChild ==
  /\ sigchld
  /\ reaped = NoModule
  /\ \E m \in Zombies, interrupts \in BOOLEAN :
       /\ interrupts => mpc = "waiting"
       /\ sigchld' = FALSE
       /\ proc' = [proc EXCEPT ![m] = "gone"]
       /\ \/ /\ proc[m] = "exited"
             /\ state' = [state EXCEPT ![m] = "Remove"]
             /\ EndHandler(interrupts)
             /\ UNCHANGED <<reaped, onManager>>
          \/ /\ proc[m] = "crashed"
             /\ state' = [state EXCEPT ![m] = "Crashed"]
             /\ reaped' = m
             /\ onManager' = interrupts
             /\ UNCHANGED <<mpc, cur>>
  /\ UNCHANGED <<listenerVars, storeVars, rangeVars, wakeups, alarm, container,
                 busy, restartOnCrash, sem, sigterm, deaths, moduleVars>>

\* The rest of sigChild for a crashed module: deleteModule marks it Remove;
\* restartCrashedModule removes the old semaphore, and DetectMod::run makes a
\* new one at 0 and forks a new process.
RestartOrDelete ==
  /\ reaped # NoModule
  /\ LET m == reaped IN
       \/ /\ restartOnCrash
          /\ state' = [state EXCEPT ![m] = "Running"]
          /\ sem' = [sem EXCEPT ![m] = 0]
          /\ proc' = [proc EXCEPT ![m] = "alive"]
       \/ /\ ~restartOnCrash
          /\ state' = [state EXCEPT ![m] = "Remove"]
          /\ UNCHANGED <<sem, proc>>
  /\ EndHandler(onManager)
  /\ reaped' = NoModule
  /\ onManager' = FALSE
  /\ UNCHANGED <<listenerVars, storeVars, rangeVars, wakeups, alarm, container,
                 busy, restartOnCrash, sigterm, sigchld, deaths, moduleVars>>

-----------------------------------------------------------------------------
(* A detection module process: the working thread of DetectionBase with    *)
(* SemShmNotifier and PacketReader.                                        *)

\* The process ends: "exited" with status 0, "crashed" with another status or
\* by a signal.  Its memory goes with it; a new process would start like this.
Die(m, how) ==
  /\ proc' = [proc EXCEPT ![m] = how]
  /\ sigchld' = TRUE
  /\ sigterm' = [sigterm EXCEPT ![m] = FALSE]
  /\ dpc' = [dpc EXCEPT ![m] = "wait"]
  /\ pos' = [pos EXCEPT ![m] = 0]
  /\ parsed' = [parsed EXCEPT ![m] = {}]

\* semop -1; it blocks at 0.  If the semaphore was removed the call fails, and
\* wait() returns 1 as if packets had been announced.
TakeSemaphore(m) ==
  \/ sem[m] > 0 /\ sem' = [sem EXCEPT ![m] = @ - 1]
  \/ sem[m] = Removed /\ UNCHANGED sem

\* SemShmNotifier::wait.
WaitForPackets(m) ==
  /\ proc[m] = "alive"
  /\ dpc[m] = "wait"
  /\ TakeSemaphore(m)
  /\ dpc' = [dpc EXCEPT ![m] = "begin"]
  /\ UNCHANGED <<listenerVars, storeVars, rangeVars, wakeups, managerVars,
                 containerVars, proc, sigterm, sigchld, reaped, onManager,
                 deaths, pos, parsed>>

\* i = getFrom() of PacketReader::import.
BeginImport(m) ==
  /\ proc[m] = "alive"
  /\ dpc[m] = "begin"
  /\ pos' = [pos EXCEPT ![m] = from]
  /\ dpc' = [dpc EXCEPT ![m] = "import"]
  /\ UNCHANGED <<listenerVars, storeVars, rangeVars, wakeups, managerVars,
                 containerVars, kernelVars, parsed>>

\* One test of i != getTo(), which reads the shared block anew, and one pass of
\* the loop.  A file that is gone makes fopen return NULL, which fileno()
\* dereferences: the process dies of SIGSEGV.
ImportPacket(m) ==
  /\ proc[m] = "alive"
  /\ dpc[m] = "import"
  /\ \/ /\ pos[m] = to
        /\ dpc' = [dpc EXCEPT ![m] = "notify"]
        /\ UNCHANGED <<proc, sigterm, sigchld, pos, parsed>>
     \/ /\ pos[m] # to
        /\ disk[pos[m]] # NoFile
        /\ parsed' = [parsed EXCEPT ![m] = @ \cup {disk[pos[m]]}]
        /\ pos' = [pos EXCEPT ![m] = Inc(@)]
        /\ UNCHANGED <<dpc, proc, sigterm, sigchld>>
     \/ /\ pos[m] # to
        /\ disk[pos[m]] = NoFile
        /\ Die(m, "crashed")
  /\ UNCHANGED <<listenerVars, storeVars, rangeVars, wakeups, managerVars,
                 containerVars, sem, reaped, onManager, deaths>>

\* SemShmNotifier::notify.
NotifyDone(m) ==
  /\ proc[m] = "alive"
  /\ dpc[m] = "notify"
  /\ TakeSemaphore(m)
  /\ dpc' = [dpc EXCEPT ![m] = "wait"]
  /\ UNCHANGED <<listenerVars, storeVars, rangeVars, wakeups, managerVars,
                 containerVars, proc, sigterm, sigchld, reaped, onManager,
                 deaths, pos, parsed>>

\* A module dies of itself.
DieOfItself(m) ==
  /\ proc[m] = "alive"
  /\ deaths < MaxDeaths
  /\ deaths' = deaths + 1
  /\ \/ "crash" \in Failures /\ Die(m, "crashed")
     \/ "exit" \in Failures /\ Die(m, "exited")
  /\ UNCHANGED <<listenerVars, storeVars, rangeVars, wakeups, managerVars,
                 containerVars, sem, reaped, onManager>>

\* stopModule's SIGTERM takes effect: a handler that calls stop() makes main
\* return 0, a module without a handler is killed by the signal.
DieOfSigterm(m) ==
  /\ proc[m] = "alive"
  /\ sigterm[m]
  /\ Die(m, "exited") \/ Die(m, "crashed")
  /\ UNCHANGED <<listenerVars, storeVars, rangeVars, wakeups, managerVars,
                 containerVars, sem, reaped, onManager, deaths>>

-----------------------------------------------------------------------------
(* The specification.  Collector::Collector and Manager::startModules have *)
(* run: every module is a live process with a semaphore at 0.              *)

Init ==
  /\ lpc = "idle" /\ counter = 0 /\ arrived = 0 /\ written = 0
  /\ disk = [n \in Counter |-> NoFile]
  /\ fileNames = <<>> /\ stored = 0 /\ newest = 0 /\ oldest = 0
  /\ from = 0 /\ to = 0
  /\ wakeups = 0
  /\ mpc = "lock" /\ cur = 1 /\ alarm = FALSE
  /\ container = [k \in 1 .. NumModules |-> k]
  /\ state = [m \in Modules |-> "Running"]
  /\ busy = [m \in Modules |-> FALSE]
  /\ restartOnCrash \in BOOLEAN
  /\ proc = [m \in Modules |-> "alive"]
  /\ sem = [m \in Modules |-> 0]
  /\ sigterm = [m \in Modules |-> FALSE]
  /\ sigchld = FALSE /\ reaped = NoModule /\ onManager = FALSE /\ deaths = 0
  /\ dpc = [m \in Modules |-> "wait"]
  /\ pos = [m \in Modules |-> 0]
  /\ parsed = [m \in Modules |-> {}]

Listener == ReceivePacket \/ PushPacket \/ WrapNewest \/ NewPacket

ManagerThread ==
  \/ BeginRound \/ EraseRemoved
  \/ SetRange \/ RaiseSemaphore \/ MarkBusy
  \/ BeginWait \/ WaitModule
  \/ ClearSink

Handler == SigChild \/ RestartOrDelete

ModuleThread(m) ==
  WaitForPackets(m) \/ BeginImport(m) \/ ImportPacket(m) \/ NotifyDone(m)

Next ==
  \/ Listener
  \/ ManagerThread
  \/ SigAlarm
  \/ Handler
  \/ \E m \in Modules : ModuleThread(m) \/ DieOfItself(m) \/ DieOfSigterm(m)

Spec == Init /\ [][Next]_vars

\* No thread of the collector and no module stops being scheduled.
FairSpec ==
  /\ Spec
  /\ WF_vars(PushPacket \/ WrapNewest \/ NewPacket)
  /\ WF_vars(ManagerThread)
  /\ \A m \in 1 .. NumModules : WF_vars(ModuleThread(m))

\* killTime is seconds: it does not run out before the manager has notified the
\* modules, which waits for nobody.  Were it to, a module notified afterwards
\* and hanging would be waited for without a deadline.
AlarmInTime == alarm /\ ~alarm' => mpc \in {"wait", "waiting", "clear"}

\* The collector and the kernel are fair, a module may hang wherever it is.
SupervisedSpec ==
  /\ Init /\ [][Next /\ AlarmInTime]_vars
  /\ WF_vars(PushPacket \/ WrapNewest \/ NewPacket)
  /\ WF_vars(ManagerThread)
  /\ WF_vars(SigAlarm /\ mpc = "waiting")
  /\ WF_vars(Handler)

-----------------------------------------------------------------------------
(* Properties.                                                             *)

ListenerType ==
  /\ lpc \in {"idle", "push", "wrap", "post"}
  /\ counter \in Counter
  /\ arrived \in Nat
  /\ written \in Nat

\* newest, and with it the announced end of a range, may be seen at MAX_FILES
\* in the middle of a wrapping increment.
StoreType ==
  /\ disk \in [Counter -> Nat]
  /\ fileNames \in Seq(Counter)
  /\ stored \in Nat
  /\ newest \in Counter \cup {MAX_FILES}
  /\ oldest \in Counter

RangeType == from \in Counter /\ to \in Counter \cup {MAX_FILES}

ManagerType ==
  /\ wakeups \in Nat
  /\ mpc \in {"lock", "erase", "set", "raise", "mark", "wait", "waiting",
             "clear", "aborted"}
  /\ cur \in Nat \ {0}
  /\ alarm \in BOOLEAN

ContainerType ==
  /\ container \in Seq(Modules)
  /\ state \in [Modules -> {"Running", "Crashed", "Remove"}]
  /\ busy \in [Modules -> BOOLEAN]
  /\ restartOnCrash \in BOOLEAN

KernelType ==
  /\ proc \in [Modules -> {"alive", "exited", "crashed", "gone"}]
  /\ sem \in [Modules -> Nat \cup {Removed}]
  /\ sigterm \in [Modules -> BOOLEAN]
  /\ sigchld \in BOOLEAN
  /\ reaped \in Modules \cup {NoModule}
  /\ onManager \in BOOLEAN
  /\ deaths \in Nat

ModuleType ==
  /\ dpc \in [Modules -> {"wait", "begin", "import", "notify"}]
  /\ pos \in [Modules -> Counter]
  /\ parsed \in [Modules -> SUBSET Nat]

\* Every variable has its type.  What the code could break: the manager's
\* semaphore and the modules' never go below 0, and a counter stays within the
\* range of its class.
TypeOK ==
  /\ ListenerType /\ StoreType /\ RangeType /\ ManagerType
  /\ ContainerType /\ KernelType /\ ModuleType

\* The listener posts after it has registered a packet and the manager reads
\* the range after it has taken a post, so no packet is left behind: when the
\* manager sleeps with no post pending and the listener is between packets,
\* the store is empty.  It holds whatever fails, as long as a module remains.
NoLostWakeup ==
  (container # <<>> /\ mpc = "lock" /\ wakeups = 0 /\ lpc = "idle")
    => stored = 0

\* popIpfixPacket's std::runtime_error is not reached while a module remains:
\* the range that clearSink reads back never exceeds the store.  It takes a
\* build that stores a wrapping counter once (WrapsAtOnce).
ClearWithinStore ==
  container # <<>> =>
    /\ mpc # "aborted"
    /\ mpc = "clear" => Minus(to, from) <= stored

\* What the throw in popIpfixPacket asserts (packetstats.h:207) of clearSink,
\* which "clears all processed data" (detectmodexporter.h:75): no more packets
\* are popped than are stored.  With an empty container nobody writes the range,
\* and the one of an earlier round is cleared again (MCExchangeClear.cfg).
PopsWhatIsStored == mpc # "aborted"

\* What modulecontainer.h:95 promises of notifyAll: it returns as soon as every
\* active module has processed the data.  A SIGCHLD on the manager thread ends
\* the wait for a module that still parses (MCExchangeWait.cfg).
ActiveAreDone ==
  mpc = "clear" =>
    \A m \in Range(container) :
      (state[m] = "Running" /\ proc[m] = "alive") => dpc[m] = "wait" /\ sem[m] = 0

\* A module that opens a packet file finds it: import() never runs into a name
\* that clearSink has unlinked or that the listener has not written yet.
NoMissingFile ==
  \A m \in Modules :
    (proc[m] = "alive" /\ dpc[m] = "import" /\ pos[m] # to)
      => disk[pos[m]] # NoFile

\* A module parses no packet twice and none out of order: each pass of the
\* import loop gets a packet later than all that the process has parsed.
ParsedInOrder ==
  [][\A m \in Modules :
       (dpc[m] = "import" /\ pos'[m] # pos[m] /\ proc'[m] = "alive")
         => \A p \in parsed[m] : p < disk[pos[m]]]_vars

\* What the SIGALRM handler relies on: a module whose busy flag is down has
\* handed its semaphore back and is not in an import, so a slow module is
\* overlooked only between the two halves of its notification.
NotBusyMeansIdle ==
  \A m \in Range(container) :
    (~busy[m] /\ state[m] = "Running" /\ proc[m] = "alive")
      => \/ dpc[m] = "wait" /\ sem[m] = 0
         \/ mpc = "mark" /\ m = container[cur]

\* With one module, the exchange implements the delivery that PacketDelivery
\* promises: a packet is published once it is in its file and deleted when its
\* file is unlinked.
Delivery == INSTANCE PacketDelivery WITH
  published <- written,
  deleted <- written - Len(fileNames)

ImplementsDelivery == Delivery!Spec

\* manager.h:44-47, the manager "deletes the new packets after they were parsed
\* by the modules": a packet that left the disk was parsed by every module.
ParsedBeforeDeleted ==
  \A p \in 1 .. written :
    (\A n \in Counter : disk[n] # p) =>
      \A m \in Modules : p \in parsed[m]

\* sharedobj.h:31, a FileCounter "is always in range [ 0, MAX_FILES )": so is
\* the end of the range that the manager announces to the modules.  They count
\* up to it by wrapping increments, so they would never meet MAX_FILES.
AnnouncedEndInRange == to \in Counter

\* modulecontainer.h:69, deleteModule "removes detection module ... from the
\* list": a module that is to be removed stays so until notifyAll erases it.
RemoveIsFinal ==
  [][\A m \in Modules : state[m] = "Remove" => state'[m] = "Remove"]_vars

\* README:57: a module whose process died abnormally is restarted.
CrashedIsRestarted ==
  \A m \in 1 .. NumModules :
    (restartOnCrash /\ proc[m] = "crashed") ~> proc[m] = "alive"

\* Every packet that was written is deleted again, so the directory does not
\* fill up, though modules hang or die: a round always comes to its end and
\* packets that arrive during a round are dealt with by a later one.
EveryPacketLeaves ==
  \A p \in 1 .. MaxPackets :
    (\E n \in Counter : disk[n] = p)
      ~> \/ \A n \in Counter : disk[n] # p
         \/ container = <<>>

=============================================================================
