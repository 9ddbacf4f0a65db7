---------------------------- MODULE ModuleStart ----------------------------
(***************************************************************************)
(* How collectors and their detection modules find each other: the keys of *)
(* shared memory and semaphores, which all collectors of a host draw from  *)
(* the same two tables, the start and restart of modules, and what their   *)
(* ends leave in the tables.                                               *)
(*                                                                         *)
(* A search for a key asks for one key at a time, so that two searches     *)
(* interleave.  run() and sendInitData are frames of the main thread: the  *)
(* handler of SIGCHLD puts a restart on top of whatever main is at.        *)
(***************************************************************************)
EXTENDS Naturals, Sequences, SequencesExt, Functions

CONSTANTS
  Collectors,     \* the collectors of the host
  ModuleCount,    \* [Collectors -> Nat], the modules each is to start
  Configurations, \* records [useFiles, restartOnCrash, missing, broken]: the last
                  \* two the modules, as <<c, m>>, whose file does not exist or
                  \* cannot be executed
  MaxProcesses,   \* bound: processes the host can fork
  MaxEnds,        \* bound: modules that end of themselves or are slow
  MaxKills        \* bound: collectors that die without unwinding

VARIABLES
  shm, sem,       \* the host's tables: key -> what has been allocated with it
  shmKey, storageKey,       \* SharedObj::shmKey, ShmBlock::storageKey
  pc,             \* "shared", "config", "storage", "start", "run", "kill",
                  \* "destroy", "over"
  frames,         \* what is under way: [module, at, child], the top last
  index,          \* i of startModules and of killDetectionModules
  container,      \* ModuleContainer::detectionModules
  semKey, semId, pid, pipe,  \* of a DetectMod; a pipe is named by its reader
  sigchld,        \* pending
  useFiles, restartOnCrash, missing, broken,  \* configuration
  process,        \* the processes forked, in order
  ends, kills,    \* bounds
  orderly         \* history: main went through killModules

host      == <<shm, sem>>
keys      == <<shmKey, storageKey>>
detectMod == <<semKey, semId, pid, pipe>>
config    == <<useFiles, restartOnCrash, missing, broken>>
bounds    == <<ends, kills>>
vars == <<host, keys, pc, frames, index, container, detectMod, sigchld, config, process,
          bounds, orderly>>

ModulesOf(c) == 1..ModuleCount[c]
None == <<>>
PerModule(value) == [c \in Collectors |-> [m \in ModulesOf(c) |-> value]]

Init ==
  /\ shm = <<>> /\ sem = <<>>
  /\ shmKey = [c \in Collectors |-> 10000] /\ storageKey = [c \in Collectors |-> 0]
  /\ pc = [c \in Collectors |-> "shared"] /\ frames = [c \in Collectors |-> <<>>]
  /\ index = [c \in Collectors |-> 1] /\ container = [c \in Collectors |-> {}]
  /\ semKey = PerModule(10000) /\ semId = PerModule(None)
  /\ pid = PerModule(0) /\ pipe = PerModule(0)
  /\ sigchld = [c \in Collectors |-> FALSE]
  /\ \E conf \in Configurations :
       /\ useFiles = conf.useFiles /\ restartOnCrash = conf.restartOnCrash
       /\ missing = conf.missing /\ broken = conf.broken
  /\ process = <<>> /\ ends = 0 /\ kills = 0
  /\ orderly = [c \in Collectors |-> FALSE]

Block(c) == <<c, "block">>
Storage(c) == <<c, "storage">>

\* IPC_CREAT: what has been allocated with the key, or else id.
Allocated(table, key, id) ==
  [k \in DOMAIN table \cup {key} |-> IF k \in DOMAIN table THEN table[k] ELSE id]

\* IPC_RMID: the key is free again, whatever is still attached.
Without(table, id) == Restrict(table, {k \in DOMAIN table : table[k] # id})

\* Mutant: an existing semaphore is taken too.
TakenNever(table, key) == FALSE

\* IPC_CREAT | IPC_EXCL with EEXIST.
Taken(table, key) == key \in DOMAIN table

Starting == {"forked", "exec", "sem", "storage"}
Alive(p) == process[p].at \in Starting \cup {"attached"}
Zombies(c) == {p \in DOMAIN process : process[p].of[1] = c /\ process[p].at \in {"exited", "crashed"}}
Child(p) == process[p].of[1]
Process(of, where) ==
  [of |-> of, at |-> where, own |-> None, told |-> None, sem |-> None, block |-> None,
   storage |-> None, inherits |-> 0, handlers |-> FALSE, nested |-> FALSE, deaf |-> FALSE]
At(p, where) == process' = [process EXCEPT ![p].at = where]
\* The end of a process, and of all it was attached to.
Dies(p, how) ==
  /\ process' = [process EXCEPT ![p] = Process(@.of, IF pc[Child(p)] = "over" THEN "reaped" ELSE how)]
  /\ sigchld' = [sigchld EXCEPT ![Child(p)] = pc[Child(p)] # "over"]
-----------------------------------------------------------------------------
(* The collector's main thread outside of run() *)

Goes(c, where) == pc' = [pc EXCEPT ![c] = where]
\* The process is gone, and its memory.
Gone(c) ==
  /\ Goes(c, "over") /\ frames' = [frames EXCEPT ![c] = <<>>]
  /\ shmKey' = [shmKey EXCEPT ![c] = 0] /\ index' = [index EXCEPT ![c] = 1]
  /\ semKey' = [semKey EXCEPT ![c] = <<>>] /\ semId' = [semId EXCEPT ![c] = <<>>]
  /\ pid' = [pid EXCEPT ![c] = <<>>] /\ pipe' = [pipe EXCEPT ![c] = <<>>]
  /\ sigchld' = [sigchld EXCEPT ![c] = FALSE]
Main(c, where) == pc[c] = where /\ frames[c] = <<>>

\* An attempt of the search in SharedObj().
CreateShared(c) ==
  /\ Main(c, "shared")
  /\ IF Taken(shm, shmKey[c])
       THEN shmKey' = [shmKey EXCEPT ![c] = @ + 1] /\ UNCHANGED <<shm, pc>>
       ELSE shm' = Allocated(shm, shmKey[c], Block(c)) /\ Goes(c, "config") /\ UNCHANGED shmKey
  /\ UNCHANGED <<sem, storageKey, frames, index, container, detectMod, sigchld, config, process,
                 bounds, orderly>>

\* addDetectionModule: a module is created if its file exists.
Created(c) == {m \in ModulesOf(c) : <<c, m>> \notin missing}

\* readConfig creates the modules and chooses the exchange, or throws ConfigError.
ReadConfig(c) ==
  /\ Main(c, "config")
  /\ \/ Goes(c, IF useFiles THEN "start" ELSE "storage")
     \/ Goes(c, "destroy")
  /\ storageKey' = [storageKey EXCEPT ![c] = IF useFiles THEN 0 ELSE 1]
  /\ container' = [container EXCEPT ![c] = Created(c)]
  /\ UNCHANGED <<host, shmKey, frames, index, detectMod, sigchld, config, process,
                 bounds, orderly>>

\* An attempt of the search in setSharedMemorySize, which begins at key 1.
CreateStorage(c) ==
  /\ Main(c, "storage")
  /\ IF Taken(shm, storageKey[c])
       THEN storageKey' = [storageKey EXCEPT ![c] = @ + 1] /\ UNCHANGED <<shm, pc>>
       ELSE shm' = Allocated(shm, storageKey[c], Storage(c)) /\ Goes(c, "start") /\ UNCHANGED storageKey
  /\ UNCHANGED <<sem, shmKey, frames, index, container, detectMod, sigchld, config, process,
                 bounds, orderly>>

Frame(m, handler) == [module |-> m, at |-> "key", child |-> 0, handler |-> handler]

\* startModules: the next module that is not yet running.
StartModule(c) ==
  /\ Main(c, "start")
  /\ IF index[c] > ModuleCount[c]
       THEN Goes(c, "run") /\ UNCHANGED <<frames, index>>
       ELSE /\ IF index[c] \in container[c]
                 THEN frames' = [frames EXCEPT ![c] = <<Frame(index[c], FALSE)>>]
                 ELSE UNCHANGED frames
            /\ index' = [index EXCEPT ![c] = @ + 1] /\ UNCHANGED pc
  /\ UNCHANGED <<host, keys, container, detectMod, sigchld, config, process, bounds, orderly>>

\* sleep(2) and Collector::run, until its end is asked for.
Run(c) ==
  /\ Main(c, "run")
  /\ Goes(c, "kill") /\ index' = [index EXCEPT ![c] = 1]
  /\ UNCHANGED <<host, keys, frames, container, detectMod, sigchld, config, process, bounds, orderly>>

\* SIGTERM: a child that has inherited the collector's handlers does not
\* notice; one that is starting dies; a module that runs may have a handler.
SigTerm(p) ==
  IF p = 0 \/ ~Alive(p) THEN UNCHANGED <<process, sigchld>>
  ELSE IF process[p].at = "forked" /\ process[p].handlers
    THEN process' = [process EXCEPT ![p].deaf = TRUE] /\ UNCHANGED sigchld
  ELSE \/ Dies(p, "crashed")
       \/ process[p].at = "attached" /\ Dies(p, "exited")
       \/ process[p].at = "attached" /\ UNCHANGED <<process, sigchld>>

stopModule(c, m) == SigTerm(pid[c][m]) /\ sem' = Without(sem, semId[c][m])

\* The alarm: the handler stops a module that is busy.
SlowModule(c) ==
  /\ Main(c, "run") /\ ends < MaxEnds /\ ends' = ends + 1
  /\ \E m \in container[c] : stopModule(c, m)
  /\ UNCHANGED <<shm, keys, pc, frames, index, container, detectMod, config, kills, orderly>>

\* killDetectionModules; sigChild does nothing any more.
KillModule(c) ==
  /\ Main(c, "kill")
  /\ IF index[c] > ModuleCount[c]
       THEN /\ Goes(c, "destroy") /\ orderly' = [orderly EXCEPT ![c] = TRUE]
            /\ UNCHANGED <<sem, process, sigchld, index>>
       ELSE /\ index' = [index EXCEPT ![c] = @ + 1] /\ UNCHANGED <<pc, orderly>>
            /\ IF index[c] \in container[c] THEN stopModule(c, index[c])
                                             ELSE UNCHANGED <<sem, process, sigchld>>
  /\ UNCHANGED <<shm, keys, frames, container, detectMod, config, bounds>>

\* ~Collector: ~SharedObj removes the block; nothing removes the storage.
Destroy(c) ==
  /\ Main(c, "destroy")
  /\ shm' = Without(shm, Block(c)) /\ Gone(c)
  /\ UNCHANGED <<sem, storageKey, container, config, process, bounds, orderly>>
-----------------------------------------------------------------------------
(* run(), sendInitData: the frame on top *)

Top(c) == Last(frames[c])
Working(c, where) == frames[c] # <<>> /\ Top(c).at = where
Advance(c, where) == frames' = [frames EXCEPT ![c][Len(frames[c])].at = where]

\* An attempt of the search for a semaphore.
CreateSemaphore(c) ==
  /\ Working(c, "key")
  /\ LET m == Top(c).module IN
     IF Taken(sem, semKey[c][m])
       THEN semKey' = [semKey EXCEPT ![c][m] = @ + 1] /\ UNCHANGED <<sem, semId, frames>>
       ELSE LET id == <<c, m, Len(process) + 1>> IN
            /\ sem' = Allocated(sem, semKey[c][m], id)
            /\ semId' = [semId EXCEPT ![c][m] = id]
            /\ Advance(c, "fork") /\ UNCHANGED semKey
  /\ UNCHANGED <<shm, keys, pc, index, container, pid, pipe, sigchld, config, process, bounds, orderly>>

\* pipe and fork.  A child also inherits the pipe that the frame below has open.
Fork(c) ==
  /\ Working(c, "fork") /\ Len(process) < MaxProcesses
  /\ LET m == Top(c).module
         p == Len(process) + 1
         below == IF Len(frames[c]) = 2 /\ frames[c][1].at = "store" THEN frames[c][1].child ELSE 0
     IN /\ process' = Append(process,
             [Process(<<c, m>>, "forked") EXCEPT !.own = semId[c][m], !.inherits = below,
                !.handlers = pc[c] = "run", !.nested = Top(c).handler])
        /\ pid' = [pid EXCEPT ![c][m] = p]
        /\ frames' = [frames EXCEPT ![c][Len(frames[c])] = [@ EXCEPT !.at = "store", !.child = p]]
  /\ UNCHANGED <<host, keys, pc, index, container, semKey, semId, pipe, sigchld, config, bounds, orderly>>

\* semget, pipe or fork fail: the exception leaves startModules or run(); one
\* thrown by the handler of a signal may also find no one to catch it.
RunFails(c) ==
  /\ frames[c] # <<>> /\ Top(c).at \in {"key", "fork"}
  /\ \/ /\ Goes(c, "destroy") /\ frames' = [frames EXCEPT ![c] = <<>>]
        /\ UNCHANGED <<shmKey, index, detectMod, sigchld>>
     \/ Top(c).handler /\ Gone(c)
  /\ UNCHANGED <<host, storageKey, container, config, process, bounds, orderly>>

\* The parent keeps the writing end.
StorePipe(c) ==
  /\ Working(c, "store")
  /\ pipe' = [pipe EXCEPT ![c][Top(c).module] = Top(c).child]
  /\ Advance(c, "send")
  /\ UNCHANGED <<host, keys, pc, index, container, semKey, semId, pid, sigchld, config, process,
                 bounds, orderly>>

Read(p) == Alive(p) \/ \E q \in DOMAIN process : process[q].inherits = p /\ Alive(q)

\* Mutant: nothing is sent.
NoInitData(c, m) == None

InitData(c, m) == <<semKey[c][m], shmKey[c]>>

\* sendInitData: without a reader the write is the collector's SIGPIPE.
SendInitData(c) ==
  /\ Working(c, "send")
  /\ LET m == Top(c).module
         p == pipe[c][m]
     IN IF Read(p)
          THEN /\ process' = [process EXCEPT ![p].told = InitData(c, m)]
               /\ frames' = [frames EXCEPT ![c] = Front(@)]
               /\ UNCHANGED <<pc, shmKey, index, detectMod, sigchld>>
          ELSE Gone(c) /\ UNCHANGED process
  /\ UNCHANGED <<host, storageKey, container, config, bounds, orderly>>

\* Mutant: the semaphore of a module that is restarted stays.
semaphoreKept(c, m) == UNCHANGED sem

\* restartCrashed, up to run().
semaphoreRemoved(c, m) == sem' = Without(sem, semId[c][m])

\* sigChild, on whatever main is at; not on itself.
SigChild(c) ==
  /\ sigchld[c] /\ pc[c] # "over"
  /\ \A i \in DOMAIN frames[c] : ~frames[c][i].handler
  /\ sigchld' = [sigchld EXCEPT ![c] = FALSE]
  /\ IF pc[c] \in {"kill", "destroy"} \/ Zombies(c) = {}
       THEN UNCHANGED <<sem, frames, container, process>>
       ELSE \E p \in Zombies(c) :
         LET owner == {m \in container[c] : pid[c][m] = p} IN
         /\ At(p, "reaped")
         /\ IF process[p].at = "crashed" /\ restartOnCrash
              THEN IF owner = {} THEN UNCHANGED <<sem, frames, container>>
                   ELSE \E m \in owner :
                     /\ semaphoreRemoved(c, m)
                     /\ frames' = [frames EXCEPT ![c] = Append(@, Frame(m, TRUE))]
                     /\ UNCHANGED container
              ELSE /\ container' = [container EXCEPT ![c] = @ \ owner]
                   /\ UNCHANGED <<sem, frames>>
  /\ UNCHANGED <<shm, keys, pc, index, detectMod, config, bounds, orderly>>

\* SIGKILL or a crash while it runs: nothing is removed.  Deaths during the
\* start are those of RunFails and SendInitData.
CollectorDies(c) ==
  /\ Main(c, "run") /\ kills < MaxKills
  /\ kills' = kills + 1 /\ Gone(c) /\ orderly' = [orderly EXCEPT ![c] = FALSE]
  /\ UNCHANGED <<host, storageKey, container, config, process, ends>>
-----------------------------------------------------------------------------
(* A module's process *)

Step(p, where) == p \in DOMAIN process /\ process[p].at = where

\* execv; if it fails the exception unwinds the child's copy of the collector,
\* whose ~SharedObj removes the block of the parent.
Exec(p) ==
  /\ Step(p, "forked")
  /\ \/ process[p].of \notin broken /\ At(p, "exec") /\ UNCHANGED <<shm, sigchld>>
     \/ process[p].of \in broken /\ Dies(p, "crashed") /\ shm' = Without(shm, Block(Child(p)))
     \/ process[p].of \in broken /\ process[p].nested /\ Dies(p, "crashed") /\ UNCHANGED shm
  /\ UNCHANGED <<sem, keys, pc, frames, index, container, detectMod, config, bounds, orderly>>

\* SemShmNotifier() reads the keys and looks the semaphore up; the end of the
\* pipe leaves it without keys.
OpenSemaphore(p) ==
  /\ Step(p, "exec")
  /\ IF process[p].told = None THEN pc[Child(p)] = "over" /\ Dies(p, "crashed")
     ELSE LET key == process[p].told[1] IN
          IF key \in DOMAIN sem
            THEN process' = [process EXCEPT ![p].at = "sem", ![p].sem = sem[key]] /\ UNCHANGED sigchld
            ELSE Dies(p, "crashed")
  /\ UNCHANGED <<host, keys, pc, frames, index, container, detectMod, config, bounds, orderly>>

\* SharedObj(shmKey).
OpenShared(p) ==
  /\ Step(p, "sem")
  /\ LET key == process[p].told[2] IN
     IF key \in DOMAIN shm
       THEN /\ process' = [process EXCEPT ![p].at = IF useFiles THEN "attached" ELSE "storage",
                                          ![p].block = shm[key]]
            /\ UNCHANGED sigchld
       ELSE Dies(p, "crashed")
  /\ UNCHANGED <<host, keys, pc, frames, index, container, detectMod, config, bounds, orderly>>

\* In the block, where setSharedMemorySize puts it when it has one.
StorageKey(c) == IF pc[c] = "storage" THEN 0 ELSE storageKey[c]

OpenStorage(p) ==
  /\ Step(p, "storage")
  /\ LET key == StorageKey(process[p].block[1]) IN
     IF key \in DOMAIN shm
       THEN /\ process' = [process EXCEPT ![p].at = "attached", ![p].storage = shm[key]]
            /\ UNCHANGED sigchld
       ELSE Dies(p, "crashed")
  /\ UNCHANGED <<host, keys, pc, frames, index, container, detectMod, config, bounds, orderly>>

ModuleEnds(p) ==
  /\ Step(p, "attached") /\ ends < MaxEnds /\ ends' = ends + 1
  /\ \E how \in {"exited", "crashed"} : Dies(p, how)
  /\ UNCHANGED <<host, keys, pc, frames, index, container, detectMod, config, kills, orderly>>
-----------------------------------------------------------------------------
RunSteps(c) == CreateSemaphore(c) \/ Fork(c) \/ RunFails(c) \/ StorePipe(c) \/ SendInitData(c)
Collector(c) ==
  \/ CreateShared(c) \/ ReadConfig(c) \/ CreateStorage(c) \/ StartModule(c) \/ Run(c)
  \/ SlowModule(c) \/ KillModule(c) \/ Destroy(c) \/ RunSteps(c) \/ SigChild(c) \/ CollectorDies(c)
Attach(p) == Exec(p) \/ OpenSemaphore(p) \/ OpenShared(p) \/ OpenStorage(p)

Finished == (\A c \in Collectors : pc[c] = "over") /\ UNCHANGED vars

Next == \/ \E c \in Collectors : Collector(c)
        \/ \E p \in 1..MaxProcesses : Attach(p) \/ ModuleEnds(p)
        \/ Finished

Progress == (\E c \in Collectors : RunSteps(c)) \/ (\E p \in 1..MaxProcesses : Attach(p))
Fairness == WF_vars(Progress)

Spec == Init /\ [][Next]_vars /\ Fairness
-----------------------------------------------------------------------------
(* Properties *)

Exists(c) == Block(c) \in Range(shm)

\* A module that runs waits on the semaphore that has been made for it, and
\* has its own collector's block and storage, whatever the other collectors
\* do.  The exceptions: its SIGTERM came before exec and was lost with the
\* collector's handlers; or the block has been removed while it started.
AttachedToOwn ==
  \A p \in DOMAIN process : process[p].at = "attached" =>
    /\ process[p].deaf \/ process[p].sem = process[p].own
    /\ Exists(Child(p)) => process[p].block = Block(Child(p))
    /\ Exists(Child(p)) /\ ~useFiles => process[p].storage = Storage(Child(p))

\* What an orderly end leaves in the tables are the storage and the semaphores
\* of modules that had ended by themselves.
OrderlyEndFrees ==
  \A c \in Collectors : orderly[c] /\ pc[c] = "over" =>
    /\ ~Exists(c)
    /\ \A id \in Range(sem) : id[1] = c => id[2] \notin container[c]

\* A module that has been forked attaches or ends, unless its collector is over.
Begun(p) == p \in DOMAIN process /\ process[p].at \in Starting
Settled(p) == p \in DOMAIN process /\ (process[p].at \notin Starting \/ pc[Child(p)] = "over")
StartsEnd == \A p \in 1..MaxProcesses : Begun(p) ~> Settled(p)
=============================================================================
