# TOPAS: specifications, model checking and proofs

TOPAS is a traffic analysis framework: a *collector* receives IPFIX packets
over UDP and hands them to *detection modules*, which are processes of their
own. This directory holds TLA+ specifications of the program in `src/`, the TLC
configurations that check them on small instances, and TLAPS proofs about them.

The packet exchange between collector and modules is modelled in both media
with the supervision of the modules; around it the collector's start and
shutdown, its configuration, its recorder and the start of modules; and of the
modules the threads and buffers, the parser, and the count, statistics and Snort
modules. What is left out is at the end, with the reasons.

## The system

| part | state it keeps | operations | interacts with |
|---|---|---|---|
| collector (`collector/collector.cpp`, `collector_main.cpp`) | terminate flag, exporter, manager thread | read configuration, `run` (start everything, `pause` until a signal, shut down), `messageCallBackFunction` per packet | receiver (callback), recorder, exporter, manager |
| recorder (`collector/recorder.cpp`) | index file, file number, start time | `record`, `play`, `abort` | collector |
| manager (`collector/manager.cpp`) | `mutex` (a semaphore), `shutdown`, `restartOnCrash`, `killTime`, the container | `run` (one round per post), `newPacket`, `sigAlarm`, `sigChild`, `startModules`, `prepareShutdown`, `killModules` | listener thread (posts), kernel (signals), container, exporter |
| module container (`modulecontainer.cpp`, `detectmod.cpp`) | vector of `DetectMod`: state, busy flag, pid, semaphore id | `notifyAll`, `findAndKillSlowModule`, `restartCrashedModule`, `deleteModule`, `setState`, `startModules` | manager thread and signal handlers at once |
| exporter (`detectmodexporter.cpp`) | shared block `nps`, packet store, medium (files or shared memory) | `exportToSink` (listener), `notify`, `wait`, `clearSink` (manager), `sendInitData` | packet store, modules |
| packet store (`commonutils/packetstats.*`) | list of packets, counters `newest`/`oldest`, list of file names; for shared memory the ring `IpfixShm` | `writePacket`, `pushIpfixPacket`, `popIpfixPacket`, `readPacket`, `getPacketStats` | listener and manager threads; in the module process, the reader |
| file counter, shared block (`commonutils/sharedobj.*`) | cyclic number below `MAX_FILES`; `from`, `to` | `++`, `+`, `-`, comparisons; get and set | everybody |
| detection base (`detectionmodules/detectionbase`) | static `state`, working and test thread, storage buffers | `exec`, `stop`, `restart`, working thread (`wait`, import, `notify`), test thread; policies Buffered, Unbuffered, Offline | collector via semaphore, shared block and files; parser callbacks |
| receiver and parser (`concentrator`) | sockets, listener thread, `mutex`/`exit`; template buffer | `startIpfixReceiver`, `stopIpfixReceiver`; processing of messages, sets, templates and records | collector, detection base |
| count module (`countmodule`) | counter tables, Bloom filter, thresholds | per record update, per interval test and reset | detection base |
| Snort module (`snortmodule`) | external process, named pipe, pcap stream | `init`, `test` (a packet is written), `cleanExit`, `sigChild`, `sigTerm` | detection base, snort |
| statistics module (`statmodules/wkp-module`) | endpoint list, data of this and the last interval, storage file; per endpoint samples, means, pauses, alarms | per record counting; per interval `Stat::test` with its tests and updates; offline replay | detection base |
| configuration (`confobj.cpp`, `Collector::readConfig`) | cursor over a document | enter, leave, next, read | collector |
| keys (`sharedobj`, `detectmod.cpp`, `filepolicy.cpp`) | the host's tables of shared memory and semaphores | search for a free key, create, attach, remove | all collectors and modules of a host |
| example and print modules, messages, metering, IDMEF | none that matters here | input and output | |

What is hard about it, part by part (each item is in `PROJECT.json` under
`hazards`, at its line):

* **Exchange.** The listener writes and posts while the manager reads the
  counters, tells modules about ranges, waits and deletes; counters are cyclic;
  posts and packets are counted separately. *Correct* means that every module
  parses every packet once and in order before it is deleted, that nothing is
  left behind with the manager asleep, that no module meets a missing file, and
  that `clearSink` never asks for more than there is.
* **Supervision.** SIGALRM and SIGCHLD handlers work on the container while the
  manager is in the middle of a round. *Correct* means that a hung module ends,
  that the round ends, that a crashed module is restarted if so configured and
  a removed one leaves.
* **Shared memory ring.** Writer and readers follow the same jumps at the end
  of the block without telling each other. *Correct*: a reader gets the
  packets that were written, or an error is reported.
* **Detection base.** Threads are cancelled asynchronously; buffers are handed
  over between the parser and the test thread. *Correct*: a record is tested
  once, a stop request is never lost, at the end of offline data all is tested.
* **Parser.** Templates are redefined while data flows; lengths come from the
  data. *Correct*: records are framed by the template in force and callbacks
  see only complete records.
* **Count, statistics and snort module.** State survives the interval it was
  made for. *Correct*: counters against a reference definition, windows hold the
  samples they should, a dead child ends the module.
* **Start and stop.** *Correct*: a signal is not lost, threads are gone before
  their data is, nobody waits for a mutex nobody releases.

## Modules of this project

| module | what it is |
|---|---|
| `FileCounter` | the cyclic counter (`Inc`, `Minus`, `Plus`) |
| `PacketDelivery` | abstract specification: packets are published, parsed by every module in order, deleted when all have parsed them |
| `PacketExchange` | the detailed specification: listener thread, manager thread, signal handlers, module processes |
| `ShmExchange` | the same exchange through the shared memory block of `IpfixShm`, for modules that do not fail |
| `Collector` | `Collector::run` with receiver, listener thread, manager thread, signals and ends of modules |
| `Configuration` | the cursor of `XMLConfObj` and `Collector::readConfig` written with it |
| `ModuleStart` | keys, blocks and semaphores of several collectors; start, restart and ends of modules |
| `Recorder` | recording and replaying in time |
| `DetectionBase` | `exec`, working thread, test thread, the three input policies |
| `IpfixParser` | template buffer and the loops that cut sets into records |
| `ModuleInit` | `init` of the three modules, subscriptions, what the packet reader then hands on |
| `CountStore` | the count module |
| `StatStore`, `StatMetrics`, `StatTests`, `RankTests` | the statistics module: store, metrics, life of the samples and alarms, the three two-sample tests |
| `SnortModule`, `PcapWriter` | the Snort module: process, pipe and signals; packets written to the pipe |
| `MCPacketExchange`, `MCShmExchange` and their `.cfg` files | instances for TLC |
| `MCMedia` | the two media; a collector uses one of them |
| `MCModuleSide`, `MCCollectorSide` | the components of the two sides, side by side |
| `PacketExchange_proofs`, `ShmExchange_proofs`, `DetectionBase_proofs`, `Collector_proofs`, `ModuleStart_proofs` | the theorems about a component and their proofs |
| `MCCollectorSide_proofs`, `MCModuleSide_proofs` | the theorems about the components of the two sides: those of `ModuleStart` restated, and the ones about `Recorder`, `SnortModule`, `PcapWriter`, `StatMetrics`, `StatTests` and `ModuleInit` |
| `MCModuleData_proofs` | the theorems about the data a module holds and computes: `StatStore`, `CountStore` and `RankTests` |

Which of them interact: `ShmExchange` and `PacketExchange` are two details of
`PacketDelivery`. `Collector` keeps of the exchange only the posts, `ModuleStart`
and `Configuration` are what runs before its module container exists;
`DetectionBase` is what `PacketExchange`'s module does between `BeginImport` and
`NotifyDone`; the parser calls `DetectionBase`'s `GetBuffer` and `RecordEnd` with
its records, the stores are what a storage is, and the tests what `RunTest` does.
Each of these is checked against its caller's whole input rather than inside it.
`MCModuleSide` and `MCCollectorSide` put them side by side: a behaviour picks a
component and follows it, the others rest, so the state graph is the union of
theirs. The first component of each (`DetectionBase`, `Collector`) is extended
and the others are instances.

### How `PacketExchange` corresponds to the code

Each variable is a field or static of the source (comments in the module).
`lpc`, `mpc` and `dpc` are the program counters of the listener, the manager
and a module; a value names what comes next.

| action | code |
|---|---|
| `ReceivePacket` | `messageCallBackFunction` up to the end of `IpfixFile::writePacket`; a failed write is not registered but is posted |
| `PushPacket`, `WrapNewest` | `pushIpfixPacket` (with `++newest`), then `counter++` |
| `NewPacket` | `Manager::newPacket`, one `sem_post` |
| `BeginRound` | `lockMutex`, `alarm(killTime)` |
| `EraseRemoved` | one pass of `notifyAll`'s erase loop, or its end |
| `SetRange`, `RaiseSemaphore`, `MarkBusy` | `DetectModExporter::notify` for one module: the range, `semop`, `setBusyState(true)`. Between the last two the module runs with its flag still down, and SIGALRM may come |
| `BeginWait`, `WaitModule` | `DetectModExporter::wait` for one module: the test of its state, then the loop up to its return |
| `ClearSink` | `clearSink`, `popIpfixPacket`, `alarm(0)` |
| `SigAlarm` | `sigAlarm`, `findAndKillSlowModule`, `stopModule` |
| `SigChild`, `RestartOrDelete` | `sigChild`: one `wait(2)` and the new state; then the restart or `deleteModule` |
| `WaitForPackets`, `BeginImport`, `ImportPacket`, `NotifyDone` | the working thread's cycle: `SemShmNotifier::wait`, `i = getFrom()`, one pass of the loop of `PacketReader::import` (which reads `getTo()` anew), `notify` |
| `DieOfItself`, `DieOfSigterm` | the process of a module ends |

The manager's `Mutex` is a counting semaphore that starts at 1 and is taken by
the constructor; `lock` is `TakePost`, `unlock` is `Post`. A module's semaphore
is raised by 2 and lowered twice by 1; `Removed` stands for a semaphore after
`IPC_RMID`, on which every call fails with `EIDRM`, and the model follows what
the callers then do (a module treats it as "packets are there").

`WrapsAtOnce` stands for the compiler. `IpfixPacketStore::getPacketStats` reads
the counters without the mutex under which they are written. `++i == MAX_FILES`
followed by `i = 0` is two stores in an unoptimised build, which is what
`cmake .` makes with the repository's files, and one store in an optimised
build. With `WrapsAtOnce = FALSE` the manager may read `MAX_FILES`.

### How `ShmExchange` corresponds to the code

The block is modelled byte by byte: `mem` tells for every byte which packet it
belongs to, 0 for zeroed memory, and `packets` where each packet was put. What a
reader finds at a position (`LengthsAt`) is the length of a packet that begins
there and whose length field is whole, 0, or anything.

| action | code |
|---|---|
| `ReceivePacket` | `writePacket` up to the test for the end and the `bzero` |
| `JumpToStart`, `CheckSpace`, `CopyPacket` | the rest of `writePacket`: jump or give up; give up or not; the copy and the new write position |
| `PushPacket`, `NewPacket` | `pushIpfixPacket` (which waits for the store's mutex), `newPacket` |
| `BeginRound`, `Notify`, `WaitModule`, `ClearSink` | the manager's round |
| `Advance`, `Rewind`, `ReturnToStart`, `ReadLength`, `PopPacket` | `popIpfixPacket`: the stores of `readPacket` to the collector's statics in their order, then the counters |
| `WaitForPackets`, `BeginImport`, `ImportPacket`, `NotifyDone` | the working thread, whose `readPacket` is one step since it reads shared memory and writes statics of its own process |

`Notify` is one step though it was two in `PacketExchange`: between the two only
other modules could look, and raising the semaphore concerns the one it is
raised for. The round is that of modules that run, so there are no busy flags.
The packet's content is its number; a packet counts as parsed only if all of its
bytes are its own when the module reads it.

### How the other modules correspond to the code

`PROJECT.json` has the lines of every definition; here is what is not obvious.

* `Collector`. One action per statement of `run()` that another thread or a
  signal can come between; `TestTerminate` and `Pause` are two, so a signal may
  fall between them. The receiver's mutex is held by the main thread from
  `createIpfixReceiver` to `startIpfixReceiver`, and from `stopIpfixReceiver` on
  for good. `SigInt` and `SigChild` run on the main thread and end its `pause`.
  Failures of `socket` and `bind` leave a socket that fails at once or never
  receives; without a thread `createIpfixReceiver` returns `NULL`, which
  `AddPacketProcessor` dereferences. `KillModule` is an iteration, since the
  manager thread may erase from the container between two; its own loop is
  `TestRemoved` and `EraseRemoved`, since a handler may mark a module between them. `killed`, `thrown`,
  `undefined` and `returned` are the ends of `run()`.
* `ModuleStart`. `shm` and `sem` are the host's tables. A search for a key asks
  one key at a time, so two searches interleave. A process keeps its frames: a
  restart by the handler of SIGCHLD is a frame on top of `run()`, also of a
  `run()` or `sendInitData` that is under way, since the handler runs inside
  it. A module's process is a record of what it has attached to; `deaf` tells
  that its SIGTERM came between `fork` and `exec` and was taken by the inherited
  handler.
* `Configuration`. The document is a tree, a position a path in it. Each read
  function is one action, and moves the cursor by the operators that stand for
  `enterNode`, `leaveNode`, `nextNode`; `reading = "failed"` is the exception that ends the
  start, also that of a `FileRecorder` without its index. `cleanPacketDir` joins
  directory and name without a slash, so it removes files only if the directory is
  written with one, and a module whose binary `lstat` does not find is not added.
* `Recorder`. Time is an integer; `usecs` is it modulo `2^ClockWidth`, from any
  start. The differences are computed as the code does, signed and unsigned. A
  handler on the replaying thread ends the sleep: `interrupt` for SIGCHLD and
  SIGALRM, `abort` for the signals that end the collector. `cut` are the packets
  this has happened to. A packet that cannot be written gets its line in the index
  all the same, and a line whose file cannot be opened ends the replay.
* `DetectionBase`. A storage is `[recs, valid, whole]`; `whole` is `FALSE`
  between `recordStart` and `recordEnd`, while the parser writes. The threads
  stop wherever they are when cancelled. The three `Mutex` objects are counting
  semaphores and stand in two variables, since no policy uses more than two.
* `IpfixParser`. A set's payload is a sequence of octets in base `Base`: with
  base 4, 3 is what 255 is in the code, 15 what 65535 is. Exporters are
  external: they encode templates and records, with padding behind them, and what
  the callbacks are given is compared with what was encoded. `LengthInRecord`,
  `LongRead` and `RecordsLeft` are the tests that differ from loop to loop: a
  scope's length is looked for in the record when the template has fixed it, a
  length in two octets is converted by one loop only, and the loops over options
  and data records turn padding into records. `Readable` says of which sets the
  loops then make what was sent, `garbled` that a template set was not one of
  them: a withdrawal of four octets where six or eight are skipped.
* `ModuleInit`. `Order` is the sequence of checks of each module's `init`; each
  check that fails calls `stop()` and goes on or not as the code does.
  `SourceField` is the 16 bits at header offset 12 that `filepolicy.h:179` reads;
  `sourceIdList` is what the loop over a comma-separated list makes of it, whose
  start never advances. Metrics are looked up by name; an unknown one is skipped.
* `CountStore`. A hash function maps a flow to bits; all functions are tried.
* `StatStore`. Addresses have two bits; netmasks, keys and filters are the
  code's. A line of the storage file is an endpoint and its counters.
* `StatTests`. A metric's value is the number of the call that extracted it, and
  a mean the set of values that went into it; what a statistical test decides
  is any outcome. `freq`, `pause`, `onlyFirst` are what `init` makes of the file.
* `RankTests`. Ranks are doubled to stay whole; the distance of the distributions
  is multiplied by both sample sizes. `ToInt` is the `int` to which `ks-test.cpp`
  copies a tied value.
* `SnortModule`. Instances share the name of a pipe, which outlives them. A
  snort opens the pipe at any time after `fork`, ends of itself, or of SIGINT.
* `StatMetrics`. `Requires` is the table of `stat-main.cpp:109-135` row by row, not
  derived from the arithmetic of the metrics, with which it is compared.
* `PcapWriter`. Octets are counted; a record may come with any of the fields, in
  any order, and any total length. A section of negative size, which `fwrite`
  takes for a huge one, puts out any number of octets up to `MaxJunk`.

### Abstractions of `PacketExchange`

* A packet is its number. What is in it belongs to the parser.
* `arrived`, `written` and `parsed` are history variables: they number packets
  and record what a process has parsed.
* `clearSink`'s loop is one step: file by file deletion interleaves with the
  listener only, which touches other files. A module that still reads in the
  range, because its wait was cut short, may in the model lose all of the files
  at once; it may lose any of them in the code.
* SIGALRM may come wherever the alarm is set, with its handler on the main
  thread. Only the liveness of `SupervisedSpec` assumes that it does not come
  before the modules are notified (`AlarmInTime`, below).
* One SIGCHLD handler runs at a time, on the main thread or on the manager
  thread while it waits, whose `semtimedop` it then interrupts. `sem_wait`,
  in contrast, is restarted (`signal()` installs handlers with `SA_RESTART`).
  A handler on the manager thread at another point of the round is the same as
  one on the main thread at that point, with the manager not scheduled.
* The restart of a module is one step: removal of the old semaphore, new
  semaphore, `fork`, initial data. Semaphore keys and pids are not reused for
  another module.
* The unsynchronised access of handlers to the container *vector* is not
  modelled; they see it before or after an erase.
* `Manager::shutdown` is false throughout.

## What is checked

The runs of the exchange have `CHECK_DEADLOCK FALSE`: the number of arriving packets is bounded,
and when the last one is dealt with the system rightly sleeps.

`module_side` and `collector_side` check deadlock: their components say where they
may rest (`Returned`, `Starved`, `Idle`, `Full` and the like).

Every property has a mutant (in `PROJECT.json`): a plausible bug in one
definition with which TLC finds the property violated.

| run | instance | properties | shows |
|---|---|---|---|
| `exchange_pair` | 2 modules, 4 packets, 2 stored, `MAX_FILES` 3, failing writes | `NoMissingFile`, `ParsedInOrder`, `EveryPacketLeaves` | with two modules, which may see different ranges |
| `exchange_failures` | 2 modules that crash, exit or hang, 2 packets, 1 spontaneous death | `ClearWithinStore`, `NotBusyMeansIdle`, `EveryPacketLeaves` | supervision, with and without `restart_on_crash` |
| `exchange_wrapping` | 1 module that crashes, exits or hangs, 5 packets, failing writes, unoptimised build, SIGALRM at any moment | `TypeOK`, `NoLostWakeup`, `NotBusyMeansIdle` | posts and packets stay in step in that build too |
| `exchange_media` | 1 module, 6 packets, 3 stored, `MAX_FILES` 4. Files: failing writes. Block: 13 bytes, packets of 1, 3 or 14 bytes | `FilesImplementDelivery`; `TypeOK`, `ImplementsDelivery`, `IdleBlockAccepts` of the block | both media implement `PacketDelivery`, under the mappings published = files written, deleted = files unlinked, and published = packets pushed, deleted = packets popped; giving up a packet does not block the way for good (529398 states) |
| `module_side` | the ten components of a module, small instances | 19 properties, below | each component of a module by itself (569655 states) |
| `collector_side` | the four components of the collector beside the exchange | 8 properties, below | the collector's start, configuration, recorder and end; two collectors on a host (480797 states) |

What the properties of the last two say, by component:

| component | properties |
|---|---|
| `DetectionBase` | `RecordsSurvive`: while the test thread lives, each accepted record is tested or waits for it, in order; afterwards what was tested is the beginning of what was accepted, and at the end of a file one set at most is missing. `TestedIsWhole`: `test()` never sees a storage the parser writes. `PostsMatchBuffers`: the unbuffered list is never popped empty. `ExecEnds`: the end of offline data and `stop()` end `exec` |
| `IpfixParser` | `DecodedAsSent`: of every set that is readable the callbacks are given the records the exporter encoded, and they know exactly the templates it has announced and not withdrawn |
| `CountStore` | `CountsAreExact`: counts are those of the definition, up to flows that the Bloom filter hides, which is never more than it must; `ReportedIfLoud`: a key above the threshold is reported |
| `StatStore` | `CountsExact`, `ReplayIsExact`: counters and the replay of a stored run against their definition |
| `StatMetrics` | `MetricsConsistent`: differences are opposite, noise shows nowhere, and a metric needs no counter that it has not subscribed to |
| `StatTests` | `SamplesAreRecent`, `AlarmsCountRuns`, `AttacksAreNotLearned`: the windows hold the latest values, alarms count attacks or runs of them, a mean leaves out what alarmed |
| `RankTests` | `StatisticsExact`, `CategoriesDivide`: mid-ranks, the supremum of the distance, and categories, under all ties |
| `ModuleInit` | `RunsAsConfigured`: a module that runs has none of the refused values it looks at; without a list of sources it is given every packet, and of a packet the fields of the metrics it has found, of its key or of its packets |
| `SnortModule` | `OwnSnort`: the pipe a module writes is the one its own snort reads; `SigTermEndsModule` |
| `PcapWriter` | `StreamStaysFramed`: as many octets are written as the headers announce, until a packet announces less than an IP header |
| `Collector` | `CallbackOnlyWhileStarted`, `NoModuleSurvives`, `SignalEndsRun` |
| `Configuration` | `ConfiguredAsWritten`: sections in any order, some missing, give what the file says |
| `ModuleStart` | `AttachedToOwn`: a module waits on its own semaphore and reads its own collector's block; `OrderlyEndFrees`: an orderly end leaves no semaphore of a module it had; `StartsEnd`: a start ends |
| `Recorder` | `EarlyOnlyIfCut`: each packet once and in order, and early only if a signal has cut the wait for it |

Several of them hold with an exception that is written into the property, since
that is what the code does. Where a comment or document of the repository
promises more, the promise is a property of its own, which TLC finds violated
(below): `ExecEnds` unless the stop falls between `exec`'s test and its assignment
(`StopStops`), `NoModuleSurvives` unless the manager erases while the modules are
killed (`AllModulesKilled`), `EarlyOnlyIfCut` for packets whose wait was cut
(`ReplayedInTime`), `StreamStaysFramed` until a packet is too short
(`InclLenIsSaved`), `RunsAsConfigured` for modules without a list of sources and
for known metrics (`ListedAreGiven`, `NoMetricNoRun`), `ClearWithinStore` while a
module remains (`PopsWhatIsStored`), `RecordsSurvive` for the last set of a file
(`EachObjectIsTested`), `DecodedAsSent` for readable sets (`FixedLengthsStay`).

Of the others nothing in the repository promises more, so they are exceptions only:
`SignalEndsRun` unless the signal falls between the test and `pause`;
`SigTermEndsModule` unless a packet is written after snort has died (SIGPIPE) or
the SIGTERM comes when `shutdown` is set; `NotBusyMeansIdle` but for the module whose
semaphore has been raised and whose flag is next to be; `EarlyOnlyIfCut` as long
as the replay is shorter than the clock's width; `AttachedToOwn` except for a
process whose SIGTERM was lost before `exec` or whose collector's block is gone.
Without the exception TLC finds the case within a few steps.

Bounds. `MAX_FILES` is one more than the packets that may be stored at once,
the tightest value at which counters are unambiguous, and more packets arrive
than there are file names, so names are reused (in `exchange_failures` the two
packets do not wrap; there the interleavings of deaths, alarms and waits are the
point, and the proofs cover the rest). `MaxStored` is a bound of the model; the
code has none and would misbehave at 100000 packets outstanding. One death of
its own accord suffices since alarms kill any number of modules.
In `exchange_media` the block holds two to four packets, so the writer jumps more
than once, by both of the ways in which a reader notices, gives packets up in
each of the three places of `writePacket`, and one length is longer than the
block. Three packets stored are few enough for this block that the error of
`shm_tail` does not occur; with four in a block of 14 it does. With packets of
one length it cannot occur: a packet that is stored in the tail shows that one
as long fits where the writer is. `IdleBlockAccepts` fails in a block of only two
packets' size, where a writer that has jumped to the start waits for a reader
that has nothing left to read, and it cannot be expected once the error of
`shm_tail` has happened.

In `module_side` three records pass through a list of two, so it fills; a template
is replaced by a longer and by a shorter one within three sets; the Bloom filter
has two bits for three flows, so it has false positives; samples are of two values
and seven tests are run, so each window slides several times and pauses begin and
end; all sorted samples of one to four values are compared; total lengths lie
below an IP header, between and above the sections' lengths; sets end with and
without padding. In `collector_side` one packet and
two signals against two modules of which one ends; every order of the sections;
two collectors with a module each, two processes, one kill of a collector and one
module that ends; a clock of two bits. With a third process TLC found the two
exceptions of `AttachedToOwn`; with two the run takes two minutes.

Fairness. `FairSpec` assumes that no thread of the collector and no module stops
being scheduled (weak fairness of each thread), with nothing assumed about
packets arriving. `SupervisedSpec` assumes nothing about the modules, which may
hang anywhere or ignore SIGTERM, but that the kernel delivers SIGALRM and SIGCHLD
in the end, and that `killTime`, which is seconds, does not run out before the manager
has notified the modules, for which it waits for nobody (`AlarmInTime`; otherwise a
module that is notified afterwards and hangs would be waited for without a
deadline). `EveryPacketLeaves` then rests on the alarm alone.
`SideSpec` assumes of the threads of a module, and of the collector's main thread
and listener, that each goes on while it can (they are threads of the
operating system and none of them waits actively); of the start of modules, that
somebody goes on who can; of the Snort module that its main thread goes on and that
a snort ends that has been sent SIGINT. Nothing is assumed of packets, signals,
ends of modules or of the manager.

### Where code and documentation disagree

Each of these properties states a promise of a document, a comment or an
assertion, and TLC ends with a counterexample. The first six are runs, and
findings in `PROJECT.json`.

* `exchange_pair_loss` (`ParsedBeforeDeleted`). `notify` writes the range anew for
  every module. The first module reads `to`, parses and hands back; a packet
  arrives; the second module is told a longer range; `clearSink` deletes the
  longer range. The first module never sees the packet.
* `exchange_remove` (`RemoveIsFinal`). A module exits, SIGCHLD marks it `Remove`;
  the alarm finds its busy flag up (its wait returned early) and `stopModule`
  marks it `Crashed`. Nothing erases it any more.
* `exchange_restart` (`CrashedIsRestarted`). Two modules crash; SIGCHLD is one
  signal; the handler reaps one child.
* `shm_tail` (`UnreadSurvives`). The writer has jumped to the start, the readers
  are still near the end, and the writer follows them up; a long packet arrives
  that would reach the end. `writePacket` zeroes from the write position to the
  end, where stored packets wait to be read, then finds the read position there
  and gives the new packet up. Readers find a zero length and jump to the start,
  out of step with the writer from then on.
* `offline_end` (`EachObjectIsTested`). The file ends, the working thread sets `EXIT`,
  `exec` cancels the test thread before it has tested the last object
  (detectionmodules/README:339-342, one call of `test()` for each object).
* `source_list` (`ListedAreGiven`). The two octets read of a source id are its upper
  ones, and of a list only the first id is subscribed (detectionbase.h:195-201).

The others are configurations beside the runs, here with the module to give to TLC:

* `MCExchangeWrap.cfg`, `MCPacketExchange` (`AnnouncedEndInRange`, sharedobj.h:31). In an
  unoptimised build the manager may announce `MAX_FILES` as the end of a range. Modules
  count past it. If the listener stays within the increment for two rounds, `clearSink`
  even throws (`ClearWithinStore` holds with `WrapsAtOnce` only, see below).
* `MCExchangeWait.cfg`, `MCPacketExchange` (`ActiveAreDone`, modulecontainer.h:95). The end
  of one module interrupts `semtimedop` in the wait for another; `wait` takes this for
  an error and returns, and so does `notifyAll`, with the other module still at its
  packets.
* `MCExchangeClear.cfg`, `MCPacketExchange` (`PopsWhatIsStored`, packetstats.h:207). The
  last module is erased; the next round notifies nobody, so the block keeps the old
  range, and `clearSink` pops that many packets once more. `popIpfixPacket` throws if
  there are fewer.
* `MCKillModules.cfg`, `Collector` (`AllModulesKilled`). `killDetectionModules` iterates
  while the manager thread erases the module in front of it: the next one moves into
  the place already visited and is not killed.
* `MCStop.cfg`, `DetectionBase` (`StopStops`, detectionbase.h:529). SIGTERM, between
  `exec`'s test of `state` and `state = RUN`.
* `MCOptions.cfg`, `MCModuleSide` (`FixedLengthsStay`). The loop over options records
  (rcvIpfix.c:522) looks for the length of a fixed scope in the record and overwrites
  the template's with it.
* `MCPrevious.cfg`, `MCModuleSide` (`PreviousIsLast`, stat-store.h:54-55). An empty interval
  lies between two others; the second is compared with the first, not with the last one.
* `MCMetrics.cfg` (`NoMetricNoRun`, wkp-module/README:175) and `MCOutputDir.cfg`
  (`ExistingDirOnlyWarns`, wkp-module/README:225), `MCModuleSide`. The statistics module
  goes on where its README says it exits, and the other way round.
* `MCShortPacket.cfg`, `PcapWriter` (`InclLenIsSaved`). A total length of 8: the record
  header announces 8 octets and an Ethernet header, 20 and more follow.
* `MCReplay.cfg`, `Recorder` (`ReplayedInTime`, recorder.h:117-118). A module ends during a
  replay; SIGCHLD cuts the sleep, the packet is handed on.

### Other divergences met while modelling

They are in the models as the code does them, where a model goes so far; none of
them is a property of its own.

* `snortstore.cpp` copies the TCP and UDP destination port into `hdr_src_port`.
* `Snortmodule::test` and `Stat::test` (without data) do not delete the storage.
* `rcvIpfix.c`: the loop over an options template's scopes tests `fieldInfo[scopeNo]`
  for an enterprise number (not modelled: the callbacks do not look at it);
  lengths in two octets are taken in host order (387, 528, 544, 594); padding
  behind options and data records becomes records; a withdrawal of an options or
  data template is taken to be as long as a template's header; `dataInfo` is
  allocated with `fieldCount`, and the count of a NetFlow v9 header is taken for a
  count of sets (neither is modelled).
* `detectcallbacks.h` passes a field's length as its id, or a wrong id, for fixed
  fields.
* `report_only_first_attack` is read from `<test_frequency>` (`stat-main.cpp:479`).
* The loop over a list of source ids is the same in the statistics, Snort and
  count module (their README files say comma-separated list); the count module's README names
  `accepted_source_ids`, its code reads `accept_source_ids`; `all` is known to the
  statistics module only.
* The statistics module uses the configuration after it has deleted it
  when there are no preferences (212-217); `enable_wkp_test` may be used
  uninitialised; the endpoint list never shrinks; the last line of a storage file
  is lost without a newline; the initial variance of CUSUM uses the mean for the
  sum (1681).
* The recorder's destructor divides by the elapsed time, which may be 0.
* Failures of `socket` and `bind` are ignored; a failing thread in
  `createIpfixReceiver` yields a null pointer that is used; a failing manager
  thread throws out of `run()` with the modules running; a packet that arrives
  while the receiver is stopped leaves the listener waiting for a mutex that
  nobody unlocks.
* A failing `execv` unwinds the child's copy of the collector: its destructors
  remove the shared block and clean the packet directory of the parent. A failing
  `startModules` leaves started modules behind; semaphores of modules that end by
  themselves, and the storage block, are never removed; `stopModule` may send a
  signal to a pid that has been reaped; SIGPIPE is not ignored, so that
  `sendInitData` to a dead module kills the collector.
* Two effects seen in larger instances of `ModuleStart`, the exceptions of
  `AttachedToOwn`: a child whose SIGTERM arrives between `fork` and `exec` survives
  and may later wait on the semaphore of another collector that drew the same
  key; a module that starts after its collector's block was removed attaches to
  the block of another.

## What is proved

39 theorems in eight modules, all checked to the last leaf. A theorem holds for every
value of the constants that its hypotheses allow; the runs show the same property
on one instance. In each proof an inductive invariant stands at the beginning,
`Invariance` (or its parts for one component) says that it is one, and the
theorems below follow from it. TLC checked each inductive invariant on small
instances before it was proved.

### The packet exchange: `PacketExchange_proofs`

For every number of modules, every `MAX_FILES`, every set of failures, with restarts
and signals at any moment:

* `TypeCorrectness`: `Spec => []TypeOK`.
* `NoWakeupIsLost`: `Spec => []NoLostWakeup`.
* `ClearStaysWithinStore`: `Spec => []ClearWithinStore` if `WrapsAtOnce`.
* `BusyFlagsAreTrue`: `Spec => []NotBusyMeansIdle`.

They follow from `Invariance`, `Spec => []IInv`. The parts of `IInv`:

* `TypeOK`.
* `StoreInv`: the number of stored packets is the cyclic distance of the two
  counters, once a wrapping increment is complete, and below `MAX_FILES`. Without
  it the distance says nothing about the store.
* `HandlerInv`: a handler on top of the manager thread leaves it in its wait.
* `RoundInv`: in a round whose range is `from..to`, the packets outside of the
  range are no more than the posts made or owed. `NoLostWakeup` by itself is not
  inductive: it speaks of the manager asleep, and what makes it true is that
  the manager reads the counters after it took its post.
* `SemaphoreInv`: a running module's semaphore is even exactly between imports,
  and 0 if the busy flag is down. The parity is what makes `NotBusyMeansIdle`
  inductive: 0 seen by the manager means that the module has taken both its
  steps.

And about the packets themselves:

* `DirectoryIsConsistent`: `Spec => []DirectoryInv`, whatever fails. The directory
  holds exactly the packets written and not deleted, file `n` the packet whose place
  the cyclic distance from `oldest` gives.
* `EveryFileIsFound`: `Spec => []NoMissingFile`.
* `PacketsAreParsedInOrder`: `Spec => ParsedInOrder`, an action property.
* `ExchangeImplementsDelivery`: `Spec => ImplementsDelivery`, the refinement of
  `PacketDelivery`, if there is one module.

The last three assume `WrapsAtOnce` and `Failures \subseteq {"write"}`: modules run,
writes may fail. Their invariant adds `DeliveryInv`: no signal is on its way
(`QuietInv`); a round raises each semaphore once and ends when all are back at 0, so
nobody works outside of the round that told it (`TurnInv`); the announced range
begins with the oldest packet and lies in the store (`RangeInv`); a module has parsed
nothing beyond where it stands in the range, and with one module all up to there
(`ParsedInv`). The hypothesis on failures is needed: with two modules TLC finds
`NoMissingFile` violated for each of `"crash"`, `"exit"` and `"hang"`. The SIGCHLD of
one module interrupts the wait for the other, and the round ends while that one still
imports; a semaphore removed for a module that hangs lets the round end likewise. One
module is needed for the refinement since the range is written anew for each
module (run `exchange_pair_loss`).

`MaxFilesAssumption` (`MAX_FILES` at least 2) and `ExchangeAssumption` (types of the
constants and `MaxStored < MAX_FILES`) are evaluated in the runs.

### Shared memory: `ShmExchange_proofs`

* `TypeCorrectness`: `Spec => []TypeOK` if `Fitting`, for packets of any lengths and any
  number of modules. `Fitting` says that a packet not longer than the block leaves
  room for its length field and a byte. It is needed: with `Size = 14` and packets of
  12 or 13 octets TLC finds a copy that ends behind the block, since the start of
  the block is never tested for space. A configured `shmSize` of more than the largest
  datagram plus 2 satisfies it; the code takes any (collector.cpp:289-292).

The other theorems speak of packets of any lengths and of the behaviours of
`Spec /\ [][ZeroesOnlyRead]_vars`: no packet that would reach the end of the block
arrives while the writer, having jumped, runs behind the collector. That is not
an assumption the code justifies, it is where the theorems end: `writePacket` zeroes the
tail at line 113 before it looks at the reader, and the run `shm_tail` is the
counterexample. The theorems say that this step is all that can go wrong; every
other interleaving of the writer's steps with the collector's statics and the
modules' readers is covered, with the jumps given up for long packets and the
shorter ones that fit behind them.

* `Invariance`: `[](TypeInv /\ RingInv)`, any number of modules. `LayoutInv`,
  `WriterInv`: each packet ends within the block, and the writer stands behind the
  last one or has jumped from there, with zeros or no room for a length behind.
  `JumpInv`: a packet not yet passed over that does not lie behind the one before it
  lies at the start, and zeros mark where the other ends. `ReaderInv`: the collector
  stands behind the last packet it has passed over or on a named step to the next.
  `MemoryInv`: what it has not passed over is whole. `OrderInv`: unless the collector
  is on its way back to the start, it has before it what lies in front of the
  writer's position, or, when the writer has jumped, what lies behind it, in this
  order. This is the part that is not visible in the code: `writeBeforeRead` is
  written by two threads, and the comparison of the positions means something
  only together with it.
* `IdleBlockIsFree`: `[]IdleBlockAccepts` if the block has room for three packets that
  fit (`Roomy`): with lengths that differ, a jump for a long packet may be given up
  behind short ones.
* `NothingElseOverwrites`: `[]UnreadSurvives`, one module.
* `BlockImplementsDelivery`: `ImplementsDelivery`, one module. `ModuleInv` relates
  the module's own reader to the collector's: both have found the same packets at the
  same places. One module for the same reason as above.

### Detection base: `DetectionBase_proofs`

For every number of records and capacity of the list and without any assumption:

* `StorageIsWhole`: `Spec => []TestedIsWhole`. The invariant says who has the two
  locks: `recordMutex` is 1 unless the parser writes a record (or was cancelled
  while it did), so that who takes it finds all storages whole; the buffered
  policy's `packetLock` is taken during a whole import; of the offline policy's two
  locks at most one is available, and none while a set is read. When a record is
  written, only the last storage of the list is not whole.
* `ListIsCounted`: `Spec => []PostsMatchBuffers`: the semaphore lags behind the list,
  and a test thread that has taken a post owns a storage of the list.
* `RecordsAreNotLost`: `Spec => []RecordsSurvive`. `RecordsInv`: while the test thread
  lives, what was accepted is, in order, what was tested, what the test thread
  holds and what waits in the list; an invalid storage is empty and an offline one
  holds one set, so that dropping or replacing either loses nothing. When the test
  thread has been cancelled, the working thread may accept more but nothing more is
  tested, and an offline working thread that has ended leaves at most the set the
  test thread had. The lemmas about `FlattenSeq` it rests on go by induction over the length.

### The collector's side

`Collector_proofs`, for any number of modules, packets, signals and ends of modules:

* `CallbackWithinStart`: `Spec => []CallbackOnlyWhileStarted`. The invariant
  (`MutexInv`) follows the receiver's mutex through `run()`: the main thread has it
  from the creation to the start and from the stop on, unless there is no
  listener thread, and a listener has it exactly in the callback.
* `ModulesAreKilled`: `Spec => []NoModuleSurvives` if the modules are finitely many. A
  process that has not gone for good is in the container (`ModulesInv`); those in front
  of the iterator of `killModules` have been told, and nothing is restarted any more
  (`KilledInv`). The exception of the property, the manager's erase that overlaps with
  the loop, is carried along as `overlapped`.

`ModuleStart_proofs`, for every number of collectors, modules and processes
(`CountAssumption`: a collector has a natural number of modules); `MCCollectorSide_proofs`
states the results of the specification that the run `collector_side` checks:

* `ModulesAttachToOwn`: `[]AttachedToOwn`. `OrderlyEndLeavesNothing`: `[]OrderlyEndFrees`.
  `IInv` relates the system's tables of keys, the processes and the frames of the
  main threads. A key leads to the last semaphore made for its module
  (`SemaphoreInv`); a process that has not opened its semaphore was told a key that
  still leads there, unless it missed a SIGTERM (`ProcessInv`); while a frame looks for
  a key or forks, no process of that module lives (`FrameInv`). Collectors draw keys at
  random from one table, so each step of one is shown to leave the rest of the
  others alone.
* `OnlyCutSleepsAreEarly`: `[]EarlyOnlyIfCut` under `ClockAssumption`: the recording
  lasts less than the width of the clock, 2^32 units in the code. `Recorded` says that
  the index has the arrivals up to a multiple of the width, `Replayed` and `Playing` that
  a packet in `play`'s hands has come to its time, does so when it wakes, or is one
  whose sleep a signal has cut. The packets behind it are measured from the time
  of its delivery, so they are not brought forward.

### The modules' side

`MCModuleSide_proofs`, for the specification that the run `module_side` checks:

* `PacketsReachOwnSnort`: `[]OwnSnort`, if `Nobody` is not an instance. Beside the types
  the invariant needs `Awaited`: a snort that has not opened the pipe yet keeps its
  module in `fopen`, so that nobody removes the name that it is about to open.
* `StreamIsFramed`: `[]StreamStaysFramed`, for all sizes of sections and all total
  lengths. Octets written and announced agree after each packet because cutting,
  padding and the recursive sum are shown to come to the same number, unless a
  packet without a header section announces less than the 20 octets of the IP
  header, which `short` remembers.
* `MetricsAgree`: `[]MetricsConsistent`, for all counters and every integer factor.
* `SamplesStayRecent`: `[]SamplesAreRecent` for all sample sizes above 0
  (`SizesAssumption`; stat-main.cpp:837-851 replaces others). `SamplesOf`: the new sample
  is an end of the values seen, the old one is full before the new one begins and all
  its values are earlier, and without pauses the two together are an end.
* `AlarmsAreCounted`: `[]AlarmsCountRuns`. A counter is the number of findings in the
  history, or of those that begin a run, and the flag is the last finding.
* `MeanSkipsAttacks`: `[]AttacksAreNotLearned`. It needs the two invariants before, and
  that the tests of the means come in the order of the values: a value that is tested
  again is decided by its last test.
* `ModulesRunAsConfigured`: `[]RunsAsConfigured`. `BeginningInv` follows the steps of `init`
  in their order: when a step is taken, each preference behind it has left a usable
  value (`AsRead`), unless one was refused and the module is on its way to its end;
  `subscribeSourceId` is not reached without a list of sources; `exec` is the last step.
  The property leaves open what listed sources and unknown metrics come to: those
  are the run `source_list` and `MCMetrics.cfg`.
  Of the configuration files the proof uses only that they belong to one of the three
  modules, so the fixed set `Files` of the run is no restriction, and of the packets
  only that no field has the name the model gives to rejected data.

### What a module holds and computes: `MCModuleData_proofs`

Also for the specification of the run `module_side`. The properties compare what the
code adds up step by step with a sum over the history or over a whole sample. The
module therefore begins with lemmas on sums: `SumFunctionOnSet` is a fold in an order
nobody knows, and `SumOfAdds`, `SumAdd` and `Telescope` (by the least counterexample)
say that the order does not matter and what one more element adds. The flows, the
endpoints and the set-ups are those of the run.

`StatStore`:

* `PreviousIsTheLastTested`: `[]PreviousIsLastNonEmpty`, which is what the code does where its
  comments say otherwise (`MCPrevious.cfg`). `LastOf`: `test()` keeps a storage that
  is not empty and no other, so what is kept is the last line of the file that has data,
  whatever tests of empty storages came behind it.
* `ReplaysExactly`: `[]ReplayIsExact`. `Offline`: every endpoint in the file was in one list of
  the online run, and the keys of a set of endpoints are no more than the endpoints, so
  the offline list has room for all of them, in whatever order they are read. `ReadAs`:
  what it holds is then the sum over the lines read.
* `CountsAreExactInStore`: `[]CountsExact`. `Tally`: an endpoint in the list has been counted
  out and in as often as the interval's records say, from the first one on, since an
  endpoint that the list has room for and does not contain has not been met. The
  filters are those of the run's set-ups (`FilterInv`), for every width of an address.

All three assume `endPointListMaxSize \in Nat`, the last one also
`AddressBits \in 2 .. 32`: masks are powers of two, for which the provers have no laws, so
they are computed width by width up to the code's 32 bits.

`CountStore`, both if `max_size \in Int`. `CountHolds`: the bits of the Bloom filter are
those of the flows seen since the last test; the entries of a table, the default entry
among them, have all packets; and in tables that have room for all keys
(`ExactEntry`) an entry has the packets of its key and no flow twice, and if a flow is
missing, its bits are those of the others.

* `CountTablesAreExact`: `[]CountsAreExact`.
* `LoudKeysAreReported`: `ReportedIfLoud`, an action property, from the same invariant: where
  `checkThresholds` looks, the entry of a key has all its packets.

`RankTests`. Of the set of samples only is used that they are sorted and not empty, so
the lengths and values of the run are no restriction. `RestOf` and `Less`: what is
left is the end of a sorted sample, and what has been taken of one sample is less
than all that is left of the other. A loop that takes the items equal to the head
takes a block (`TimesBlock`), and where it stops, the number taken is what `Below` and
`UpTo` count (`BelowIsTaken`, `UpToIsTaken`).

* `CategoriesDivideSamples`: `[]CategoriesDivide`, for every value of `Expected`. `PcsHolds`:
  finished categories and the current one hold what has been taken, and a category ends
  where both samples have been taken up to one value.
* `StatisticsAreExact`: `[]StatisticsExact`. For the rank sums `WmwHolds`: they are the ranks
  given to what has been taken. That is the mean rank only for a value both samples
  have; the items of one that only one sample has get consecutive ranks, one by one,
  and the sum is right again only where the run of equal items ends. `RankGap` is what
  is missing meanwhile, a product of the items before and behind, and it vanishes
  at each end (`GapAtEnd`, `GapStep`), so that in all the items have got
  their mean ranks (`RanksAreMean`). For Kolmogorov's statistic `KsState`: `D` is the
  distance at what has been taken, the bounds are reached somewhere, and no
  distance behind is beyond them but the one at the value in whose run the loop
  stands. The loop is symmetric but for the sign (`KsSwap`), so each step is shown for
  one sample. When one sample is parsed, the rest of the other only comes nearer
  (`KsOver`). The hypothesis of the property, that no value is cut to an int, is the
  only one: `KsTie` copies the value to an int.

### What stays with TLC

* Liveness under fairness, and `ENABLED`: out of the prover's reach.
* `DecodedAsSent`, `ConfiguredAsWritten`: that what the parser's loops and the cursor's
  descent return is what was encoded and written. Both read back, by nested folds or
  recursion, the output of another nest of folds. The induction theorems of the library
  cannot be instantiated; the other proofs do without them, by the least
  counterexample over one number (`SumOfAdds`, `Telescope`, `FlattenSeq`). Here each
  level of each encoding needs its own.
* `ImplementsDelivery` of the block without `ZeroesOnlyRead`: false in general, true within
  the bounds of `exchange_media`, which has no such hypothesis.
* With modules that fail, `NoMissingFile` is false (two modules); what the run
  `exchange_failures` checks beyond the first list of theorems is liveness.

## Not modelled

* Example and print modules, logging (`msg`, `msgstream`), the values that metering
  writes, `ipfix_names.c` (a table of names), the printing functions of `rcvIpfix.c`:
  output without state.
* IDMEF and the xmlBlaster control interface (`Manager::update`, `readIDMEF`, the
  modules' update handlers, Snort's xmlWrapper thread): they are compiled only with
  xmlBlaster and do not compile in this repository.
* Floating point: p-values, eigenvectors of PCA, the CUSUM statistic. What the
  tests decide with them is nondeterministic in `StatTests`.
* Checksums of rebuilt packets (`pcapwriter.cpp`), option values of Snort's
  `readConfig`, maps and logs that `Stat::test` prints.
* Code without a caller: `FileCounter::operator--`, `agebloomfilter.cpp`,
  `DetectMod::restart`, `destroyIpfixCollector`, `addAuthorizedHost`,
  `setReceiverType`.
* libxml2, the kernel, snort and exporters are external: what they do is modelled
  from how the code uses them.
* A module restarted in the middle of a round with shared memory, and modules that
  fail in `ShmExchange`: see the plan.
* The container vector accessed by handlers in the middle of an erase.

## Plan

1. Proofs: `DecodedAsSent`, level by level of the encoding; the exchange with one module that crashes and restarts (which packets it may miss).
2. `ShmExchange` with modules that restart in the middle of a round: their reader
   begins at the start of the block, wherever the writer is.
3. `ModuleStart` with three processes under symmetry of the collectors.
4. A run of `DetectionBase` inside `PacketExchange`'s module, so that the semaphore's
   parity and the state flag meet.
