--------------------------- MODULE DetectionBase ---------------------------
(***************************************************************************)
(* The threads of a detection module (DetectionBase::exec, working thread, *)
(* test thread) and the three input policies that hand records from the    *)
(* parser to test(): Buffered and Unbuffered (filepolicy.h), and Offline.  *)
(*                                                                         *)
(* A record is its number, a storage the records it holds.  The three      *)
(* Mutex objects are counting semaphores (commonutils/mutex.cpp).          *)
(***************************************************************************)
EXTENDS Naturals, Sequences, SequencesExt

CONSTANTS
  MaxRecords,     \* bound: records the collector, or the file, delivers
  maxBuffers      \* capacity of the unbuffered policy (4096)

VARIABLES
  policy,         \* the InputPolicy argument of the template
  alarmTime,      \* "none" (0: test every record) or "interval"
  state,          \* DetectionBase::state
  main,           \* pc of exec, "done" when it has returned
  work,           \* pc of the working thread
  test,           \* pc of the test thread
  buffers,        \* storages that getStorage has not handed out
  packetLock,     \* in the offline policy, bufferLock
  recordMutex,    \* in the offline policy, dataAvailableLock
  held,           \* the storage the test thread works on
  arrived,        \* records read from packets, or sets read from the file
  eof,            \* the stream has reached the end of the offline file
  accepted,       \* history: records some storage took
  tested          \* history: records test() has been through

threads == <<main, work, test>>
locks   == <<packetLock, recordMutex>>
history == <<accepted, tested>>
vars == <<policy, alarmTime, state, threads, buffers, locks, held, arrived,
          eof, history>>

\* A Storage: isValid() is FALSE until a record has been accepted; "whole" is
\* FALSE between recordStart and recordEnd.
NewStorage == [recs |-> <<>>, valid |-> FALSE, whole |-> TRUE]

\* Mutex(0) counts the unbuffered policy's storages; the default is unlocked.
InitialLockDefault == 1
InitialLock == IF policy = "unbuffered" THEN 0 ELSE 1

Init ==
  /\ policy \in {"buffered", "unbuffered", "offline"}
  /\ alarmTime \in {"none", "interval"}
  /\ state \in {"RUN", "EXIT", "RESTART"}    \* init() may have called stop()
  /\ main = "entry" /\ work = "none" /\ test = "none"
  /\ buffers = IF policy = "buffered" THEN <<NewStorage>> ELSE <<>>
  /\ packetLock = InitialLock
  /\ recordMutex = IF policy = "offline" THEN 0 ELSE 1
  /\ held = NewStorage
  /\ arrived = 0 /\ accepted = <<>> /\ tested = <<>>
  /\ eof \in IF policy = "offline" THEN BOOLEAN ELSE {FALSE}  \* TRUE: not open
-----------------------------------------------------------------------------
(* exec() *)

CheckState ==
  /\ main = "entry"
  /\ main' = IF state = "RUN" THEN "assign" ELSE "done"
  /\ UNCHANGED <<policy, alarmTime, state, work, test, buffers, locks, held,
                 arrived, eof, history>>

\* The state is set anew and both threads are created.
StartThreads ==
  /\ main = "assign"
  /\ state' = "RUN"
  /\ main' = "poll" /\ work' = "loop" /\ test' = "loop"
  /\ UNCHANGED <<policy, alarmTime, buffers, locks, held, arrived, eof, history>>

\* Cancellation is asynchronous: the threads stop wherever they are.
CancelTest ==
  /\ main = "poll" /\ state # "RUN"
  /\ main' = "cancel" /\ test' = "none"
  /\ UNCHANGED <<policy, alarmTime, state, work, buffers, locks, held, arrived,
                 eof, history>>

CancelWork ==
  /\ main = "cancel"
  /\ main' = "done" /\ work' = "none"
  /\ UNCHANGED <<policy, alarmTime, state, test, buffers, locks, held, arrived,
                 eof, history>>

\* stop() in a handler of SIGTERM or SIGINT, whichever thread it interrupts.
SigTerm ==
  /\ main # "done" /\ state # "EXIT"
  /\ state' = "EXIT"
  /\ UNCHANGED <<policy, alarmTime, threads, buffers, locks, held, arrived,
                 eof, history>>
-----------------------------------------------------------------------------
(* Working thread *)

\* The test of the state; the thread then goes on whatever happens to it.
NextRound ==
  /\ work = "loop"
  /\ work' = IF state = "RUN" THEN "wait" ELSE "none"
  /\ UNCHANGED <<policy, alarmTime, state, main, test, buffers, locks, held,
                 arrived, eof, history>>

\* wait(): blocks until the collector announces packets.
Wait ==
  /\ policy # "offline" /\ work = "wait"
  /\ arrived < MaxRecords
  /\ work' = "import"
  /\ UNCHANGED <<policy, alarmTime, state, main, test, buffers, locks, held,
                 arrived, eof, history>>

\* importToStorage of the buffered policy holds packetLock for the round.
BeginImport ==
  /\ work = "import"
  /\ IF policy = "buffered" THEN packetLock = 1 /\ packetLock' = 0
                            ELSE UNCHANGED packetLock
  /\ work' = "records"
  /\ UNCHANGED <<policy, alarmTime, state, main, test, buffers, recordMutex,
                 held, arrived, eof, history>>

\* newDataRecordArrived: lock, getBuffer, recordStart.  A full list drops the
\* record; recordStart may reject it, and the storage stays as it is.
BufferIsFull == policy = "unbuffered" /\ Len(buffers) >= maxBuffers

Written(storage) == [recs |-> Append(storage.recs, arrived + 1), valid |-> TRUE,
                     whole |-> FALSE]

GetBuffer ==
  /\ work = "records" /\ arrived < MaxRecords /\ recordMutex = 1
  /\ arrived' = arrived + 1
  /\ IF BufferIsFull
       THEN UNCHANGED <<work, buffers, locks, accepted>>
       ELSE LET front == IF policy = "unbuffered" THEN buffers ELSE <<>>
                fresh == IF policy = "unbuffered" THEN NewStorage
                                                  ELSE buffers[1]
            IN /\ packetLock' = packetLock + (IF policy = "unbuffered" THEN 1 ELSE 0)
               /\ \/ /\ buffers' = Append(front, Written(fresh))
                     /\ accepted' = Append(accepted, arrived + 1)
                     /\ recordMutex' = 0 /\ work' = "write"
                  \/ /\ buffers' = Append(front, fresh)
                     /\ UNCHANGED <<recordMutex, work, accepted>>
  /\ UNCHANGED <<policy, alarmTime, state, main, test, held, eof, tested>>

\* addFieldData for every field, recordEnd, unlock.
RecordEnd ==
  /\ work = "write"
  /\ buffers' = [i \in DOMAIN buffers |->
                   IF i = Len(buffers) THEN [buffers[i] EXCEPT !.whole = TRUE]
                                       ELSE buffers[i]]
  /\ recordMutex' = 1 /\ work' = "records"
  /\ UNCHANGED <<policy, alarmTime, state, main, test, packetLock, held,
                 arrived, eof, history>>

\* The range is parsed: unlock, notify().
EndImport ==
  /\ work = "records"
  /\ packetLock' = packetLock + (IF policy = "buffered" THEN 1 ELSE 0)
  /\ work' = "loop"
  /\ UNCHANGED <<policy, alarmTime, state, main, test, buffers, recordMutex,
                 held, arrived, eof, history>>

\* Mutant: the storage is not waited for.
BufferLockIgnored == TRUE
BufferLockFree == packetLock = 1

\* OfflineInputPolicy::wait: takes bufferLock and keeps it, also at the end.
OfflineWait ==
  /\ policy = "offline" /\ work = "wait" /\ BufferLockFree
  /\ packetLock' = 0
  /\ IF eof THEN work' = "ended" /\ state' = "EXIT"
            ELSE work' = "importFile" /\ UNCHANGED state
  /\ UNCHANGED <<policy, alarmTime, main, test, buffers, recordMutex, held,
                 arrived, eof, history>>

\* The end of the file shows while the last set is read, or by a read that
\* fails and leaves an empty invalid storage.
OfflineImport ==
  /\ work = "importFile"
  /\ \/ /\ arrived < MaxRecords
        /\ arrived' = arrived + 1
        /\ buffers' = <<[Written(NewStorage) EXCEPT !.whole = TRUE]>>
        /\ accepted' = Append(accepted, arrived + 1)
        /\ eof' \in BOOLEAN
     \/ /\ eof' = TRUE /\ buffers' = <<NewStorage>>
        /\ UNCHANGED <<arrived, accepted>>
  /\ recordMutex' = recordMutex + 1
  /\ work' = "loop"
  /\ UNCHANGED <<policy, alarmTime, state, main, test, packetLock, held, tested>>
-----------------------------------------------------------------------------
(* Test thread *)

\* The head of a loop: sleep until the interval ends, or nothing.
NextTest ==
  /\ test = "loop"
  /\ test' = IF state = "RUN" THEN "get" ELSE "none"
  /\ UNCHANGED <<policy, alarmTime, state, main, work, buffers, locks, held,
                 arrived, eof, history>>

\* getStorage of the buffered policy swaps the storage for an empty one.
SwapBuffer ==
  /\ policy = "buffered" /\ test = "get" /\ packetLock = 1
  /\ held' = buffers[1] /\ buffers' = <<NewStorage>>
  /\ test' = "got"
  /\ UNCHANGED <<policy, alarmTime, state, main, work, locks, arrived, eof, history>>

\* getStorage of the unbuffered policy: packetLock counts the list.
TakePost ==
  /\ policy = "unbuffered" /\ test = "get" /\ packetLock > 0
  /\ packetLock' = packetLock - 1 /\ test' = "pop"
  /\ UNCHANGED <<policy, alarmTime, state, main, work, buffers, recordMutex,
                 held, arrived, eof, history>>

\* Mutant: the list is popped while a record is being written.
RecordMutexIgnored == TRUE
RecordMutexFree == recordMutex = 1

PopFront ==
  /\ test = "pop" /\ RecordMutexFree
  /\ held' = Head(buffers) /\ buffers' = Tail(buffers)
  /\ test' = "got"
  /\ UNCHANGED <<policy, alarmTime, state, main, work, locks, arrived, eof, history>>

\* Mutant: the next set may never be read.
BufferLockKept == packetLock
BufferLockGivenBack == packetLock + 1

\* getStorage of the offline policy: waits for dataAvailableLock, gives back
\* bufferLock.
OfflineTake ==
  /\ policy = "offline" /\ test = "get" /\ recordMutex > 0
  /\ recordMutex' = recordMutex - 1 /\ packetLock' = BufferLockGivenBack
  /\ held' = buffers[1]
  /\ buffers' = <<>>
  /\ test' = "got"
  /\ UNCHANGED <<policy, alarmTime, state, main, work, arrived, eof, history>>

\* test(d); without an interval only valid storages are tested.  With IDMEF,
\* update() runs between two tests and may call stop() or restart().
RunTest ==
  /\ test = "got"
  /\ test' = "loop"
  /\ held' = NewStorage
  /\ tested' = IF alarmTime = "interval" \/ held.valid THEN tested \o held.recs
                                                       ELSE tested
  /\ \/ UNCHANGED state
     \/ state' \in {"EXIT", "RESTART"}
  /\ UNCHANGED <<policy, alarmTime, main, work, buffers, locks, arrived, eof,
                 accepted>>
-----------------------------------------------------------------------------
MainThread    == CheckState \/ StartThreads \/ CancelTest \/ CancelWork
WorkingThread == \/ NextRound \/ Wait \/ BeginImport \/ GetBuffer \/ RecordEnd \/ EndImport
                 \/ OfflineWait \/ OfflineImport
TestThread    == \/ NextTest \/ SwapBuffer \/ TakePost \/ PopFront
                 \/ OfflineTake \/ RunTest
Returned      == main = "done" /\ UNCHANGED vars
Starved       == main = "poll" /\ arrived = MaxRecords /\ UNCHANGED vars

Next == MainThread \/ WorkingThread \/ TestThread \/ SigTerm \/ Returned \/ Starved

\* exec polls, and test() and the callbacks return.
Fairness == /\ WF_vars(MainThread)
            /\ WF_vars(WorkingThread)
            /\ WF_vars(TestThread)

Spec == Init /\ [][Next]_vars /\ Fairness
-----------------------------------------------------------------------------
\* The types: the semaphores stay natural, and a list within its capacity.
TypeOK ==
  /\ policy \in {"buffered", "unbuffered", "offline"}
  /\ alarmTime \in {"none", "interval"}
  /\ state \in {"RUN", "EXIT", "RESTART"}
  /\ main \in {"entry", "assign", "poll", "cancel", "done"}
  /\ work \in {"none", "loop", "wait", "import", "records", "write", "importFile", "ended"}
  /\ test \in {"none", "loop", "get", "pop", "got"}
  /\ packetLock \in Nat /\ recordMutex \in 0..1
  /\ Len(buffers) <= maxBuffers
  /\ arrived \in 0..MaxRecords

\* Every accepted record is tested once and in order.  While the test thread
\* lives, what it holds and what waits in storages is what is still untested;
\* once it has ended or been cancelled, that is lost, and nothing else is: what
\* was tested is the beginning of what was accepted.  When the working thread
\* sets EXIT at the end of the file, one set at most is still untested.
Untested == held.recs \o FlattenSeq([i \in DOMAIN buffers |-> buffers[i].recs])
RecordsSurvive ==
  /\ test # "none" => accepted = tested \o Untested
  /\ IsPrefix(tested, accepted)
  /\ work = "ended" => Len(tested) + 1 >= Len(accepted)

\* What detectionmodules/README:339-341 says of offline data: test() is called
\* once for each object of the file.  exec cancels the test thread as soon as
\* it sees EXIT, also before the test of the last object (MCOffline.cfg).
EachObjectIsTested == main = "cancel" /\ work = "ended" => tested = accepted

\* test() is never given a storage into which the parser still writes.
TestedIsWhole == test = "got" => held.whole

\* The unbuffered policy's list is never popped empty: its semaphore counts it.
PostsMatchBuffers ==
  policy = "unbuffered" =>
    packetLock + (IF test = "pop" THEN 1 ELSE 0) <= Len(buffers)

\* The end of the offline file ends exec, and so does stop() or restart(),
\* unless it falls between exec's test of the state and its assignment.
Stopping == state # "RUN" /\ main # "assign"
ExecEnds == policy = "offline" \/ Stopping ~> main = "done"

\* What detectionbase.h:529 and detectionmodules/README:276 say of stop(), with
\* no exception: it stops the module.  One between exec's test of the state and
\* its assignment is forgotten (MCStop.cfg).
StopStops == state = "EXIT" ~> main = "done"
=============================================================================
