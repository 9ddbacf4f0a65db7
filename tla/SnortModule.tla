---------------------------- MODULE SnortModule ----------------------------
(* The Snort module supervises an external snort that reads packets from a *)
(* named pipe (src/detectionmodules/snortmodule/snortmodule.cpp, main.cpp).*)
(* Instances are configured with the same pipe: modules of one collector,  *)
(* or one that the collector has restarted after a crash.  The pipe's name *)
(* outlives them; a pipe is known here by the instance that created it.    *)
EXTENDS Integers

CONSTANTS Instances,
          Nobody,      \* no pipe of that name, or none opened yet
          MaxWritten   \* bound: packets one instance writes

VARIABLES
  fifo,      \* the pipe the name FIFO leads to
  pc,        \* where each instance is in main()
  fifofd,    \* the pipe its writer has open
  snort,     \* its child: "none", "alive", "interrupted", "zombie", "reaped"
  reads,     \* the pipe its child reads
  shutdown,  \* the static flag of the signal handlers
  stopped,   \* DetectionBase's state is EXIT
  written,   \* packets written
  asked      \* a SIGTERM that was not ignored

vars == <<fifo, pc, fifofd, snort, reads, shutdown, stopped, written, asked>>

Starting == {"fork", "open"}
Alive(i) == snort[i] \in {"alive", "interrupted"}
Running(i) == pc[i] \in Starting \cup {"exec", "cleanup"}
Go(i, from, to) == pc[i] = from /\ pc' = [pc EXCEPT ![i] = to]

Init ==
  /\ fifo = Nobody /\ written = [i \in Instances |-> 0]
  /\ pc = [i \in Instances |-> "mknod"] /\ snort = [i \in Instances |-> "none"]
  /\ fifofd = [i \in Instances |-> Nobody] /\ reads = [i \in Instances |-> Nobody]
  /\ shutdown = [i \in Instances |-> FALSE] /\ stopped = [i \in Instances |-> FALSE]
  /\ asked = [i \in Instances |-> FALSE]

(* Mutant: main() deletes the module when init throws, and CleanExit       *)
(* removes the name.                                                       *)
LeaveAndClean(i) == /\ Go(i, "mknod", "ended") /\ fifo' = Nobody
(* main() catches the exception and returns 0. *)
Leave(i) == Go(i, "mknod", "ended") /\ UNCHANGED fifo

(* init: mknod fails if anything has the name. *)
CreateFifo(i) ==
  /\ pc[i] = "mknod"
  /\ IF fifo = Nobody THEN Go(i, "mknod", "fork") /\ fifo' = i ELSE Leave(i)
  /\ UNCHANGED <<fifofd, snort, reads, shutdown, stopped, written, asked>>

(* fork() may fail: the exception ends the instance, its pipe stays. *)
Fork(i) ==
  /\ \/ Go(i, "fork", "open") /\ snort' = [snort EXCEPT ![i] = "alive"]
     \/ Go(i, "fork", "ended") /\ UNCHANGED snort
  /\ UNCHANGED <<fifo, fifofd, reads, shutdown, stopped, written, asked>>

(* snort opens what the name leads to. *)
SnortOpens(i) ==
  /\ snort[i] = "alive" /\ reads[i] = Nobody /\ fifo # Nobody
  /\ reads' = [reads EXCEPT ![i] = fifo]
  /\ UNCHANGED <<fifo, pc, fifofd, snort, shutdown, stopped, written, asked>>

(* fopen(FIFO, "w") blocks until somebody reads the pipe; without the name *)
(* it would create a regular file.                                         *)
OpenFifo(i) ==
  /\ Go(i, "open", "exec")
  /\ fifo # Nobody => \E j \in Instances : Alive(j) /\ reads[j] = fifo
  /\ fifofd' = [fifofd EXCEPT ![i] = fifo]
  /\ UNCHANGED <<fifo, snort, reads, shutdown, stopped, written, asked>>

(* test() writes a packet; without a reader SIGPIPE kills the module, and  *)
(* neither CleanExit nor anything else removes the name.                   *)
WritePacket(i) ==
  /\ pc[i] = "exec" /\ written[i] < MaxWritten
  /\ written' = [written EXCEPT ![i] = @ + 1]
  /\ pc' = [pc EXCEPT ![i] = IF \E j \in Instances : Alive(j) /\ reads[j] = fifofd[i]
                             THEN "exec" ELSE "crashed"]
  /\ UNCHANGED <<fifo, fifofd, snort, reads, shutdown, stopped, asked>>

(* exec() returns once stop() has been called, before it or meanwhile. *)
ExecReturns(i) ==
  /\ stopped[i] /\ Go(i, "exec", "cleanup")
  /\ UNCHANGED <<fifo, fifofd, snort, reads, shutdown, stopped, written, asked>>

(* ~Snortmodule: kill(pid, SIGINT), fclose, unlink(FIFO). *)
CleanExit(i) ==
  /\ Go(i, "cleanup", "ended")
  /\ snort' = [snort EXCEPT ![i] = IF @ = "alive" THEN "interrupted" ELSE @]
  /\ fifofd' = [fifofd EXCEPT ![i] = Nobody]
  /\ fifo' = Nobody
  /\ UNCHANGED <<reads, shutdown, stopped, written, asked>>

-----------------------------------------------------------------------------
(* snort ends by itself, or of the SIGINT. *)
SnortEnds(i) ==
  /\ Alive(i)
  /\ snort' = [snort EXCEPT ![i] = "zombie"]
  /\ UNCHANGED <<fifo, pc, fifofd, reads, shutdown, stopped, written, asked>>

(* sigChild waits for the child and sets shutdown, but does not stop(). *)
SigChild(i) ==
  /\ snort[i] = "zombie" /\ Running(i) /\ ~shutdown[i]
  /\ snort' = [snort EXCEPT ![i] = "reaped"]
  /\ shutdown' = [shutdown EXCEPT ![i] = TRUE]
  /\ UNCHANGED <<fifo, pc, fifofd, reads, stopped, written, asked>>

(* Mutant: the flag is set, stop() is not called. *)
StopsNever(i) == UNCHANGED stopped
Stops(i) == stopped' = [stopped EXCEPT ![i] = TRUE]
(* sigTerm and sigInt, from the constructor on: the first signal stops the *)
(* module, which init sets up all the same; one that comes after another   *)
(* or after the child's death changes nothing.                             *)
SigTerm(i) ==
  /\ pc[i] \in {"mknod", "exec"} \cup Starting /\ ~shutdown[i]
  /\ shutdown' = [shutdown EXCEPT ![i] = TRUE]
  /\ Stops(i)
  /\ asked' = [asked EXCEPT ![i] = pc[i] = "exec"]
  /\ UNCHANGED <<fifo, pc, fifofd, snort, reads, written>>

(* Nothing is left to do, or an instance waits for a reader that has died. *)
Idle ==
  /\ \A i \in Instances : /\ ~Alive(i)
                          /\ \/ pc[i] \in {"ended", "crashed"}
                             \/ pc[i] = "open" /\ fifo # Nobody
                             \/ pc[i] = "exec" /\ ~stopped[i] /\ written[i] = MaxWritten
  /\ UNCHANGED vars

Step(i) == CreateFifo(i) \/ Fork(i) \/ OpenFifo(i) \/ WritePacket(i) \/ ExecReturns(i) \/ CleanExit(i)
Next == Idle \/ \E i \in Instances : Step(i) \/ SnortOpens(i) \/ SnortEnds(i) \/ SigChild(i) \/ SigTerm(i)

(* The module's main thread runs on; a snort that is interrupted ends.     *)
Fairness == \A i \in Instances :
  /\ WF_vars(ExecReturns(i)) /\ WF_vars(CleanExit(i))
  /\ WF_vars(snort[i] = "interrupted" /\ SnortEnds(i))
Spec == Init /\ [][Next]_vars /\ Fairness

-----------------------------------------------------------------------------
(* Instances that share the pipe's name never share a pipe: mknod admits   *)
(* one at a time, until it removes the name itself, so a module's packets  *)
(* reach its own snort and nobody else's - even over crashes that leave    *)
(* the name behind (which then locks all later instances out).             *)
OwnSnort ==
  \A i \in Instances :
    /\ Running(i) => fifo = i
    /\ reads[i] \in {Nobody, i} /\ fifofd[i] \in {Nobody, i}

(* A SIGTERM that finds the module at work and is not ignored ends it: the *)
(* pipe's name is free again and no snort is left behind; unless a packet  *)
(* is written after snort has died.                                        *)
Ended(i) == \/ pc[i] = "ended" /\ fifo # i /\ ~Alive(i)
            \/ pc[i] = "crashed"
SigTermEndsModule == \A i \in Instances : asked[i] ~> Ended(i)
=============================================================================
