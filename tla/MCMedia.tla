------------------------------ MODULE MCMedia ------------------------------
(***************************************************************************)
(* A collector uses one of the two exchange media for its whole life, as   *)
(* its configuration says: packet files (PacketExchange) or the block of   *)
(* shared memory (ShmExchange), here with one module.  Threads, semaphores *)
(* and the announced range are the same variables in both; the variables   *)
(* of the other medium keep their initial values.                          *)
(***************************************************************************)
EXTENDS ShmExchange

VARIABLES
  medium,  \* "files" or "shm"
  \* PacketExchange's own variables
  counter, written, disk, fileNames, alarm, container, state, busy,
  restartOnCrash, proc, sigterm, sigchld, reaped, onManager, deaths,
  \* its store, its place in the container, and what its modules have parsed
  registered, place, parsedFiles

Files == INSTANCE PacketExchange WITH
  stored <- registered,
  cur    <- place,
  parsed <- parsedFiles,
  Failures    <- {"write"},
  MaxDeaths   <- 0,
  WrapsAtOnce <- TRUE

fileVars  == <<counter, written, disk, fileNames, alarm, container, state, busy,
               restartOnCrash, proc, sigterm, sigchld, reaped, onManager,
               deaths, registered, place, parsedFiles>>
shmVars   == <<len, blockVars, writerVars, readerVars, writeBeforeRead, stored,
               popped, cur, count, reader, parsed>>
mediaVars == <<vars, medium, fileVars>>

MediaInit == Init /\ Files!Init /\ medium \in {"files", "shm"}

MediaNext ==
  /\ \/ medium = "files" /\ Files!Next /\ UNCHANGED shmVars
     \/ medium = "shm"   /\ Next       /\ UNCHANGED fileVars
  /\ UNCHANGED medium

MediaSpec == MediaInit /\ [][MediaNext]_mediaVars

\* PacketExchange's ImplementsDelivery: with packet files and one module, the
\* exchange delivers what PacketDelivery promises, every packet parsed in its
\* order, once, and deleted by clearSink only when it was parsed, whenever the
\* listener writes the next and though some cannot be written.
FilesImplementDelivery == Files!ImplementsDelivery

=============================================================================
