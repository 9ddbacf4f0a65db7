------------------------------ MODULE Recorder ------------------------------
(* FileRecorder (src/collector/recorder.cpp): in recording mode every      *)
(* packet is written to a numbered file and its arrival time, in           *)
(* microseconds of a clock of limited width, to the index; in replay mode  *)
(* play() reads the index and hands each packet on when its time has come. *)
(* play() runs on the collector's main thread, as the handlers of SIGALRM  *)
(* and SIGCHLD do, and each of them ends a usleep that is under way.       *)
EXTENDS Integers, Sequences

CONSTANTS ClockWidth,   \* bits of unsigned int: 32 in the code
          MaxPackets,   \* bound: packets recorded
          MaxTime,      \* bound: microseconds that pass in one mode
          MaxLateness   \* bound: by how much usleep oversleeps

VARIABLES
  mode,      \* "record", "play", "sleep", "deliver", "done", "thrown"
  clock,     \* real microseconds since the mode was entered
  start,     \* startTime: what usecs() said then
  index,     \* the index file: <<time, number>> per line
  number,    \* number of the next file
  files,     \* numbers of the files that exist
  line,      \* lines of the index read
  t,         \* the static t of play: elapsed time at the last delivery
  wake,      \* clock at which usleep's time is over
  arrivals,  \* real arrival time of each packet recorded
  delivered, \* <<number, clock>> handed to the packet callback
  do_abort,  \* set by abort(), from the collector's signal handler
  cut        \* numbers of the packets whose usleep a signal has ended

vars == <<mode, clock, start, index, number, files, line, t, wake, arrivals,
          delivered, do_abort, cut>>

Width == 2 ^ ClockWidth
usecs == (start + clock) % Width
Elapsed == (usecs - start) % Width

Init ==
  /\ mode = "record" /\ clock = 0 /\ start \in 0..(Width - 1)
  /\ index = <<>> /\ number = 0 /\ files = {} /\ line = 0 /\ t = 0
  /\ wake = 0 /\ arrivals = <<>> /\ delivered = <<>> /\ do_abort = FALSE /\ cut = {}

Tick ==
  /\ mode \in {"record", "play", "deliver"} /\ clock < MaxTime /\ clock' = clock + 1
  /\ UNCHANGED <<mode, start, index, number, files, line, t, wake, arrivals, delivered,
                 do_abort, cut>>

(* The difference of the two clock readings is written as a signed long;   *)
(* play's %u takes it modulo the width again.  The index has a line of the *)
(* packet also if its file could not be opened.                            *)
record ==
  /\ mode = "record" /\ number < MaxPackets
  /\ index' = Append(index, <<usecs - start, number>>)
  /\ arrivals' = Append(arrivals, clock)
  /\ number' = number + 1
  /\ files' \in {files, files \cup {number}}
  /\ UNCHANGED <<mode, clock, start, line, t, wake, delivered, do_abort, cut>>

(* A collector started later with the same directory, in replay mode.      *)
PrepareReplaying ==
  /\ mode = "record"
  /\ mode' = "play" /\ clock' = 0 /\ start' \in 0..(Width - 1)
  /\ UNCHANGED <<index, number, files, line, t, wake, arrivals, delivered, do_abort, cut>>

Time == index[line + 1][1] % Width

(* Mutant: the comparison turned round. *)
TooLate == Elapsed >= Time
TooEarly == Elapsed < Time

Packet == index[line + 1][2]

(* One line of play(): a file that cannot be opened or closed ends it with *)
(* an exception; else sleep for the time since the last delivery if the    *)
(* packet's time has not come.                                             *)
play ==
  /\ mode = "play"
  /\ \/ /\ line < Len(index) /\ ~do_abort /\ Packet \in files
        /\ IF TooEarly
           THEN mode' = "sleep" /\ wake' = clock + ((Time - t) % Width)
           ELSE mode' = "deliver" /\ UNCHANGED wake
     \/ line < Len(index) /\ ~do_abort /\ mode' = "thrown" /\ UNCHANGED wake
     \/ (line = Len(index) \/ do_abort) /\ mode' = "done" /\ UNCHANGED wake
  /\ UNCHANGED <<clock, start, index, number, files, line, t, arrivals, delivered, do_abort, cut>>

usleep ==
  /\ mode = "sleep"
  /\ \E late \in 0..MaxLateness : clock' = wake + late
  /\ mode' = "deliver"
  /\ UNCHANGED <<start, index, number, files, line, t, wake, arrivals, delivered, do_abort, cut>>

(* usleep returns -1 when a handler has run, which is only logged: the     *)
(* packet slept for is delivered at once.                                  *)
EndSleep ==
  /\ clock' \in clock..(wake - 1)
  /\ mode' = "deliver" /\ cut' = cut \cup {Packet}

(* The handler of SIGCHLD, when a module ends, or of SIGALRM.              *)
interrupt ==
  /\ mode = "sleep" /\ EndSleep
  /\ UNCHANGED <<start, index, number, files, line, t, wake, arrivals, delivered, do_abort>>

(* SIGINT or SIGTERM: the flag is tested at the next line only.            *)
abort ==
  /\ mode \in {"play", "sleep", "deliver"} /\ ~do_abort
  /\ do_abort' = TRUE
  /\ IF mode = "sleep" THEN EndSleep ELSE UNCHANGED <<mode, clock, cut>>
  /\ UNCHANGED <<start, index, number, files, line, t, wake, arrivals, delivered>>

(* t is measured, then the packet goes to the callback. *)
packetCallback ==
  /\ mode = "deliver"
  /\ t' = Elapsed
  /\ delivered' = Append(delivered, <<Packet, clock>>)
  /\ line' = line + 1 /\ mode' = "play"
  /\ UNCHANGED <<clock, start, index, number, files, wake, arrivals, do_abort, cut>>

Done == mode \in {"done", "thrown"} /\ UNCHANGED vars
Next == Tick \/ record \/ PrepareReplaying \/ play \/ usleep \/ interrupt \/ abort
        \/ packetCallback \/ Done
Spec == Init /\ [][Next]_vars

-----------------------------------------------------------------------------
(* A replay hands on the packets of the index, each once and in order, all *)
(* of them if it ends undisturbed, and none behind one whose file is       *)
(* missing.  A packet is early only if a signal has ended its own sleep:   *)
(* neither such a packet nor the late ones bring those behind them         *)
(* forward, at whatever value the clock stood in either run, as long as    *)
(* the replay does not last until the clock's width.                       *)
EarlyOnlyIfCut ==
  /\ \A i \in DOMAIN delivered :
       /\ delivered[i][1] = i - 1 /\ i - 1 \in files
       /\ (clock < Width /\ i - 1 \notin cut) => delivered[i][2] >= arrivals[i]
  /\ (mode = "done" /\ ~do_abort) => Len(delivered) = Len(index)

(* recorder.h:117-118, "packets will be passed to the callback function    *)
(* according to their recording time": unless the replay is aborted, no    *)
(* packet is passed on before it.                                          *)
ReplayedInTime ==
  \A i \in DOMAIN delivered :
    (clock < Width /\ ~do_abort) => delivered[i][2] >= arrivals[i]
=============================================================================
