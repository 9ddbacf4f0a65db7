----------------------------- MODULE ShmExchange -----------------------------
(***************************************************************************)
(* The other exchange medium: IPFIX packets in a block of shared memory    *)
(* (class IpfixShm) that the collector's listener thread fills from the    *)
(* start to the end and then from the start again.  Nothing in the block   *)
(* says where it stands: the collector's read position and that of every   *)
(* module process follow the packets' length fields and find the same      *)
(* jumps to the start by themselves.  The round that makes them read is    *)
(* that of PacketExchange, here with modules that do not fail.             *)
(*                                                                         *)
(* IpfixShm's statics are written by the listener thread and by the        *)
(* manager thread without a lock, so each access is a step of its own.     *)
(* Positions count bytes from the start of the block.                      *)
(***************************************************************************)
EXTENDS Integers, Sequences, FileCounter

CONSTANTS
  NumModules,  \* modules the configuration starts
  Size,        \* IpfixShm::size, from the configuration, in bytes
  Lengths,     \* lengths of the packets that arrive, in bytes
  MaxPackets,  \* bound: packets that arrive
  MaxStored    \* bound: packets in the store at once, as in PacketExchange

ASSUME ShmAssumption ==
  /\ NumModules \in Nat \ {0}
  /\ Size \in Nat \ {0}
  /\ Lengths \subseteq Nat \ {0}
  /\ MaxPackets \in Nat
  /\ MaxStored \in Nat
  /\ MaxStored < MAX_FILES

Modules == 1 .. NumModules
Positions == 0 .. Size - 1

\* sizeof(uint16_t), the length field before each packet.
Field == 2

VARIABLES
  \* the listener thread
  lpc,         \* "idle", "wrap", "check", "copy", "push", "post"
  len,         \* length of the packet being written
  arrived,     \* packets received so far (bounds the model)
  \* the block: each byte holds the number of the packet it belongs to, or 0
  mem,
  packets,     \* where each packet was written, and its length (history)
  \* the statics of the collector's IpfixShm
  writePosition, readPosition, packetSize, writeBeforeRead,
  \* the packet store and the range in the other shared block
  stored, newest, oldest, from, to,
  popped,      \* packets popped so far (history)
  \* the manager thread
  wakeups,     \* value of Manager::mutex
  mpc,         \* "lock", "notify", "wait", "clear", "advance", "rewind",
               \* "return", "length", "rewindAgain", "returnAgain", "pop"
  cur,         \* position in the loops of notifyAll
  count,       \* pops that clearSink has left to do
  \* the module processes
  sem,         \* the module's SysV semaphore
  dpc,         \* "wait", "begin", "import", "notify"
  pos,         \* the loop variable i of PacketReader::import
  reader,      \* its readPosition and packetSize
  parsed       \* packets it has parsed (history); 0 stands for garbage

listenerVars == <<lpc, len, arrived>>
blockVars    == <<mem, packets>>
writerVars   == <<writePosition>>
readerVars   == <<readPosition, packetSize>>
storeVars    == <<stored, newest, oldest, popped>>
rangeVars    == <<from, to>>
managerVars  == <<mpc, cur, count>>
moduleVars   == <<dpc, pos, reader, parsed>>
vars == <<listenerVars, blockVars, writerVars, readerVars, writeBeforeRead,
          storeVars, rangeVars, wakeups, managerVars, sem, moduleVars>>

-----------------------------------------------------------------------------
(* What a reader finds in the block.                                       *)

\* The bytes of packet n, its length field included.
Bytes(n) == packets[n].at .. packets[n].at + Field + packets[n].len - 1

\* The block still holds packet n as it was written.
Intact(n) == \A b \in Bytes(n) : mem[b] = n

\* The packet whose length field is at p.
PacketAt(p) ==
  {n \in 1 .. Len(packets) :
     packets[n].at = p /\ \A b \in p .. p + Field - 1 : mem[b] = n}

\* What reading a length field at p may give: the length of the packet that
\* begins there, 0 where the writer has zeroed, or else what the bytes of a
\* packet or of the memory behind the block happen to say.
LengthsAt(p) ==
  IF p + Field <= Size /\ \A b \in p .. p + Field - 1 : mem[b] = 0 THEN {0}
  ELSE IF PacketAt(p) # {} THEN {packets[n].len : n \in PacketAt(p)}
  ELSE 0 .. Size

\* Too little is left at p for a length field.
AtEnd(p) == p <= Size /\ Size - p < Field

-----------------------------------------------------------------------------
(* The listener thread: IpfixShm::writePacket, then pushIpfixPacket and    *)
(* newPacket.                                                              *)

\* Mutant of ReachesEnd: a packet that just fits is written up to the end.
PassesEnd(l) == writePosition + l + Field > Size

\* A packet of length l would not leave a byte free behind it.
ReachesEnd(l) == writePosition + l + Field >= Size

\* A packet arrives.  One longer than the block is given up, but posted; one
\* that would reach the end makes the writer zero the rest of the block.
ReceivePacket ==
  /\ lpc = "idle"
  /\ arrived < MaxPackets
  /\ stored < MaxStored
  /\ arrived' = arrived + 1
  /\ len' \in Lengths
  /\ \/ /\ len' > Size
        /\ lpc' = "post"
        /\ UNCHANGED mem
     \/ /\ len' <= Size
        /\ ~ReachesEnd(len')
        /\ lpc' = "check"
        /\ UNCHANGED mem
     \/ /\ len' <= Size
        /\ ReachesEnd(len')
        /\ lpc' = "wrap"
        /\ mem' = [b \in Positions |-> IF b >= writePosition THEN 0 ELSE mem[b]]
  /\ UNCHANGED <<packets, writerVars, readerVars, writeBeforeRead, storeVars,
                 rangeVars, wakeups, managerVars, sem, moduleVars>>

\* The jump to the start, unless the collector still has to read in the rest
\* of the block: then the packet is given up.
JumpToStart ==
  /\ lpc = "wrap"
  /\ IF readPosition >= writePosition
     THEN lpc' = "post" /\ UNCHANGED <<writePosition, writeBeforeRead>>
     ELSE lpc' = "check" /\ writePosition' = 0 /\ writeBeforeRead' = TRUE
  /\ UNCHANGED <<len, arrived, blockVars, readerVars, storeVars, rangeVars,
                 wakeups, managerVars, sem, moduleVars>>

\* Mutant of Overruns: the length field is forgotten.
OverrunsByData == writeBeforeRead /\ writePosition + len > readPosition

\* The packet would run into the collector's read position.
Overruns == writeBeforeRead /\ writePosition + len + Field > readPosition

CheckSpace ==
  /\ lpc = "check"
  /\ lpc' = IF Overruns THEN "post" ELSE "copy"
  /\ UNCHANGED <<len, arrived, blockVars, writerVars, readerVars,
                 writeBeforeRead, storeVars, rangeVars, wakeups, managerVars,
                 sem, moduleVars>>

\* The two memcpy and the new write position.
CopyPacket ==
  /\ lpc = "copy"
  /\ LET n == Len(packets) + 1 IN
       /\ packets' = Append(packets, [at |-> writePosition, len |-> len])
       /\ mem' = [b \in Positions |->
                    IF b \in writePosition .. writePosition + Field + len - 1
                    THEN n ELSE mem[b]]
  /\ writePosition' = writePosition + Field + len
  /\ lpc' = "push"
  /\ UNCHANGED <<len, arrived, readerVars, writeBeforeRead, storeVars,
                 rangeVars, wakeups, managerVars, sem, moduleVars>>

\* popIpfixPacket holds the store's mutex while the collector reads on.
StoreLocked ==
  mpc \in {"rewind", "return", "length", "rewindAgain", "returnAgain", "pop"}

\* pushIpfixPacket, which takes that mutex.  The two stores of a wrapping
\* ++newest are PacketExchange's subject.
PushPacket ==
  /\ lpc = "push"
  /\ ~StoreLocked
  /\ stored' = stored + 1
  /\ newest' = Inc(newest)
  /\ lpc' = "post"
  /\ UNCHANGED <<len, arrived, blockVars, writerVars, readerVars,
                 writeBeforeRead, oldest, popped, rangeVars, wakeups,
                 managerVars, sem, moduleVars>>

NewPacket ==
  /\ lpc = "post"
  /\ wakeups' = wakeups + 1
  /\ lpc' = "idle"
  /\ UNCHANGED <<len, arrived, blockVars, writerVars, readerVars,
                 writeBeforeRead, storeVars, rangeVars, managerVars, sem,
                 moduleVars>>

-----------------------------------------------------------------------------
(* The manager thread: the round, and IpfixShm::readPacket by which the    *)
(* collector passes over every packet that the modules have read.          *)

BeginRound ==
  /\ mpc = "lock"
  /\ wakeups > 0
  /\ wakeups' = wakeups - 1
  /\ mpc' = "notify"
  /\ cur' = 1
  /\ UNCHANGED <<listenerVars, blockVars, writerVars, readerVars,
                 writeBeforeRead, storeVars, rangeVars, count, sem, moduleVars>>

\* notifyAll's loops go on to the next module or to what follows.
NextModule(here, after) ==
  IF cur = NumModules
  THEN mpc' = after /\ cur' = 1
  ELSE mpc' = here /\ cur' = cur + 1

\* DetectModExporter::notify of one module.
Notify ==
  /\ mpc = "notify"
  /\ from' = oldest
  /\ to' = newest
  /\ sem' = [sem EXCEPT ![cur] = @ + 2]
  /\ NextModule("notify", "wait")
  /\ UNCHANGED <<listenerVars, blockVars, writerVars, readerVars,
                 writeBeforeRead, storeVars, wakeups, count, moduleVars>>

\* DetectModExporter::wait for one module.
WaitModule ==
  /\ mpc = "wait"
  /\ sem[cur] = 0
  /\ NextModule("wait", "clear")
  /\ UNCHANGED <<listenerVars, blockVars, writerVars, readerVars,
                 writeBeforeRead, storeVars, rangeVars, wakeups, count, sem,
                 moduleVars>>

\* clearSink's loop of pops begins.
ClearSink ==
  /\ mpc = "clear"
  /\ count' = Minus(to, from)
  /\ mpc' = IF count' = 0 THEN "lock" ELSE "advance"
  /\ UNCHANGED <<listenerVars, blockVars, writerVars, readerVars,
                 writeBeforeRead, storeVars, rangeVars, wakeups, cur, sem,
                 moduleVars>>

\* readPosition += packetSize, and the test for the end of the block.
Advance ==
  /\ mpc = "advance"
  /\ readPosition' = readPosition + packetSize
  /\ mpc' = IF AtEnd(readPosition') THEN "rewind" ELSE "length"
  /\ UNCHANGED <<listenerVars, blockVars, writerVars, packetSize,
                 writeBeforeRead, storeVars, rangeVars, wakeups, cur, count,
                 sem, moduleVars>>

\* Mutant of Rewind: the writer is not told.
RewindSilently ==
  /\ \/ mpc = "rewind" /\ mpc' = "return"
     \/ mpc = "rewindAgain" /\ mpc' = "returnAgain"
  /\ UNCHANGED <<listenerVars, blockVars, writerVars, readerVars,
                 writeBeforeRead, storeVars, rangeVars, wakeups, cur, count,
                 sem, moduleVars>>

\* writeBeforeRead = false, and then readPosition = startLocation, in the one
\* place and in the other.
Rewind ==
  /\ \/ mpc = "rewind" /\ mpc' = "return"
     \/ mpc = "rewindAgain" /\ mpc' = "returnAgain"
  /\ writeBeforeRead' = FALSE
  /\ UNCHANGED <<listenerVars, blockVars, writerVars, readerVars, storeVars,
                 rangeVars, wakeups, cur, count, sem, moduleVars>>

ReturnToStart ==
  /\ mpc = "return"
  /\ readPosition' = 0
  /\ mpc' = "length"
  /\ UNCHANGED <<listenerVars, blockVars, writerVars, packetSize,
                 writeBeforeRead, storeVars, rangeVars, wakeups, cur, count,
                 sem, moduleVars>>

\* packetSize is read, at the read position or, after a 0, at the start.
ReadLength ==
  /\ \/ /\ mpc = "length"
        /\ packetSize' \in LengthsAt(readPosition)
        /\ readPosition' = readPosition + Field
        /\ mpc' = IF packetSize' = 0 THEN "rewindAgain" ELSE "pop"
     \/ /\ mpc = "returnAgain"
        /\ packetSize' \in LengthsAt(0)
        /\ readPosition' = Field
        /\ mpc' = "pop"
  /\ UNCHANGED <<listenerVars, blockVars, writerVars, writeBeforeRead,
                 storeVars, rangeVars, wakeups, cur, count, sem, moduleVars>>

\* The rest of popIpfixPacket.
PopPacket ==
  /\ mpc = "pop"
  /\ stored' = stored - 1
  /\ popped' = popped + 1
  /\ oldest' = Inc(oldest)
  /\ count' = count - 1
  /\ mpc' = IF count = 1 THEN "lock" ELSE "advance"
  /\ UNCHANGED <<listenerVars, blockVars, writerVars, readerVars,
                 writeBeforeRead, newest, rangeVars, wakeups, cur, sem,
                 moduleVars>>

-----------------------------------------------------------------------------
(* A module process.  It reads the block through statics of its own, which *)
(* its writeBeforeRead has no part in.                                     *)

\* Where readPacket looks for a length field, before it has met a 0.
NextField(m) ==
  LET p == reader[m].readPosition + reader[m].packetSize
  IN  IF AtEnd(p) THEN 0 ELSE p

\* IpfixShm::readPacket: the module finds length l, at p.
ReadPacket(m, p, l) ==
  /\ reader' = [reader EXCEPT ![m] = [readPosition |-> p + Field, packetSize |-> l]]
  /\ parsed' = [parsed EXCEPT ![m] = @ \cup
       IF \E n \in PacketAt(p) : Intact(n) THEN PacketAt(p) ELSE {0}]

WaitForPackets(m) ==
  /\ dpc[m] = "wait"
  /\ sem[m] > 0
  /\ sem' = [sem EXCEPT ![m] = @ - 1]
  /\ dpc' = [dpc EXCEPT ![m] = "begin"]
  /\ UNCHANGED <<listenerVars, blockVars, writerVars, readerVars,
                 writeBeforeRead, storeVars, rangeVars, wakeups, managerVars,
                 pos, reader, parsed>>

BeginImport(m) ==
  /\ dpc[m] = "begin"
  /\ pos' = [pos EXCEPT ![m] = from]
  /\ dpc' = [dpc EXCEPT ![m] = "import"]
  /\ UNCHANGED <<listenerVars, blockVars, writerVars, readerVars,
                 writeBeforeRead, storeVars, rangeVars, wakeups, managerVars,
                 sem, reader, parsed>>

\* One pass of import's loop, or its end.
ImportPacket(m) ==
  /\ dpc[m] = "import"
  /\ \/ /\ pos[m] = to
        /\ dpc' = [dpc EXCEPT ![m] = "notify"]
        /\ UNCHANGED <<pos, reader, parsed>>
     \/ /\ pos[m] # to
        /\ \E l \in LengthsAt(NextField(m)) :
             \/ l # 0 /\ ReadPacket(m, NextField(m), l)
             \/ l = 0 /\ \E k \in LengthsAt(0) : ReadPacket(m, 0, k)
        /\ pos' = [pos EXCEPT ![m] = Inc(@)]
        /\ UNCHANGED dpc
  /\ UNCHANGED <<listenerVars, blockVars, writerVars, readerVars,
                 writeBeforeRead, storeVars, rangeVars, wakeups, managerVars,
                 sem>>

NotifyDone(m) ==
  /\ dpc[m] = "notify"
  /\ sem[m] > 0
  /\ sem' = [sem EXCEPT ![m] = @ - 1]
  /\ dpc' = [dpc EXCEPT ![m] = "wait"]
  /\ UNCHANGED <<listenerVars, blockVars, writerVars, readerVars,
                 writeBeforeRead, storeVars, rangeVars, wakeups, managerVars,
                 pos, reader, parsed>>

-----------------------------------------------------------------------------
(* The specification.                                                      *)

Init ==
  /\ lpc = "idle" /\ len = 0 /\ arrived = 0
  /\ mem = [b \in Positions |-> 0] /\ packets = <<>>
  /\ writePosition = 0 /\ readPosition = 0 /\ packetSize = 0
  /\ writeBeforeRead = FALSE
  /\ stored = 0 /\ newest = 0 /\ oldest = 0 /\ popped = 0
  /\ from = 0 /\ to = 0
  /\ wakeups = 0 /\ mpc = "lock" /\ cur = 1 /\ count = 0
  /\ sem = [m \in Modules |-> 0]
  /\ dpc = [m \in Modules |-> "wait"]
  /\ pos = [m \in Modules |-> 0]
  /\ reader = [m \in Modules |-> [readPosition |-> 0, packetSize |-> 0]]
  /\ parsed = [m \in Modules |-> {}]

Listener ==
  \/ ReceivePacket \/ JumpToStart \/ CheckSpace \/ CopyPacket
  \/ PushPacket \/ NewPacket

ManagerThread ==
  \/ BeginRound \/ Notify \/ WaitModule
  \/ ClearSink \/ Advance \/ Rewind \/ ReturnToStart \/ ReadLength \/ PopPacket

ModuleThread(m) ==
  WaitForPackets(m) \/ BeginImport(m) \/ ImportPacket(m) \/ NotifyDone(m)

Next == Listener \/ ManagerThread \/ \E m \in Modules : ModuleThread(m)

Spec == Init /\ [][Next]_vars

-----------------------------------------------------------------------------
(* Properties.                                                             *)

\* Every variable has its type.  What the code could break: the write position
\* stays within the block, since a packet never takes its last byte.
TypeOK ==
  /\ lpc \in {"idle", "wrap", "check", "copy", "push", "post"}
  /\ len \in Lengths \cup {0}
  /\ mem \in [Positions -> 0 .. Len(packets)]
  /\ writePosition \in Positions
  /\ readPosition \in Nat /\ packetSize \in Nat
  /\ writeBeforeRead \in BOOLEAN
  /\ stored \in 0 .. MaxStored
  /\ newest \in Counter /\ oldest \in Counter
  /\ from \in Counter /\ to \in Counter
  /\ wakeups \in Nat /\ count \in 0 .. MaxStored
  /\ cur \in Modules
  /\ sem \in [Modules -> 0 .. 2]
  /\ dpc \in [Modules -> {"wait", "begin", "import", "notify"}]
  /\ pos \in [Modules -> Counter]
  /\ reader \in [Modules -> [readPosition : Nat, packetSize : Nat]]

\* With one module, the block delivers what PacketDelivery promises, though the
\* module, the collector and the writer find their ways in it by themselves: a
\* packet is published when it is pushed and deleted when the collector passes
\* over it.  A packet that the module finds garbled counts as none.
Delivery == INSTANCE PacketDelivery WITH
  published <- popped + stored,
  deleted <- popped

ImplementsDelivery == Delivery!Spec

\* What writePacket does with a packet of length l, were nothing else to happen.
Accepts(l) ==
  IF ReachesEnd(l)
  THEN readPosition < writePosition /\ l + Field <= readPosition
  ELSE writeBeforeRead => writePosition + l + Field <= readPosition

\* A packet given up for lack of space does not block the way for good: as soon
\* as all that was stored has been passed over, a packet of any length that can
\* arrive is taken.  It takes a block of three packets, and stored packets that
\* stay intact.
IdleBlockAccepts ==
  (stored = 0 /\ lpc = "idle" /\ mpc = "lock")
    => \A l \in Lengths : l <= Size => Accepts(l)

\* packetstats.cpp:108-112, the remaining buffer is zeroed as the signal for a
\* jump to the start, and :116, otherwise the message says that the packet that
\* has arrived is trashed: packets that were stored before it stay as they are
\* until the modules have read them.
UnreadSurvives ==
  \A n \in 1 .. popped + stored :
    (\E m \in Modules : n \notin parsed[m]) => Intact(n)

=============================================================================
