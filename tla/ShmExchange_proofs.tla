------------------------- MODULE ShmExchange_proofs -------------------------
(***************************************************************************)
(* What is proved about the exchange through shared memory: that writer    *)
(* and counters stay within their bounds; and, for packets of any lengths, *)
(* that the zeroing of packets which are still to be read (MCShmTail.cfg   *)
(* shows it) is the only thing that can come between the block and what it *)
(* promises: otherwise the readers find every packet though nobody tells   *)
(* them where the writer has jumped, nothing is overwritten before it is   *)
(* read, and the block implements PacketDelivery.                          *)
(***************************************************************************)
EXTENDS ShmExchange, SequenceTheorems, TLAPS

-----------------------------------------------------------------------------
(* The types, and what keeps them.                                         *)

\* A packet that is not longer than the block fits into it with its length
\* field, and a byte is left.
Fitting == \A l \in Lengths : l > Size \/ l + Field < Size

Popping ==
  {"advance", "rewind", "return", "length", "rewindAgain", "returnAgain", "pop"}

ControlType ==
  /\ lpc \in {"idle", "wrap", "check", "copy", "push", "post"}
  /\ mpc \in {"lock", "notify", "wait", "clear"} \cup Popping
  /\ packets \in Seq([at : Nat, len : Nat])

\* The packet in the listener's hands has its place in the block and in the
\* store.
ListenerInv ==
  /\ lpc \in {"wrap", "check", "copy"} => len \in Lengths
  /\ lpc = "wrap" => len <= Size
  /\ lpc \in {"check", "copy"} => writePosition + len + Field < Size
  /\ lpc \in {"wrap", "check", "copy", "push"} => stored < MaxStored

\* The counters, the range that modules are told and what clearSink has left.
StoreInv ==
  /\ popped \in Nat
  /\ Minus(newest, oldest) = stored
  /\ mpc \in {"wait", "clear"} => from = oldest /\ Minus(to, from) <= stored
  /\ mpc \in Popping => count >= 1 /\ count <= stored

\* A module's semaphore is odd while the module works, and 0 unless the module
\* has been notified in this round and not yet waited for.
SemaphoreInv ==
  \A m \in Modules :
    /\ IF dpc[m] = "wait" THEN sem[m] \in {0, 2} ELSE sem[m] = 1
    /\ mpc \notin {"notify", "wait"} \/ (mpc = "notify" /\ m >= cur) \/ (mpc = "wait" /\ m < cur)
         => sem[m] = 0

TypeInv == TypeOK /\ ControlType /\ ListenerInv /\ StoreInv /\ SemaphoreInv

LEMMA IncType == ASSUME NEW a \in Counter PROVE Inc(a) \in Counter
BY MaxFilesAssumption DEF Inc, Counter

LEMMA MinusType ==
  ASSUME NEW a \in Counter, NEW b \in Counter
  PROVE  /\ Minus(a, b) \in Nat /\ Minus(a, b) < MAX_FILES
         /\ Minus(a, b) = 0 <=> a = b
BY MaxFilesAssumption DEF Minus, Counter

LEMMA MinusInc ==
  ASSUME NEW a \in Counter, NEW b \in Counter
  PROVE  /\ Minus(a, b) + 1 < MAX_FILES => Minus(Inc(a), b) = Minus(a, b) + 1
         /\ a # b => Minus(a, Inc(b)) = Minus(a, b) - 1
BY MaxFilesAssumption DEF Minus, Inc, Counter

LEMMA Constants ==
  /\ NumModules \in Nat \ {0} /\ Size \in Nat \ {0} /\ Lengths \subseteq Nat \ {0}
  /\ MaxPackets \in Nat /\ MaxStored \in Nat /\ MaxStored < MAX_FILES /\ MAX_FILES \in Nat
  /\ Modules = 1 .. NumModules /\ Positions = 0 .. Size - 1 /\ Field = 2
BY ShmAssumption, MaxFilesAssumption DEF Modules, Positions, Field

LEMMA LengthsType ==
  ASSUME ControlType, NEW p, NEW l \in LengthsAt(p)
  PROVE  l \in Nat
<1>1. \A n \in 1 .. Len(packets) : packets[n].len \in Nat
  <2> TAKE n \in 1 .. Len(packets)
  <2>1. packets[n] \in [at : Nat, len : Nat]
    BY ElementOfSeq DEF ControlType
  <2> QED BY <2>1
<1>2. Size \in Nat
  BY Constants
<1> QED BY <1>1, <1>2 DEF LengthsAt, PacketAt

LEMMA InitType == Init => TypeInv
<1> SUFFICES ASSUME Init PROVE TypeInv
  OBVIOUS
<1>1. 0 \in Counter /\ Minus(0, 0) = 0 /\ 1 \in Modules
  BY Constants DEF Counter, Minus
<1>2. Len(packets) = 0 /\ packets \in Seq([at : Nat, len : Nat])
  BY DEF Init
<1>3. TypeOK
  <2>1. 0 \in Positions /\ 0 \in 0 .. MaxStored
    BY Constants
  <2>2. mem \in [Positions -> 0 .. Len(packets)]
    BY <1>2 DEF Init
  <2>3. /\ sem \in [Modules -> 0 .. 2] /\ pos \in [Modules -> Counter]
        /\ dpc \in [Modules -> {"wait", "begin", "import", "notify"}]
        /\ reader \in [Modules -> [readPosition : Nat, packetSize : Nat]]
    BY <1>1 DEF Init
  <2> QED BY <2>3, <1>1, <2>1, <2>2 DEF Init, TypeOK
<1>4. ControlType /\ ListenerInv /\ StoreInv
  BY <1>1, <1>2 DEF Init, ControlType, ListenerInv, StoreInv, Popping
<1>5. SemaphoreInv
  BY DEF Init, SemaphoreInv
<1> QED BY <1>3, <1>4, <1>5 DEF TypeInv

LEMMA TypeStep == ASSUME Fitting, TypeInv, Next PROVE TypeInv'
<1>0. TypeOK /\ ControlType /\ ListenerInv /\ StoreInv /\ SemaphoreInv
  BY DEF TypeInv
<1>1. CASE ReceivePacket
  <2>1. TypeOK'
    <3>1. mem' \in [Positions -> 0 .. Len(packets)]
      <4>1. Len(packets) \in Nat /\ 0 \in 0 .. Len(packets)
        BY <1>0
      <4>2. mem' = mem \/ mem' = [b \in Positions |-> IF b >= writePosition THEN 0 ELSE mem[b]]
        BY <1>1 DEF ReceivePacket
      <4> QED BY <1>0, <4>1, <4>2 DEF TypeOK
    <3>2. len' \in Lengths
      BY <1>0, <1>1 DEF ReceivePacket
    <3> QED BY <1>0, <1>1, <3>1, <3>2
      DEF TypeOK, ReceivePacket, writerVars, readerVars, storeVars, rangeVars,
          managerVars, moduleVars
  <2>2. ControlType'
    BY <1>0, <1>1 DEF ControlType, ReceivePacket, managerVars
  <2>3. ListenerInv'
    <3>1. /\ len' \in Lengths /\ stored < MaxStored /\ UNCHANGED <<stored, writePosition>>
          /\ lpc' \in {"wrap", "check"} => len' <= Size
          /\ lpc' = "check" => ~ReachesEnd(len')
          /\ lpc' \in {"post", "check", "wrap"}
      BY <1>1 DEF ReceivePacket, writerVars, storeVars
    <3>2. writePosition \in Nat /\ len' \in Nat
      BY <1>0, <3>1, Constants DEF TypeOK
    <3>3. ~ReachesEnd(len') => writePosition + len' + Field < Size
      <4>1. ASSUME NEW l \in Nat, ~ReachesEnd(l)
            PROVE  writePosition + l + Field < Size
        BY <3>2, <4>1, Constants DEF ReachesEnd
      <4> QED BY <3>2, <4>1
    <3> QED BY <3>1, <3>3 DEF ListenerInv
  <2>4. StoreInv'
    BY <1>0, <1>1 DEF StoreInv, ReceivePacket, storeVars, rangeVars, managerVars
  <2>5. SemaphoreInv'
    BY <1>0, <1>1 DEF SemaphoreInv, ReceivePacket, managerVars, moduleVars
  <2> QED BY <2>1, <2>2, <2>3, <2>4, <2>5 DEF TypeInv
<1>2. CASE JumpToStart
  <2>1. TypeOK'
    <3>1. writePosition' \in Positions
      BY <1>0, <1>2, Constants DEF TypeOK, JumpToStart
    <3> QED BY <1>0, <1>2, <3>1
      DEF TypeOK, JumpToStart, blockVars, readerVars, storeVars, rangeVars, managerVars,
          moduleVars
  <2>2. ControlType'
    BY <1>0, <1>2 DEF ControlType, JumpToStart, blockVars, managerVars
  <2>3. ListenerInv'
    <3>1. /\ len \in Lengths /\ len <= Size /\ stored < MaxStored /\ UNCHANGED <<stored, len>>
          /\ lpc' = "post" \/ (lpc' = "check" /\ writePosition' = 0)
      BY <1>0, <1>2 DEF ListenerInv, JumpToStart, storeVars
    <3>2. 0 + len + Field < Size
      BY <3>1, Constants DEF Fitting
    <3> QED BY <3>1, <3>2 DEF ListenerInv
  <2>4. StoreInv'
    BY <1>0, <1>2 DEF StoreInv, JumpToStart, storeVars, rangeVars, managerVars
  <2>5. SemaphoreInv'
    BY <1>0, <1>2 DEF SemaphoreInv, JumpToStart, managerVars, moduleVars
  <2> QED BY <2>1, <2>2, <2>3, <2>4, <2>5 DEF TypeInv
<1>3. CASE CheckSpace
  <2>1. TypeOK'
    BY <1>0, <1>3
      DEF TypeOK, CheckSpace, blockVars, writerVars, readerVars, storeVars, rangeVars,
          managerVars, moduleVars
  <2>2. ControlType'
    BY <1>0, <1>3 DEF ControlType, CheckSpace, blockVars, managerVars
  <2>3. ListenerInv'
    BY <1>0, <1>3 DEF ListenerInv, CheckSpace, writerVars, storeVars
  <2>4. StoreInv'
    BY <1>0, <1>3 DEF StoreInv, CheckSpace, storeVars, rangeVars, managerVars
  <2>5. SemaphoreInv'
    BY <1>0, <1>3 DEF SemaphoreInv, CheckSpace, managerVars, moduleVars
  <2> QED BY <2>1, <2>2, <2>3, <2>4, <2>5 DEF TypeInv
<1>4. CASE CopyPacket
  <2>1. TypeOK'
    BY <1>0, <1>4, Constants, SMTT(30)
      DEF TypeOK, ListenerInv, CopyPacket, readerVars, storeVars, rangeVars,
          managerVars, moduleVars
  <2>2. ControlType'
    BY <1>0, <1>4, Constants DEF ControlType, TypeOK, CopyPacket, managerVars
  <2>3. ListenerInv'
    BY <1>0, <1>4 DEF ListenerInv, CopyPacket, storeVars
  <2>4. StoreInv'
    BY <1>0, <1>4 DEF StoreInv, CopyPacket, storeVars, rangeVars, managerVars
  <2>5. SemaphoreInv'
    BY <1>0, <1>4 DEF SemaphoreInv, CopyPacket, managerVars, moduleVars
  <2> QED BY <2>1, <2>2, <2>3, <2>4, <2>5 DEF TypeInv
<1>5. CASE PushPacket
  <2>1. TypeOK'
    BY <1>0, <1>5, Constants, IncType
      DEF TypeOK, ListenerInv, PushPacket, blockVars, writerVars, readerVars, rangeVars,
          managerVars, moduleVars
  <2>2. ControlType'
    BY <1>0, <1>5 DEF ControlType, PushPacket, blockVars, managerVars
  <2>3. ListenerInv'
    BY <1>0, <1>5 DEF ListenerInv, PushPacket
  <2>4. StoreInv'
    <3>1. /\ newest \in Counter /\ oldest \in Counter /\ from \in Counter /\ to \in Counter
          /\ stored \in Nat /\ stored + 1 < MAX_FILES /\ count \in Nat
      BY <1>0, <1>5, Constants DEF TypeOK, ListenerInv, PushPacket
    <3>2. Minus(newest', oldest') = stored'
      BY <1>0, <1>5, <3>1, MinusInc DEF StoreInv, PushPacket
    <3>3. /\ UNCHANGED <<mpc, from, to, count, oldest, popped>> /\ stored' = stored + 1
      BY <1>5 DEF PushPacket, rangeVars, managerVars
    <3>4. Minus(to, from) \in Nat
      BY <3>1, MinusType
    <3> QED BY <1>0, <3>1, <3>2, <3>3, <3>4 DEF StoreInv
  <2>5. SemaphoreInv'
    BY <1>0, <1>5 DEF SemaphoreInv, PushPacket, managerVars, moduleVars
  <2> QED BY <2>1, <2>2, <2>3, <2>4, <2>5 DEF TypeInv
<1>6. CASE NewPacket
  <2>1. TypeOK'
    BY <1>0, <1>6
      DEF TypeOK, NewPacket, blockVars, writerVars, readerVars, storeVars, rangeVars,
          managerVars, moduleVars
  <2>2. ControlType'
    BY <1>0, <1>6 DEF ControlType, NewPacket, blockVars, managerVars
  <2>3. ListenerInv'
    BY <1>0, <1>6 DEF ListenerInv, NewPacket
  <2>4. StoreInv'
    BY <1>0, <1>6 DEF StoreInv, NewPacket, storeVars, rangeVars, managerVars
  <2>5. SemaphoreInv'
    BY <1>0, <1>6 DEF SemaphoreInv, NewPacket, managerVars, moduleVars
  <2> QED BY <2>1, <2>2, <2>3, <2>4, <2>5 DEF TypeInv
<1>7. CASE BeginRound
  <2>1. TypeOK'
    BY <1>0, <1>7, Constants
      DEF TypeOK, BeginRound, listenerVars, blockVars, writerVars, readerVars,
          storeVars, rangeVars, moduleVars
  <2>2. ControlType'
    BY <1>0, <1>7 DEF ControlType, BeginRound, listenerVars, blockVars
  <2>3. ListenerInv'
    BY <1>0, <1>7 DEF ListenerInv, BeginRound, listenerVars, writerVars, storeVars
  <2>4. StoreInv'
    BY <1>0, <1>7 DEF StoreInv, Popping, BeginRound, storeVars
  <2>5. SemaphoreInv'
    BY <1>0, <1>7 DEF SemaphoreInv, BeginRound, moduleVars
  <2> QED BY <2>1, <2>2, <2>3, <2>4, <2>5 DEF TypeInv
<1>8. CASE Notify
  <2>1. TypeOK'
    <3>1. cur \in Modules /\ sem[cur] = 0
      BY <1>0, <1>8, Constants DEF TypeOK, SemaphoreInv, Notify
    <3>2. sem' \in [Modules -> 0 .. 2]
      BY <1>0, <1>8, <3>1 DEF TypeOK, Notify
    <3>3. cur' \in Modules
      BY <1>8, <3>1, Constants DEF Notify, NextModule
    <3> QED BY <1>0, <1>8, <3>2, <3>3
      DEF TypeOK, Notify, listenerVars, blockVars, writerVars, readerVars, storeVars,
          moduleVars
  <2>2. ControlType'
    BY <1>0, <1>8 DEF ControlType, Notify, NextModule, listenerVars, blockVars
  <2>3. ListenerInv'
    BY <1>0, <1>8 DEF ListenerInv, Notify, listenerVars, writerVars, storeVars
  <2>4. StoreInv'
    <3>1. /\ from' = oldest /\ to' = newest /\ UNCHANGED <<stored, newest, oldest, popped, count>>
          /\ mpc' \in {"notify", "wait"} /\ newest \in Counter /\ oldest \in Counter
          /\ stored \in Nat
      BY <1>0, <1>8 DEF TypeOK, Notify, NextModule, storeVars
    <3> QED BY <1>0, <3>1 DEF StoreInv, Popping
  <2>5. SemaphoreInv'
    <3>1. cur \in Modules /\ sem[cur] = 0 /\ dpc[cur] = "wait" /\ sem \in [Modules -> 0 .. 2]
      BY <1>0, <1>8, Constants DEF TypeOK, SemaphoreInv, Notify
    <3>2. /\ mpc = "notify" /\ UNCHANGED dpc /\ sem' = [sem EXCEPT ![cur] = sem[cur] + 2]
          /\ \/ cur = NumModules /\ mpc' = "wait" /\ cur' = 1
             \/ cur # NumModules /\ mpc' = "notify" /\ cur' = cur + 1
      BY <1>8 DEF Notify, NextModule, moduleVars
    <3> SUFFICES ASSUME NEW m \in Modules
                 PROVE  /\ IF dpc'[m] = "wait" THEN sem'[m] \in {0, 2} ELSE sem'[m] = 1
                        /\ mpc' \notin {"notify", "wait"} \/ (mpc' = "notify" /\ m >= cur')
                           \/ (mpc' = "wait" /\ m < cur') => sem'[m] = 0
      BY DEF SemaphoreInv
    <3>3. CASE m = cur
      BY <3>1, <3>2, <3>3, Constants
    <3>4. CASE m # cur
      <4>1. sem'[m] = sem[m]
        BY <3>1, <3>2, <3>4
      <4>2. /\ IF dpc[m] = "wait" THEN sem[m] \in {0, 2} ELSE sem[m] = 1
            /\ m >= cur => sem[m] = 0
        BY <1>0, <3>2 DEF SemaphoreInv
      <4> QED BY <3>1, <3>2, <3>4, <4>1, <4>2, Constants
    <3> QED BY <3>3, <3>4
  <2> QED BY <2>1, <2>2, <2>3, <2>4, <2>5 DEF TypeInv
<1>9. CASE WaitModule
  <2>1. TypeOK'
    BY <1>0, <1>9, Constants, SMTT(30)
      DEF TypeOK, ListenerInv, StoreInv, SemaphoreInv, WaitModule, NextModule,
          listenerVars, blockVars, writerVars, readerVars, storeVars, rangeVars, moduleVars
  <2>2. ControlType'
    BY <1>0, <1>9 DEF ControlType, WaitModule, NextModule, listenerVars, blockVars
  <2>3. ListenerInv'
    BY <1>0, <1>9 DEF ListenerInv, WaitModule, listenerVars, writerVars, storeVars
  <2>4. StoreInv'
    BY <1>0, <1>9 DEF StoreInv, Popping, WaitModule, NextModule, storeVars, rangeVars
  <2>5. SemaphoreInv'
    BY <1>0, <1>9, Constants, SMTT(30)
      DEF SemaphoreInv, TypeOK, WaitModule, NextModule, rangeVars, moduleVars
  <2> QED BY <2>1, <2>2, <2>3, <2>4, <2>5 DEF TypeInv
<1>10. CASE ClearSink
  <2>1. TypeOK'
    <3>1. /\ count' = Minus(to, from) /\ to \in Counter /\ from \in Counter
          /\ Minus(to, from) <= stored /\ stored \in 0 .. MaxStored
      BY <1>0, <1>10 DEF TypeOK, StoreInv, ClearSink
    <3>2. count' \in 0 .. MaxStored
      BY <3>1, Constants, MinusType
    <3> QED BY <1>0, <1>10, <3>2
      DEF TypeOK, ClearSink, listenerVars, blockVars, writerVars, readerVars, storeVars,
          rangeVars, moduleVars
  <2>2. ControlType'
    BY <1>0, <1>10 DEF ControlType, Popping, ClearSink, listenerVars, blockVars
  <2>3. ListenerInv'
    BY <1>0, <1>10 DEF ListenerInv, ClearSink, listenerVars, writerVars, storeVars
  <2>4. StoreInv'
    <3>1. /\ count' = Minus(to, from) /\ to \in Counter /\ from \in Counter
          /\ Minus(to, from) <= stored /\ Minus(to, from) \in Nat
          /\ UNCHANGED <<newest, oldest, popped, stored>>
          /\ mpc' = IF count' = 0 THEN "lock" ELSE "advance"
      BY <1>0, <1>10, MinusType DEF TypeOK, StoreInv, ClearSink, storeVars
    <3> QED BY <1>0, <3>1 DEF StoreInv, Popping
  <2>5. SemaphoreInv'
    BY <1>0, <1>10 DEF SemaphoreInv, ClearSink, moduleVars
  <2> QED BY <2>1, <2>2, <2>3, <2>4, <2>5 DEF TypeInv
<1>11. CASE Advance
  <2>1. TypeOK'
    BY <1>0, <1>11
      DEF TypeOK, Advance, listenerVars, blockVars, writerVars, storeVars, rangeVars,
          moduleVars
  <2>2. ControlType'
    BY <1>0, <1>11 DEF ControlType, Popping, Advance, listenerVars, blockVars
  <2>3. ListenerInv'
    BY <1>0, <1>11 DEF ListenerInv, Advance, listenerVars, writerVars, storeVars
  <2>4. StoreInv'
    BY <1>0, <1>11 DEF StoreInv, ControlType, Advance, storeVars
  <2>5. SemaphoreInv'
    BY <1>0, <1>11 DEF SemaphoreInv, Advance, moduleVars
  <2> QED BY <2>1, <2>2, <2>3, <2>4, <2>5 DEF TypeInv
<1>12. CASE Rewind
  <2>1. TypeOK'
    BY <1>0, <1>12
      DEF TypeOK, Rewind, listenerVars, blockVars, writerVars, readerVars, storeVars,
          rangeVars, moduleVars
  <2>2. ControlType'
    BY <1>0, <1>12 DEF ControlType, Popping, Rewind, listenerVars, blockVars
  <2>3. ListenerInv'
    BY <1>0, <1>12 DEF ListenerInv, Rewind, listenerVars, writerVars, storeVars
  <2>4. StoreInv'
    BY <1>0, <1>12 DEF StoreInv, ControlType, Rewind, storeVars
  <2>5. SemaphoreInv'
    BY <1>0, <1>12 DEF SemaphoreInv, Rewind, moduleVars
  <2> QED BY <2>1, <2>2, <2>3, <2>4, <2>5 DEF TypeInv
<1>13. CASE ReturnToStart
  <2>1. TypeOK'
    BY <1>0, <1>13
      DEF TypeOK, ReturnToStart, listenerVars, blockVars, writerVars, storeVars,
          rangeVars, moduleVars
  <2>2. ControlType'
    BY <1>0, <1>13 DEF ControlType, Popping, ReturnToStart, listenerVars, blockVars
  <2>3. ListenerInv'
    BY <1>0, <1>13 DEF ListenerInv, ReturnToStart, listenerVars, writerVars, storeVars
  <2>4. StoreInv'
    BY <1>0, <1>13 DEF StoreInv, ControlType, ReturnToStart, storeVars
  <2>5. SemaphoreInv'
    BY <1>0, <1>13 DEF SemaphoreInv, ReturnToStart, moduleVars
  <2> QED BY <2>1, <2>2, <2>3, <2>4, <2>5 DEF TypeInv
<1>14. CASE ReadLength
  <2>1. TypeOK'
    BY <1>0, <1>14, Constants, LengthsType, SMTT(30)
      DEF TypeOK, ReadLength, listenerVars, blockVars, writerVars, storeVars, rangeVars,
          moduleVars
  <2>2. ControlType'
    BY <1>0, <1>14 DEF ControlType, Popping, ReadLength, listenerVars, blockVars
  <2>3. ListenerInv'
    BY <1>0, <1>14 DEF ListenerInv, ReadLength, listenerVars, writerVars, storeVars
  <2>4. StoreInv'
    BY <1>0, <1>14 DEF StoreInv, ControlType, ReadLength, storeVars
  <2>5. SemaphoreInv'
    BY <1>0, <1>14 DEF SemaphoreInv, ReadLength, moduleVars
  <2> QED BY <2>1, <2>2, <2>3, <2>4, <2>5 DEF TypeInv
<1>15. CASE PopPacket
  <2>1. TypeOK'
    <3>1. stored \in 0 .. MaxStored /\ count \in 0 .. MaxStored /\ count >= 1 /\ count <= stored
          /\ oldest' \in Counter
      BY <1>0, <1>15, IncType DEF TypeOK, StoreInv, PopPacket, Popping
    <3>2. stored' \in 0 .. MaxStored /\ count' \in 0 .. MaxStored
      BY <1>15, <3>1, Constants DEF PopPacket
    <3> QED BY <1>0, <1>15, <3>1, <3>2
      DEF TypeOK, PopPacket, listenerVars, blockVars, writerVars, readerVars, rangeVars,
          moduleVars
  <2>2. ControlType'
    BY <1>0, <1>15 DEF ControlType, Popping, PopPacket, listenerVars, blockVars
  <2>3. ListenerInv'
    BY <1>0, <1>15, Constants DEF ListenerInv, TypeOK, PopPacket, listenerVars, writerVars
  <2>4. StoreInv'
    <3>1. /\ stored \in Nat /\ count \in Nat /\ count >= 1 /\ count <= stored
          /\ oldest \in Counter /\ newest \in Counter /\ Minus(newest, oldest) = stored
      BY <1>0, <1>15 DEF TypeOK, StoreInv, PopPacket, Popping
    <3>2. Minus(newest, Inc(oldest)) = stored - 1
      BY <3>1, MinusInc, MinusType
    <3>3. /\ stored' = stored - 1 /\ count' = count - 1 /\ oldest' = Inc(oldest) /\ newest' = newest
          /\ mpc' = IF count = 1 THEN "lock" ELSE "advance"
          /\ popped \in Nat /\ popped' = popped + 1
      BY <1>0, <1>15 DEF StoreInv, PopPacket
    <3> QED BY <3>1, <3>2, <3>3 DEF StoreInv, Popping
  <2>5. SemaphoreInv'
    BY <1>0, <1>15 DEF SemaphoreInv, PopPacket, moduleVars
  <2> QED BY <2>1, <2>2, <2>3, <2>4, <2>5 DEF TypeInv
<1>16. ASSUME NEW m \in Modules, WaitForPackets(m) PROVE TypeInv'
  <2>1. TypeOK'
    <3>1. sem[m] \in 0 .. 2 /\ sem[m] > 0
      BY <1>0, <1>16 DEF TypeOK, WaitForPackets
    <3>2. sem' \in [Modules -> 0 .. 2] /\ dpc' \in [Modules -> {"wait", "begin", "import", "notify"}]
      BY <1>0, <1>16, <3>1 DEF TypeOK, WaitForPackets
    <3> QED BY <1>0, <1>16, <3>2
      DEF TypeOK, WaitForPackets, listenerVars, blockVars, writerVars, readerVars,
          storeVars, rangeVars, managerVars
  <2>2. ControlType'
    BY <1>0, <1>16 DEF ControlType, WaitForPackets, listenerVars, blockVars, managerVars
  <2>3. ListenerInv'
    BY <1>0, <1>16 DEF ListenerInv, WaitForPackets, listenerVars, writerVars, storeVars
  <2>4. StoreInv'
    BY <1>0, <1>16 DEF StoreInv, WaitForPackets, storeVars, rangeVars, managerVars
  <2>5. SemaphoreInv'
    BY <1>0, <1>16 DEF SemaphoreInv, TypeOK, WaitForPackets, managerVars
  <2> QED BY <2>1, <2>2, <2>3, <2>4, <2>5 DEF TypeInv
<1>17. ASSUME NEW m \in Modules, BeginImport(m) PROVE TypeInv'
  <2>1. TypeOK'
    BY <1>0, <1>17
      DEF TypeOK, BeginImport, listenerVars, blockVars, writerVars, readerVars,
          storeVars, rangeVars, managerVars
  <2>2. ControlType'
    BY <1>0, <1>17 DEF ControlType, BeginImport, listenerVars, blockVars, managerVars
  <2>3. ListenerInv'
    BY <1>0, <1>17 DEF ListenerInv, BeginImport, listenerVars, writerVars, storeVars
  <2>4. StoreInv'
    BY <1>0, <1>17 DEF StoreInv, BeginImport, storeVars, rangeVars, managerVars
  <2>5. SemaphoreInv'
    BY <1>0, <1>17 DEF SemaphoreInv, BeginImport, managerVars
  <2> QED BY <2>1, <2>2, <2>3, <2>4, <2>5 DEF TypeInv
<1>18. ASSUME NEW m \in Modules, ImportPacket(m) PROVE TypeInv'
  <2>1. TypeOK'
    <3>1. Inc(pos[m]) \in Counter /\ pos' \in [Modules -> Counter]
      <4>1. pos \in [Modules -> Counter] /\ Inc(pos[m]) \in Counter
        BY <1>0, IncType DEF TypeOK
      <4> QED BY <1>18, <4>1 DEF ImportPacket
    <3>2. dpc' \in [Modules -> {"wait", "begin", "import", "notify"}]
      BY <1>0, <1>18 DEF TypeOK, ImportPacket
    <3>3. ASSUME NEW p \in {0, NextField(m)}, NEW l \in Nat, ReadPacket(m, p, l)
          PROVE  reader' \in [Modules -> [readPosition : Nat, packetSize : Nat]]
      <4>1. reader[m].readPosition + reader[m].packetSize \in Nat
        BY <1>0 DEF TypeOK
      <4>2. p + Field \in Nat
        BY <4>1, Constants DEF NextField
      <4> QED BY <1>0, <3>3, <4>2 DEF TypeOK, ReadPacket
    <3>4. reader' \in [Modules -> [readPosition : Nat, packetSize : Nat]]
      <4>1. CASE pos[m] = to
        BY <1>0, <1>18, <4>1 DEF TypeOK, ImportPacket
      <4>2. CASE pos[m] # to
        BY <1>0, <1>18, <3>3, <4>2, LengthsType DEF ImportPacket
      <4> QED BY <4>1, <4>2
    <3> QED BY <1>0, <1>18, <3>1, <3>2, <3>4
      DEF TypeOK, ImportPacket, listenerVars, blockVars, writerVars, readerVars,
          storeVars, rangeVars, managerVars
  <2>2. ControlType'
    BY <1>0, <1>18 DEF ControlType, ImportPacket, listenerVars, blockVars, managerVars
  <2>3. ListenerInv'
    BY <1>0, <1>18 DEF ListenerInv, ImportPacket, listenerVars, writerVars, storeVars
  <2>4. StoreInv'
    BY <1>0, <1>18 DEF StoreInv, ImportPacket, storeVars, rangeVars, managerVars
  <2>5. SemaphoreInv'
    BY <1>0, <1>18 DEF SemaphoreInv, TypeOK, ImportPacket, managerVars
  <2> QED BY <2>1, <2>2, <2>3, <2>4, <2>5 DEF TypeInv
<1>19. ASSUME NEW m \in Modules, NotifyDone(m) PROVE TypeInv'
  <2>1. TypeOK'
    BY <1>0, <1>19
      DEF TypeOK, NotifyDone, listenerVars, blockVars, writerVars, readerVars,
          storeVars, rangeVars, managerVars
  <2>2. ControlType'
    BY <1>0, <1>19 DEF ControlType, NotifyDone, listenerVars, blockVars, managerVars
  <2>3. ListenerInv'
    BY <1>0, <1>19 DEF ListenerInv, NotifyDone, listenerVars, writerVars, storeVars
  <2>4. StoreInv'
    BY <1>0, <1>19 DEF StoreInv, NotifyDone, storeVars, rangeVars, managerVars
  <2>5. SemaphoreInv'
    BY <1>0, <1>19 DEF SemaphoreInv, TypeOK, NotifyDone, managerVars
  <2> QED BY <2>1, <2>2, <2>3, <2>4, <2>5 DEF TypeInv
<1> QED BY <1>1, <1>2, <1>3, <1>4, <1>5, <1>6, <1>7, <1>8, <1>9, <1>10, <1>11, <1>12, <1>13, <1>14, <1>15, <1>16, <1>17, <1>18, <1>19
  DEF Next, Listener, ManagerThread, ModuleThread

-----------------------------------------------------------------------------
(* The ring.  Packets of any lengths lie one behind the other, but for a   *)
(* jump to the start, which the zeros behind the packet before it tell to  *)
(* whoever follows the length fields.  What writer and readers do between  *)
(* them keeps every packet as long as the writer zeroes the rest of the    *)
(* block only when no packet is left in it that has to be read.            *)

\* writePacket zeroes the rest of the block before it looks whether the
\* collector still has to read there (packetstats.cpp:113 and :115).  In the
\* behaviours considered here, no packet that would reach the end of the block
\* arrives while the writer is on its way behind the collector.
ZeroesOnlyRead == lpc = "idle" /\ lpc' = "wrap" => ~writeBeforeRead

\* Where packet n begins and ends, and the position behind it.
At(n) == packets[n].at
End(n) == At(n) + Field + packets[n].len
Behind(n) == IF n = 0 THEN 0 ELSE End(n)

Written == Len(packets)

\* Packets whose length the collector has read, and those it has still to find.
Passed == popped + IF mpc = "pop" THEN 1 ELSE 0
Unread == Passed + 1 .. Written

\* The collector has not begun to look for the next packet.
Resting == mpc \in {"lock", "notify", "wait", "clear", "advance", "pop"}

\* It has found that the next packet lies at the start.
Turning == mpc \in {"rewindAgain", "return", "returnAgain"}
Turned == Turning \/ (mpc = "length" /\ AtEnd(Behind(Passed)))

\* Where it looks for the next packet.
Sought == IF Turned THEN 0 ELSE Behind(Passed)

Zeroed(p) == \A b \in Positions : b >= p => mem[b] = 0

LayoutInv ==
  \A n \in 1 .. Written : packets[n].len \in Lengths /\ End(n) < Size

\* The writer stands behind the last packet or has jumped from there, for a
\* packet that would have reached the end.
WriterInv ==
  /\ Written = popped + stored + IF lpc = "push" THEN 1 ELSE 0
  /\ \/ writePosition = Behind(Written)
     \/ /\ writePosition = 0 /\ writeBeforeRead /\ Zeroed(Behind(Written))
        /\ \E k \in Lengths : k <= Size /\ Behind(Written) + k + Field >= Size
  /\ lpc = "wrap" => ~writeBeforeRead /\ Zeroed(writePosition) /\ ReachesEnd(len)

\* Where the next packet does not lie behind the last one, it lies at the start,
\* and there are zeros instead unless the collector has met them already.
JumpInv ==
  \A d \in Passed .. Written - 1 : At(d + 1) # Behind(d) =>
    /\ At(d + 1) = 0
    /\ (d = Passed /\ Turned) \/ (writeBeforeRead /\ Zeroed(Behind(d)))

MemoryInv == \A n \in Unread : Intact(n)

\* The collector stands behind the last packet it has passed, or is on its way
\* from there to the next.
ReaderInv ==
  /\ Resting =>
       IF Passed = 0 THEN readPosition = 0 /\ packetSize = 0
       ELSE readPosition = At(Passed) + Field /\ packetSize = packets[Passed].len
  /\ mpc \in {"rewind", "return"} =>
       readPosition = Behind(Passed) /\ AtEnd(Behind(Passed))
  /\ mpc = "length" => readPosition = Sought
  /\ mpc \in {"rewindAgain", "returnAgain"} => readPosition = Behind(Passed) + Field
  /\ Turning => At(Passed + 1) = 0

\* Packet n lies before the writer, or before the collector while the writer is
\* behind it.
Lower(n) == End(n) <= writePosition
Upper(n) == writeBeforeRead /\ mpc # "rewindAgain" /\ Sought <= At(n)

\* Where writer and collector stand to each other.  The collector has before it
\* the upper packets in order, and then the lower ones in order.
OrderInv ==
  /\ \A n \in Unread : (Lower(n) /\ (writeBeforeRead \/ Sought <= At(n))) \/ Upper(n)
  /\ \A m, n \in Unread : m < n =>
       (End(m) <= At(n) /\ (Lower(m) => Lower(n))) \/ (Upper(m) /\ Lower(n))
  /\ ~writeBeforeRead => Sought <= writePosition
  /\ writeBeforeRead =>
       /\ Written > 0
       /\ writePosition <= readPosition
       /\ lpc = "copy" => writePosition + Field + len <= readPosition
       /\ mpc \notin {"return", "returnAgain"}
  /\ mpc \in {"return", "returnAgain"} => lpc = "push" \/ writePosition <= readPosition
  /\ mpc \in {"rewind", "rewindAgain"} => writeBeforeRead /\ \A n \in Unread : Lower(n)

RingInv == LayoutInv /\ WriterInv /\ JumpInv /\ MemoryInv /\ ReaderInv /\ OrderInv

LEMMA PacketFacts ==
  ASSUME TypeInv, LayoutInv
  PROVE  /\ Written \in Nat /\ Size \in Nat /\ Field = 2
         /\ \A n \in 1 .. Written :
              /\ At(n) \in Nat /\ End(n) \in Nat
              /\ packets[n].len \in Nat /\ packets[n].len >= 1
              /\ End(n) = At(n) + 2 + packets[n].len /\ End(n) < Size
              /\ Bytes(n) = At(n) .. End(n) - 1
         /\ \A d \in 0 .. Written :
              Behind(d) \in Nat /\ Behind(d) < Size /\ (d # 0 => Behind(d) = End(d))
         /\ Behind(0) = 0
<1>1. /\ packets \in Seq([at : Nat, len : Nat]) /\ Written = Len(packets) /\ Written \in Nat
      /\ Size \in Nat /\ Size > 0 /\ Field = 2 /\ \A l \in Lengths : l \in Nat /\ l >= 1
  BY Constants DEF TypeInv, ControlType, Written
<1>2. ASSUME NEW n \in 1 .. Written
      PROVE  /\ At(n) \in Nat /\ End(n) \in Nat
             /\ packets[n].len \in Nat /\ packets[n].len >= 1
             /\ End(n) = At(n) + 2 + packets[n].len /\ End(n) < Size
             /\ Bytes(n) = At(n) .. End(n) - 1
  <2>1. packets[n] \in [at : Nat, len : Nat]
    BY <1>1, ElementOfSeq
  <2>2. packets[n].len \in Lengths /\ End(n) < Size
    BY DEF LayoutInv
  <2>3. At(n) \in Nat /\ packets[n].len \in Nat /\ packets[n].len >= 1
    BY <1>1, <2>1, <2>2 DEF At
  <2>4. End(n) = At(n) + 2 + packets[n].len
    BY <1>1 DEF End
  <2>5. Bytes(n) = At(n) .. End(n) - 1
    <3>1. packets[n].at = At(n)
      BY DEF At
    <3>2. packets[n].at + Field + packets[n].len - 1 = End(n) - 1
      BY <1>1, <2>3, <2>4, <3>1
    <3> QED BY <3>1, <3>2 DEF Bytes
  <2> QED BY <2>2, <2>3, <2>4, <2>5
<1>3. ASSUME NEW d \in 0 .. Written
      PROVE  Behind(d) \in Nat /\ Behind(d) < Size /\ (d # 0 => Behind(d) = End(d))
  BY <1>1, <1>2 DEF Behind
<1>4. Behind(0) = 0
  BY DEF Behind
<1> QED BY <1>1, <1>2, <1>3, <1>4

\* What the steps' proofs need of the numbers.
LEMMA Numbers ==
  ASSUME TypeInv, RingInv
  PROVE  /\ Size \in Nat /\ Field = 2
         /\ writePosition \in Nat /\ writePosition < Size
         /\ readPosition \in Nat /\ packetSize \in Nat /\ len \in Nat
         /\ Written \in Nat /\ popped \in Nat /\ stored \in Nat /\ Passed \in Nat
         /\ popped + stored <= Written /\ popped <= Passed
         /\ Passed \in 0 .. Written
         /\ Behind(Passed) \in Nat /\ Behind(Passed) < Size
         /\ Sought \in Nat /\ Sought <= Behind(Passed)
         /\ \A n \in Unread :
              /\ n \in Nat /\ n \in 1 .. Written /\ n > Passed
              /\ At(n) \in Nat /\ End(n) \in Nat /\ End(n) > At(n) + 2 /\ End(n) < Size
<1>1. /\ writePosition \in Nat /\ writePosition < Size
      /\ readPosition \in Nat /\ packetSize \in Nat /\ len \in Nat
      /\ popped \in Nat /\ stored \in Nat
  BY Constants DEF TypeInv, TypeOK, StoreInv
<1>2. Written \in Nat /\ Written = popped + stored + IF lpc = "push" THEN 1 ELSE 0
  BY PacketFacts DEF RingInv, WriterInv
<1>3. mpc = "pop" => stored >= 1
  BY <1>1 DEF TypeInv, TypeOK, StoreInv, Popping
<1>4. popped + stored <= Written /\ popped <= Passed /\ Passed \in Nat /\ Passed \in 0 .. Written
  BY <1>1, <1>2, <1>3 DEF Passed
<1>5. Behind(Passed) \in Nat /\ Behind(Passed) < Size
  BY <1>4, PacketFacts DEF RingInv
<1>6. Sought \in Nat /\ Sought <= Behind(Passed)
  BY <1>5 DEF Sought
<1>7. ASSUME NEW n \in Unread
      PROVE  /\ n \in Nat /\ n \in 1 .. Written /\ n > Passed
             /\ At(n) \in Nat /\ End(n) \in Nat /\ End(n) > At(n) + 2 /\ End(n) < Size
  <2>1. n \in Nat /\ n \in 1 .. Written /\ n > Passed
    BY <1>2, <1>4 DEF Unread
  <2>2. /\ At(n) \in Nat /\ End(n) \in Nat /\ End(n) < Size
        /\ packets[n].len \in Nat /\ packets[n].len >= 1
        /\ End(n) = At(n) + 2 + packets[n].len
    BY <2>1, PacketFacts DEF RingInv
  <2> QED BY <2>1, <2>2
<1> QED BY <1>1, <1>2, <1>4, <1>5, <1>6, <1>7, PacketFacts DEF RingInv

\* While the collector is on its way to a packet, there is one.
LEMMA PacketLeft ==
  ASSUME TypeInv, RingInv, mpc \in Popping \ {"pop"}
  PROVE  /\ Passed = popped /\ Passed < Written
         /\ Passed + 1 \in Unread /\ Passed \in Passed .. Written - 1
<1>1. count \in Nat /\ count >= 1 /\ count <= stored
  BY DEF TypeInv, TypeOK, StoreInv
<1>2. Passed = popped /\ Passed < Written /\ Passed \in Nat /\ Written \in Nat
  BY <1>1, Numbers DEF Passed
<1> QED BY <1>2 DEF Unread

\* While the writer is behind the collector, this has not gone beyond the place
\* where it looks for the next packet.
LEMMA ReaderBehind ==
  ASSUME TypeInv, RingInv, writeBeforeRead, mpc # "rewindAgain"
  PROVE  readPosition <= Sought
<1>1. mpc \notin {"return", "returnAgain"} /\ ~Turning
  BY DEF RingInv, OrderInv, Turning
<1>2. CASE mpc = "length"
  BY <1>2, Numbers DEF RingInv, ReaderInv
<1>3. CASE mpc = "rewind"
  BY <1>1, <1>3, Numbers DEF RingInv, ReaderInv, Sought, Turned
<1>4. CASE Resting
  <2>1. Sought = Behind(Passed)
    BY <1>1, <1>4 DEF Sought, Turned, Resting
  <2>2. CASE Passed = 0
    BY <1>4, <2>2, Numbers DEF RingInv, ReaderInv
  <2>3. CASE Passed # 0
    <3>1. readPosition = At(Passed) + Field
      BY <1>4, <2>3 DEF RingInv, ReaderInv
    <3>2. /\ Passed \in 1 .. Written /\ Passed \in 0 .. Written
      BY <2>3, Numbers
    <3>3. /\ Behind(Passed) = At(Passed) + 2 + packets[Passed].len /\ Field = 2
          /\ At(Passed) \in Nat /\ packets[Passed].len \in Nat
      BY <2>3, <3>2, PacketFacts DEF RingInv
    <3> QED BY <2>1, <3>1, <3>3
  <2> QED BY <2>2, <2>3
<1>5. mpc \in {"lock", "notify", "wait", "clear", "advance", "pop", "length", "rewind"}
  BY <1>1 DEF TypeInv, ControlType, Popping
<1> QED BY <1>2, <1>3, <1>4, <1>5 DEF Resting

\* No packet is a lower and an upper one.
LEMMA LowerOrUpper ==
  ASSUME TypeInv, RingInv, NEW n \in Unread, Upper(n)
  PROVE  ~Lower(n)
<1>1. writePosition <= readPosition /\ readPosition <= Sought /\ Sought <= At(n)
  BY ReaderBehind DEF Upper, RingInv, OrderInv
<1> QED BY <1>1, Numbers DEF Lower

\* Before the jump at which the collector arrives lies no packet that it has
\* still to find.
LEMMA AllLower ==
  ASSUME TypeInv, RingInv, Passed + 1 \in Unread, At(Passed + 1) = 0, Sought > 0
  PROVE  \A n \in Unread : Lower(n)
<1> DEFINE q == Passed + 1
<1>1. ~Upper(q)
  BY Numbers DEF Upper
<1>2. Lower(q)
  BY <1>1 DEF RingInv, OrderInv
<1>3. ASSUME NEW n \in Unread, n # q
      PROVE  Lower(n)
  <2>1. q < n
    BY <1>3, Numbers
  <2> HIDE DEF q
  <2>2. q \in Unread
    BY DEF q
  <2> QED BY <1>1, <1>2, <1>3, <2>1, <2>2 DEF RingInv, OrderInv
<1> QED BY <1>2, <1>3

\* Whoever looks where a packet begins finds it.
LEMMA FoundAt ==
  ASSUME TypeInv, RingInv, NEW q \in Unread
  PROVE  LengthsAt(At(q)) = {packets[q].len} /\ PacketAt(At(q)) = {q}
<1> DEFINE a == At(q)
<1>1. /\ q \in 1 .. Written /\ q \in Nat /\ q # 0 /\ a \in Nat /\ a = packets[q].at
      /\ Bytes(q) = a .. End(q) - 1 /\ End(q) \in Nat /\ End(q) > a + 2
      /\ Written = Len(packets) /\ Field = 2
  BY Numbers, PacketFacts, SMTT(40) DEF RingInv, At, Written
<1>2. Intact(q)
  BY DEF RingInv, MemoryInv
<1> HIDE DEF a
<1>3. \A b \in a .. a + Field - 1 : mem[b] = q
  <2>1. \A b \in a .. a + Field - 1 : b \in Bytes(q)
    BY <1>1
  <2> QED BY <1>2, <2>1 DEF Intact
<1>4. a \in a .. a + Field - 1
  BY <1>1
<1>5. PacketAt(a) = {q}
  <2>1. q \in PacketAt(a)
    BY <1>1, <1>3 DEF PacketAt
  <2>2. ASSUME NEW n \in PacketAt(a) PROVE n = q
    BY <1>3, <1>4 DEF PacketAt
  <2> QED BY <2>1, <2>2
<1>6. LengthsAt(a) = {packets[q].len}
  <2>1. ~ \A b \in a .. a + Field - 1 : mem[b] = 0
    BY <1>1, <1>3, <1>4
  <2>2. {packets[n].len : n \in PacketAt(a)} = {packets[q].len}
    BY <1>5
  <2> QED BY <1>5, <2>1, <2>2 DEF LengthsAt
<1> QED BY <1>5, <1>6 DEF a

\* What a reader that stands behind packet d, where a packet follows, finds: its
\* length field, there or at the start; or zeros there, and the length field at
\* the start.
LEMMA NextIsFound ==
  ASSUME TypeInv, RingInv, NEW d \in Passed .. Written - 1, ~Turning,
         NEW p, p = IF AtEnd(Behind(d)) THEN 0 ELSE Behind(d)
  PROVE  /\ d + 1 \in Unread /\ d + 1 \in 1 .. Written
         /\ LengthsAt(At(d + 1)) = {packets[d + 1].len} /\ PacketAt(At(d + 1)) = {d + 1}
         /\ packets[d + 1].len \in Nat /\ packets[d + 1].len # 0
         /\ \/ At(d + 1) = p
            \/ /\ At(d + 1) = 0 /\ p = Behind(d) /\ p > 0 /\ ~AtEnd(p)
               /\ writeBeforeRead /\ LengthsAt(p) = {0}
<1>0. /\ d \in 0 .. Written /\ d \in Nat /\ d + 1 \in Unread /\ d + 1 \in 1 .. Written
      /\ Size \in Nat /\ Field = 2
  BY Numbers DEF Unread
<1>1. /\ At(d + 1) \in Nat /\ End(d + 1) > At(d + 1) + 2 /\ End(d + 1) < Size
      /\ End(d + 1) \in Nat /\ packets[d + 1].len \in Nat /\ packets[d + 1].len # 0
      /\ Behind(d) \in Nat /\ Behind(d) < Size
  <2>1. /\ At(d + 1) \in Nat /\ End(d + 1) > At(d + 1) + 2 /\ End(d + 1) < Size
        /\ End(d + 1) \in Nat
    BY <1>0, Numbers
  <2>2. packets[d + 1].len \in Nat /\ packets[d + 1].len >= 1
    BY <1>0, PacketFacts DEF RingInv
  <2>3. Behind(d) \in Nat /\ Behind(d) < Size
    BY <1>0, PacketFacts DEF RingInv
  <2> QED BY <2>1, <2>2, <2>3
<1>2. LengthsAt(At(d + 1)) = {packets[d + 1].len} /\ PacketAt(At(d + 1)) = {d + 1}
  BY <1>0, FoundAt
<1>3. AtEnd(Behind(d)) => At(d + 1) # Behind(d)
  BY <1>0, <1>1 DEF AtEnd
<1>4. At(d + 1) # Behind(d) =>
        At(d + 1) = 0 /\ ((d = Passed /\ Turned) \/ (writeBeforeRead /\ Zeroed(Behind(d))))
  BY DEF RingInv, JumpInv
<1>5. CASE AtEnd(Behind(d)) \/ At(d + 1) = Behind(d)
  <2>1. At(d + 1) = p
    BY <1>3, <1>4, <1>5
  <2> QED BY <1>0, <1>1, <1>2, <2>1
<1>6. CASE ~AtEnd(Behind(d)) /\ At(d + 1) # Behind(d)
  <2>1. ~(d = Passed /\ Turned)
    BY <1>6 DEF Turned
  <2>2. At(d + 1) = 0 /\ writeBeforeRead /\ Zeroed(Behind(d)) /\ p = Behind(d)
    BY <1>4, <1>6, <2>1
  <2>3. p \in Nat /\ p > 0 /\ p + Field <= Size
    BY <1>0, <1>1, <1>6, <2>2 DEF AtEnd
  <2>4. \A b \in p .. p + Field - 1 : b \in Positions /\ b >= p
    BY <1>0, <2>3, Constants
  <2>5. LengthsAt(p) = {0}
    BY <2>2, <2>3, <2>4 DEF LengthsAt, Zeroed
  <2> QED BY <1>0, <1>1, <1>2, <1>6, <2>2, <2>3, <2>5
<1> QED BY <1>5, <1>6

\* Steps that leave the packets where they are.
LEMMA SamePackets ==
  ASSUME UNCHANGED packets
  PROVE  /\ Written' = Written
         /\ \A n : At(n)' = At(n) /\ End(n)' = End(n) /\ Behind(n)' = Behind(n)
         /\ \A n : Bytes(n)' = Bytes(n)
         /\ LayoutInv => LayoutInv'
         /\ Passed' = Passed => Unread' = Unread
         /\ mem' = mem => \A n : Intact(n) => Intact(n)'
         /\ mem' = mem /\ Unread' \subseteq Unread /\ MemoryInv => MemoryInv'
<1>1. Written' = Written
  BY DEF Written
<1>2. \A n : At(n)' = At(n)
  BY DEF At
<1>3. \A n : End(n)' = End(n)
  BY <1>2 DEF End
<1>4. \A n : Behind(n)' = Behind(n)
  BY <1>3 DEF Behind
<1>5. \A n : Bytes(n)' = Bytes(n)
  BY DEF Bytes
<1>6. LayoutInv => LayoutInv'
  BY <1>1, <1>3 DEF LayoutInv
<1>7. mem' = mem => \A n : Intact(n) => Intact(n)'
  BY <1>5 DEF Intact
<1>8. mem' = mem /\ Unread' \subseteq Unread /\ MemoryInv => MemoryInv'
  BY <1>7 DEF MemoryInv
<1>9. Passed' = Passed => Unread' = Unread
  BY <1>1 DEF Unread
<1> QED BY <1>1, <1>2, <1>3, <1>4, <1>5, <1>6, <1>7, <1>8, <1>9

LEMMA QuietRing ==
  ASSUME TypeInv, RingInv,
         UNCHANGED <<blockVars, writerVars, readerVars, writeBeforeRead>>,
         Written = popped' + stored' + IF lpc' = "push" THEN 1 ELSE 0,
         Passed' = Passed,
         \/ mpc' = mpc
         \/ {mpc, mpc'} \subseteq {"lock", "notify", "wait", "clear", "advance", "pop"},
         \/ UNCHANGED <<lpc, len>>
         \/ lpc' \notin {"wrap", "copy"}
         \/ lpc' = "copy" /\ (writeBeforeRead => writePosition + Field + len' <= readPosition),
         lpc' = "push" \/ lpc # "push" \/ mpc \notin {"return", "returnAgain"}
  PROVE  RingInv'
<1>1. UNCHANGED <<packets, mem, writePosition, readPosition, packetSize, writeBeforeRead>>
  BY DEF blockVars, writerVars, readerVars
<1>2. /\ Written' = Written /\ Unread' = Unread
      /\ \A n : At(n)' = At(n) /\ End(n)' = End(n) /\ Behind(n)' = Behind(n)
      /\ LayoutInv' /\ MemoryInv'
  BY <1>1, SamePackets DEF RingInv
<1>3. /\ Turning' = Turning /\ Turned' = Turned /\ Resting' = Resting /\ Sought' = Sought
  <2>1. Turning' = Turning /\ Resting' = Resting /\ (mpc' = "length" <=> mpc = "length")
    BY DEF Turning, Resting
  <2>2. Turned' = Turned
    BY <1>2, <2>1 DEF Turned, AtEnd
  <2> QED BY <1>2, <2>1, <2>2 DEF Sought
<1>4. WriterInv'
  <2>1. lpc' = "wrap" => ~writeBeforeRead /\ Zeroed(writePosition) /\ ReachesEnd(len')
    BY DEF RingInv, WriterInv
  <2> QED BY <1>1, <1>2, <2>1 DEF RingInv, WriterInv, Zeroed, ReachesEnd
<1>5. JumpInv'
  BY <1>1, <1>2, <1>3 DEF RingInv, JumpInv, Zeroed
<1>6. ReaderInv'
  BY <1>1, <1>2, <1>3 DEF RingInv, ReaderInv, AtEnd
<1>7. OrderInv'
  <2>1. \A n : Lower(n)' = Lower(n) /\ Upper(n)' = Upper(n)
    BY <1>1, <1>2, <1>3 DEF Lower, Upper
  <2>2. lpc' = "copy" /\ writeBeforeRead => writePosition + Field + len' <= readPosition
    BY DEF RingInv, OrderInv
  <2>3. mpc' \in {"return", "returnAgain"} => lpc' = "push" \/ writePosition <= readPosition
    BY DEF RingInv, OrderInv
  <2> QED BY <1>1, <1>2, <1>3, <2>1, <2>2, <2>3 DEF RingInv, OrderInv
<1> QED BY <1>2, <1>4, <1>5, <1>6, <1>7 DEF RingInv

\* A packet arrives.  If it would reach the end, the writer has all packets that
\* are to be found before it, and zeroes none.
LEMMA ReceiveRing ==
  ASSUME TypeInv, RingInv, ReceivePacket, ZeroesOnlyRead
  PROVE  RingInv'
<1>1. /\ lpc = "idle"
      /\ UNCHANGED <<packets, writePosition, readPosition, packetSize,
                     writeBeforeRead, popped, stored, mpc>>
      /\ \/ lpc' = "post" /\ mem' = mem
         \/ lpc' = "check" /\ mem' = mem
         \/ /\ lpc' = "wrap" /\ ReachesEnd(len')
            /\ mem' = [b \in Positions |-> IF b >= writePosition THEN 0 ELSE mem[b]]
  BY DEF ReceivePacket, writerVars, readerVars, storeVars, managerVars
<1>2. Passed' = Passed /\ Written = popped + stored + 0
  BY <1>1 DEF Passed, RingInv, WriterInv
<1>3. CASE lpc' \in {"post", "check"} /\ mem' = mem
  BY <1>1, <1>2, <1>3, QuietRing DEF blockVars, writerVars, readerVars
<1>4. CASE /\ lpc' = "wrap" /\ ReachesEnd(len')
           /\ mem' = [b \in Positions |-> IF b >= writePosition THEN 0 ELSE mem[b]]
  <2>1. ~writeBeforeRead
    BY <1>1, <1>4 DEF ZeroesOnlyRead
  <2>2. /\ Written' = Written /\ Unread' = Unread
        /\ \A n : At(n)' = At(n) /\ End(n)' = End(n) /\ Behind(n)' = Behind(n)
        /\ \A n : Bytes(n)' = Bytes(n)
        /\ LayoutInv'
    BY <1>1, <1>2, SamePackets DEF RingInv
  <2>3. WriterInv'
    <3>1. Zeroed(writePosition)'
      BY <1>1, <1>4 DEF Zeroed
    <3>2. writePosition = Behind(Written)
      BY <2>1 DEF RingInv, WriterInv
    <3> QED BY <1>1, <1>2, <1>4, <2>1, <2>2, <3>1, <3>2 DEF WriterInv, ReachesEnd
  <2>4. MemoryInv'
    <3> SUFFICES ASSUME NEW n \in Unread, NEW b \in Bytes(n)
                 PROVE  mem'[b] = n
      BY <2>2 DEF MemoryInv, Intact
    <3>1. Lower(n)
      BY <2>1 DEF RingInv, OrderInv, Upper
    <3>2. b \in At(n) .. End(n) - 1
      BY Numbers, PacketFacts DEF RingInv
    <3>3. b \in Positions /\ ~(b >= writePosition)
      BY <3>1, <3>2, Numbers, Constants, SMTT(40) DEF Lower
    <3>4. mem[b] = n
      BY DEF RingInv, MemoryInv, Intact
    <3> QED BY <1>4, <3>3, <3>4
  <2>5. Turning' = Turning /\ Turned' = Turned /\ Resting' = Resting /\ Sought' = Sought
    BY <1>1, <1>2, <2>2 DEF Turning, Turned, Resting, Sought, AtEnd
  <2>6. JumpInv'
    BY <1>1, <1>2, <2>1, <2>2, <2>5 DEF RingInv, JumpInv
  <2>7. ReaderInv'
    BY <1>1, <1>2, <2>2, <2>5 DEF RingInv, ReaderInv, AtEnd
  <2>8. OrderInv'
    <3>1. \A n : Lower(n)' = Lower(n) /\ Upper(n)' = Upper(n)
      BY <1>1, <2>2, <2>5 DEF Lower, Upper
    <3> QED BY <1>1, <1>2, <1>4, <2>1, <2>2, <2>5, <3>1 DEF RingInv, OrderInv
  <2> QED BY <2>2, <2>3, <2>4, <2>6, <2>7, <2>8 DEF RingInv
<1> QED BY <1>1, <1>3, <1>4

\* The writer jumps only while it stands before the collector, and not while the
\* collector returns to the start.
LEMMA JumpRing ==
  ASSUME TypeInv, RingInv, JumpToStart
  PROVE  RingInv'
<1>1. /\ lpc = "wrap"
      /\ UNCHANGED <<len, packets, mem, readPosition, packetSize, popped, stored, mpc>>
      /\ IF readPosition >= writePosition
         THEN lpc' = "post" /\ UNCHANGED <<writePosition, writeBeforeRead>>
         ELSE lpc' = "check" /\ writePosition' = 0 /\ writeBeforeRead' = TRUE
  BY DEF JumpToStart, blockVars, writerVars, readerVars, storeVars, managerVars
<1>2. Passed' = Passed /\ Written = popped + stored + 0
  BY <1>1 DEF Passed, RingInv, WriterInv
<1>3. CASE readPosition >= writePosition
  BY <1>1, <1>2, <1>3, QuietRing DEF blockVars, writerVars, readerVars
<1>4. CASE ~(readPosition >= writePosition)
  <2>1. /\ lpc' = "check" /\ writePosition' = 0 /\ writeBeforeRead' = TRUE
        /\ readPosition < writePosition
    BY <1>1, <1>4, Numbers
  <2>2. /\ ~writeBeforeRead /\ Zeroed(writePosition) /\ ReachesEnd(len)
        /\ writePosition = Behind(Written)
    BY <1>1 DEF RingInv, WriterInv
  <2>3. Written > 0
    <3>1. Written # 0
      BY <2>1, <2>2, Numbers, PacketFacts DEF RingInv
    <3> QED BY <3>1, Numbers
  <2>4. mpc \notin {"rewind", "rewindAgain", "return", "returnAgain"}
    BY <1>1, <2>1, <2>2, Numbers DEF RingInv, OrderInv
  <2>5. /\ Written' = Written /\ Unread' = Unread
        /\ \A n : At(n)' = At(n) /\ End(n)' = End(n) /\ Behind(n)' = Behind(n)
        /\ LayoutInv' /\ MemoryInv'
    BY <1>1, <1>2, SamePackets DEF RingInv
  <2>6. Turning' = Turning /\ Turned' = Turned /\ Resting' = Resting /\ Sought' = Sought
    BY <1>1, <1>2, <2>5 DEF Turning, Turned, Resting, Sought, AtEnd
  <2>7. WriterInv'
    <3>1. len \in Lengths /\ len <= Size /\ Behind(Written) + len + Field >= Size
      BY <1>1, <2>2 DEF TypeInv, ListenerInv, ReachesEnd
    <3>2. Zeroed(Behind(Written))'
      BY <1>1, <2>2, <2>5 DEF Zeroed
    <3> QED BY <1>1, <1>2, <2>1, <2>5, <3>1, <3>2 DEF WriterInv
  <2>8. JumpInv'
    <3>1. \A d \in Passed .. Written - 1 :
             At(d + 1) # Behind(d) => At(d + 1) = 0 /\ d = Passed /\ Turned
      BY <2>2 DEF RingInv, JumpInv
    <3> QED BY <1>2, <2>5, <2>6, <3>1 DEF JumpInv
  <2>9. ReaderInv'
    BY <1>1, <1>2, <2>5, <2>6 DEF RingInv, ReaderInv, AtEnd
  <2>10. OrderInv'
    <3>1. \A n \in Unread : Lower(n) /\ Sought <= At(n)
      BY <2>2 DEF RingInv, OrderInv, Upper
    <3>2. \A n \in Unread : Upper(n)'
      BY <1>1, <2>1, <2>4, <2>5, <2>6, <3>1 DEF Upper
    <3>3. \A n \in Unread : ~Lower(n)'
      BY <2>1, <2>5, Numbers DEF Lower
    <3>4. \A m, n \in Unread : m < n => End(m) <= At(n)
      BY <2>2 DEF RingInv, OrderInv, Upper
    <3>5. 0 <= readPosition
      BY Numbers
    <3> QED BY <1>1, <1>2, <2>1, <2>3, <2>4, <2>5, <3>2, <3>3, <3>4, <3>5 DEF OrderInv
  <2> QED BY <2>5, <2>7, <2>8, <2>9, <2>10 DEF RingInv
<1> QED BY <1>3, <1>4

LEMMA CheckRing ==
  ASSUME TypeInv, RingInv, CheckSpace
  PROVE  RingInv'
<1>1. /\ lpc = "check" /\ lpc' = IF Overruns THEN "post" ELSE "copy"
      /\ UNCHANGED <<len, packets, mem, writePosition, readPosition, packetSize,
                     writeBeforeRead, popped, stored, mpc>>
  BY DEF CheckSpace, blockVars, writerVars, readerVars, storeVars, managerVars
<1>2. Passed' = Passed /\ Written = popped + stored + 0
  BY <1>1 DEF Passed, RingInv, WriterInv
<1>3. lpc' = "copy" => (writeBeforeRead => writePosition + Field + len' <= readPosition)
  BY <1>1, Numbers DEF Overruns
<1> QED BY <1>1, <1>2, <1>3, QuietRing DEF blockVars, writerVars, readerVars

\* Where the writer has jumped, no packet that is copied reaches the zeros that it
\* has left behind the last one.
LEMMA ZerosAhead ==
  ASSUME TypeInv, RingInv, writeBeforeRead, NEW d \in Passed .. Written,
         \/ d = Written /\ writePosition # Behind(Written)
         \/ d < Written /\ At(d + 1) # Behind(d) /\ ~(d = Passed /\ Turned)
  PROVE  readPosition <= Behind(d)
<1>0. d \in Nat /\ d \in 0 .. Written
  BY Numbers
<1>1. CASE d = Passed /\ mpc # "rewindAgain"
  BY <1>1, ReaderBehind, Numbers
<1>2. CASE d = Passed /\ mpc = "rewindAgain"
  <2>1. d # Written
    BY <1>2, PacketLeft, Numbers DEF Popping
  <2> QED BY <1>2, <2>1 DEF Turned, Turning
<1>3. CASE d # Passed
  <2>1. d \in Unread
    BY <1>3, Numbers DEF Unread
  <2>2. Upper(d)
    <3>1. CASE d = Written /\ writePosition # Behind(Written)
      <4>1. writePosition = 0
        BY <3>1 DEF RingInv, WriterInv
      <4>2. ~Lower(d)
        BY <2>1, <4>1, Numbers DEF Lower
      <4> QED BY <2>1, <4>2 DEF RingInv, OrderInv
    <3>2. CASE d < Written /\ At(d + 1) # Behind(d)
      <4>1. At(d + 1) = 0 /\ d + 1 \in Unread
        BY <2>1, <3>2, Numbers DEF RingInv, JumpInv, Unread
      <4>2. ~(End(d) <= At(d + 1))
        BY <2>1, <4>1, Numbers
      <4> QED BY <1>0, <2>1, <4>1, <4>2 DEF RingInv, OrderInv
    <3> QED BY <3>1, <3>2
  <2>3. readPosition <= Sought /\ Sought <= At(d)
    BY <2>2, ReaderBehind DEF Upper
  <2>4. Behind(d) = End(d) /\ End(d) > At(d) + 2
    BY <1>0, <2>1, Numbers, PacketFacts DEF RingInv
  <2> QED BY <2>1, <2>3, <2>4, Numbers
<1> QED BY <1>1, <1>2, <1>3

\* The packet takes the place behind the last one, or the first place.
LEMMA CopyRing ==
  ASSUME TypeInv, RingInv, CopyPacket
  PROVE  RingInv'
<1>w. PICK w \in Nat : w = Written
  BY Numbers
<1>n. PICK n \in Nat : n = w + 1
  BY <1>w
<1>1. /\ lpc = "copy" /\ lpc' = "push"
      /\ packets' = Append(packets, [at |-> writePosition, len |-> len])
      /\ mem' = [b \in Positions |->
                   IF b \in writePosition .. writePosition + Field + len - 1
                   THEN n ELSE mem[b]]
      /\ writePosition' = writePosition + Field + len
      /\ len \in Lengths /\ writePosition + len + Field < Size
      /\ UNCHANGED <<readPosition, packetSize, writeBeforeRead, popped, stored, mpc>>
  BY <1>w, <1>n
  DEF CopyPacket, readerVars, storeVars, managerVars, Written, TypeInv, ListenerInv
<1>2. /\ Size \in Nat /\ Field = 2 /\ len \in Nat /\ len >= 1
      /\ writePosition \in Nat /\ readPosition \in Nat
      /\ writePosition' \in Nat /\ writePosition' = writePosition + 2 + len
      /\ writePosition' < Size
  BY <1>1, Numbers, Constants, SMTT(40)
<1>3. Written' = n /\ n = w + 1 /\ w \in 0 .. w /\ 1 .. n = (1 .. w) \cup {n} /\ n \notin 1 .. w
  BY <1>w, <1>n, <1>1 DEF TypeInv, ControlType, Written
<1>4. /\ packets'[n] = [at |-> writePosition, len |-> len]
      /\ \A k \in 1 .. w : packets'[k] = packets[k]
  BY <1>w, <1>n, <1>1, <1>3 DEF TypeInv, ControlType, Written
<1>5. /\ At(n)' = writePosition /\ End(n)' = writePosition'
      /\ \A k \in 1 .. w : At(k)' = At(k) /\ End(k)' = End(k) /\ Bytes(k)' = Bytes(k)
      /\ \A k \in 0 .. w : Behind(k)' = Behind(k)
      /\ Behind(n)' = writePosition'
  <2>1. At(n)' = writePosition /\ \A k \in 1 .. w : At(k)' = At(k)
    BY <1>4 DEF At
  <2>2. End(n)' = writePosition' /\ \A k \in 1 .. w : End(k)' = End(k) /\ Bytes(k)' = Bytes(k)
    <3>1. packets'[n].len = len
      BY <1>4
    <3>2. End(n)' = writePosition'
      BY <1>1, <2>1, <3>1 DEF End
    <3>3. \A k \in 1 .. w : End(k)' = End(k)
      BY <1>4, <2>1 DEF End
    <3>4. \A k \in 1 .. w : Bytes(k)' = Bytes(k)
      BY <1>4 DEF Bytes
    <3> QED BY <3>2, <3>3, <3>4
  <2>3. /\ \A k \in 0 .. w : Behind(k)' = Behind(k)
        /\ Behind(n)' = writePosition'
    BY <1>3, <2>2 DEF Behind
  <2> QED BY <2>1, <2>2, <2>3
<1>6. /\ Passed' = Passed /\ Passed \in 0 .. w /\ Passed \in Nat
      /\ Turning' = Turning /\ Turned' = Turned /\ Resting' = Resting /\ Sought' = Sought
      /\ Sought \in Nat
  <2>1. Passed' = Passed /\ Passed \in 0 .. w /\ Passed \in Nat /\ Sought \in Nat
    BY <1>1, <1>w, Numbers DEF Passed
  <2>2. Behind(Passed)' = Behind(Passed)
    BY <1>5, <2>1
  <2> QED BY <1>1, <2>1, <2>2 DEF Turning, Turned, Resting, Sought, AtEnd
<1>7. Unread' = Unread \cup {n} /\ n \notin Unread /\ Unread \subseteq 1 .. w
  BY <1>w, <1>3, <1>6 DEF Unread
<1>8. \A k \in Unread : /\ At(k)' = At(k) /\ End(k)' = End(k) /\ Bytes(k)' = Bytes(k)
                        /\ k < n /\ ~(n < k)
                        /\ At(k) \in Nat /\ End(k) \in Nat /\ End(k) > At(k) + 2
                        /\ End(k) < Size
  BY <1>3, <1>5, <1>7, Numbers
<1>9. writeBeforeRead => writePosition' <= readPosition
  BY <1>1 DEF RingInv, OrderInv
\* What is copied covers no packet that the collector has still to find.
<1>10. ASSUME NEW k \in Unread
       PROVE  /\ Lower(k) \/ (Upper(k) /\ writePosition' <= At(k))
              /\ Upper(k)' = Upper(k)
              /\ Lower(k) => Lower(k)'
              /\ ~Lower(k) => ~Lower(k)'
  <2>1. Lower(k) \/ Upper(k)
    BY DEF RingInv, OrderInv
  <2>2. Upper(k) => writePosition' <= At(k)
    <3> SUFFICES ASSUME Upper(k) PROVE writePosition' <= At(k)
      OBVIOUS
    <3>1. readPosition <= Sought /\ Sought <= At(k) /\ writeBeforeRead
      BY ReaderBehind DEF Upper
    <3> QED BY <1>2, <1>6, <1>8, <1>9, <3>1
  <2>3. Upper(k)' = Upper(k)
    BY <1>1, <1>6, <1>8 DEF Upper
  <2> QED BY <1>2, <1>8, <2>1, <2>2, <2>3 DEF Lower
<1>11. LayoutInv'
  <2>1. ASSUME NEW k \in 1 .. w
        PROVE  packets'[k].len \in Lengths /\ End(k)' < Size
    BY <1>4, <1>5, <1>w DEF LayoutInv, RingInv
  <2>2. packets'[n].len \in Lengths /\ End(n)' < Size
    <3>1. packets'[n].len = len
      BY <1>4
    <3> QED BY <1>1, <1>2, <1>5, <3>1
  <2>3. \A k \in 1 .. n : packets'[k].len \in Lengths /\ End(k)' < Size
    BY <1>3, <2>1, <2>2
  <2> QED BY <1>3, <2>3 DEF LayoutInv
<1>12. WriterInv'
  <2>1. Written' = popped + stored + 1
    <3>1. w = popped + stored + 0
      BY <1>1, <1>w DEF RingInv, WriterInv
    <3>2. popped \in Nat /\ stored \in Nat
      BY Numbers
    <3> QED BY <1>3, <3>1, <3>2
  <2> QED BY <1>1, <1>3, <1>5, <2>1 DEF WriterInv
<1>13. JumpInv'
  <2> SUFFICES ASSUME NEW d \in Passed .. w, At(d + 1)' # Behind(d)'
               PROVE  /\ At(d + 1)' = 0
                      /\ (d = Passed /\ Turned) \/ (writeBeforeRead /\ Zeroed(Behind(d))')
    BY <1>1, <1>3, <1>6 DEF JumpInv
  <2>0. d \in Nat /\ d \in 0 .. w /\ Behind(d)' = Behind(d) /\ Behind(d) \in Nat
    BY <1>5, <1>6, <1>w, PacketFacts DEF RingInv
  <2>1. ASSUME writeBeforeRead, Zeroed(Behind(d)), readPosition <= Behind(d)
        PROVE  Zeroed(Behind(d))'
    <3> SUFFICES ASSUME NEW b \in Positions, b >= Behind(d)
                 PROVE  mem'[b] = 0
      BY <2>0 DEF Zeroed
    <3>1. ~(b \in writePosition .. writePosition + Field + len - 1)
      BY <1>2, <1>9, <2>0, <2>1, Constants
    <3> QED BY <1>1, <2>1, <3>1 DEF Zeroed
  <2>2. CASE d = w
    <3>1. At(d + 1)' = writePosition
      BY <1>3, <1>5, <2>2
    <3>2. /\ writePosition = 0 /\ writeBeforeRead /\ Zeroed(Behind(d))
          /\ writePosition # Behind(Written)
      BY <1>w, <2>0, <2>2, <3>1 DEF RingInv, WriterInv
    <3>3. readPosition <= Behind(d)
      BY <1>w, <2>2, <3>2, ZerosAhead
    <3> QED BY <2>1, <3>1, <3>2, <3>3
  <2>3. CASE d # w
    <3>1. d \in Passed .. Written - 1 /\ d + 1 \in 1 .. w /\ d < Written /\ d \in Passed .. Written
      BY <1>6, <1>w, <2>0, <2>3
    <3>2. At(d + 1)' = At(d + 1) /\ At(d + 1) # Behind(d)
      BY <1>5, <2>0, <3>1
    <3>3. /\ At(d + 1) = 0
          /\ (d = Passed /\ Turned) \/ (writeBeforeRead /\ Zeroed(Behind(d)))
      BY <3>1, <3>2 DEF RingInv, JumpInv
    <3>4. CASE d = Passed /\ Turned
      BY <3>2, <3>3, <3>4
    <3>5. CASE ~(d = Passed /\ Turned)
      <4>1. readPosition <= Behind(d)
        BY <3>1, <3>2, <3>3, <3>5, ZerosAhead
      <4> QED BY <2>1, <3>2, <3>3, <3>5, <4>1
    <3> QED BY <3>4, <3>5
  <2> QED BY <2>2, <2>3
<1>14. MemoryInv'
  <2>1. writePosition + Field + len - 1 = writePosition' - 1
    BY <1>2
  <2>2. ASSUME NEW k \in Unread
        PROVE  Intact(k)'
    <3> SUFFICES ASSUME NEW b \in Bytes(k)
                 PROVE  mem'[b] = k
      BY <1>8 DEF Intact
    <3>1. b \in At(k) .. End(k) - 1
      BY <1>w, <1>7, PacketFacts DEF RingInv
    <3>2. End(k) <= writePosition \/ writePosition' <= At(k)
      BY <1>10 DEF Lower
    <3>3. b \in Positions /\ ~(b \in writePosition .. writePosition' - 1)
      BY <1>2, <1>8, <3>1, <3>2, Constants
    <3>4. mem[b] = k
      BY DEF RingInv, MemoryInv, Intact
    <3> QED BY <1>1, <2>1, <3>3, <3>4
  <2>3. Intact(n)'
    <3>1. Bytes(n)' = writePosition .. writePosition' - 1
      BY <1>4, <2>1 DEF Bytes
    <3>2. \A b \in writePosition .. writePosition' - 1 : b \in Positions
      BY <1>2, Constants
    <3> QED BY <1>1, <2>1, <3>1, <3>2 DEF Intact
  <2> QED BY <1>7, <2>2, <2>3 DEF MemoryInv
<1>15. ReaderInv'
  <2>1. Behind(Passed)' = Behind(Passed)
    BY <1>5, <1>6
  <2>2. Passed # 0 => At(Passed)' = At(Passed) /\ packets'[Passed] = packets[Passed]
    BY <1>4, <1>5, <1>6
  <2>3. Turning => At(Passed + 1)' = At(Passed + 1)
    <3> SUFFICES ASSUME Turning PROVE Passed + 1 \in 1 .. w
      BY <1>5, <1>6
    <3>1. Passed < Written
      BY PacketLeft DEF Turning, Popping
    <3> QED BY <1>6, <1>w, <3>1
  <2> QED BY <1>1, <1>6, <2>1, <2>2, <2>3 DEF RingInv, ReaderInv, AtEnd
<1>16. OrderInv'
  <2>1. Lower(n)'
    BY <1>2, <1>5 DEF Lower
  <2>2. ASSUME NEW k \in Unread'
        PROVE  ((Lower(k) /\ (writeBeforeRead \/ Sought <= At(k))) \/ Upper(k))'
    <3>1. CASE k \in Unread
      BY <1>1, <1>6, <1>8, <1>10, <3>1 DEF RingInv, OrderInv
    <3>2. CASE k = n
      BY <1>1, <1>5, <1>6, <2>1, <3>2 DEF RingInv, OrderInv
    <3> QED BY <1>7, <3>1, <3>2
  <2>3. ASSUME NEW i \in Unread', NEW k \in Unread', i < k
        PROVE  ((End(i) <= At(k) /\ (Lower(i) => Lower(k))) \/ (Upper(i) /\ Lower(k)))'
    <3>1. CASE i \in Unread /\ k \in Unread
      <4>1. (End(i) <= At(k) /\ (Lower(i) => Lower(k))) \/ (Upper(i) /\ Lower(k))
        BY <2>3, <3>1 DEF RingInv, OrderInv
      <4> QED BY <1>8, <1>10, <3>1, <4>1
    <3>2. CASE i \in Unread /\ k = n
      <4>1. Lower(i) => End(i)' <= At(k)'
        BY <1>5, <1>8, <3>2 DEF Lower
      <4> QED BY <1>10, <2>1, <3>2, <4>1
    <3>3. CASE i = n
      BY <1>3, <1>7, <1>8, <2>3, <3>3
    <3> QED BY <1>7, <3>1, <3>2, <3>3
  <2>4. ~writeBeforeRead => Sought <= writePosition'
    BY <1>2, <1>6 DEF RingInv, OrderInv
  <2>5. writeBeforeRead => Written' > 0 /\ mpc \notin {"return", "returnAgain"}
    BY <1>3, <1>w DEF RingInv, OrderInv
  <2>6. mpc \in {"rewind", "rewindAgain"} =>
          writeBeforeRead /\ \A k \in Unread' : Lower(k)'
    BY <1>7, <1>10, <2>1 DEF RingInv, OrderInv
  <2> QED BY <1>1, <1>6, <1>9, <2>2, <2>3, <2>4, <2>5, <2>6 DEF OrderInv
<1> QED BY <1>11, <1>12, <1>13, <1>14, <1>15, <1>16 DEF RingInv

\* The collector's steps on its way to the next packet.
LEMMA ReaderFrame ==
  ASSUME TypeInv, RingInv, Passed' = Passed,
         UNCHANGED <<listenerVars, blockVars, writerVars, storeVars>>
  PROVE  /\ LayoutInv' /\ MemoryInv'
         /\ Written' = Written /\ Unread' = Unread
         /\ \A n : At(n)' = At(n) /\ End(n)' = End(n) /\ Behind(n)' = Behind(n)
         /\ \A n : Lower(n)' = Lower(n)
         /\ UNCHANGED <<lpc, len, packets, mem, writePosition, popped, stored>>
<1>1. UNCHANGED <<lpc, len, packets, mem, writePosition, popped, stored>>
  BY DEF listenerVars, blockVars, writerVars, storeVars
<1>2. /\ Written' = Written /\ Unread' = Unread
      /\ \A n : At(n)' = At(n) /\ End(n)' = End(n) /\ Behind(n)' = Behind(n)
      /\ LayoutInv' /\ MemoryInv'
  BY <1>1, SamePackets DEF RingInv
<1>3. \A n : Lower(n)' = Lower(n)
  BY <1>1, <1>2 DEF Lower
<1> QED BY <1>1, <1>2, <1>3

\* No length field fits behind packet d: the next packet lies at the start, and
\* everything that is to be found lies before the writer.
LEMMA EndReached ==
  ASSUME TypeInv, RingInv, mpc \in {"advance", "rewind"}, AtEnd(Behind(Passed))
  PROVE  /\ At(Passed + 1) = 0 /\ Behind(Passed) > 0
         /\ writeBeforeRead /\ \A n \in Unread : Lower(n)
<1> DEFINE q == Passed + 1
<1>1. /\ q \in Unread /\ Passed \in Passed .. Written - 1 /\ ~Turning /\ ~Turned
  BY PacketLeft DEF Popping, Turning, Turned
<1>2. At(q) = 0
  BY <1>1, NextIsFound
<1>3. Behind(Passed) > 0 /\ Sought = Behind(Passed)
  <2>1. /\ End(q) < Size /\ End(q) > At(q) + 2 /\ At(q) \in Nat /\ End(q) \in Nat
        /\ Size \in Nat /\ Behind(Passed) \in Nat /\ Field = 2
    BY <1>1, Numbers
  <2>2. Behind(Passed) > 0
    BY <2>1 DEF AtEnd
  <2> QED BY <1>1, <2>2 DEF Sought
<1>4. writeBeforeRead
  BY <1>1, <1>2, <1>3 DEF RingInv, JumpInv
<1> QED BY <1>1, <1>2, <1>3, <1>4, AllLower

LEMMA AdvanceRing ==
  ASSUME TypeInv, RingInv, Advance
  PROVE  RingInv'
<1>1. /\ mpc = "advance" /\ Resting
      /\ readPosition' = readPosition + packetSize
      /\ mpc' = IF AtEnd(readPosition') THEN "rewind" ELSE "length"
      /\ UNCHANGED <<packetSize, writeBeforeRead>>
      /\ UNCHANGED <<listenerVars, blockVars, writerVars, storeVars>>
  BY DEF Advance, Resting
<1>2. Passed' = Passed
  BY <1>1 DEF Passed, storeVars
<1>3. readPosition' = Behind(Passed) /\ Sought = Behind(Passed)
  <2>1. Sought = Behind(Passed)
    BY <1>1 DEF Sought, Turned, Turning
  <2>2. CASE Passed = 0
    BY <1>1, <2>1, <2>2, PacketFacts DEF RingInv, ReaderInv
  <2>3. CASE Passed # 0
    <3>1. readPosition = At(Passed) + Field /\ packetSize = packets[Passed].len
      BY <1>1, <2>3 DEF RingInv, ReaderInv
    <3>2. Passed \in 1 .. Written /\ Passed \in 0 .. Written
      BY <2>3, Numbers
    <3>3. /\ Behind(Passed) = End(Passed) /\ End(Passed) = At(Passed) + 2 + packets[Passed].len
          /\ At(Passed) \in Nat /\ packets[Passed].len \in Nat /\ Field = 2
      BY <2>3, <3>2, PacketFacts DEF RingInv
    <3> QED BY <1>1, <2>1, <3>1, <3>3
  <2> QED BY <2>2, <2>3
<1>4. /\ LayoutInv' /\ MemoryInv'
      /\ Written' = Written /\ Unread' = Unread
      /\ \A n : At(n)' = At(n) /\ End(n)' = End(n) /\ Behind(n)' = Behind(n)
      /\ \A n : Lower(n)' = Lower(n)
      /\ UNCHANGED <<lpc, len, packets, mem, writePosition, popped, stored>>
  BY <1>1, <1>2, ReaderFrame
<1>5. /\ ~Turned /\ ~Turned' /\ ~Turning' /\ ~Resting' /\ Sought' = Sought
      /\ \A n : Upper(n)' = Upper(n)
  <2>1. ~Turned /\ ~Turning'
    BY <1>1 DEF Turned, Turning
  <2>2. ~Turned'
    BY <1>1, <1>2, <1>3, <1>4, <2>1 DEF Turned, AtEnd
  <2>3. Sought' = Sought
    BY <1>2, <1>4, <2>1, <2>2 DEF Sought
  <2> QED BY <1>1, <1>4, <2>1, <2>2, <2>3 DEF Upper, Resting
<1>6. WriterInv' /\ JumpInv'
  BY <1>1, <1>2, <1>4, <1>5 DEF RingInv, WriterInv, JumpInv, Zeroed, ReachesEnd
<1>7. ReaderInv'
  BY <1>1, <1>2, <1>3, <1>4, <1>5 DEF ReaderInv, AtEnd
<1>8. OrderInv'
  <2>1. mpc' \in {"rewind", "rewindAgain"} => writeBeforeRead /\ \A n \in Unread : Lower(n)
    BY <1>1, <1>3, EndReached
  <2>2. /\ readPosition \in Nat /\ readPosition' \in Nat /\ readPosition <= readPosition'
        /\ writePosition \in Nat /\ Field = 2 /\ len \in Nat
    BY <1>1, Numbers
  <2>3. writeBeforeRead =>
          /\ writePosition <= readPosition'
          /\ lpc = "copy" => writePosition + Field + len <= readPosition'
    BY <2>2 DEF RingInv, OrderInv
  <2> QED BY <1>1, <1>4, <1>5, <2>1, <2>3 DEF RingInv, OrderInv
<1> QED BY <1>4, <1>6, <1>7, <1>8 DEF RingInv

LEMMA RewindRing ==
  ASSUME TypeInv, RingInv, Rewind
  PROVE  RingInv'
<1>1. /\ \/ mpc = "rewind" /\ mpc' = "return"
         \/ mpc = "rewindAgain" /\ mpc' = "returnAgain"
      /\ writeBeforeRead' = FALSE
      /\ UNCHANGED <<readPosition, packetSize>>
      /\ UNCHANGED <<listenerVars, blockVars, writerVars, storeVars>>
  BY DEF Rewind, readerVars
<1>2. Passed' = Passed
  BY <1>1 DEF Passed, storeVars
<1>3. writeBeforeRead /\ \A n \in Unread : Lower(n) /\ ~Upper(n)
  BY <1>1, LowerOrUpper DEF RingInv, OrderInv
<1>4. /\ LayoutInv' /\ MemoryInv'
      /\ Written' = Written /\ Unread' = Unread
      /\ \A n : At(n)' = At(n) /\ End(n)' = End(n) /\ Behind(n)' = Behind(n)
      /\ \A n : Lower(n)' = Lower(n)
      /\ UNCHANGED <<lpc, len, packets, mem, writePosition, popped, stored>>
  BY <1>1, <1>2, ReaderFrame
<1>5. Turning' /\ Turned' /\ ~Resting' /\ Sought' = 0
  BY <1>1 DEF Turning, Turned, Resting, Sought
<1>6. WriterInv'
  <2>1. Passed + 1 \in Unread
    BY <1>1, PacketLeft DEF Popping
  <2>2. writePosition # 0
    BY <1>3, <2>1, Numbers DEF Lower
  <2>3. writePosition = Behind(Written)
    BY <2>2 DEF RingInv, WriterInv
  <2> QED BY <1>1, <1>3, <1>4, <2>3 DEF RingInv, WriterInv
<1>7. JumpInv'
  <2> SUFFICES ASSUME NEW d \in Passed .. Written - 1, At(d + 1) # Behind(d)
               PROVE  At(d + 1) = 0 /\ d = Passed
    BY <1>2, <1>4, <1>5 DEF JumpInv
  <2>1. At(d + 1) = 0
    BY DEF RingInv, JumpInv
  <2>2. SUFFICES ASSUME d # Passed PROVE FALSE
    BY <2>1
  <2>3. d \in Unread /\ d + 1 \in Unread /\ d < d + 1
    BY <2>2, Numbers DEF Unread
  <2>4. ~(End(d) <= At(d + 1))
    BY <2>1, <2>3, Numbers
  <2> QED BY <1>3, <2>3, <2>4 DEF RingInv, OrderInv
<1>8. ReaderInv'
  <2>1. At(Passed + 1) = 0
    <3>1. CASE mpc = "rewind"
      BY <3>1, EndReached DEF RingInv, ReaderInv
    <3>2. CASE mpc = "rewindAgain"
      BY <3>2 DEF RingInv, ReaderInv, Turning
    <3> QED BY <1>1, <3>1, <3>2
  <2>2. At(Passed + 1)' = 0
    BY <1>2, <1>4, <2>1
  <2> QED BY <1>1, <1>2, <1>4, <1>5, <2>2 DEF RingInv, ReaderInv, AtEnd
<1>9. OrderInv'
  <2>1. \A n \in Unread : 0 <= At(n)
    BY Numbers
  <2>2. \A m, n \in Unread : m < n => End(m) <= At(n)
    BY <1>3 DEF RingInv, OrderInv
  <2>3. 0 <= writePosition /\ writePosition <= readPosition
    BY <1>3, Numbers DEF RingInv, OrderInv
  <2> QED BY <1>1, <1>2, <1>3, <1>4, <1>5, <2>1, <2>2, <2>3 DEF OrderInv
<1> QED BY <1>4, <1>6, <1>7, <1>8, <1>9 DEF RingInv

LEMMA ReturnRing ==
  ASSUME TypeInv, RingInv, ReturnToStart
  PROVE  RingInv'
<1>1. /\ mpc = "return" /\ mpc' = "length" /\ readPosition' = 0
      /\ UNCHANGED <<packetSize, writeBeforeRead>>
      /\ UNCHANGED <<listenerVars, blockVars, writerVars, storeVars>>
  BY DEF ReturnToStart
<1>2. Passed' = Passed /\ ~writeBeforeRead /\ AtEnd(Behind(Passed))
  BY <1>1 DEF Passed, storeVars, RingInv, OrderInv, ReaderInv
<1>3. /\ LayoutInv' /\ MemoryInv'
      /\ Written' = Written /\ Unread' = Unread
      /\ \A n : At(n)' = At(n) /\ End(n)' = End(n) /\ Behind(n)' = Behind(n)
      /\ \A n : Lower(n)' = Lower(n)
      /\ UNCHANGED <<lpc, len, packets, mem, writePosition, popped, stored>>
  BY <1>1, <1>2, ReaderFrame
<1>4. /\ Turned /\ Turned' /\ ~Turning' /\ ~Resting' /\ Sought = 0 /\ Sought' = 0
      /\ \A n : ~Upper(n) /\ ~Upper(n)'
  BY <1>1, <1>2, <1>3 DEF Turned, Turning, Resting, Sought, AtEnd, Upper
<1>5. WriterInv' /\ JumpInv'
  BY <1>1, <1>2, <1>3, <1>4 DEF RingInv, WriterInv, JumpInv, Zeroed, ReachesEnd
<1>6. ReaderInv'
  BY <1>1, <1>2, <1>3, <1>4 DEF ReaderInv
<1>7. OrderInv'
  BY <1>1, <1>2, <1>3, <1>4 DEF RingInv, OrderInv
<1> QED BY <1>3, <1>5, <1>6, <1>7 DEF RingInv

\* The collector has the length of the next packet.
LEMMA PassRing ==
  ASSUME TypeInv, RingInv, mpc \in Popping \ {"pop"}, mpc' = "pop",
         readPosition' = At(Passed + 1) + Field,
         packetSize' = packets[Passed + 1].len,
         writeBeforeRead => readPosition = At(Passed + 1),
         UNCHANGED writeBeforeRead,
         UNCHANGED <<listenerVars, blockVars, writerVars, storeVars>>
  PROVE  RingInv'
<1> DEFINE q == Passed + 1
<1>1. /\ UNCHANGED <<lpc, len, packets, mem, writePosition, popped, stored>>
      /\ Passed = popped /\ Passed' = q
  <2>1. UNCHANGED <<lpc, len, packets, mem, writePosition, popped, stored>>
    BY DEF listenerVars, blockVars, writerVars, storeVars
  <2> QED BY <2>1, PacketLeft DEF Passed
<1>2. /\ q \in Unread /\ q \in 1 .. Written /\ q \in 0 .. Written /\ q \in Nat
      /\ Passed \in Nat /\ Written \in Nat
      /\ At(q) \in Nat /\ End(q) \in Nat /\ Field = 2 /\ Behind(q) = End(q)
      /\ writePosition \in Nat /\ readPosition \in Nat /\ len \in Nat
  <2>1. q \in Unread
    BY PacketLeft
  <2>2. q \in 1 .. Written /\ q \in 0 .. Written /\ q \in Nat /\ Passed \in Nat /\ Written \in Nat
    BY <2>1, Numbers
  <2>3. q # 0
    BY <2>2
  <2>4. Behind(q) = End(q)
    BY <2>2, <2>3, PacketFacts DEF RingInv
  <2> QED BY <2>1, <2>2, <2>4, Numbers
<1>3. /\ Written' = Written
      /\ \A n : At(n)' = At(n) /\ End(n)' = End(n) /\ Behind(n)' = Behind(n)
      /\ LayoutInv'
  BY <1>1, SamePackets DEF RingInv
<1>4. Unread' \subseteq Unread /\ \A n \in Unread' : n \in Unread /\ q < n
  <2>1. Unread' = q + 1 .. Written /\ Unread = q .. Written
    BY <1>1, <1>3 DEF Unread
  <2> HIDE DEF q
  <2> QED BY <1>2, <2>1
<1>5. Behind(Passed)' = End(q) /\ At(Passed)' = At(q)
  BY <1>1, <1>2, <1>3
<1>6. /\ ~Turned' /\ ~Turning' /\ Resting' /\ Sought' = End(q)
      /\ \A n : Lower(n)' = Lower(n)
      /\ \A n : Upper(n)' = (writeBeforeRead /\ End(q) <= At(n))
  <2>1. ~Turned' /\ ~Turning' /\ Resting'
    BY DEF Turned, Turning, Resting
  <2>2. Sought' = End(q)
    BY <1>5, <2>1 DEF Sought
  <2>3. \A n : Lower(n)' = Lower(n)
    BY <1>1, <1>3 DEF Lower
  <2>4. \A n : Upper(n)' = (writeBeforeRead /\ End(q) <= At(n))
    BY <1>3, <2>2 DEF Upper
  <2> QED BY <2>1, <2>2, <2>3, <2>4
\* What comes after it lies behind it, unless it is the last before the jump.
<1>7. ASSUME NEW n \in Unread, q < n
      PROVE  /\ End(q) <= At(n) \/ (writeBeforeRead /\ Lower(n))
             /\ Upper(n) => End(q) <= At(n)
             /\ Lower(n) \/ (writeBeforeRead /\ End(q) <= At(n))
  <2>1. \/ End(q) <= At(n) /\ (Lower(q) => Lower(n))
        \/ Upper(q) /\ Lower(n)
    BY <1>2, <1>7 DEF RingInv, OrderInv
  <2>2. Upper(q) => writeBeforeRead
    BY DEF Upper
  <2>3. Upper(n) => ~Lower(n)
    BY LowerOrUpper
  <2>4. Lower(n) \/ Upper(n)
    BY DEF RingInv, OrderInv
  <2>5. Upper(n) => writeBeforeRead
    BY DEF Upper
  <2> HIDE DEF q
  <2> QED BY <2>1, <2>2, <2>3, <2>4, <2>5
<1>8. WriterInv'
  BY <1>1, <1>3 DEF RingInv, WriterInv, Zeroed, ReachesEnd
<1>9. JumpInv'
  <2> SUFFICES ASSUME NEW d \in q .. Written - 1, At(d + 1) # Behind(d)
               PROVE  At(d + 1) = 0 /\ writeBeforeRead /\ Zeroed(Behind(d))
    BY <1>1, <1>3 DEF JumpInv, Zeroed
  <2>1. d \in Passed .. Written - 1 /\ d # Passed
    BY <1>2
  <2> QED BY <2>1 DEF RingInv, JumpInv
<1>10. MemoryInv'
  BY <1>1, <1>4, SamePackets DEF RingInv
<1>11. ReaderInv'
  BY <1>1, <1>2, <1>5, <1>6 DEF ReaderInv
<1>12. OrderInv'
  <2>1. ASSUME NEW n \in Unread'
        PROVE  ((Lower(n) /\ (writeBeforeRead \/ Sought <= At(n))) \/ Upper(n))'
    <3>1. End(q) <= At(n) \/ (writeBeforeRead /\ Lower(n))
      BY <1>4, <1>7
    <3>2. Lower(n) \/ (writeBeforeRead /\ End(q) <= At(n))
      BY <1>4, <1>7
    <3> QED BY <1>3, <1>6, <3>1, <3>2
  <2>2. ASSUME NEW m \in Unread', NEW n \in Unread', m < n
        PROVE  ((End(m) <= At(n) /\ (Lower(m) => Lower(n))) \/ (Upper(m) /\ Lower(n)))'
    <3>1. (End(m) <= At(n) /\ (Lower(m) => Lower(n))) \/ (Upper(m) /\ Lower(n))
      BY <1>4, <2>2 DEF RingInv, OrderInv
    <3>2. Upper(m) => writeBeforeRead /\ End(q) <= At(m)
      BY <1>4, <1>7 DEF Upper
    <3> QED BY <1>3, <1>6, <3>1, <3>2
  <2>3. ~writeBeforeRead => End(q) <= writePosition
    BY <1>2 DEF RingInv, OrderInv, Lower, Upper
  <2>4. writeBeforeRead =>
          /\ Written > 0 /\ writePosition <= At(q) + Field
          /\ lpc = "copy" => writePosition + Field + len <= At(q) + Field
    BY <1>2 DEF RingInv, OrderInv
  <2> QED BY <1>1, <1>3, <1>6, <2>1, <2>2, <2>3, <2>4 DEF OrderInv
<1> QED BY <1>3, <1>8, <1>9, <1>10, <1>11, <1>12 DEF RingInv

LEMMA ReadLengthRing ==
  ASSUME TypeInv, RingInv, ReadLength
  PROVE  RingInv'
<1> DEFINE q == Passed + 1
<1>1. /\ mpc \in {"length", "returnAgain"} /\ mpc \in Popping \ {"pop"}
      /\ UNCHANGED writeBeforeRead
      /\ UNCHANGED <<listenerVars, blockVars, writerVars, storeVars>>
  BY DEF ReadLength, Popping
<1>2. q \in Unread /\ Passed \in Passed .. Written - 1 /\ Passed = popped /\ Field = 2
  BY <1>1, PacketLeft, Numbers
<1>3. CASE mpc = "length"
  <2> DEFINE p == IF AtEnd(Behind(Passed)) THEN 0 ELSE Behind(Passed)
  <2>1. ~Turning /\ Sought = p
    BY <1>3 DEF Turning, Turned, Sought
  <2>2. /\ readPosition = p /\ packetSize' \in LengthsAt(p) /\ readPosition' = p + Field
        /\ mpc' = IF packetSize' = 0 THEN "rewindAgain" ELSE "pop"
    BY <1>3, <2>1 DEF RingInv, ReaderInv, ReadLength
  <2>3. /\ LengthsAt(At(q)) = {packets[q].len} /\ packets[q].len # 0
        /\ \/ At(q) = p
           \/ /\ At(q) = 0 /\ p = Behind(Passed) /\ p > 0 /\ ~AtEnd(p)
              /\ writeBeforeRead /\ LengthsAt(p) = {0}
    BY <1>2, <2>1, NextIsFound
  <2> HIDE DEF p
  <2>4. CASE At(q) = p
    <3>1. packetSize' = packets[q].len /\ readPosition' = At(q) + Field /\ mpc' = "pop"
      BY <2>2, <2>3, <2>4
    <3> QED BY <1>1, <2>2, <2>4, <3>1, PassRing
  <2>5. CASE /\ At(q) = 0 /\ p = Behind(Passed) /\ p > 0 /\ ~AtEnd(p)
             /\ writeBeforeRead /\ LengthsAt(p) = {0}
    <3>1. readPosition' = Behind(Passed) + Field /\ mpc' = "rewindAgain"
      BY <2>2, <2>5
    <3>2. Passed' = Passed
      BY <1>1, <1>3, <3>1 DEF Passed, storeVars
    <3>3. /\ LayoutInv' /\ MemoryInv'
          /\ Written' = Written /\ Unread' = Unread
          /\ \A n : At(n)' = At(n) /\ End(n)' = End(n) /\ Behind(n)' = Behind(n)
          /\ \A n : Lower(n)' = Lower(n)
          /\ UNCHANGED <<lpc, len, packets, mem, writePosition, popped, stored>>
      BY <1>1, <3>2, ReaderFrame
    <3>4. \A n \in Unread : Lower(n) /\ ~Upper(n)
      BY <1>2, <2>1, <2>5, AllLower, LowerOrUpper
    <3>5. Turning' /\ Turned' /\ ~Resting' /\ ~Turned
      BY <1>3, <2>1, <2>5, <3>1 DEF Turning, Turned, Resting
    <3>6. WriterInv' /\ JumpInv'
      BY <1>1, <3>2, <3>3, <3>5 DEF RingInv, WriterInv, JumpInv, Zeroed, ReachesEnd
    <3>7. ReaderInv'
      <4>1. At(Passed + 1)' = 0
        BY <2>5, <3>2, <3>3
      <4> QED BY <3>1, <3>2, <3>3, <3>5, <4>1 DEF ReaderInv
    <3>8. OrderInv'
      <4>1. /\ readPosition \in Nat /\ readPosition' \in Nat /\ readPosition <= readPosition'
            /\ writePosition \in Nat /\ len \in Nat
        BY <1>2, <2>2, <2>5, Numbers
      <4>2. /\ Written > 0 /\ writePosition <= readPosition'
            /\ lpc = "copy" => writePosition + Field + len <= readPosition'
        BY <1>2, <2>5, <4>1 DEF RingInv, OrderInv
      <4>3. \A m, n \in Unread : m < n => End(m) <= At(n)
        BY <3>4 DEF RingInv, OrderInv
      <4> QED BY <1>1, <2>5, <3>1, <3>3, <3>4, <4>2, <4>3 DEF OrderInv
    <3> QED BY <3>3, <3>6, <3>7, <3>8 DEF RingInv
  <2> QED BY <2>3, <2>4, <2>5
<1>4. CASE mpc = "returnAgain"
  <2>1. At(q) = 0 /\ ~writeBeforeRead
    BY <1>4 DEF RingInv, ReaderInv, OrderInv, Turning
  <2>2. LengthsAt(0) = {packets[q].len}
    BY <1>2, <2>1, FoundAt
  <2>3. packetSize' = packets[q].len /\ readPosition' = At(q) + Field /\ mpc' = "pop"
    BY <1>2, <1>4, <2>1, <2>2 DEF ReadLength
  <2> QED BY <1>1, <2>1, <2>3, PassRing
<1> QED BY <1>1, <1>3, <1>4

LEMMA PopRing ==
  ASSUME TypeInv, RingInv, PopPacket
  PROVE  RingInv'
<1>1. /\ mpc = "pop" /\ mpc' \in {"lock", "advance"}
      /\ popped' = popped + 1 /\ stored' = stored - 1
      /\ UNCHANGED <<lpc, len>>
      /\ UNCHANGED <<blockVars, writerVars, readerVars, writeBeforeRead>>
  BY DEF PopPacket, listenerVars
<1>2. popped \in Nat /\ stored \in Nat
  BY Numbers
<1>3. Passed' = Passed /\ popped' + stored' = popped + stored
  BY <1>1, <1>2 DEF Passed
<1>4. Written = popped' + stored' + IF lpc' = "push" THEN 1 ELSE 0
  BY <1>1, <1>3 DEF RingInv, WriterInv
<1> QED BY <1>1, <1>3, <1>4, QuietRing

LEMMA RingStep ==
  ASSUME TypeInv, RingInv, [Next]_vars, [ZeroesOnlyRead]_vars
  PROVE  RingInv'
<1>0. Written = popped + stored + IF lpc = "push" THEN 1 ELSE 0
  BY DEF RingInv, WriterInv
<1>1. CASE ReceivePacket
  <2>1. lpc' # lpc
    BY <1>1 DEF ReceivePacket
  <2>2. ZeroesOnlyRead
    BY <2>1 DEF vars, listenerVars
  <2> QED BY <1>1, <2>2, ReceiveRing
<1>2. CASE JumpToStart \/ CheckSpace \/ CopyPacket
  BY <1>2, JumpRing, CheckRing, CopyRing
<1>3. CASE Advance \/ Rewind \/ ReturnToStart \/ ReadLength \/ PopPacket
  BY <1>3, AdvanceRing, RewindRing, ReturnRing, ReadLengthRing, PopRing
<1>4. CASE PushPacket
  <2>1. /\ lpc = "push" /\ lpc' = "post" /\ stored' = stored + 1
        /\ mpc \notin {"return", "returnAgain"}
        /\ UNCHANGED <<popped, mpc>>
        /\ UNCHANGED <<blockVars, writerVars, readerVars, writeBeforeRead>>
    BY <1>4 DEF PushPacket, StoreLocked, managerVars
  <2>2. Written = popped' + stored' + 0
    <3>1. popped \in Nat /\ stored \in Nat
      BY Numbers
    <3> QED BY <1>0, <2>1, <3>1
  <2>3. Passed' = Passed
    BY <2>1 DEF Passed
  <2> QED BY <2>1, <2>2, <2>3, QuietRing
<1>5. ASSUME UNCHANGED <<blockVars, writerVars, readerVars, writeBeforeRead, stored, popped>>,
             \/ mpc' = mpc
             \/ {mpc, mpc'} \subseteq {"lock", "notify", "wait", "clear", "advance"},
             UNCHANGED <<lpc, len>> \/ (lpc = "post" /\ lpc' = "idle")
      PROVE  RingInv'
  <2>1. Passed' = Passed
    BY <1>5 DEF Passed
  <2>2. Written = popped' + stored' + IF lpc' = "push" THEN 1 ELSE 0
    BY <1>0, <1>5
  <2> QED BY <1>5, <2>1, <2>2, QuietRing
<1>6. CASE NewPacket
  BY <1>5, <1>6 DEF NewPacket, storeVars, managerVars
<1>7. CASE BeginRound \/ Notify \/ WaitModule
  BY <1>5, <1>7
  DEF BeginRound, Notify, WaitModule, NextModule, listenerVars, storeVars
<1>8. CASE ClearSink
  <2>1. mpc = "clear" /\ mpc' \in {"lock", "advance"}
    BY <1>8 DEF ClearSink
  <2> QED BY <1>5, <1>8, <2>1 DEF ClearSink, listenerVars, storeVars
<1>9. ASSUME NEW m \in Modules, ModuleThread(m)
      PROVE  RingInv'
  BY <1>5, <1>9
  DEF ModuleThread, WaitForPackets, BeginImport, ImportPacket, NotifyDone,
      listenerVars, storeVars, managerVars
<1>10. CASE UNCHANGED vars
  BY <1>5, <1>10 DEF vars, listenerVars, storeVars, managerVars
<1> QED
  BY <1>1, <1>2, <1>3, <1>4, <1>6, <1>7, <1>8, <1>9, <1>10
  DEF Next, Listener, ManagerThread

LEMMA RingInit == ASSUME Init PROVE RingInv
<1>1. /\ packets = <<>> /\ Len(packets) = 0 /\ Written = 0 /\ popped = 0 /\ stored = 0
      /\ writePosition = 0 /\ readPosition = 0 /\ packetSize = 0
      /\ writeBeforeRead = FALSE /\ lpc = "idle" /\ mpc = "lock"
  BY DEF Init, Written
<1>2. /\ Passed = 0 /\ Unread = {} /\ 1 .. Written = {} /\ Passed .. Written - 1 = {}
      /\ Behind(Written) = 0 /\ Behind(Passed) = 0
  BY <1>1 DEF Passed, Unread, Behind
<1>3. LayoutInv /\ JumpInv /\ MemoryInv
  BY <1>2 DEF LayoutInv, JumpInv, MemoryInv
<1>4. WriterInv /\ ReaderInv
  BY <1>1, <1>2 DEF WriterInv, ReaderInv, Turning
<1>5. OrderInv
  <2>1. Sought = 0
    BY <1>2 DEF Sought
  <2> QED BY <1>1, <1>2, <2>1 DEF OrderInv
<1> QED BY <1>3, <1>4, <1>5 DEF RingInv

\* The block has room for three packets that fit.
Roomy == \A l \in Lengths : l <= Size => 3 * l + 2 * Field <= Size

\* When all has been passed over, there is space behind the writer or at the
\* start.
LEMMA IdleAccepts ==
  ASSUME Fitting, Roomy, TypeInv, RingInv
  PROVE  IdleBlockAccepts
<1> SUFFICES ASSUME stored = 0, lpc = "idle", mpc = "lock", NEW l \in Lengths, l <= Size
             PROVE  Accepts(l)
  BY DEF IdleBlockAccepts
<1>1. /\ Field = 2 /\ l \in Nat /\ l >= 1 /\ Size \in Nat /\ l + 2 < Size
      /\ 3 * l + 4 <= Size
      /\ writePosition \in Nat /\ readPosition \in Nat /\ popped \in Nat
  BY Numbers, Constants DEF Fitting, Roomy
<1>2. Written = popped /\ Passed = popped
  BY <1>1 DEF RingInv, WriterInv, Passed
<1>3. CASE popped = 0
  <2>1. writePosition = 0 /\ ~writeBeforeRead
    BY <1>2, <1>3, PacketFacts DEF RingInv, WriterInv, OrderInv
  <2>2. ~ReachesEnd(l)
    BY <1>1, <2>1 DEF ReachesEnd
  <2> QED BY <2>1, <2>2 DEF Accepts
<1>4. CASE popped # 0
  <2>1. popped \in 1 .. Written /\ popped \in 0 .. Written
    BY <1>1, <1>2, <1>4
  <2>2. readPosition = At(popped) + 2
    BY <1>1, <1>2, <1>4 DEF RingInv, ReaderInv, Resting
  <2> DEFINE k == packets[popped].len
  <2>3. /\ At(popped) \in Nat /\ k \in Nat /\ k >= 1 /\ End(popped) < Size
        /\ Behind(popped) = At(popped) + 2 + k
    BY <1>4, <2>1, PacketFacts DEF RingInv
  <2>4. 3 * k + 4 <= Size
    <3>1. k \in Lengths /\ k <= Size
      <4>1. k \in Lengths
        BY <2>1 DEF RingInv, LayoutInv
      <4>2. k <= Size
        BY <1>1, <1>4, <2>1, <2>3, PacketFacts DEF RingInv
      <4> QED BY <4>1, <4>2
    <3> HIDE DEF k
    <3> QED BY <1>1, <2>3, <3>1 DEF Roomy
  <2> HIDE DEF k
  <2>5. CASE writePosition = Behind(popped)
    <3>1. ~writeBeforeRead
      <4>1. writeBeforeRead => writePosition <= readPosition
        BY DEF RingInv, OrderInv
      <4> QED BY <1>1, <2>2, <2>3, <2>5, <4>1
    <3>2. ReachesEnd(l) => readPosition < writePosition /\ l + Field <= readPosition
      BY <1>1, <2>2, <2>3, <2>4, <2>5 DEF ReachesEnd
    <3> QED BY <3>1, <3>2 DEF Accepts
  <2>6. CASE writePosition # Behind(popped)
    <3>1. writePosition = 0 /\ \E h \in Lengths : h <= Size /\ Behind(popped) + h + Field >= Size
      BY <1>2, <2>6 DEF RingInv, WriterInv
    <3>2. PICK h \in Lengths : h <= Size /\ Behind(popped) + h + Field >= Size
      BY <3>1
    <3>3. h \in Nat /\ 3 * h + 4 <= Size
      BY <1>1, <3>2, Constants DEF Roomy
    <3>4. l <= At(popped)
      BY <1>1, <2>3, <2>4, <3>2, <3>3
    <3>5. ~ReachesEnd(l) /\ writePosition + l + Field <= readPosition
      BY <1>1, <2>2, <2>3, <3>1, <3>4 DEF ReachesEnd
    <3> QED BY <3>5 DEF Accepts
  <2> QED BY <2>5, <2>6
<1> QED BY <1>3, <1>4

-----------------------------------------------------------------------------
(* One module.                                                             *)

\* How far it has come in the announced range.
Progress(m) ==
  IF mpc = "wait" /\ dpc[m] = "import" THEN Minus(pos[m], from)
  ELSE IF mpc = "wait" /\ (dpc[m] = "notify" \/ (dpc[m] = "wait" /\ sem[m] = 0))
  THEN Minus(to, from)
  ELSE IF mpc = "clear" THEN Minus(to, from)
  ELSE IF mpc \in Popping THEN count ELSE 0

\* The last packet that it has found.
Reached(m) == popped + Progress(m)

ModuleInv ==
  /\ parsed \in [Modules -> SUBSET Nat]
  /\ \A m \in Modules :
       /\ dpc[m] = "import" => Minus(pos[m], from) <= Minus(to, from)
       /\ parsed[m] = 1 .. Reached(m)
       /\ reader[m] = IF Reached(m) = 0
                      THEN [readPosition |-> 0, packetSize |-> 0]
                      ELSE [readPosition |-> At(Reached(m)) + Field,
                            packetSize |-> packets[Reached(m)].len]

\* It works in the time that the manager waits for it; it has come no farther
\* than to what was announced, and that is stored.
LEMMA OneModule ==
  ASSUME NumModules = 1, TypeInv
  PROVE  /\ Modules = {1} /\ cur = 1
         /\ dpc[1] # "wait" \/ sem[1] # 0 => mpc = "wait"
         /\ dpc[1] = "wait" /\ sem[1] # 0 => sem[1] = 2
         /\ dpc[1] # "wait" => sem[1] = 1
         /\ pos[1] \in Counter /\ from \in Counter /\ to \in Counter
         /\ pos \in [Modules -> Counter] /\ sem \in [Modules -> 0 .. 2]
         /\ dpc \in [Modules -> {"wait", "begin", "import", "notify"}]
<1>1. Modules = {1} /\ cur = 1
  BY Constants DEF TypeInv, TypeOK
<1>2. /\ pos \in [Modules -> Counter] /\ sem \in [Modules -> 0 .. 2]
      /\ dpc \in [Modules -> {"wait", "begin", "import", "notify"}]
      /\ from \in Counter /\ to \in Counter
  BY DEF TypeInv, TypeOK
<1>3. /\ IF dpc[1] = "wait" THEN sem[1] \in {0, 2} ELSE sem[1] = 1
      /\ mpc \notin {"notify", "wait"} \/ mpc = "notify" => sem[1] = 0
  BY <1>1 DEF TypeInv, SemaphoreInv
<1> QED BY <1>1, <1>2, <1>3

LEMMA ReachedBound ==
  ASSUME NumModules = 1, TypeInv, RingInv, ModuleInv
  PROVE  /\ Reached(1) \in Nat /\ Reached(1) >= popped /\ Reached(1) <= popped + stored
         /\ Reached(1) \in 0 .. Written
         /\ Progress(1) \in Nat
<1>1. /\ Minus(pos[1], from) \in Nat /\ Minus(to, from) \in Nat
      /\ dpc[1] = "import" => Minus(pos[1], from) <= Minus(to, from)
  BY OneModule, MinusType DEF ModuleInv
<1>2. /\ mpc \in {"wait", "clear"} => Minus(to, from) <= stored
      /\ mpc \in Popping => count <= stored
      /\ count \in Nat /\ stored \in Nat /\ popped \in Nat /\ Written \in Nat
      /\ popped + stored <= Written
  BY Numbers, SMTT(30) DEF TypeInv, TypeOK, StoreInv
<1>3. Progress(1) \in Nat /\ Progress(1) <= stored
  BY <1>1, <1>2 DEF Progress
<1> QED BY <1>2, <1>3 DEF Reached

\* Steps by which it comes no farther.
LEMMA SameReached ==
  ASSUME NumModules = 1, TypeInv, RingInv, ModuleInv,
         UNCHANGED <<parsed, reader>>,
         Reached(1)' = Reached(1),
         \A n \in 1 .. Written : packets'[n] = packets[n],
         (dpc[1] = "import" => Minus(pos[1], from) <= Minus(to, from))'
  PROVE  ModuleInv'
<1>1. Modules = {1}
  BY OneModule
<1>2. /\ parsed[1] = 1 .. Reached(1)
      /\ reader[1] = IF Reached(1) = 0
                     THEN [readPosition |-> 0, packetSize |-> 0]
                     ELSE [readPosition |-> At(Reached(1)) + Field,
                           packetSize |-> packets[Reached(1)].len]
  BY <1>1 DEF ModuleInv
<1>3. PICK n \in 0 .. Written : n = Reached(1)
  BY ReachedBound
<1>4. n # 0 => packets'[n] = packets[n] /\ At(n)' = At(n)
  BY <1>3, Numbers DEF At
<1>5. Reached(1)' = n
  BY <1>3
<1>6. n # 0 => At(Reached(1))' = At(n) /\ packets[Reached(1)]' = packets[n]
  BY <1>4, <1>5
<1>7. parsed' \in [Modules -> SUBSET Nat]
  BY DEF ModuleInv
<1> QED BY <1>1, <1>2, <1>3, <1>5, <1>6, <1>7 DEF ModuleInv

LEMMA ModuleInitial == ASSUME NumModules = 1, Init PROVE ModuleInv
<1>1. Modules = {1} /\ popped = 0 /\ mpc = "lock" /\ dpc[1] = "wait"
      /\ parsed[1] = {} /\ reader[1] = [readPosition |-> 0, packetSize |-> 0]
  BY Constants DEF Init
<1>2. Reached(1) = 0
  BY <1>1 DEF Reached, Progress, Popping
<1>3. parsed[1] = 1 .. Reached(1)
  BY <1>1, <1>2
<1>4. parsed \in [Modules -> SUBSET Nat]
  BY DEF Init
<1> QED BY <1>1, <1>2, <1>3, <1>4 DEF ModuleInv

LEMMA MinusLess ==
  ASSUME NEW a \in Counter, NEW b \in Counter, NEW c \in Counter,
         a # b, Minus(a, c) <= Minus(b, c)
  PROVE  /\ Minus(Inc(a), c) = Minus(a, c) + 1
         /\ Minus(a, c) + 1 <= Minus(b, c)
<1>1. Minus(a, c) < Minus(b, c)
  BY MaxFilesAssumption DEF Minus, Counter
<1>2. Minus(a, c) \in Nat /\ Minus(b, c) \in Nat /\ Minus(b, c) < MAX_FILES /\ MAX_FILES \in Nat
  BY MinusType, MaxFilesAssumption
<1> QED BY <1>1, <1>2, MinusInc

\* What one pass of its loop finds is the next packet.
LEMMA ImportFinds ==
  ASSUME NumModules = 1, TypeInv, RingInv, ModuleInv,
         ImportPacket(1), pos[1] # to
  PROVE  /\ mpc = "wait" /\ dpc[1] = "import" /\ Reached(1) + 1 \in 1 .. popped + stored
         /\ parsed[1] = 1 .. Reached(1)
         /\ parsed' = [parsed EXCEPT ![1] = 1 .. Reached(1) + 1]
         /\ reader' = [reader EXCEPT ![1] =
              [readPosition |-> At(Reached(1) + 1) + Field,
               packetSize |-> packets[Reached(1) + 1].len]]
         /\ Minus(Inc(pos[1]), from) = Minus(pos[1], from) + 1
         /\ Minus(pos[1], from) + 1 <= Minus(to, from)
<1>1. /\ Modules = {1} /\ mpc = "wait" /\ dpc[1] = "import"
      /\ pos[1] \in Counter /\ from \in Counter /\ to \in Counter
  BY OneModule DEF ImportPacket
<1>2. /\ Minus(pos[1], from) <= Minus(to, from)
      /\ parsed[1] = 1 .. Reached(1)
      /\ reader[1] = IF Reached(1) = 0
                     THEN [readPosition |-> 0, packetSize |-> 0]
                     ELSE [readPosition |-> At(Reached(1)) + Field,
                           packetSize |-> packets[Reached(1)].len]
  BY <1>1 DEF ModuleInv
<1>3. /\ Minus(Inc(pos[1]), from) = Minus(pos[1], from) + 1
      /\ Minus(pos[1], from) + 1 <= Minus(to, from)
  BY <1>1, <1>2, MinusLess
<1> DEFINE d == Reached(1)
<1>4. /\ d \in Nat /\ d = popped + Minus(pos[1], from)
      /\ d \in popped .. Written - 1 /\ d + 1 \in 1 .. popped + stored
  <2>1. d = popped + Minus(pos[1], from) /\ d \in Nat /\ d >= popped
    BY <1>1, ReachedBound DEF Reached, Progress
  <2>2. Minus(to, from) <= stored
    BY <1>1 DEF TypeInv, StoreInv
  <2>3. /\ Minus(pos[1], from) \in Nat /\ Minus(to, from) \in Nat /\ stored \in Nat
        /\ popped \in Nat /\ Written \in Nat /\ popped + stored <= Written
    BY <1>1, MinusType, Numbers
  <2> HIDE DEF d
  <2> QED BY <1>3, <2>1, <2>2, <2>3
<1>5. NextField(1) = IF AtEnd(Behind(d)) THEN 0 ELSE Behind(d)
  <2>1. reader[1].readPosition + reader[1].packetSize = Behind(d)
    <3>1. CASE d = 0
      BY <1>2, <3>1, PacketFacts DEF RingInv
    <3>2. CASE d # 0
      <4>1. d \in 1 .. Written /\ d \in 0 .. Written
        BY <1>4, <3>2, Numbers
      <4>2. /\ Behind(d) = At(d) + 2 + packets[d].len /\ Field = 2
            /\ At(d) \in Nat /\ packets[d].len \in Nat
        BY <3>2, <4>1, PacketFacts DEF RingInv
      <4>3. reader[1].readPosition = At(d) + Field /\ reader[1].packetSize = packets[d].len
        BY <1>2, <3>2
      <4> HIDE DEF d
      <4> QED BY <4>2, <4>3
    <3> QED BY <3>1, <3>2
  <2> QED BY <2>1 DEF NextField
<1> DEFINE p == NextField(1)
<1>6. /\ d + 1 \in Unread
      /\ LengthsAt(At(d + 1)) = {packets[d + 1].len} /\ PacketAt(At(d + 1)) = {d + 1}
      /\ packets[d + 1].len # 0
      /\ At(d + 1) = p \/ (At(d + 1) = 0 /\ LengthsAt(p) = {0})
  <2>1. ~Turning /\ Passed = popped
    BY <1>1, Numbers DEF Turning, Passed
  <2>2. d \in Passed .. Written - 1
    BY <1>4, <2>1
  <2> HIDE DEF d
  <2> QED BY <1>5, <2>1, <2>2, NextIsFound
<1>7. Intact(d + 1)
  BY <1>6 DEF RingInv, MemoryInv
<1>8. \E l \in LengthsAt(p) :
         \/ l # 0 /\ ReadPacket(1, p, l)
         \/ l = 0 /\ \E k \in LengthsAt(0) : ReadPacket(1, 0, k)
  BY DEF ImportPacket
<1> HIDE DEF d, p
<1>9. PacketAt(At(d + 1)) = {d + 1} /\ ReadPacket(1, At(d + 1), packets[d + 1].len)
  BY <1>6, <1>7, <1>8
<1>10. reader' = [reader EXCEPT ![1] =
         [readPosition |-> At(d + 1) + Field, packetSize |-> packets[d + 1].len]]
  BY <1>9 DEF ReadPacket
<1>11. parsed' = [parsed EXCEPT ![1] = 1 .. d + 1]
  <2>1. parsed' = [parsed EXCEPT ![1] = @ \cup {d + 1}]
    BY <1>7, <1>9 DEF ReadPacket
  <2>2. parsed[1] \cup {d + 1} = 1 .. d + 1
    <3>1. parsed[1] = 1 .. d
      BY <1>2 DEF d
    <3> QED BY <1>4, <3>1
  <2> QED BY <2>1, <2>2
<1> QED BY <1>1, <1>2, <1>3, <1>4, <1>10, <1>11 DEF d

LEMMA ModuleStep ==
  ASSUME NumModules = 1, TypeInv, RingInv, ModuleInv, [Next]_vars,
         TypeInv', RingInv'
  PROVE  ModuleInv'
<1>0. /\ Modules = {1} /\ cur = 1
      /\ dpc[1] # "wait" \/ sem[1] # 0 => mpc = "wait"
      /\ dpc[1] = "wait" /\ sem[1] # 0 => sem[1] = 2
      /\ dpc[1] # "wait" => sem[1] = 1
      /\ pos[1] \in Counter /\ from \in Counter /\ to \in Counter
      /\ pos \in [Modules -> Counter] /\ sem \in [Modules -> 0 .. 2]
      /\ dpc \in [Modules -> {"wait", "begin", "import", "notify"}]
      /\ dpc[1] = "import" => Minus(pos[1], from) <= Minus(to, from)
      /\ parsed \in [Modules -> SUBSET Nat]
  BY OneModule DEF ModuleInv
<1>1. CASE Listener
  <2>1. UNCHANGED <<parsed, reader, dpc, pos, sem, from, to, count, popped, mpc>>
    BY <1>1
    DEF Listener, ReceivePacket, JumpToStart, CheckSpace, CopyPacket, PushPacket,
        NewPacket, storeVars, rangeVars, managerVars, moduleVars
  <2>2. Reached(1)' = Reached(1)
    BY <2>1 DEF Reached, Progress
  <2>3. \A n \in 1 .. Written : packets'[n] = packets[n]
    <3>1. packets' = packets \/ \E r : packets' = Append(packets, r)
      BY <1>1
      DEF Listener, ReceivePacket, JumpToStart, CheckSpace, CopyPacket, PushPacket,
          NewPacket, blockVars
    <3>2. ASSUME NEW n \in 1 .. Written
          PROVE  packets'[n] = packets[n]
      <4>1. packets \in Seq([at : Nat, len : Nat]) /\ n \in 1 .. Len(packets)
        BY DEF TypeInv, ControlType, Written
      <4> QED BY <3>1, <4>1
    <3> QED BY <3>2
  <2> QED BY <1>0, <2>1, <2>2, <2>3, SameReached
<1>2. ASSUME packets' = packets, UNCHANGED <<parsed, reader>>,
             Reached(1)' = Reached(1),
             (dpc[1] = "import" => Minus(pos[1], from) <= Minus(to, from))'
      PROVE  ModuleInv'
  BY <1>2, SameReached
<1>3. CASE BeginRound
  <2>1. UNCHANGED <<packets, parsed, reader, dpc, pos, sem, from, to, count, popped>>
        /\ mpc = "lock" /\ mpc' = "notify"
    BY <1>3 DEF BeginRound, blockVars, storeVars, rangeVars, moduleVars
  <2>2. Reached(1)' = Reached(1)
    BY <2>1 DEF Reached, Progress, Popping
  <2> QED BY <1>0, <1>2, <2>1, <2>2
<1>4. CASE Notify
  <2>1. UNCHANGED <<packets, parsed, reader, dpc, pos, count, popped>>
        /\ mpc = "notify" /\ mpc' = "wait" /\ sem' = [sem EXCEPT ![1] = @ + 2]
    BY <1>0, <1>4 DEF Notify, NextModule, blockVars, storeVars, moduleVars
  <2>2. dpc[1] = "wait" /\ sem[1] = 0 /\ sem'[1] = 2 /\ dpc'[1] = "wait"
    BY <1>0, <2>1
  <2>3. Reached(1)' = Reached(1)
    BY <2>1, <2>2 DEF Reached, Progress, Popping
  <2> QED BY <1>2, <2>1, <2>2, <2>3
<1>5. CASE WaitModule
  <2>1. UNCHANGED <<packets, parsed, reader, dpc, pos, sem, from, to, count, popped>>
        /\ mpc = "wait" /\ mpc' = "clear" /\ sem[1] = 0
    BY <1>0, <1>5 DEF WaitModule, NextModule, blockVars, storeVars, rangeVars, moduleVars
  <2>2. dpc[1] = "wait"
    BY <1>0, <2>1
  <2>3. Reached(1)' = Reached(1)
    BY <2>1, <2>2 DEF Reached, Progress, Popping
  <2> QED BY <1>0, <1>2, <2>1, <2>3
<1>6. CASE ClearSink
  <2>1. /\ UNCHANGED <<packets, parsed, reader, dpc, pos, sem, from, to, popped>>
        /\ mpc = "clear" /\ count' = Minus(to, from)
        /\ mpc' = IF count' = 0 THEN "lock" ELSE "advance"
    BY <1>6 DEF ClearSink, blockVars, storeVars, rangeVars, moduleVars
  <2>2. Reached(1)' = Reached(1)
    BY <2>1 DEF Reached, Progress, Popping
  <2> QED BY <1>0, <1>2, <2>1, <2>2
<1>7. CASE Advance \/ Rewind \/ ReturnToStart \/ ReadLength
  <2>1. /\ UNCHANGED <<packets, parsed, reader, dpc, pos, sem, from, to, popped, count>>
        /\ mpc \in Popping /\ mpc' \in Popping
    BY <1>7
    DEF Advance, Rewind, ReturnToStart, ReadLength, Popping, blockVars, storeVars,
        rangeVars, moduleVars
  <2>2. Reached(1)' = Reached(1)
    BY <2>1 DEF Reached, Progress, Popping
  <2> QED BY <1>0, <1>2, <2>1, <2>2
<1>8. CASE PopPacket
  <2>1. /\ UNCHANGED <<packets, parsed, reader, dpc, pos, sem, from, to>>
        /\ mpc = "pop" /\ popped' = popped + 1 /\ count' = count - 1
        /\ mpc' = IF count = 1 THEN "lock" ELSE "advance"
        /\ count \in Nat /\ popped \in Nat
    BY <1>8, Numbers
    DEF PopPacket, blockVars, rangeVars, moduleVars, TypeInv, TypeOK
  <2>2. Reached(1)' = Reached(1)
    <3>1. Reached(1) = popped + count
      BY <2>1 DEF Reached, Progress, Popping
    <3>2. Reached(1)' = popped' + IF count = 1 THEN 0 ELSE count'
      BY <2>1 DEF Reached, Progress, Popping
    <3> QED BY <2>1, <3>1, <3>2
  <2> QED BY <1>0, <1>2, <2>1, <2>2
<1>9. CASE WaitForPackets(1)
  <2>1. /\ UNCHANGED <<packets, parsed, reader, pos, from, to, count, popped, mpc>>
        /\ dpc[1] = "wait" /\ sem[1] > 0 /\ dpc' = [dpc EXCEPT ![1] = "begin"]
    BY <1>9 DEF WaitForPackets, blockVars, storeVars, rangeVars, managerVars
  <2>2. mpc = "wait" /\ sem[1] # 0 /\ dpc'[1] = "begin"
    BY <1>0, <2>1
  <2>3. Reached(1)' = Reached(1)
    BY <2>1, <2>2 DEF Reached, Progress, Popping
  <2> QED BY <1>2, <2>1, <2>2, <2>3
<1>10. CASE BeginImport(1)
  <2>1. /\ UNCHANGED <<packets, parsed, reader, sem, from, to, count, popped, mpc>>
        /\ dpc[1] = "begin" /\ dpc' = [dpc EXCEPT ![1] = "import"]
        /\ pos' = [pos EXCEPT ![1] = from]
    BY <1>10 DEF BeginImport, blockVars, storeVars, rangeVars, managerVars
  <2>2. mpc = "wait" /\ dpc'[1] = "import" /\ pos'[1] = from
    BY <1>0, <2>1
  <2>3. Minus(pos[1], from)' = 0 /\ 0 <= Minus(to, from)
    BY <1>0, <2>1, <2>2, MinusType
  <2>4. Reached(1)' = Reached(1)
    BY <2>1, <2>2, <2>3 DEF Reached, Progress, Popping
  <2> QED BY <1>2, <2>1, <2>3, <2>4
<1>11. CASE ImportPacket(1) /\ pos[1] = to
  <2>1. /\ UNCHANGED <<packets, parsed, reader, pos, sem, from, to, count, popped, mpc>>
        /\ dpc[1] = "import" /\ dpc' = [dpc EXCEPT ![1] = "notify"]
    BY <1>11 DEF ImportPacket, blockVars, storeVars, rangeVars, managerVars
  <2>2. mpc = "wait" /\ dpc'[1] = "notify"
    BY <1>0, <2>1
  <2>3. Reached(1)' = Reached(1)
    BY <1>11, <2>1, <2>2 DEF Reached, Progress, Popping
  <2> QED BY <1>2, <2>1, <2>2, <2>3
<1>12. CASE ImportPacket(1) /\ pos[1] # to
  <2>1. /\ UNCHANGED <<packets, dpc, sem, from, to, count, popped, mpc>>
        /\ pos' = [pos EXCEPT ![1] = Inc(@)]
    BY <1>12 DEF ImportPacket, blockVars, storeVars, rangeVars, managerVars
  <2>2. /\ mpc = "wait" /\ dpc[1] = "import"
        /\ parsed' = [parsed EXCEPT ![1] = 1 .. Reached(1) + 1]
        /\ reader' = [reader EXCEPT ![1] =
             [readPosition |-> At(Reached(1) + 1) + Field,
              packetSize |-> packets[Reached(1) + 1].len]]
        /\ Minus(Inc(pos[1]), from) = Minus(pos[1], from) + 1
        /\ Minus(pos[1], from) + 1 <= Minus(to, from)
    BY <1>12, ImportFinds
  <2>3. pos'[1] = Inc(pos[1])
    BY <1>0, <2>1
  <2>4. Reached(1)' = Reached(1) + 1
    <3>1. Reached(1) = popped + Minus(pos[1], from)
      BY <2>2 DEF Reached, Progress
    <3>2. Reached(1)' = popped + Minus(pos'[1], from)
      BY <2>1, <2>2 DEF Reached, Progress
    <3>3. popped \in Nat /\ Minus(pos[1], from) \in Nat
      BY <1>0, MinusType, Numbers
    <3> QED BY <2>2, <2>3, <3>1, <3>2, <3>3
  <2>5. PICK d \in Nat : d = Reached(1)
    BY ReachedBound
  <2>6. Reached(1)' = d + 1 /\ d + 1 # 0
    BY <2>4, <2>5
  <2>7. At(Reached(1))' = At(d + 1) /\ packets[Reached(1)]' = packets[d + 1]
    BY <2>1, <2>6, SamePackets
  <2>8. parsed'[1] = 1 .. d + 1
    BY <1>0, <2>2, <2>5
  <2>9. reader'[1] = [readPosition |-> At(d + 1) + Field,
                      packetSize |-> packets[d + 1].len]
    BY <1>0, <2>2, <2>5 DEF TypeInv, TypeOK
  <2>11. parsed' \in [Modules -> SUBSET Nat]
    BY <1>0, <2>2, <2>5
  <2>10. (dpc[1] = "import" => Minus(pos[1], from) <= Minus(to, from))'
    BY <2>1, <2>2, <2>3
  <2> QED BY <1>0, <2>6, <2>7, <2>8, <2>9, <2>10, <2>11 DEF ModuleInv
<1>13. CASE NotifyDone(1)
  <2>1. /\ UNCHANGED <<packets, parsed, reader, pos, from, to, count, popped, mpc>>
        /\ dpc[1] = "notify" /\ dpc' = [dpc EXCEPT ![1] = "wait"]
        /\ sem' = [sem EXCEPT ![1] = @ - 1]
    BY <1>13 DEF NotifyDone, blockVars, storeVars, rangeVars, managerVars
  <2>2. mpc = "wait" /\ sem'[1] = 0 /\ dpc'[1] = "wait"
    BY <1>0, <2>1
  <2>3. Reached(1)' = Reached(1)
    BY <2>1, <2>2 DEF Reached, Progress, Popping
  <2> QED BY <1>2, <2>1, <2>2, <2>3
<1>14. CASE UNCHANGED vars
  <2>1. UNCHANGED <<packets, parsed, reader, dpc, pos, sem, from, to, count, popped, mpc>>
    BY <1>14 DEF vars, blockVars, storeVars, rangeVars, managerVars, moduleVars
  <2>2. Reached(1)' = Reached(1)
    BY <2>1 DEF Reached, Progress, Popping
  <2> QED BY <1>0, <1>2, <2>1, <2>2
<1> QED
  BY <1>0, <1>1, <1>3, <1>4, <1>5, <1>6, <1>7, <1>8, <1>9, <1>10, <1>11, <1>12,
     <1>13, <1>14
  DEF Next, ManagerThread, ModuleThread

-----------------------------------------------------------------------------
(* The theorems.                                                           *)

LEMMA TypeStutter == TypeInv /\ UNCHANGED vars => TypeInv'
BY DEF vars, listenerVars, blockVars, writerVars, readerVars, storeVars, rangeVars,
       managerVars, moduleVars, TypeInv, TypeOK, ControlType, ListenerInv, StoreInv,
       SemaphoreInv, Popping

\* Every variable has its type: IpfixShm::writePacket keeps the write position
\* and all that it copies within the block, pushIpfixPacket and popIpfixPacket
\* keep the number of packets in the store within its bounds, and notify, wait
\* and the modules' notifier leave a semaphore no value but 0, 1 and 2.
THEOREM TypeCorrectness == ASSUME Fitting PROVE Spec => []TypeOK
<1>1. Init => TypeInv
  BY InitType
<1>2. TypeInv /\ [Next]_vars => TypeInv'
  BY TypeStep, TypeStutter
<1>3. TypeInv => TypeOK
  BY DEF TypeInv
<1> QED BY <1>1, <1>2, <1>3, PTL DEF Spec

\* The block as a ring, with any number of modules and packets of any lengths:
\* how the positions of IpfixShm::writePacket and of the collector's readPacket,
\* the packets in the block, the zeros behind a jump and the counters of the store
\* hang together as long as no zeros cover what the collector has still to read.
THEOREM Invariance ==
  ASSUME Fitting
  PROVE  Spec /\ [][ZeroesOnlyRead]_vars => [](TypeInv /\ RingInv)
<1>1. Init => TypeInv /\ RingInv
  BY InitType, RingInit
<1>2. TypeInv /\ RingInv /\ [Next]_vars /\ [ZeroesOnlyRead]_vars => (TypeInv /\ RingInv)'
  BY TypeStep, TypeStutter, RingStep
<1> QED BY <1>1, <1>2, PTL DEF Spec

\* Giving up a packet for lack of space does not block the way for good, however
\* the lengths of the packets differ that have made the writer give up, jump or
\* wait behind the collector: once the collector has popped all packets,
\* IpfixShm::writePacket has a way to accept the next one, if the block has room
\* for three.
THEOREM IdleBlockIsFree ==
  ASSUME Fitting, Roomy
  PROVE  Spec /\ [][ZeroesOnlyRead]_vars => []IdleBlockAccepts
<1>1. TypeInv /\ RingInv => IdleBlockAccepts
  BY IdleAccepts
<1> QED BY <1>1, Invariance, PTL

LEMMA ModuleInvariance ==
  ASSUME Fitting, NumModules = 1
  PROVE  Spec /\ [][ZeroesOnlyRead]_vars => [](TypeInv /\ RingInv /\ ModuleInv)
<1>1. Init => ModuleInv
  BY ModuleInitial
<1>2. TypeInv /\ RingInv /\ ModuleInv /\ [Next]_vars /\ (TypeInv /\ RingInv)'
        => ModuleInv'
  BY ModuleStep
<1> QED BY <1>1, <1>2, Invariance, PTL DEF Spec

\* The zeroing ahead of the test is the only thing in IpfixShm::writePacket that
\* can spoil a packet before the module has read it: without it the test against
\* the collector's readPosition protects what the module has still to read, with
\* packets of any lengths and at every moment of the collector's own jump.
THEOREM NothingElseOverwrites ==
  ASSUME Fitting, NumModules = 1
  PROVE  Spec /\ [][ZeroesOnlyRead]_vars => []UnreadSurvives
<1>1. ASSUME TypeInv, RingInv, ModuleInv
      PROVE  UnreadSurvives
  <2> SUFFICES ASSUME NEW n \in 1 .. popped + stored,
                      NEW m \in Modules, n \notin parsed[m]
               PROVE  Intact(n)
    BY DEF UnreadSurvives
  <2>1. m = 1 /\ parsed[1] = 1 .. Reached(1)
    BY <1>1, OneModule, ZenonT(40) DEF ModuleInv
  <2>2. /\ Reached(1) \in Nat /\ Reached(1) >= popped
        /\ popped \in Nat /\ stored \in Nat /\ Written \in Nat /\ popped + stored <= Written
    BY <1>1, ReachedBound, Numbers
  <2>3. Passed <= Reached(1)
    <3>1. mpc = "pop" => Reached(1) = popped + count /\ count \in Nat /\ count >= 1
      BY <1>1 DEF Reached, Progress, Popping, TypeInv, TypeOK, StoreInv
    <3> QED BY <2>2, <3>1 DEF Passed
  <2>4. Passed \in Nat
    BY <1>1, Numbers
  <2>5. n \in Unread
    BY <2>1, <2>2, <2>3, <2>4 DEF Unread
  <2> QED BY <1>1, <2>5 DEF RingInv, MemoryInv
<1> QED BY <1>1, ModuleInvariance, PTL

\* PacketReader::import reads all that pushIpfixPacket has counted, each packet
\* whole and in order, before popIpfixPacket passes over it: module and collector
\* find every jump of the writer by themselves, unless it has zeroed packets that
\* they have still to read.
THEOREM BlockImplementsDelivery ==
  ASSUME Fitting, NumModules = 1
  PROVE  Spec /\ [][ZeroesOnlyRead]_vars => ImplementsDelivery
<1>1. Init => Delivery!Init
  BY DEF Init, Delivery!Init
<1>2. ASSUME TypeInv, RingInv, ModuleInv, Next
      PROVE  [Delivery!Next]_(Delivery!vars)
  <2>0. /\ popped \in Nat /\ stored \in Nat /\ Modules = {1}
        /\ parsed[1] = 1 .. Reached(1) /\ Reached(1) \in Nat
    BY <1>2, Numbers, OneModule, ReachedBound DEF ModuleInv
  <2>1. CASE PushPacket
    <3>1. stored' = stored + 1 /\ UNCHANGED <<popped, parsed>>
      BY <2>1 DEF PushPacket, moduleVars
    <3>2. popped' + stored' = (popped + stored) + 1
      BY <2>0, <3>1
    <3> QED BY <3>1, <3>2 DEF Delivery!Publish, Delivery!Next
  <2>2. CASE PopPacket
    <3>1. /\ mpc = "pop" /\ stored' = stored - 1 /\ popped' = popped + 1
          /\ UNCHANGED parsed
      BY <2>2 DEF PopPacket, moduleVars
    <3>2. count \in Nat /\ count >= 1 /\ count <= stored
      BY <1>2, <3>1 DEF TypeInv, TypeOK, StoreInv, Popping
    <3>3. popped' + stored' = popped + stored
      BY <2>0, <3>1
    <3>4. popped' \in popped + 1 .. popped + stored
      BY <2>0, <3>1, <3>2
    <3>5. \A m \in Modules : 1 .. popped' \subseteq parsed[m]
      <4>1. Reached(1) = popped + count
        BY <3>1 DEF Reached, Progress, Popping
      <4> QED BY <2>0, <3>1, <3>2, <4>1
    <3> QED BY <3>1, <3>3, <3>4, <3>5 DEF Delivery!Delete, Delivery!Next
  <2>3. CASE ImportPacket(1) /\ pos[1] # to
    <3> DEFINE p == Reached(1) + 1
    <3>1. p \in 1 .. popped + stored /\ parsed' = [parsed EXCEPT ![1] = 1 .. p]
      BY <1>2, <2>3, ImportFinds
    <3>2. UNCHANGED <<popped, stored>>
      BY <2>3 DEF ImportPacket, storeVars
    <3>3. parsed[1] = 1 .. p - 1
      BY <2>0
    <3> HIDE DEF p
    <3>4. Delivery!Parse(1)
      BY <3>1, <3>2, <3>3 DEF Delivery!Parse
    <3> QED BY <2>0, <3>4 DEF Delivery!Next
  <2>4. ASSUME UNCHANGED <<popped, stored, parsed>>
        PROVE  UNCHANGED Delivery!vars
    BY <2>4 DEF Delivery!vars
  <2>5. CASE ReceivePacket \/ JumpToStart \/ CheckSpace \/ CopyPacket \/ NewPacket
    BY <2>4, <2>5
    DEF ReceivePacket, JumpToStart, CheckSpace, CopyPacket, NewPacket, storeVars,
        moduleVars
  <2>6. CASE BeginRound \/ Notify \/ WaitModule \/ ClearSink \/ Advance \/ Rewind
             \/ ReturnToStart \/ ReadLength
    BY <2>4, <2>6
    DEF BeginRound, Notify, WaitModule, ClearSink, Advance, Rewind, ReturnToStart,
        ReadLength, storeVars, moduleVars
  <2>7. CASE WaitForPackets(1) \/ BeginImport(1) \/ NotifyDone(1)
    BY <2>4, <2>7 DEF WaitForPackets, BeginImport, NotifyDone, storeVars
  <2>8. CASE ImportPacket(1) /\ pos[1] = to
    BY <2>4, <2>8 DEF ImportPacket, storeVars
  <2> QED
    BY <1>2, <2>0, <2>1, <2>2, <2>3, <2>5, <2>6, <2>7, <2>8
    DEF Next, Listener, ManagerThread, ModuleThread
<1>3. ASSUME UNCHANGED vars
      PROVE  UNCHANGED Delivery!vars
  BY <1>3 DEF vars, storeVars, moduleVars, Delivery!vars
<1>4. TypeInv /\ RingInv /\ ModuleInv /\ [Next]_vars => [Delivery!Next]_(Delivery!vars)
  BY <1>2, <1>3
<1> QED
  BY <1>1, <1>4, ModuleInvariance, PTL DEF Spec, ImplementsDelivery, Delivery!Spec

=============================================================================
