----------------------- MODULE PacketExchange_proofs -----------------------
(***************************************************************************)
(* What is proved about the packet exchange, in two parts.  For every      *)
(* number of modules, every capacity and every combination of failures:    *)
(* the types, that no wakeup is lost, and that clearSink stays within the  *)
(* store.  And about the packets themselves: whatever fails, the directory *)
(* holds exactly the packets that were written and not deleted, under      *)
(* consecutive names; while every module works, a module finds each file   *)
(* it opens, parses the packets in order, and with one module the exchange *)
(* implements PacketDelivery.                                              *)
(***************************************************************************)
EXTENDS PacketExchange, SequenceTheorems, TLAPS

-----------------------------------------------------------------------------
(* The inductive invariant.                                                *)

\* The post that the listener owes for a packet it has registered.
OwedPost == IF lpc \in {"wrap", "post"} THEN 1 ELSE 0

\* newest once a wrapping increment that is under way has made both its stores.
SettledNewest == IF newest = MAX_FILES THEN 0 ELSE newest

\* The store's counters are as far apart as it holds packets, and fewer than
\* MAX_FILES: their cyclic distance is unambiguous.
StoreInv ==
  /\ stored <= MaxStored
  /\ lpc = "push" => stored < MaxStored
  /\ lpc = "wrap" <=> newest = MAX_FILES
  /\ WrapsAtOnce => lpc # "wrap"
  /\ stored = Minus(SettledNewest, oldest)

\* A SIGCHLD handler on top of the manager thread has interrupted a wait.
HandlerInv == onManager => reaped # NoModule /\ mpc = "waiting"

\* Every packet that the range of the current round misses has a post of its
\* own, made or owed, and the range begins with the oldest packet.
RoundInv ==
  container # <<>> =>
    /\ mpc = "lock" => stored <= wakeups + OwedPost
    /\ mpc \in {"raise", "mark", "wait", "waiting", "clear"} =>
         /\ from = oldest
         /\ stored <= Minus(to, from) + wakeups + OwedPost
         /\ WrapsAtOnce => Minus(to, from) <= stored
    /\ WrapsAtOnce => mpc # "aborted"

\* The semaphore of a module that runs tells what the module does: the manager
\* raises it by 2 and the module takes 1 as it begins and 1 as it ends, so it
\* is even exactly between imports; its flag goes up behind the first raise.
SemaphoreInv ==
  \A m \in Modules :
    /\ proc[m] # "alive" => dpc[m] = "wait"
    /\ reaped = m => proc[m] = "gone"
    /\ state[m] = "Running" => sem[m] # Removed
    /\ (state[m] = "Running" /\ proc[m] = "alive") =>
         /\ sem[m] % 2 = IF dpc[m] = "wait" THEN 0 ELSE 1
         /\ ~busy[m] => sem[m] = 0 \/ (mpc = "mark" /\ m = container[cur])

IInv == TypeOK /\ StoreInv /\ HandlerInv /\ RoundInv /\ SemaphoreInv

-----------------------------------------------------------------------------
(* Cyclic arithmetic.                                                      *)

\* operator++ stays in the range of the class (sharedobj.cpp:96-101).
LEMMA IncType ==
  ASSUME NEW c \in Counter
  PROVE  Inc(c) \in Counter
BY MaxFilesAssumption DEF Inc, Counter

\* operator- of two counters is a distance, MAX_FILES at most.
LEMMA MinusType ==
  ASSUME NEW a \in Counter \cup {MAX_FILES}, NEW b \in Counter
  PROVE  Minus(a, b) \in Nat
BY MaxFilesAssumption DEF Minus, Counter

\* Fewer than MAX_FILES increments end in the range of the class.
LEMMA PlusType ==
  ASSUME NEW c \in Counter, NEW n \in Nat, n < MAX_FILES
  PROVE  Plus(c, n) \in Counter
BY MaxFilesAssumption DEF Plus, Counter

\* An increment widens the distance by one unless it completes the cycle.
LEMMA MinusInc ==
  ASSUME NEW a \in Counter, NEW b \in Counter, Minus(a, b) + 1 < MAX_FILES
  PROVE  Minus(Inc(a), b) = Minus(a, b) + 1
BY MaxFilesAssumption DEF Minus, Inc, Counter

\* Moving the lower end up by n narrows the distance by n.
LEMMA MinusPlus ==
  ASSUME NEW a \in Counter, NEW b \in Counter, NEW n \in Nat, n <= Minus(a, b)
  PROVE  Minus(a, Plus(b, n)) = Minus(a, b) - n
BY MaxFilesAssumption DEF Minus, Plus, Counter

-----------------------------------------------------------------------------
(* Types.                                                                  *)

\* Taking an element out of a sequence leaves a sequence over the same set.
LEMMA RemoveAtType ==
  ASSUME NEW S, NEW s \in Seq(S), NEW i \in 1 .. Len(s)
  PROVE  RemoveAt(s, i) \in Seq(S)
BY DEF RemoveAt

LEMMA InitType == Init => TypeOK
<1> SUFFICES ASSUME Init PROVE TypeOK
  OBVIOUS
<1>1. 0 \in Counter
  BY MaxFilesAssumption DEF Counter
<1>2. ListenerType /\ RangeType
  BY <1>1 DEF Init, ListenerType, RangeType
<1>3. StoreType
  <2>1. fileNames = <<>>
    BY DEF Init
  <2> QED BY <1>1, <2>1 DEF Init, StoreType, NoFile
<1>4. ContainerType
  <2>1. container \in Seq(Modules)
    <3>1. container = [k \in 1 .. NumModules |-> k] /\ NumModules \in Nat
      BY ExchangeAssumption DEF Init
    <3>2. \A k \in 1 .. NumModules : k \in Modules
      BY DEF Modules
    <3> QED BY <3>1, <3>2, IsASeq
  <2> QED BY <2>1 DEF Init, ContainerType
<1>5. KernelType
  BY DEF Init, KernelType, NoModule
<1>6. ModuleType
  BY <1>1 DEF Init, ModuleType
<1>7. ManagerType
  <2>1. alarm \in BOOLEAN
    BY DEF Init
  <2> QED BY <2>1 DEF Init, ManagerType
<1> QED BY <1>2, <1>3, <1>4, <1>5, <1>6, <1>7 DEF TypeOK

\* Every step keeps the types.  Two need more than the types: ClearSink
\* moves oldest by fewer than MAX_FILES because the store holds fewer, and
\* PushPacket increments newest outside of a wrapping increment.
LEMMA TypeStep ==
  ASSUME TypeOK, StoreInv, [Next]_vars
  PROVE  TypeOK'
<1> USE DEF TypeOK
<1>1. CASE ReceivePacket
  <2>1. ListenerType'
    BY <1>1 DEF ReceivePacket, ListenerType
  <2>2. StoreType'
    <3>1. disk' \in [Counter -> Nat]
      BY <1>1 DEF ReceivePacket, StoreType, ListenerType
    <3>2. fileNames' \in Seq(Counter)
      <4>1. Append(fileNames, counter) \in Seq(Counter)
        BY AppendProperties DEF StoreType, ListenerType
      <4> QED BY <1>1, <4>1 DEF ReceivePacket, StoreType
    <3> QED BY <1>1, <3>1, <3>2 DEF ReceivePacket, StoreType
  <2>3. RangeType' /\ ManagerType' /\ ContainerType' /\ KernelType' /\
     ModuleType'
    BY <1>1 DEF ReceivePacket, rangeVars, managerVars, containerVars,
       kernelVars, moduleVars, RangeType, ManagerType, ContainerType,
       KernelType, ModuleType
  <2> QED BY <2>1, <2>2, <2>3
<1>2. CASE PushPacket
  <2>1. ListenerType'
    BY <1>2, IncType DEF PushPacket, ListenerType
  <2>2. StoreType'
    <3>1. newest \in Counter
      BY <1>2 DEF PushPacket, StoreInv, StoreType
    <3> QED BY <1>2, <3>1, IncType DEF PushPacket, StoreType
  <2>3. RangeType' /\ ManagerType' /\ ContainerType' /\ KernelType' /\
     ModuleType'
    BY <1>2 DEF PushPacket, rangeVars, managerVars, containerVars, kernelVars,
       moduleVars, RangeType, ManagerType, ContainerType, KernelType,
       ModuleType
  <2> QED BY <2>1, <2>2, <2>3
<1>3. CASE WrapNewest
  <2>1. ListenerType'
    BY <1>3, IncType DEF WrapNewest, ListenerType
  <2>2. StoreType'
    BY <1>3, MaxFilesAssumption DEF WrapNewest, Counter, StoreType
  <2>3. RangeType' /\ ManagerType' /\ ContainerType' /\ KernelType' /\
     ModuleType'
    BY <1>3 DEF WrapNewest, rangeVars, managerVars, containerVars, kernelVars,
       moduleVars, RangeType, ManagerType, ContainerType, KernelType,
       ModuleType
  <2> QED BY <2>1, <2>2, <2>3
<1>4. CASE NewPacket
  <2>1. ListenerType'
    BY <1>4 DEF NewPacket, ListenerType
  <2>2. ManagerType'
    BY <1>4 DEF NewPacket, Post, ManagerType, managerVars
  <2>3. StoreType' /\ RangeType' /\ ContainerType' /\ KernelType' /\
     ModuleType'
    BY <1>4 DEF NewPacket, storeVars, rangeVars, containerVars, kernelVars,
       moduleVars, StoreType, RangeType, ContainerType, KernelType, ModuleType
  <2> QED BY <2>1, <2>2, <2>3
<1>5. CASE BeginRound
  <2>1. ManagerType'
    BY <1>5 DEF BeginRound, TakePost, ManagerType
  <2>2. ListenerType' /\ StoreType' /\ RangeType' /\ ContainerType' /\
     KernelType' /\ ModuleType'
    BY <1>5 DEF BeginRound, listenerVars, storeVars, rangeVars, containerVars,
       kernelVars, moduleVars, ListenerType, StoreType, RangeType,
       ContainerType, KernelType, ModuleType
  <2> QED BY <2>1, <2>2
<1>6. CASE EraseRemoved
  <2>1. ManagerType'
    BY <1>6 DEF EraseRemoved, ManagerType
  <2>2. ContainerType'
    <3>1. CASE cur <= Len(container)
      <4>1. cur \in 1 .. Len(container)
        BY <3>1 DEF ManagerType, ContainerType
      <4>2. RemoveAt(container, cur) \in Seq(Modules)
        BY <4>1, RemoveAtType DEF ContainerType
      <4> QED BY <1>6, <4>2 DEF EraseRemoved, ContainerType
    <3>2. CASE ~(cur <= Len(container))
      BY <1>6, <3>2 DEF EraseRemoved, ContainerType
    <3> QED BY <3>1, <3>2
  <2>3. ListenerType' /\ StoreType' /\ RangeType' /\ KernelType' /\ ModuleType'
    BY <1>6 DEF EraseRemoved, listenerVars, storeVars, rangeVars, kernelVars,
       moduleVars, ListenerType, StoreType, RangeType, KernelType, ModuleType
  <2> QED BY <2>1, <2>2, <2>3
<1>7. CASE SetRange
  <2>1. RangeType'
    BY <1>7 DEF SetRange, Announce, StoreType, RangeType
  <2>2. ManagerType'
    BY <1>7 DEF SetRange, ManagerType
  <2>3. ListenerType' /\ StoreType' /\ ContainerType' /\ KernelType' /\
     ModuleType'
    BY <1>7 DEF SetRange, listenerVars, storeVars, containerVars, kernelVars,
       moduleVars, ListenerType, StoreType, ContainerType, KernelType,
       ModuleType
  <2> QED BY <2>1, <2>2, <2>3
<1>8. CASE RaiseSemaphore
  <2>1. ManagerType'
    BY <1>8 DEF RaiseSemaphore, ManagerType
  <2>2. ContainerType'
    BY <1>8 DEF RaiseSemaphore, ContainerType, containerVars
  <2>3. KernelType'
    <3>1. \A m \in Modules : sem[m] # Removed => sem[m] + 2 \in Nat
      BY DEF KernelType, Removed
    <3>2. sem' \in [Modules -> Nat \cup {Removed}]
      BY <1>8, <3>1 DEF RaiseSemaphore, KernelType
    <3> QED BY <1>8, <3>2 DEF RaiseSemaphore, KernelType
  <2>4. ListenerType' /\ StoreType' /\ RangeType' /\ ModuleType'
    BY <1>8 DEF RaiseSemaphore, listenerVars, storeVars, rangeVars, moduleVars,
       ListenerType, StoreType, RangeType, ModuleType
  <2> QED BY <2>1, <2>2, <2>3, <2>4
<1>8a. CASE MarkBusy
  <2>1. ManagerType'
    BY <1>8a DEF MarkBusy, ManagerType
  <2>2. ContainerType'
    BY <1>8a DEF MarkBusy, ContainerType
  <2>3. ListenerType' /\ StoreType' /\ RangeType' /\ KernelType' /\ ModuleType'
    BY <1>8a DEF MarkBusy, listenerVars, storeVars, rangeVars, kernelVars,
       moduleVars, ListenerType, StoreType, RangeType, KernelType, ModuleType
  <2> QED BY <2>1, <2>2, <2>3
<1>9. CASE WaitModule
  <2>1. ManagerType'
    BY <1>9 DEF WaitModule, NextWait, ManagerType
  <2>2. ContainerType'
    BY <1>9 DEF WaitModule, ContainerType
  <2>3. ListenerType' /\ StoreType' /\ RangeType' /\ KernelType' /\ ModuleType'
    BY <1>9 DEF WaitModule, listenerVars, storeVars, rangeVars, kernelVars,
       moduleVars, ListenerType, StoreType, RangeType, KernelType, ModuleType
  <2> QED BY <2>1, <2>2, <2>3
<1>10. CASE ClearSink
  <2>1. StoreType'
    <3>1. CASE ToDelete > stored
      BY <1>10, <3>1 DEF ClearSink, StoreType
    <3>2. CASE ~(ToDelete > stored)
      <4>1. ToDelete \in Nat
        BY MinusType DEF ToDelete, RangeType
      <4>2. ToDelete < MAX_FILES
        BY <3>2, <4>1, ExchangeAssumption, MaxFilesAssumption
        DEF StoreType, StoreInv
      <4>3. Plus(oldest, ToDelete) \in Counter
        BY <4>1, <4>2, PlusType DEF StoreType
      <4>4. fileNames' \in Seq(Counter)
        <5>1. fileNames' = SubSeq(fileNames, ToDelete + 1, Len(fileNames))
          BY <1>10, <3>2 DEF ClearSink
        <5> QED BY <4>1, <5>1 DEF StoreType
      <4>5. disk' \in [Counter -> Nat]
        BY <1>10, <3>2, SMTT(30) DEF ClearSink, StoreType, NoFile
      <4>6. stored' \in Nat
        BY <1>10, <3>2, <4>1 DEF ClearSink, StoreType
      <4> QED BY <1>10, <3>2, <4>3, <4>4, <4>5, <4>6 DEF ClearSink, StoreType
    <3> QED BY <3>1, <3>2
  <2>2. ManagerType'
    BY <1>10 DEF ClearSink, ManagerType
  <2>3. ListenerType' /\ RangeType' /\ ContainerType' /\ KernelType' /\
     ModuleType'
    BY <1>10 DEF ClearSink, listenerVars, rangeVars, containerVars, kernelVars,
       moduleVars, ListenerType, RangeType, ContainerType, KernelType,
       ModuleType
  <2> QED BY <2>1, <2>2, <2>3
<1>11. CASE SigAlarm
  <2>1. ManagerType'
    BY <1>11 DEF SigAlarm, ManagerType
  <2>2. ContainerType'
    BY <1>11 DEF SigAlarm, StopModules, ContainerType
  <2>3. KernelType'
    BY <1>11 DEF SigAlarm, StopModules, Terminate, Removed, KernelType
  <2>4. ListenerType' /\ StoreType' /\ RangeType' /\ ModuleType'
    BY <1>11 DEF SigAlarm, listenerVars, storeVars, rangeVars, moduleVars,
       ListenerType, StoreType, RangeType, ModuleType
  <2> QED BY <2>1, <2>2, <2>3, <2>4
<1>12. CASE SigChild
  <2>1. ManagerType'
    BY <1>12 DEF SigChild, EndHandler, NextWait, ManagerType
  <2>2. ContainerType'
    BY <1>12 DEF SigChild, ContainerType
  <2>3. KernelType'
    BY <1>12 DEF SigChild, Zombies, KernelType
  <2>4. ListenerType' /\ StoreType' /\ RangeType' /\ ModuleType'
    BY <1>12 DEF SigChild, listenerVars, storeVars, rangeVars, moduleVars,
       ListenerType, StoreType, RangeType, ModuleType
  <2> QED BY <2>1, <2>2, <2>3, <2>4
<1>13. CASE RestartOrDelete
  <2>1. ManagerType'
    BY <1>13 DEF RestartOrDelete, EndHandler, NextWait, ManagerType
  <2>2. ContainerType'
    BY <1>13 DEF RestartOrDelete, KernelType, NoModule, ContainerType
  <2>3. KernelType'
    <3>1. reaped \in Modules
      BY <1>13 DEF RestartOrDelete, KernelType
    <3>2. sem' \in [Modules -> Nat \cup {Removed}]
      BY <1>13, <3>1 DEF RestartOrDelete, KernelType
    <3>3. proc' \in [Modules -> {"alive", "exited", "crashed", "gone"}]
      BY <1>13, <3>1 DEF RestartOrDelete, KernelType
    <3> QED BY <1>13, <3>2, <3>3 DEF RestartOrDelete, KernelType
  <2>4. ListenerType' /\ StoreType' /\ RangeType' /\ ModuleType'
    BY <1>13 DEF RestartOrDelete, listenerVars, storeVars, rangeVars,
       moduleVars, ListenerType, StoreType, RangeType, ModuleType
  <2> QED BY <2>1, <2>2, <2>3, <2>4
<1>14. ASSUME NEW m \in Modules, WaitForPackets(m)
       PROVE  TypeOK'
  <2>1. KernelType'
    BY <1>14 DEF WaitForPackets, TakeSemaphore, Removed, KernelType
  <2>2. ModuleType'
    BY <1>14 DEF WaitForPackets, ModuleType
  <2>3. ListenerType' /\ StoreType' /\ RangeType' /\ ManagerType' /\
     ContainerType'
    BY <1>14 DEF WaitForPackets, listenerVars, storeVars, rangeVars,
       managerVars, containerVars, ListenerType, StoreType, RangeType,
       ManagerType, ContainerType
  <2> QED BY <2>1, <2>2, <2>3
<1>15. ASSUME NEW m \in Modules, BeginImport(m)
       PROVE  TypeOK'
  <2>1. ModuleType'
    BY <1>15 DEF BeginImport, RangeType, ModuleType
  <2>2. ListenerType' /\ StoreType' /\ RangeType' /\ ManagerType' /\
     ContainerType' /\ KernelType'
    BY <1>15 DEF BeginImport, listenerVars, storeVars, rangeVars, managerVars,
       containerVars, kernelVars, ListenerType, StoreType, RangeType,
       ManagerType, ContainerType, KernelType
  <2> QED BY <2>1, <2>2
<1>16. ASSUME NEW m \in Modules, ImportPacket(m)
       PROVE  TypeOK'
  <2>1. KernelType'
    BY <1>16 DEF ImportPacket, Die, KernelType
  <2>2. ModuleType'
    <3>1. 0 \in Counter /\ Inc(pos[m]) \in Counter
      BY IncType, MaxFilesAssumption DEF ModuleType, Counter
    <3>2. pos[m] \in Counter
      BY DEF ModuleType
    <3>3. disk[pos[m]] # NoFile => disk[pos[m]] \in Nat
      BY <3>2 DEF StoreType
    <3> QED BY <1>16, <3>1, <3>3 DEF ImportPacket, Die, ModuleType
  <2>3. ListenerType' /\ StoreType' /\ RangeType' /\ ManagerType' /\
     ContainerType'
    BY <1>16 DEF ImportPacket, listenerVars, storeVars, rangeVars, managerVars,
       containerVars, ListenerType, StoreType, RangeType, ManagerType,
       ContainerType
  <2> QED BY <2>1, <2>2, <2>3
<1>17. ASSUME NEW m \in Modules, NotifyDone(m)
       PROVE  TypeOK'
  <2>1. KernelType'
    BY <1>17 DEF NotifyDone, TakeSemaphore, Removed, KernelType
  <2>2. ModuleType'
    BY <1>17 DEF NotifyDone, ModuleType
  <2>3. ListenerType' /\ StoreType' /\ RangeType' /\ ManagerType' /\
     ContainerType'
    BY <1>17 DEF NotifyDone, listenerVars, storeVars, rangeVars, managerVars,
       containerVars, ListenerType, StoreType, RangeType, ManagerType,
       ContainerType
  <2> QED BY <2>1, <2>2, <2>3
<1>18. ASSUME NEW m \in Modules, DieOfItself(m)
       PROVE  TypeOK'
  <2>1. KernelType'
    <3>1. proc' \in [Modules -> {"alive", "exited", "crashed", "gone"}]
      BY <1>18 DEF DieOfItself, Die, KernelType
    <3>2. sigterm' \in [Modules -> BOOLEAN] /\ sigchld' \in BOOLEAN
      BY <1>18 DEF DieOfItself, Die, KernelType
    <3>3. deaths' \in Nat
      BY <1>18 DEF DieOfItself, KernelType
    <3> QED BY <1>18, <3>1, <3>2, <3>3 DEF DieOfItself, KernelType
  <2>2. ModuleType'
    BY <1>18, MaxFilesAssumption DEF DieOfItself, Die, Counter, ModuleType
  <2>3. ListenerType' /\ StoreType' /\ RangeType' /\ ManagerType' /\
     ContainerType'
    BY <1>18 DEF DieOfItself, listenerVars, storeVars, rangeVars, managerVars,
       containerVars, ListenerType, StoreType, RangeType, ManagerType,
       ContainerType
  <2> QED BY <2>1, <2>2, <2>3
<1>19. ASSUME NEW m \in Modules, DieOfSigterm(m)
       PROVE  TypeOK'
  <2>1. KernelType'
    BY <1>19 DEF DieOfSigterm, Die, KernelType
  <2>2. ModuleType'
    BY <1>19, MaxFilesAssumption DEF DieOfSigterm, Die, Counter, ModuleType
  <2>3. ListenerType' /\ StoreType' /\ RangeType' /\ ManagerType' /\
     ContainerType'
    BY <1>19 DEF DieOfSigterm, listenerVars, storeVars, rangeVars, managerVars,
       containerVars, ListenerType, StoreType, RangeType, ManagerType,
       ContainerType
  <2> QED BY <2>1, <2>2, <2>3
<1>20. CASE BeginWait
  <2>1. ManagerType'
    BY <1>20 DEF BeginWait, NextWait, ManagerType
  <2>2. ListenerType' /\ StoreType' /\ RangeType' /\ ContainerType' /\
     KernelType' /\ ModuleType'
    BY <1>20 DEF BeginWait, listenerVars, storeVars, rangeVars, containerVars,
       kernelVars, moduleVars, ListenerType, StoreType, RangeType,
       ContainerType, KernelType, ModuleType
  <2> QED BY <2>1, <2>2
<1>21. CASE UNCHANGED vars
  BY <1>21 DEF vars, listenerVars, storeVars, rangeVars, managerVars,
     containerVars, kernelVars, moduleVars,
    ListenerType, StoreType, RangeType, ManagerType, ContainerType, KernelType,
    ModuleType
<1> QED
  BY <1>1, <1>2, <1>3, <1>4, <1>5, <1>6, <1>7, <1>8, <1>8a, <1>9, <1>10, <1>11, <1>12,
     <1>13, <1>14, <1>15, <1>16, <1>17, <1>18, <1>19, <1>20,
     <1>21
  DEF Next, Listener, ManagerThread, Handler, ModuleThread

-----------------------------------------------------------------------------
(* The store.                                                              *)

\* The listener pushes outside of a wrapping increment, and the settled value
\* of newest then moves up by one.
LEMMA PushSettled ==
  ASSUME TypeOK, StoreInv, PushPacket
  PROVE  /\ newest \in Counter
         /\ SettledNewest = newest
         /\ SettledNewest' = Inc(newest)
<1>1. newest \in Counter /\ newest # MAX_FILES
  BY MaxFilesAssumption DEF PushPacket, StoreInv, TypeOK, StoreType, Counter
<1>2. SettledNewest = newest
  BY <1>1 DEF SettledNewest
<1>3. SettledNewest' = Inc(newest)
  <2>1. CASE newest' = Inc(newest)
    <3>1. Inc(newest) # MAX_FILES
      BY <1>1, IncType, MaxFilesAssumption DEF Counter
    <3> QED BY <2>1, <3>1 DEF SettledNewest
  <2>2. CASE newest' = MAX_FILES /\ newest + 1 = MAX_FILES
    BY <2>2 DEF SettledNewest, Inc
  <2> QED BY <2>1, <2>2 DEF PushPacket
<1> QED BY <1>1, <1>2, <1>3

\* Steps that leave the listener and the store's counters alone.
LEMMA StoreFrame ==
  ASSUME StoreInv, UNCHANGED <<lpc, stored, newest, oldest>>
  PROVE  StoreInv'
BY DEF StoreInv, SettledNewest

\* Every step keeps the store's counters in agreement with its size.
LEMMA StoreStep ==
  ASSUME TypeOK, StoreInv, [Next]_vars
  PROVE  StoreInv'
<1>0. stored \in Nat /\ oldest \in Counter /\ MaxStored \in Nat
        /\ MaxStored < MAX_FILES
  BY ExchangeAssumption DEF TypeOK, StoreType
<1>1. CASE ReceivePacket
  <2>1. stored < MaxStored /\ UNCHANGED <<stored, newest, oldest>>
    BY <1>1 DEF ReceivePacket
  <2>2. lpc = "idle" /\ lpc' \in {"push", "post"}
    BY <1>1 DEF ReceivePacket
  <2> QED BY <2>1, <2>2 DEF StoreInv, SettledNewest
<1>2. CASE PushPacket
  <2>1. stored < MaxStored /\ stored' = stored + 1 /\ oldest' = oldest
    BY <1>2 DEF PushPacket, StoreInv
  <2>2. stored = Minus(newest, oldest)
    BY <1>2, PushSettled DEF StoreInv
  <2>3. Minus(Inc(newest), oldest) = Minus(newest, oldest) + 1
    BY <1>0, <1>2, <2>1, <2>2, PushSettled, MinusInc, MaxFilesAssumption
  <2>4. stored' = Minus(SettledNewest', oldest')
    BY <1>2, <2>1, <2>2, <2>3, PushSettled
  <2>5. (lpc' = "wrap" <=> newest' = MAX_FILES) /\ (WrapsAtOnce => lpc' # "wrap")
    <3>1. Inc(newest) # MAX_FILES
      BY <1>2, PushSettled, IncType, MaxFilesAssumption DEF Counter
    <3> QED BY <1>2, <3>1 DEF PushPacket
  <2>6. stored' <= MaxStored /\ lpc' # "push"
    BY <1>0, <1>2, <2>1 DEF PushPacket
  <2> QED BY <2>4, <2>5, <2>6 DEF StoreInv
<1>3. CASE WrapNewest
  <2>1. newest = MAX_FILES /\ newest' = 0 /\ lpc' = "post"
    BY <1>3 DEF WrapNewest, StoreInv
  <2>2. SettledNewest = 0 /\ SettledNewest' = 0
    BY <2>1, MaxFilesAssumption DEF SettledNewest
  <2>3. UNCHANGED <<stored, oldest>>
    BY <1>3 DEF WrapNewest
  <2> QED BY <2>1, <2>2, <2>3, MaxFilesAssumption DEF StoreInv
<1>4. CASE NewPacket
  <2>1. lpc = "post" /\ lpc' = "idle" /\ UNCHANGED <<stored, newest, oldest>>
    BY <1>4 DEF NewPacket, storeVars
  <2> QED BY <2>1 DEF StoreInv, SettledNewest
<1>5. CASE ClearSink
  <2>1. CASE ToDelete > stored
    BY <1>5, <2>1, StoreFrame DEF ClearSink, listenerVars
  <2>2. CASE ~(ToDelete > stored)
    <3>1. ToDelete \in Nat
      BY MinusType DEF ToDelete, TypeOK, RangeType
    <3>2. /\ stored' = stored - ToDelete
          /\ oldest' = Plus(oldest, ToDelete)
          /\ UNCHANGED <<lpc, newest>>
      BY <1>5, <2>2 DEF ClearSink, listenerVars
    <3>3. SettledNewest \in Counter
      BY MaxFilesAssumption DEF SettledNewest, TypeOK, StoreType, Counter
    <3>4. Minus(SettledNewest, Plus(oldest, ToDelete))
            = Minus(SettledNewest, oldest) - ToDelete
      BY <1>0, <2>2, <3>1, <3>3, MinusPlus DEF StoreInv
    <3>5. SettledNewest' = SettledNewest
      BY <3>2 DEF SettledNewest
    <3>6. stored' <= stored /\ stored < MAX_FILES
      BY <1>0, <3>1, <3>2, MaxFilesAssumption DEF StoreInv
    <3>7. stored' = Minus(SettledNewest', oldest')
      BY <3>2, <3>4, <3>5 DEF StoreInv
    <3>8. stored' <= MaxStored /\ (lpc' = "push" => stored' < MaxStored)
      BY <1>0, <3>1, <3>2 DEF StoreInv
    <3> QED BY <3>2, <3>7, <3>8 DEF StoreInv
  <2> QED BY <2>1, <2>2
<1>6. CASE \/ BeginRound \/ EraseRemoved \/ SetRange \/ RaiseSemaphore
           \/ MarkBusy \/ BeginWait \/ WaitModule
  BY <1>6, StoreFrame
  DEF BeginRound, EraseRemoved, SetRange, RaiseSemaphore, MarkBusy, BeginWait, WaitModule,
      listenerVars, storeVars
<1>7. CASE SigAlarm \/ SigChild \/ RestartOrDelete
  BY <1>7, StoreFrame
  DEF SigAlarm, SigChild, RestartOrDelete, listenerVars, storeVars
<1>8. ASSUME NEW m \in Modules, ModuleThread(m) \/ DieOfItself(m) \/ DieOfSigterm(m)
      PROVE  StoreInv'
  BY <1>8, StoreFrame
  DEF ModuleThread, WaitForPackets, BeginImport, ImportPacket, NotifyDone,
      DieOfItself, DieOfSigterm, listenerVars, storeVars
<1>9. CASE UNCHANGED vars
  BY <1>9, StoreFrame DEF vars, listenerVars, storeVars
<1> QED
  BY <1>1, <1>2, <1>3, <1>4, <1>5, <1>6, <1>7, <1>8, <1>9
  DEF Next, Listener, ManagerThread, Handler

-----------------------------------------------------------------------------
(* The round.                                                              *)

\* A SIGCHLD handler that runs on the manager thread keeps it in its wait.
LEMMA HandlerStep ==
  ASSUME HandlerInv, [Next]_vars
  PROVE  HandlerInv'
<1>1. CASE Listener
  BY <1>1
  DEF Listener, ReceivePacket, PushPacket, WrapNewest, NewPacket, HandlerInv,
      managerVars, kernelVars
<1>2. CASE BeginRound \/ EraseRemoved \/ SetRange \/ RaiseSemaphore \/ MarkBusy
  BY <1>2
  DEF BeginRound, EraseRemoved, SetRange, RaiseSemaphore, MarkBusy, HandlerInv,
      kernelVars
<1>3. CASE BeginWait \/ WaitModule \/ ClearSink
  BY <1>3 DEF BeginWait, WaitModule, ClearSink, HandlerInv, kernelVars
<1>4. CASE SigAlarm
  BY <1>4 DEF SigAlarm, HandlerInv
<1>5. CASE SigChild
  <2>1. ~onManager
    BY <1>5 DEF SigChild, HandlerInv
  <2>2. ASSUME onManager' PROVE reaped' # NoModule /\ mpc' = "waiting"
    <3>1. PICK m \in Zombies, interrupts \in BOOLEAN :
            /\ interrupts => mpc = "waiting"
            /\ reaped' = m /\ onManager' = interrupts /\ UNCHANGED mpc
      BY <1>5, <2>1, <2>2 DEF SigChild
    <3>2. m # NoModule
      BY ExchangeAssumption DEF Zombies, Modules, NoModule
    <3> QED BY <2>2, <3>1, <3>2
  <2> QED BY <2>2 DEF HandlerInv
<1>6. CASE RestartOrDelete
  BY <1>6 DEF RestartOrDelete, HandlerInv
<1>7. ASSUME NEW m \in Modules, ModuleThread(m) \/ DieOfItself(m) \/ DieOfSigterm(m)
      PROVE  HandlerInv'
  BY <1>7
  DEF ModuleThread, WaitForPackets, BeginImport, ImportPacket, NotifyDone,
      DieOfItself, DieOfSigterm, HandlerInv, managerVars, kernelVars
<1>8. CASE UNCHANGED vars
  BY <1>8 DEF vars, HandlerInv, managerVars, kernelVars
<1> QED
  BY <1>1, <1>2, <1>3, <1>4, <1>5, <1>6, <1>7, <1>8 DEF Next, ManagerThread, Handler

\* Steps that at most move the manager on within its round.
LEMMA RoundFrame ==
  ASSUME RoundInv,
         UNCHANGED <<lpc, stored, oldest, from, to, wakeups, container>>,
         \/ mpc' = mpc
         \/ /\ mpc \in {"raise", "mark", "wait", "waiting"}
            /\ mpc' \in {"set", "mark", "wait", "waiting", "clear"}
  PROVE  RoundInv'
BY DEF RoundInv, OwedPost

\* Every step keeps the account of posts and packets.  The listener's part is
\* that it owes a post from the push on; the manager's, that it reads the range
\* after it took its post.
LEMMA RoundStep ==
  ASSUME TypeOK, StoreInv, HandlerInv, RoundInv, [Next]_vars
  PROVE  RoundInv'
<1>0. /\ stored \in Nat /\ wakeups \in Nat /\ oldest \in Counter
      /\ Minus(to, from) \in Nat
      /\ OwedPost \in {0, 1}
  BY MinusType DEF TypeOK, StoreType, RangeType, ManagerType, OwedPost
<1>1. CASE ReceivePacket
  <2>1. UNCHANGED <<stored, oldest, from, to, wakeups, container, mpc>>
    BY <1>1 DEF ReceivePacket, rangeVars, managerVars, containerVars
  <2>2. OwedPost = 0
    BY <1>1 DEF ReceivePacket, OwedPost
  <2>3. CASE lpc' = "push"
    <3>1. OwedPost' = 0
      BY <2>3 DEF OwedPost
    <3> QED BY <2>1, <2>2, <3>1 DEF RoundInv
  <2>4. CASE lpc' = "post"
    <3>1. OwedPost' = 1
      BY <2>4 DEF OwedPost
    <3> QED BY <1>0, <2>1, <2>2, <3>1 DEF RoundInv
  <2> QED BY <1>1, <2>3, <2>4 DEF ReceivePacket
<1>2. CASE PushPacket
  <2>1. /\ UNCHANGED <<oldest, from, to, wakeups, container, mpc>>
        /\ stored' = stored + 1
    BY <1>2 DEF PushPacket, rangeVars, managerVars, containerVars
  <2>2. OwedPost = 0 /\ OwedPost' = 1
    BY <1>2 DEF PushPacket, OwedPost
  <2> QED BY <1>0, <2>1, <2>2 DEF RoundInv
<1>3. CASE WrapNewest
  <2>1. UNCHANGED <<stored, oldest, from, to, wakeups, container, mpc>>
    BY <1>3 DEF WrapNewest, rangeVars, managerVars, containerVars
  <2>2. OwedPost = 1 /\ OwedPost' = 1
    BY <1>3 DEF WrapNewest, OwedPost
  <2> QED BY <2>1, <2>2 DEF RoundInv
<1>4. CASE NewPacket
  <2>1. /\ UNCHANGED <<stored, oldest, from, to, container, mpc>>
        /\ wakeups' = wakeups + 1
    BY <1>4 DEF NewPacket, Post, storeVars, rangeVars, managerVars, containerVars
  <2>2. OwedPost = 1 /\ OwedPost' = 0
    BY <1>4 DEF NewPacket, OwedPost
  <2> QED BY <1>0, <2>1, <2>2 DEF RoundInv
<1>5. CASE BeginRound
  BY <1>5 DEF BeginRound, RoundInv
<1>6. CASE EraseRemoved
  <2>1. mpc' \in {"erase", "set"} \/ (mpc' = "clear" /\ container' = <<>>)
    BY <1>6 DEF EraseRemoved
  <2> QED BY <2>1 DEF RoundInv
<1>7. CASE SetRange
  <2>1. /\ mpc' = "raise" /\ from' = oldest /\ to' = newest
        /\ UNCHANGED <<lpc, stored, oldest, wakeups, container>>
    BY <1>7 DEF SetRange, Announce, listenerVars, storeVars, containerVars
  <2>2. OwedPost' = OwedPost
    BY <2>1 DEF OwedPost
  <2>3. /\ stored <= Minus(newest, oldest)
        /\ WrapsAtOnce => Minus(newest, oldest) = stored
    <3>1. CASE newest # MAX_FILES
      BY <1>0, <3>1 DEF StoreInv, SettledNewest
    <3>2. CASE newest = MAX_FILES
      <4>1. stored = Minus(0, oldest) /\ ~WrapsAtOnce
        BY <3>2 DEF StoreInv, SettledNewest
      <4>2. Minus(0, oldest) <= Minus(MAX_FILES, oldest)
        BY <1>0, MaxFilesAssumption DEF Minus, Counter
      <4> QED BY <3>2, <4>1, <4>2
    <3> QED BY <3>1, <3>2
  <2>4. Minus(newest, oldest) \in Nat
    BY <1>0, MinusType DEF TypeOK, StoreType
  <2> QED BY <1>0, <2>1, <2>2, <2>3, <2>4 DEF RoundInv
<1>8. CASE RaiseSemaphore \/ MarkBusy
  BY <1>8, RoundFrame
  DEF RaiseSemaphore, MarkBusy, listenerVars, storeVars, rangeVars, containerVars
<1>9. CASE BeginWait \/ WaitModule
  BY <1>9, RoundFrame
  DEF BeginWait, WaitModule, NextWait, listenerVars, storeVars, rangeVars,
      containerVars
<1>10. CASE ClearSink
  <2> SUFFICES ASSUME container # <<>> PROVE RoundInv'
    BY <1>10 DEF ClearSink, containerVars, RoundInv
  <2>1. /\ stored <= ToDelete + wakeups + OwedPost
        /\ WrapsAtOnce => ToDelete <= stored
    BY <1>10 DEF ClearSink, RoundInv, ToDelete
  <2>2. ToDelete \in Nat
    BY <1>0 DEF ToDelete
  <2>3. CASE ToDelete > stored
    <3>1. ~WrapsAtOnce
      BY <1>0, <2>1, <2>2, <2>3
    <3>2. mpc' = "aborted"
      BY <1>10, <2>3 DEF ClearSink
    <3> QED BY <3>1, <3>2 DEF RoundInv
  <2>4. CASE ~(ToDelete > stored)
    <3>1. /\ mpc' = "lock" /\ stored' = stored - ToDelete
          /\ UNCHANGED <<lpc, wakeups>>
      BY <1>10, <2>4 DEF ClearSink, listenerVars
    <3>2. OwedPost' = OwedPost
      BY <3>1 DEF OwedPost
    <3>3. stored' <= wakeups' + OwedPost'
      BY <1>0, <2>1, <2>2, <3>1, <3>2
    <3> QED BY <3>1, <3>3 DEF RoundInv
  <2> QED BY <2>3, <2>4
<1>11. CASE SigAlarm
  BY <1>11, RoundFrame DEF SigAlarm, listenerVars, storeVars, rangeVars
<1>12. CASE SigChild
  <2>1. mpc' = mpc \/ (mpc = "waiting" /\ mpc' \in {"wait", "clear"})
    BY <1>12 DEF SigChild, EndHandler, NextWait
  <2> QED BY <1>12, <2>1, RoundFrame DEF SigChild, listenerVars, storeVars, rangeVars
<1>13. CASE RestartOrDelete
  <2>1. mpc' = mpc \/ (mpc = "waiting" /\ mpc' \in {"wait", "clear"})
    BY <1>13 DEF RestartOrDelete, EndHandler, NextWait, HandlerInv
  <2> QED
    BY <1>13, <2>1, RoundFrame DEF RestartOrDelete, listenerVars, storeVars, rangeVars
<1>14. ASSUME NEW m \in Modules, ModuleThread(m) \/ DieOfItself(m) \/ DieOfSigterm(m)
       PROVE  RoundInv'
  BY <1>14, RoundFrame
  DEF ModuleThread, WaitForPackets, BeginImport, ImportPacket, NotifyDone,
      DieOfItself, DieOfSigterm, listenerVars, storeVars, rangeVars, managerVars,
      containerVars
<1>15. CASE UNCHANGED vars
  BY <1>15, RoundFrame
  DEF vars, listenerVars, storeVars, rangeVars, managerVars, containerVars
<1> QED
  BY <1>1, <1>2, <1>3, <1>4, <1>5, <1>6, <1>7, <1>8, <1>9, <1>10, <1>11, <1>12,
     <1>13, <1>14, <1>15
  DEF Next, Listener, ManagerThread, Handler

-----------------------------------------------------------------------------
(* The modules' semaphores.                                                *)

\* Steps that leave processes, semaphores and states alone.
LEMMA SemaphoreFrame ==
  ASSUME SemaphoreInv, UNCHANGED <<proc, reaped, sem, state, busy, dpc>>,
         mpc = "mark" => UNCHANGED <<mpc, cur, container>>
  PROVE  SemaphoreInv'
BY DEF SemaphoreInv

\* Raising by 2 and the module's two steps down keep the parity; a process
\* that takes over from a dead one gets a new semaphore.
LEMMA SemaphoreStep ==
  ASSUME TypeOK, HandlerInv, SemaphoreInv, [Next]_vars
  PROVE  SemaphoreInv'
<1> USE DEF SemaphoreInv
<1>0. /\ sem \in [Modules -> Nat \cup {Removed}]
      /\ state \in [Modules -> {"Running", "Crashed", "Remove"}]
      /\ busy \in [Modules -> BOOLEAN]
      /\ proc \in [Modules -> {"alive", "exited", "crashed", "gone"}]
      /\ dpc \in [Modules -> {"wait", "begin", "import", "notify"}]
  BY DEF TypeOK, ContainerType, KernelType, ModuleType
<1>1. CASE Listener
  BY <1>1, SemaphoreFrame
  DEF Listener, ReceivePacket, PushPacket, WrapNewest, NewPacket, managerVars,
      containerVars, kernelVars, moduleVars
<1>2. CASE BeginRound \/ EraseRemoved \/ SetRange \/ BeginWait \/ ClearSink
  BY <1>2, SemaphoreFrame
  DEF BeginRound, EraseRemoved, SetRange, BeginWait, ClearSink, containerVars, kernelVars,
      moduleVars
<1>3. CASE RaiseSemaphore
  <2> TAKE m \in Modules
  <2>1. UNCHANGED <<proc, reaped, state, busy, dpc, container, cur>> /\ mpc' = "mark"
        /\ mpc = "raise"
    BY <1>3 DEF RaiseSemaphore, containerVars, moduleVars
  <2>2. CASE m = container[cur]
    <3>1. sem'[m] = IF sem[m] = Removed THEN Removed ELSE sem[m] + 2
      BY <1>0, <1>3, <2>2 DEF RaiseSemaphore
    <3>2. sem[m] # Removed => (sem[m] + 2) % 2 = sem[m] % 2 /\ sem[m] + 2 # Removed
      BY <1>0 DEF Removed
    <3> QED BY <2>1, <2>2, <3>1, <3>2
  <2>3. CASE m # container[cur]
    <3>1. sem'[m] = sem[m]
      BY <1>0, <1>3, <2>3 DEF RaiseSemaphore
    <3> QED BY <2>1, <3>1
  <2> QED BY <2>2, <2>3
<1>3a. CASE MarkBusy
  <2> TAKE m \in Modules
  <2>1. UNCHANGED <<proc, reaped, state, dpc, sem>>
    BY <1>3a DEF MarkBusy, kernelVars, moduleVars
  <2>2. CASE m = container[cur]
    <3>1. busy'[m] = TRUE
      BY <1>0, <1>3a, <2>2 DEF MarkBusy
    <3> QED BY <2>1, <3>1
  <2>3. CASE m # container[cur]
    <3>1. busy'[m] = busy[m]
      BY <1>0, <1>3a, <2>3 DEF MarkBusy
    <3> QED BY <2>1, <2>3, <3>1
  <2> QED BY <2>2, <2>3
<1>4. CASE WaitModule
  <2> TAKE m \in Modules
  <2>1. UNCHANGED <<proc, reaped, state, dpc, sem>> /\ mpc = "waiting"
    BY <1>4 DEF WaitModule, kernelVars, moduleVars
  <2>2. busy'[m] # busy[m] => sem[m] = 0
    BY <1>0, <1>4 DEF WaitModule, HandedBack
  <2> QED BY <1>0, <2>1, <2>2
<1>5. CASE SigAlarm
  <2> TAKE m \in Modules
  <2>1. UNCHANGED <<proc, reaped, dpc, busy, mpc, cur, container>>
    BY <1>5 DEF SigAlarm, moduleVars
  <2>2. state'[m] = "Running" => state[m] = "Running" /\ sem'[m] = sem[m]
    BY <1>5 DEF SigAlarm, StopModules
  <2> QED BY <2>1, <2>2
<1>6. CASE SigChild
  <2> TAKE m \in Modules
  <2>1. UNCHANGED <<dpc, busy, sem>> /\ (mpc = "mark" => UNCHANGED <<mpc, cur, container>>)
    BY <1>6 DEF SigChild, EndHandler, moduleVars
  <2>2. state'[m] = "Running" => state[m] = "Running" /\ proc'[m] = proc[m]
    BY <1>0, <1>6 DEF SigChild, Zombies
  <2>3. proc'[m] # "alive" => proc[m] # "alive"
    BY <1>0, <1>6 DEF SigChild, Zombies
  <2>4. reaped' = m => proc'[m] = "gone"
    BY <1>0, <1>6, ExchangeAssumption DEF SigChild, Zombies, NoModule, Modules
  <2> QED BY <2>1, <2>2, <2>3, <2>4
<1>7. CASE RestartOrDelete
  <2> TAKE m \in Modules
  <2>1. UNCHANGED <<dpc, busy>> /\ (mpc = "mark" => UNCHANGED <<mpc, cur, container>>)
    BY <1>7 DEF RestartOrDelete, EndHandler, HandlerInv, moduleVars
  <2>2. reaped' # m
    BY <1>7, ExchangeAssumption DEF RestartOrDelete, NoModule, Modules
  <2>3. CASE m # reaped
    BY <1>0, <1>7, <2>1, <2>2, <2>3 DEF RestartOrDelete
  <2>4. CASE m = reaped
    <3>1. dpc'[m] = "wait"
      BY <2>1, <2>4
    <3>2. \/ sem'[m] = 0 /\ proc'[m] = "alive"
          \/ state'[m] # "Running" /\ proc'[m] = proc[m]
      BY <1>0, <1>7, <2>4 DEF RestartOrDelete
    <3>3. 0 % 2 = 0 /\ 0 # Removed
      BY DEF Removed
    <3> QED BY <2>2, <3>1, <3>2, <3>3
  <2> QED BY <2>3, <2>4
<1>8. ASSUME NEW k \in Modules, WaitForPackets(k) \/ NotifyDone(k)
      PROVE  SemaphoreInv'
  <2> TAKE m \in Modules
  <2>1. UNCHANGED <<proc, reaped, state, busy, mpc, cur, container>>
    BY <1>8 DEF WaitForPackets, NotifyDone, managerVars, containerVars
  <2>2. CASE m # k
    BY <1>0, <1>8, <2>1, <2>2 DEF WaitForPackets, NotifyDone, TakeSemaphore
  <2>3. CASE m = k /\ state[m] = "Running"
    <3>1. sem[m] \in Nat \ {0} /\ sem'[m] = sem[m] - 1
      BY <1>0, <1>8, <2>3 DEF WaitForPackets, NotifyDone, TakeSemaphore
    <3>2. proc[m] = "alive" /\ dpc[m] \in {"wait", "notify"}
      BY <1>8, <2>3 DEF WaitForPackets, NotifyDone
    <3>3. dpc'[m] = IF dpc[m] = "wait" THEN "begin" ELSE "wait"
      BY <1>0, <1>8, <2>3 DEF WaitForPackets, NotifyDone
    <3>4. sem'[m] % 2 = IF sem[m] % 2 = 0 THEN 1 ELSE 0
      BY <3>1
    <3>5. (busy[m] \/ (mpc = "mark" /\ m = container[cur])) /\ sem'[m] # Removed
      BY <2>3, <3>1, <3>2 DEF Removed
    <3> QED BY <2>1, <2>3, <3>2, <3>3, <3>4, <3>5
  <2>4. CASE m = k /\ state[m] # "Running"
    BY <1>8, <2>1, <2>4 DEF WaitForPackets, NotifyDone
  <2> QED BY <2>2, <2>3, <2>4
<1>9. ASSUME NEW k \in Modules, BeginImport(k) \/ ImportPacket(k)
      PROVE  SemaphoreInv'
  <2> TAKE m \in Modules
  <2>1. UNCHANGED <<reaped, sem, state, busy, mpc, cur, container>>
    BY <1>9 DEF BeginImport, ImportPacket, managerVars, kernelVars, containerVars
  <2>2. proc'[m] = "alive" =>
          proc[m] = "alive" /\ (dpc[m] = "wait" <=> dpc'[m] = "wait")
    BY <1>0, <1>9 DEF BeginImport, ImportPacket, Die, kernelVars
  <2>3. proc'[m] # "alive" => dpc'[m] = "wait"
    BY <1>0, <1>9 DEF BeginImport, ImportPacket, Die, kernelVars
  <2>4. proc[m] = "gone" => proc'[m] = "gone"
    BY <1>0, <1>9 DEF BeginImport, ImportPacket, Die, kernelVars
  <2> QED BY <2>1, <2>2, <2>3, <2>4
<1>10. ASSUME NEW k \in Modules, DieOfItself(k) \/ DieOfSigterm(k)
       PROVE  SemaphoreInv'
  <2> TAKE m \in Modules
  <2>1. UNCHANGED <<reaped, sem, state, busy, mpc, cur, container>>
    BY <1>10 DEF DieOfItself, DieOfSigterm, managerVars, containerVars
  <2>2. proc'[m] = "alive" => proc[m] = "alive" /\ dpc'[m] = dpc[m]
    BY <1>0, <1>10 DEF DieOfItself, DieOfSigterm, Die
  <2>3. proc'[m] # "alive" => dpc'[m] = "wait"
    BY <1>0, <1>10 DEF DieOfItself, DieOfSigterm, Die
  <2>4. proc[m] = "gone" => proc'[m] = "gone"
    BY <1>0, <1>10 DEF DieOfItself, DieOfSigterm, Die
  <2> QED BY <2>1, <2>2, <2>3, <2>4
<1>11. CASE UNCHANGED vars
  BY <1>11, SemaphoreFrame DEF vars, managerVars, containerVars, kernelVars, moduleVars
<1> QED
  BY <1>1, <1>2, <1>3, <1>3a, <1>4, <1>5, <1>6, <1>7, <1>8, <1>9, <1>10, <1>11
  DEF Next, ManagerThread, Handler, ModuleThread

-----------------------------------------------------------------------------
(* The theorems.                                                           *)

\* The invariant holds when the collector has started its modules.
LEMMA InitIInv == Init => IInv
<1> SUFFICES ASSUME Init PROVE IInv
  OBVIOUS
<1>1. TypeOK
  BY InitType
<1>2. StoreInv
  <2>1. SettledNewest = 0
    BY MaxFilesAssumption DEF Init, SettledNewest
  <2>2. Minus(0, 0) = 0
    BY DEF Minus
  <2> QED
    BY <2>1, <2>2, ExchangeAssumption, MaxFilesAssumption DEF Init, StoreInv
<1>3. HandlerInv
  BY DEF Init, HandlerInv
<1>4. RoundInv
  BY DEF Init, RoundInv, OwedPost
<1>5. SemaphoreInv
  BY ExchangeAssumption DEF Init, SemaphoreInv, Removed, NoModule, Modules
<1> QED BY <1>1, <1>2, <1>3, <1>4, <1>5 DEF IInv

\* The inductive invariant is one.
THEOREM Invariance == Spec => []IInv
<1>1. IInv /\ [Next]_vars => IInv'
  BY TypeStep, StoreStep, HandlerStep, RoundStep, SemaphoreStep DEF IInv
<1> QED BY <1>1, InitIInv, PTL DEF Spec

\* Types, for every number of modules and every capacity: in particular no
\* semaphore is ever lowered below 0, and the names that the listener and the
\* modules give to packet files stay below MAX_FILES.
THEOREM TypeCorrectness == Spec => []TypeOK
<1>1. IInv => TypeOK
  BY DEF IInv
<1> QED BY <1>1, Invariance, PTL

\* Manager::run and messageCallBackFunction lose no packet between them: a
\* manager that sleeps for good leaves an empty store.
THEOREM NoWakeupIsLost == Spec => []NoLostWakeup
<1>1. IInv => NoLostWakeup
  BY DEF IInv, TypeOK, StoreType, RoundInv, OwedPost, NoLostWakeup
<1> QED BY <1>1, Invariance, PTL

\* clearSink never throws while a module remains, in a build that stores a
\* wrapping counter once.
THEOREM ClearStaysWithinStore ==
  ASSUME WrapsAtOnce
  PROVE  Spec => []ClearWithinStore
<1>1. IInv => ClearWithinStore
  BY DEF IInv, RoundInv, ClearWithinStore
<1> QED BY <1>1, Invariance, PTL

\* Whoever's busy flag is down is idle, so findAndKillSlowModule overlooks no
\* module that still works on the round, but one whose semaphore was raised and
\* whose flag was not yet.
THEOREM BusyFlagsAreTrue == Spec => []NotBusyMeansIdle
<1>1. IInv => NotBusyMeansIdle
  <2> SUFFICES ASSUME IInv, NEW m \in Range(container),
                      ~busy[m], state[m] = "Running", proc[m] = "alive",
                      ~(mpc = "mark" /\ m = container[cur])
               PROVE  dpc[m] = "wait" /\ sem[m] = 0
    BY DEF NotBusyMeansIdle
  <2>1. m \in Modules
    BY DEF IInv, TypeOK, ContainerType, Range
  <2>2. sem[m] = 0 /\ sem[m] % 2 = IF dpc[m] = "wait" THEN 0 ELSE 1
    BY <2>1 DEF IInv, SemaphoreInv
  <2> QED BY <2>2
<1> QED BY <1>1, Invariance, PTL

-----------------------------------------------------------------------------
(* The packets: the inductive invariants.                                  *)

\* Packets 1..Deleted have left the directory.
Deleted == written - Len(fileNames)

\* The name that exportToSink's counter gives to the next packet.
NextName == IF lpc = "wrap" THEN Inc(counter) ELSE counter

\* The listener's counter and the store's newest are two counters that never
\* disagree, and the files' names run from oldest without a gap, so a name
\* tells the number of its packet.
DirectoryInv ==
  /\ NextName = SettledNewest
  /\ Len(fileNames) = stored + IF lpc = "push" THEN 1 ELSE 0
  /\ Len(fileNames) <= written
  /\ \A i \in 1 .. Len(fileNames) : fileNames[i] = Plus(oldest, i - 1)
  /\ \A n \in Counter :
       disk[n] = IF Minus(n, oldest) < Len(fileNames)
                 THEN Deleted + Minus(n, oldest) + 1
                 ELSE NoFile

\* Nothing but a write fails: all modules run and no signal is on its way.
QuietInv ==
  /\ container = [k \in 1 .. NumModules |-> k]
  /\ \A m \in Modules : state[m] = "Running" /\ proc[m] = "alive" /\ ~sigterm[m]
  /\ ~sigchld /\ reaped = NoModule /\ ~onManager

\* The block holds the range of the current round.
Announced ==
  mpc \in {"raise", "mark", "wait", "waiting", "clear"} \/ (mpc = "set" /\ cur > 1)

\* The module's semaphore was raised in the current round.
Told(m) ==
  \/ mpc \in {"wait", "waiting", "clear"}
  \/ mpc \in {"set", "raise"} /\ m < cur
  \/ mpc = "mark" /\ m <= cur

\* The manager has told the module and not yet waited for it.
AtWork(m) ==
  \/ mpc \in {"set", "raise"} /\ m < cur
  \/ mpc = "mark" /\ m <= cur
  \/ mpc \in {"wait", "waiting"} /\ m >= cur

\* A round raises each semaphore once, from 0 to 2, and ends when the modules
\* have taken them back to 0.
TurnInv ==
  /\ mpc \in {"set", "raise", "mark", "wait", "waiting"} => cur \in Modules
  /\ mpc # "aborted"
  /\ \A m \in Modules :
       /\ sem[m] \in IF dpc[m] = "wait" THEN {0, 2} ELSE {1}
       /\ ~AtWork(m) => sem[m] = 0

\* Every packet of the announced range is in the store.
RangeInv ==
  Announced => from = oldest /\ to \in Counter /\ Minus(to, from) <= stored

\* How far into the announced range the module has parsed.
Reached(m) ==
  IF dpc[m] = "import" THEN Minus(pos[m], from)
  ELSE IF Told(m) /\ (dpc[m] = "notify" \/ sem[m] = 0) THEN Minus(to, from)
  ELSE 0

\* A module has parsed nothing beyond where it stands in the range.  With more
\* than one module it may have missed packets, since the range is announced
\* anew for each; with one it has parsed everything up to there.
ParsedInv ==
  \A m \in Modules :
    /\ dpc[m] = "import" => Minus(pos[m], from) <= Minus(to, from)
    /\ parsed[m] \subseteq 1 .. Deleted + Reached(m)
    /\ NumModules = 1 => parsed[m] = 1 .. Deleted + Reached(m)

DeliveryInv == QuietInv /\ TurnInv /\ RangeInv /\ ParsedInv

-----------------------------------------------------------------------------
(* More cyclic arithmetic.                                                 *)

\* A distance within the range of the class is below MAX_FILES.
LEMMA MinusBound ==
  ASSUME NEW a \in Counter, NEW b \in Counter
  PROVE  /\ Minus(a, b) \in 0 .. MAX_FILES - 1
         /\ Minus(a, b) = 0 <=> a = b
BY MaxFilesAssumption DEF Minus, Counter

\* Two counters at the same distance are the same.
LEMMA MinusInjective ==
  ASSUME NEW a \in Counter, NEW c \in Counter, NEW b \in Counter,
         Minus(a, b) = Minus(c, b)
  PROVE  a = c
BY MaxFilesAssumption DEF Minus, Counter

\* Advancing by k and measuring the distance are inverse to each other.
LEMMA MinusOfPlus ==
  ASSUME NEW b \in Counter, NEW k \in Nat, k < MAX_FILES
  PROVE  Minus(Plus(b, k), b) = k
BY MaxFilesAssumption DEF Minus, Plus, Counter

LEMMA PlusOfMinus ==
  ASSUME NEW n \in Counter, NEW b \in Counter
  PROVE  Plus(b, Minus(n, b)) = n
BY MaxFilesAssumption DEF Minus, Plus, Counter

\* Two advances make one.
LEMMA PlusPlus ==
  ASSUME NEW b \in Counter, NEW k \in Nat, NEW j \in Nat, k + j < MAX_FILES
  PROVE  Plus(Plus(b, k), j) = Plus(b, k + j)
BY MaxFilesAssumption DEF Plus, Counter

\* What a move of the lower end does to a name's distance, on either side.
LEMMA MinusMoved ==
  ASSUME NEW n \in Counter, NEW b \in Counter, NEW k \in Nat, k < MAX_FILES
  PROVE  Minus(n, Plus(b, k)) =
           IF Minus(n, b) >= k THEN Minus(n, b) - k
                               ELSE MAX_FILES + Minus(n, b) - k
BY MaxFilesAssumption DEF Minus, Plus, Counter

-----------------------------------------------------------------------------
(* The packet directory.                                                   *)

\* Steps that leave the listener, the store and the directory alone.
LEMMA DirectoryFrame ==
  ASSUME DirectoryInv, UNCHANGED <<listenerVars, storeVars>>
  PROVE  DirectoryInv'
BY DEF DirectoryInv, NextName, SettledNewest, Deleted, listenerVars, storeVars

\* The packets in the directory fit into the cycle of names.
LEMMA DirectoryBound ==
  ASSUME TypeOK, StoreInv, DirectoryInv
  PROVE  /\ Len(fileNames) \in Nat
         /\ Len(fileNames) < MAX_FILES
         /\ Deleted \in Nat
<1>1. Len(fileNames) \in Nat
  BY DEF TypeOK, StoreType
<1>2. Len(fileNames) <= MaxStored
  BY ExchangeAssumption DEF TypeOK, StoreType, StoreInv, DirectoryInv
<1>3. Deleted \in Nat
  BY <1>1 DEF TypeOK, ListenerType, DirectoryInv, Deleted
<1> QED BY <1>1, <1>2, <1>3, ExchangeAssumption, MaxFilesAssumption

\* The name of the i-th file of the directory is at distance i - 1.
LEMMA NameDistance ==
  ASSUME TypeOK, StoreInv, DirectoryInv,
         NEW i \in 1 .. Len(fileNames)
  PROVE  fileNames[i] \in Counter /\ Minus(fileNames[i], oldest) = i - 1
<1>1. oldest \in Counter /\ i - 1 \in Nat /\ i - 1 < MAX_FILES
  BY DirectoryBound, MaxFilesAssumption DEF TypeOK, StoreType
<1>2. fileNames[i] = Plus(oldest, i - 1)
  BY DEF DirectoryInv
<1> QED BY <1>1, <1>2, MinusOfPlus, PlusType

LEMMA DirectoryStep ==
  ASSUME TypeOK, StoreInv, DirectoryInv, [Next]_vars
  PROVE  DirectoryInv'
<1>0. /\ counter \in Counter /\ oldest \in Counter
      /\ written \in Nat /\ stored \in Nat
      /\ fileNames \in Seq(Counter) /\ disk \in [Counter -> Nat]
      /\ Len(fileNames) \in Nat /\ Len(fileNames) < MAX_FILES /\ Deleted \in Nat
  BY DirectoryBound DEF TypeOK, ListenerType, StoreType
<1>1. CASE ReceivePacket
  <2>1. lpc = "idle" /\ stored < MaxStored
        /\ UNCHANGED <<counter, stored, newest, oldest>>
    BY <1>1 DEF ReceivePacket
  <2>2. NextName = counter /\ counter = SettledNewest /\ Len(fileNames) = stored
    BY <1>0, <2>1 DEF NextName, DirectoryInv
  <2>3. SettledNewest' = SettledNewest
    BY <2>1 DEF SettledNewest
  <2>4. CASE UNCHANGED <<disk, fileNames, written>> /\ lpc' = "post"
    BY <1>0, <2>1, <2>2, <2>3, <2>4 DEF DirectoryInv, NextName, Deleted
  <2>5. CASE /\ disk' = [disk EXCEPT ![counter] = written + 1]
             /\ fileNames' = Append(fileNames, counter)
             /\ written' = written + 1
             /\ lpc' = "push"
    <3>1. Len(fileNames') = Len(fileNames) + 1 /\ Deleted' = Deleted
      BY <1>0, <2>5 DEF Deleted
    <3>2. Minus(counter, oldest) = stored
      BY <2>2 DEF StoreInv
    <3>3. ASSUME NEW i \in 1 .. Len(fileNames')
          PROVE  fileNames'[i] = Plus(oldest', i - 1)
      <4>1. CASE i <= Len(fileNames)
        BY <1>0, <2>1, <2>5, <4>1 DEF DirectoryInv
      <4>2. CASE i = Len(fileNames) + 1
        <5>1. fileNames'[i] = counter
          BY <1>0, <2>5, <4>2
        <5>2. Plus(oldest, i - 1) = counter
          BY <1>0, <2>2, <3>2, <4>2, PlusOfMinus
        <5> QED BY <2>1, <5>1, <5>2
      <4> QED BY <1>0, <3>1, <4>1, <4>2
    <3>4. ASSUME NEW n \in Counter
          PROVE  disk'[n] = IF Minus(n, oldest') < Len(fileNames')
                            THEN Deleted' + Minus(n, oldest') + 1
                            ELSE NoFile
      <4>1. CASE n = counter
        <5>1. disk'[n] = written + 1
          BY <1>0, <2>5, <4>1
        <5>2. Deleted + Minus(n, oldest) + 1 = written + 1
          BY <1>0, <2>2, <3>2, <4>1 DEF Deleted
        <5>3. Minus(n, oldest) < Len(fileNames')
          BY <1>0, <2>2, <3>1, <3>2, <4>1
        <5> QED BY <2>1, <3>1, <5>1, <5>2, <5>3
      <4>2. CASE n # counter
        <5>1. disk'[n] = disk[n]
          BY <1>0, <2>5, <4>2
        <5>2. Minus(n, oldest) # Len(fileNames) /\ Minus(n, oldest) \in Nat
          BY <1>0, <2>2, <3>2, <4>2, MinusInjective, MinusBound
        <5>3. Minus(n, oldest) < Len(fileNames') <=> Minus(n, oldest) < Len(fileNames)
          BY <1>0, <3>1, <5>2
        <5> QED BY <2>1, <3>1, <5>1, <5>3 DEF DirectoryInv
      <4> QED BY <4>1, <4>2
    <3>5. NextName' = SettledNewest'
      BY <2>1, <2>2, <2>3, <2>5 DEF NextName
    <3>6. Len(fileNames') = stored' + 1 /\ Len(fileNames') <= written'
      BY <1>0, <2>1, <2>2, <2>5, <3>1 DEF DirectoryInv
    <3> QED BY <2>5, <3>3, <3>4, <3>5, <3>6 DEF DirectoryInv
  <2> QED BY <1>1, <2>4, <2>5 DEF ReceivePacket
<1>2. CASE PushPacket
  <2>1. /\ lpc = "push" /\ stored' = stored + 1 /\ lpc' \in {"wrap", "post"}
        /\ UNCHANGED <<written, disk, fileNames, oldest>>
    BY <1>2 DEF PushPacket
  <2>2. newest \in Counter /\ counter = newest
    BY <2>1 DEF TypeOK, StoreType, StoreInv, DirectoryInv, NextName, SettledNewest
  <2>3. NextName' = SettledNewest'
    <3>1. CASE newest' = Inc(newest) /\ counter' = Inc(counter) /\ lpc' = "post"
      <4>1. newest' \in Counter
        BY <2>2, <3>1, IncType
      <4>2. newest' # MAX_FILES
        BY <4>1, MaxFilesAssumption DEF Counter
      <4> QED BY <2>2, <3>1, <4>2 DEF NextName, SettledNewest
    <3>2. CASE newest + 1 = MAX_FILES /\ newest' = MAX_FILES /\ lpc' = "wrap"
               /\ UNCHANGED counter
      BY <2>2, <3>2 DEF NextName, SettledNewest, Inc
    <3> QED BY <1>2, <3>1, <3>2 DEF PushPacket
  <2> QED BY <1>0, <2>1, <2>3 DEF DirectoryInv, Deleted
<1>3. CASE WrapNewest
  <2>1. /\ lpc = "wrap" /\ newest' = 0 /\ counter' = Inc(counter) /\ lpc' = "post"
        /\ UNCHANGED <<written, disk, fileNames, stored, oldest>>
    BY <1>3 DEF WrapNewest
  <2>2. NextName' = SettledNewest'
    BY <2>1, MaxFilesAssumption DEF DirectoryInv, StoreInv, NextName, SettledNewest
  <2> QED BY <2>1, <2>2 DEF DirectoryInv, Deleted
<1>4. CASE NewPacket
  BY <1>4
  DEF NewPacket, storeVars, DirectoryInv, NextName, SettledNewest, Deleted
<1>5. CASE ClearSink
  <2>1. CASE ToDelete > stored
    BY <1>5, <2>1, DirectoryFrame DEF ClearSink, storeVars
  <2>2. CASE ~(ToDelete > stored)
    <3> DEFINE count == ToDelete
               gone  == {fileNames[j] : j \in 1 .. count}
    <3>1. count \in Nat /\ count <= stored /\ count <= Len(fileNames)
          /\ count < MAX_FILES
      <4>1. count \in Nat
        BY MinusType DEF ToDelete, TypeOK, RangeType
      <4>2. count <= stored
        BY <1>0, <2>2, <4>1
      <4>3. stored <= Len(fileNames)
        BY <1>0 DEF DirectoryInv
      <4> HIDE DEF count
      <4> QED BY <1>0, <4>1, <4>2, <4>3, MaxFilesAssumption
    <3>2. /\ disk' = [n \in Counter |-> IF n \in gone THEN NoFile ELSE disk[n]]
          /\ fileNames' = SubSeq(fileNames, count + 1, Len(fileNames))
          /\ stored' = stored - count
          /\ oldest' = Plus(oldest, count)
          /\ UNCHANGED <<lpc, counter, written, newest>>
      BY <1>5, <2>2 DEF ClearSink, listenerVars
    <3> HIDE DEF count, gone
    <3>3. Len(fileNames') = Len(fileNames) - count /\ Deleted' = Deleted + count
      <4>1. Len(SubSeq(fileNames, count + 1, Len(fileNames))) = Len(fileNames) - count
        BY <1>0, <3>1
      <4>2. Len(fileNames') = Len(fileNames) - count
        BY <3>2, <4>1
      <4>3. Deleted' = written - Len(fileNames')
        BY <3>2 DEF Deleted
      <4>4. Deleted = written - Len(fileNames)
        BY DEF Deleted
      <4> QED BY <1>0, <3>1, <4>2, <4>3, <4>4
    <3>4. NextName' = SettledNewest'
      BY <3>2 DEF DirectoryInv, NextName, SettledNewest
    <3>5. ASSUME NEW i \in 1 .. Len(fileNames')
          PROVE  fileNames'[i] = Plus(oldest', i - 1)
      <4>1. i \in 1 .. Len(fileNames) - count /\ count + i \in 1 .. Len(fileNames)
        BY <1>0, <3>1, <3>3
      <4>2. fileNames'[i] = fileNames[count + i]
        BY <1>0, <3>1, <3>2, <4>1, SMTT(30)
      <4>3. \A j \in 1 .. Len(fileNames) : fileNames[j] = Plus(oldest, j - 1)
        BY DEF DirectoryInv
      <4>4. i - 1 \in Nat /\ count + (i - 1) < MAX_FILES
        BY <1>0, <3>1, <4>1, MaxFilesAssumption
      <4>5. Plus(Plus(oldest, count), i - 1) = Plus(oldest, count + (i - 1))
        BY <1>0, <3>1, <4>4, PlusPlus
      <4>6. count + (i - 1) = (count + i) - 1
        BY <3>1, <4>1
      <4>7. fileNames[count + i] = Plus(oldest, (count + i) - 1)
        BY <4>1, <4>3
      <4> QED BY <3>2, <4>2, <4>5, <4>6, <4>7
    <3>6. \A n \in Counter : n \in gone <=> Minus(n, oldest) < count
      <4> USE DEF gone
      <4> TAKE n \in Counter
      <4>1. Minus(n, oldest) \in Nat
        BY <1>0, MinusBound
      <4>2. ASSUME NEW j \in 1 .. count, n = fileNames[j]
            PROVE  Minus(n, oldest) < count
        <5>1. j \in 1 .. Len(fileNames)
          BY <1>0, <3>1
        <5>2. Minus(n, oldest) = j - 1
          BY <4>2, <5>1, NameDistance
        <5> QED BY <3>1, <5>2
      <4>3. ASSUME Minus(n, oldest) < count
            PROVE  n \in gone
        <5> DEFINE j == Minus(n, oldest) + 1
        <5>1. j \in 1 .. count /\ j \in 1 .. Len(fileNames)
              /\ j - 1 = Minus(n, oldest)
          BY <1>0, <3>1, <4>1, <4>3
        <5>2. fileNames[j] = Plus(oldest, j - 1)
          BY <5>1 DEF DirectoryInv
        <5>3. fileNames[j] = n
          BY <1>0, <5>1, <5>2, PlusOfMinus
        <5> QED BY <5>1, <5>3
      <4> QED BY <4>2, <4>3
    <3>7. ASSUME NEW n \in Counter
          PROVE  disk'[n] = IF Minus(n, oldest') < Len(fileNames')
                            THEN Deleted' + Minus(n, oldest') + 1
                            ELSE NoFile
      <4>1. Minus(n, oldest) \in Nat
        BY <1>0, MinusBound
      <4>2. Minus(n, oldest') = IF Minus(n, oldest) >= count
                                THEN Minus(n, oldest) - count
                                ELSE MAX_FILES + Minus(n, oldest) - count
        BY <1>0, <3>1, <3>2, MinusMoved
      <4>3. CASE n \in gone
        <5>1. Minus(n, oldest) < count
          BY <3>6, <4>3
        <5>2. ~(Minus(n, oldest') < Len(fileNames'))
          BY <1>0, <3>1, <3>3, <4>1, <4>2, <5>1, MaxFilesAssumption
        <5> QED BY <3>2, <4>3, <5>2
      <4>4. CASE n \notin gone
        <5>1. ~(Minus(n, oldest) < count)
          BY <3>6, <4>4
        <5>2. Minus(n, oldest') = Minus(n, oldest) - count
          BY <3>1, <4>1, <4>2, <5>1
        <5>3. /\ Minus(n, oldest') < Len(fileNames')
                   <=> Minus(n, oldest) < Len(fileNames)
              /\ Deleted' + Minus(n, oldest') = Deleted + Minus(n, oldest)
          BY <1>0, <3>1, <3>3, <4>1, <5>2
        <5>4. disk'[n] = disk[n]
          BY <3>2, <4>4
        <5> QED BY <5>3, <5>4 DEF DirectoryInv
      <4> QED BY <4>3, <4>4
    <3>8. /\ Len(fileNames') = stored' + IF lpc' = "push" THEN 1 ELSE 0
          /\ Len(fileNames') <= written'
      BY <1>0, <3>1, <3>2, <3>3 DEF DirectoryInv
    <3> QED BY <3>4, <3>5, <3>7, <3>8 DEF DirectoryInv
  <2> QED BY <2>1, <2>2
<1>6. CASE BeginRound \/ EraseRemoved \/ SetRange \/ RaiseSemaphore \/ MarkBusy \/
           BeginWait \/ WaitModule \/ SigAlarm \/ Handler
  BY <1>6, DirectoryFrame
  DEF BeginRound, EraseRemoved, SetRange, RaiseSemaphore, MarkBusy, BeginWait, WaitModule,
      SigAlarm, Handler, SigChild, RestartOrDelete
<1>7. ASSUME NEW m \in Modules, ModuleThread(m) \/ DieOfItself(m) \/ DieOfSigterm(m)
      PROVE  DirectoryInv'
  BY <1>7, DirectoryFrame
  DEF ModuleThread, WaitForPackets, BeginImport, ImportPacket, NotifyDone,
      DieOfItself, DieOfSigterm
<1>8. CASE UNCHANGED vars
  BY <1>8, DirectoryFrame DEF vars
<1> QED
  BY <1>1, <1>2, <1>3, <1>4, <1>5, <1>6, <1>7, <1>8 DEF Next, Listener, ManagerThread

\* The directory is as it should be in every run, whatever fails.
THEOREM DirectoryIsConsistent == Spec => []DirectoryInv
<1>1. Init => DirectoryInv
  <2> SUFFICES ASSUME Init PROVE DirectoryInv
    OBVIOUS
  <2>1. fileNames = <<>> /\ Len(fileNames) = 0 /\ Deleted = 0
    <3>1. fileNames = <<>> /\ written = 0
      BY DEF Init
    <3>2. Len(fileNames) = 0
      BY <3>1, EmptySeq
    <3>3. Deleted = 0 - Len(fileNames)
      BY <3>1 DEF Deleted
    <3> QED BY <3>1, <3>2, <3>3
  <2>2. NextName = SettledNewest
    BY MaxFilesAssumption DEF Init, NextName, SettledNewest
  <2>3. \A n \in Counter : disk[n] = NoFile /\ ~(Minus(n, oldest) < 0)
    <3>1. oldest = 0 /\ 0 \in Counter /\ disk = [n \in Counter |-> NoFile]
      BY MaxFilesAssumption DEF Init, Counter
    <3> QED BY <3>1, MinusBound
  <2> QED BY <2>1, <2>2, <2>3 DEF Init, DirectoryInv
<1>2. IInv /\ DirectoryInv /\ [Next]_vars => DirectoryInv'
  BY DirectoryStep DEF IInv
<1> QED BY <1>1, <1>2, Invariance, PTL DEF Spec

-----------------------------------------------------------------------------
(* The modules' progress through the range.                                *)

\* Within the range a file is found: its name is the name of a stored packet,
\* and the file holds the packet next after those that the module has reached.
LEMMA FileOfPosition ==
  ASSUME IInv, DirectoryInv, DeliveryInv,
         NEW m \in Modules, dpc[m] = "import", pos[m] # to
  PROVE  /\ from = oldest /\ from \in Counter /\ to \in Counter
         /\ Minus(pos[m], from) < Minus(to, from)
         /\ Minus(pos[m], from) + 1 < MAX_FILES
         /\ disk[pos[m]] = Deleted + Reached(m) + 1
         /\ disk[pos[m]] # NoFile
<1>1. pos[m] \in Counter /\ oldest \in Counter /\ stored \in Nat
  BY DEF IInv, TypeOK, ModuleType, StoreType
<1>2. AtWork(m)
  BY DEF DeliveryInv, TurnInv
<1>3. Announced
  BY <1>2, ExchangeAssumption DEF AtWork, Announced, DeliveryInv, TurnInv, Modules
<1>4. from = oldest /\ to \in Counter /\ Minus(to, from) <= stored
  BY <1>3 DEF DeliveryInv, RangeInv
<1>5. Minus(pos[m], from) <= Minus(to, from)
  BY DEF DeliveryInv, ParsedInv
<1>6. Minus(pos[m], from) \in Nat /\ Minus(to, from) \in Nat
  BY <1>1, <1>4, MinusBound
<1>7. Minus(pos[m], from) # Minus(to, from)
  BY <1>1, <1>4, MinusInjective
<1>8. Minus(pos[m], from) < Len(fileNames) /\ Len(fileNames) < MAX_FILES
      /\ Len(fileNames) \in Nat /\ Deleted \in Nat
      /\ Minus(pos[m], from) + 1 < MAX_FILES
  <2>1. stored <= Len(fileNames)
    BY <1>1 DEF DirectoryInv
  <2>2. Len(fileNames) \in Nat /\ Len(fileNames) < MAX_FILES /\ Deleted \in Nat
    BY DirectoryBound DEF IInv
  <2>3. stored < MAX_FILES
    BY <1>1, ExchangeAssumption, MaxFilesAssumption DEF IInv, StoreInv
  <2> QED
    BY <1>1, <1>4, <1>5, <1>6, <1>7, <2>1, <2>2, <2>3, MaxFilesAssumption
<1>9. disk[pos[m]] = Deleted + Minus(pos[m], from) + 1
  BY <1>1, <1>4, <1>8 DEF DirectoryInv
<1>10. Reached(m) = Minus(pos[m], from)
  BY DEF Reached
<1> QED BY <1>1, <1>4, <1>5, <1>6, <1>7, <1>8, <1>9, <1>10 DEF NoFile

\* As long as nothing but a write fails, no signal is sent and no process dies,
\* and the manager's and the modules' steps are the ones listed.
LEMMA QuietStep ==
  ASSUME IInv, DirectoryInv, DeliveryInv, Failures \subseteq {"write"}, Next
  PROVE  /\ QuietInv'
         /\ \/ Listener \/ BeginRound \/ EraseRemoved \/ SetRange
            \/ RaiseSemaphore \/ MarkBusy \/ BeginWait \/ WaitModule \/ ClearSink
            \/ \E m \in Modules :
                 \/ WaitForPackets(m) \/ BeginImport(m) \/ NotifyDone(m)
                 \/ ImportPacket(m) /\ UNCHANGED proc
<1>0. QuietInv /\ Zombies = {}
  BY DEF DeliveryInv, QuietInv, Zombies
<1>1. ~SigAlarm /\ ~SigChild /\ ~RestartOrDelete
  BY <1>0 DEF QuietInv, SigAlarm, SigChild, RestartOrDelete
<1>2. ASSUME NEW m \in Modules
      PROVE  ~DieOfItself(m) /\ ~DieOfSigterm(m)
  BY <1>0 DEF QuietInv, DieOfItself, DieOfSigterm
<1>3. ASSUME NEW m \in Modules, ImportPacket(m)
      PROVE  UNCHANGED <<proc, sigterm, sigchld>>
  BY <1>3, FileOfPosition DEF ImportPacket
<1>4. CASE Listener
  BY <1>0, <1>4
  DEF QuietInv, Listener, ReceivePacket, PushPacket, WrapNewest, NewPacket,
      containerVars, kernelVars
<1>5. CASE BeginRound \/ SetRange \/ RaiseSemaphore \/ MarkBusy \/ BeginWait
           \/ WaitModule \/ ClearSink
  <2>1. UNCHANGED <<container, state, proc, sigterm, sigchld, reaped, onManager>>
    BY <1>5
    DEF BeginRound, SetRange, RaiseSemaphore, MarkBusy, BeginWait, WaitModule, ClearSink,
        containerVars, kernelVars
  <2> QED BY <1>0, <1>5, <2>1 DEF QuietInv
<1>6. CASE EraseRemoved
  <2>1. cur <= Len(container) => state[container[cur]] = "Running"
    BY <1>0, ExchangeAssumption DEF QuietInv, IInv, TypeOK, ManagerType, Modules
  <2>2. UNCHANGED container
    BY <1>6, <2>1 DEF EraseRemoved
  <2> QED BY <1>0, <1>6, <2>2 DEF EraseRemoved, QuietInv, kernelVars
<1>7. ASSUME NEW m \in Modules, ModuleThread(m)
      PROVE  QuietInv'
  BY <1>0, <1>3, <1>7
  DEF QuietInv, ModuleThread, WaitForPackets, BeginImport, ImportPacket,
      NotifyDone, containerVars, kernelVars
<1> QED
  BY <1>1, <1>2, <1>3, <1>4, <1>5, <1>6, <1>7
  DEF Next, ManagerThread, Handler, ModuleThread

\* The container as the manager walks it.
LEMMA WholeContainer ==
  ASSUME QuietInv
  PROVE  /\ container # <<>> /\ Len(container) = NumModules
         /\ \A k \in Modules : container[k] = k
<1>1. container = [k \in 1 .. NumModules |-> k] /\ NumModules \in Nat \ {0}
  BY ExchangeAssumption DEF QuietInv
<1>2. container \in Seq(Modules)
  BY <1>1, IsASeq DEF Modules
<1>3. Len(container) = NumModules
  BY <1>1, <1>2
<1> QED BY <1>1, <1>2, <1>3 DEF Modules

\* The round's semaphores.
LEMMA TurnStep ==
  ASSUME IInv, DirectoryInv, DeliveryInv, Failures \subseteq {"write"}, Next
  PROVE  TurnInv'
<1>0. /\ QuietInv /\ TurnInv /\ RangeInv
      /\ container # <<>> /\ Len(container) = NumModules
      /\ \A k \in Modules : container[k] = k
      /\ NumModules \in Nat /\ cur \in Nat \ {0}
      /\ sem \in [Modules -> Nat \cup {Removed}]
      /\ dpc \in [Modules -> {"wait", "begin", "import", "notify"}]
  BY WholeContainer, ExchangeAssumption
  DEF DeliveryInv, IInv, TypeOK, ManagerType, KernelType, ModuleType
<1> USE DEF TurnInv, AtWork, Modules
<1>1. CASE Listener
  BY <1>0, <1>1
  DEF Listener, ReceivePacket, PushPacket, WrapNewest, NewPacket, managerVars,
      kernelVars, moduleVars
<1>2. CASE BeginRound
  BY <1>0, <1>2 DEF BeginRound, kernelVars, moduleVars
<1>3. CASE EraseRemoved
  <2>1. mpc = "erase" /\ UNCHANGED <<sem, dpc>>
    BY <1>3 DEF EraseRemoved, kernelVars, moduleVars
  <2>2. mpc' = "erase" \/ (mpc' = "set" /\ cur' = 1)
    BY <1>0, <1>3 DEF EraseRemoved
  <2> QED BY <1>0, <2>1, <2>2, ExchangeAssumption
<1>4. CASE SetRange
  BY <1>0, <1>4 DEF SetRange, kernelVars, moduleVars
<1>5. CASE RaiseSemaphore
  <2>1. mpc = "raise" /\ mpc' = "mark" /\ cur \in Modules /\ UNCHANGED <<cur, dpc>>
    BY <1>0, <1>5 DEF RaiseSemaphore, moduleVars
  <2>2. sem[cur] = 0 /\ dpc[cur] = "wait" /\ container[cur] = cur
    BY <1>0, <2>1
  <2>3. \A m \in Modules : sem'[m] = IF m = cur THEN 2 ELSE sem[m]
    BY <1>0, <1>5, <2>1, <2>2 DEF RaiseSemaphore, Removed
  <2> QED BY <1>0, <2>1, <2>2, <2>3
<1>5a. CASE MarkBusy
  <2>1. mpc = "mark" /\ cur \in Modules /\ UNCHANGED <<sem, dpc>>
    BY <1>0, <1>5a DEF MarkBusy, kernelVars, moduleVars
  <2>2. \/ cur = NumModules /\ mpc' = "wait" /\ cur' = 1
        \/ cur # NumModules /\ mpc' = "set" /\ cur' = cur + 1
    BY <1>0, <1>5a DEF MarkBusy
  <2> QED BY <1>0, <2>1, <2>2
<1>6. CASE BeginWait
  <2>1. cur \in Modules /\ container[cur] = cur /\ state[cur] = "Running"
    BY <1>0, <1>6 DEF BeginWait, QuietInv
  <2> QED BY <1>0, <1>6, <2>1 DEF BeginWait, kernelVars, moduleVars
<1>7. CASE WaitModule
  <2>1. mpc = "waiting" /\ cur \in Modules /\ container[cur] = cur
        /\ UNCHANGED <<sem, dpc>>
    BY <1>0, <1>7 DEF WaitModule, kernelVars, moduleVars
  <2>2. sem[cur] = 0
    BY <1>0, <1>7, <2>1 DEF WaitModule, HandedBack, QuietInv, Removed
  <2>3. \/ cur = NumModules /\ mpc' = "clear"
        \/ cur # NumModules /\ mpc' = "wait" /\ cur' = cur + 1
    BY <1>0, <1>7 DEF WaitModule, NextWait
  <2> QED BY <1>0, <2>1, <2>2, <2>3
<1>8. CASE ClearSink
  <2>1. mpc = "clear" /\ ~(ToDelete > stored)
    <3>1. mpc = "clear" /\ Minus(to, from) <= stored
      BY <1>0, <1>8 DEF ClearSink, RangeInv, Announced
    <3>2. Minus(to, from) \in Nat /\ stored \in Nat
      BY MinusType DEF IInv, TypeOK, RangeType, StoreType
    <3> QED BY <3>1, <3>2 DEF ToDelete
  <2>2. mpc' = "lock" /\ UNCHANGED <<sem, dpc>>
    BY <1>8, <2>1 DEF ClearSink, kernelVars, moduleVars
  <2> QED BY <1>0, <2>1, <2>2
<1>9. ASSUME NEW k \in Modules, WaitForPackets(k) \/ NotifyDone(k)
      PROVE  TurnInv'
  <2>1. UNCHANGED <<mpc, cur>> /\ sem[k] # Removed
    BY <1>0, <1>9 DEF WaitForPackets, NotifyDone, managerVars, Removed
  <2>2. /\ sem[k] > 0 /\ sem' = [sem EXCEPT ![k] = @ - 1]
        /\ \/ dpc[k] = "wait" /\ dpc' = [dpc EXCEPT ![k] = "begin"]
           \/ dpc[k] = "notify" /\ dpc' = [dpc EXCEPT ![k] = "wait"]
    BY <1>9, <2>1 DEF WaitForPackets, NotifyDone, TakeSemaphore
  <2>3. sem[k] \in {1, 2} /\ AtWork(k)
    BY <1>0, <2>2
  <2>4. ASSUME NEW m \in Modules
        PROVE  /\ sem'[m] \in IF dpc'[m] = "wait" THEN {0, 2} ELSE {1}
               /\ ~AtWork(m)' => sem'[m] = 0
    BY <1>0, <2>1, <2>2, <2>3
  <2> QED BY <1>0, <2>1, <2>4
<1>10. ASSUME NEW k \in Modules,
              BeginImport(k) \/ (ImportPacket(k) /\ UNCHANGED proc)
       PROVE  TurnInv'
  <2>1. UNCHANGED <<mpc, cur, sem>>
    BY <1>10 DEF BeginImport, ImportPacket, managerVars, kernelVars
  <2>2. \A m \in Modules : dpc'[m] = "wait" <=> dpc[m] = "wait"
    <3>1. proc[k] = "alive"
      BY <1>10 DEF BeginImport, ImportPacket
    <3>2. dpc[k] # "wait" /\ (dpc' = dpc \/ \E d \in {"import", "notify"} : dpc' = [dpc EXCEPT ![k] = d])
      BY <1>0, <1>10, <3>1 DEF BeginImport, ImportPacket, Die, IInv, TypeOK, KernelType
    <3> QED BY <1>0, <3>2
  <2> QED BY <1>0, <2>1, <2>2
<1> QED
  BY <1>1, <1>2, <1>3, <1>4, <1>5, <1>5a, <1>6, <1>7, <1>8, <1>9, <1>10, QuietStep

\* The announced range.
LEMMA RangeStep ==
  ASSUME IInv, DirectoryInv, DeliveryInv, WrapsAtOnce, Failures \subseteq {"write"},
         Next
  PROVE  RangeInv'
<1>0. /\ QuietInv /\ TurnInv /\ RangeInv
      /\ container # <<>> /\ Len(container) = NumModules
      /\ cur \in Nat \ {0} /\ stored \in Nat /\ oldest \in Counter
      /\ newest \in Counter /\ stored = Minus(newest, oldest)
      /\ from \in Counter /\ Minus(to, from) \in Nat
  <2>1. newest \in Counter
    BY DEF IInv, TypeOK, StoreType, StoreInv
  <2>2. SettledNewest = newest
    BY <2>1, MaxFilesAssumption DEF SettledNewest, Counter
  <2> QED
    BY <2>1, <2>2, WholeContainer, MinusType
    DEF DeliveryInv, IInv, StoreInv, TypeOK, ManagerType, StoreType, RangeType
<1> USE DEF RangeInv, Announced
<1>1. CASE ReceivePacket \/ WrapNewest \/ NewPacket
  BY <1>0, <1>1
  DEF ReceivePacket, WrapNewest, NewPacket, storeVars, rangeVars, managerVars
<1>2. CASE PushPacket
  BY <1>0, <1>2 DEF PushPacket, rangeVars, managerVars
<1>3. CASE BeginRound
  BY <1>3 DEF BeginRound
<1>4. CASE EraseRemoved
  BY <1>0, <1>4 DEF EraseRemoved
<1>5. CASE SetRange
  BY <1>0, <1>5 DEF SetRange, Announce, storeVars
<1>6. CASE RaiseSemaphore \/ MarkBusy
  BY <1>0, <1>6 DEF RaiseSemaphore, MarkBusy, storeVars, rangeVars
<1>7. CASE BeginWait \/ WaitModule
  BY <1>0, <1>7 DEF BeginWait, WaitModule, NextWait, storeVars, rangeVars
<1>8. CASE ClearSink
  <2>1. ~(ToDelete > stored)
    BY <1>0, <1>8 DEF ClearSink, ToDelete
  <2> QED BY <1>8, <2>1 DEF ClearSink
<1>9. ASSUME NEW m \in Modules,
             \/ WaitForPackets(m) \/ BeginImport(m) \/ NotifyDone(m)
             \/ ImportPacket(m)
      PROVE  RangeInv'
  BY <1>0, <1>9
  DEF WaitForPackets, BeginImport, ImportPacket, NotifyDone, storeVars, rangeVars,
      managerVars
<1> QED
  BY <1>1, <1>2, <1>3, <1>4, <1>5, <1>6, <1>7, <1>8, <1>9, QuietStep DEF Listener

\* What the modules have parsed.
LEMMA ParsedStep ==
  ASSUME IInv, DirectoryInv, DeliveryInv, WrapsAtOnce, Failures \subseteq {"write"},
         Next
  PROVE  ParsedInv'
<1>0. /\ QuietInv /\ TurnInv /\ RangeInv /\ ParsedInv
      /\ container # <<>> /\ Len(container) = NumModules /\ NumModules \in Nat
      /\ \A k \in Modules : container[k] = k
      /\ cur \in Nat \ {0} /\ Deleted \in Nat
      /\ sem \in [Modules -> Nat \cup {Removed}]
      /\ dpc \in [Modules -> {"wait", "begin", "import", "notify"}]
      /\ pos \in [Modules -> Counter]
      /\ parsed \in [Modules -> SUBSET Nat]
      /\ from \in Counter /\ Minus(to, from) \in Nat
      /\ \A m \in Modules : Minus(pos[m], from) \in Nat
  BY WholeContainer, DirectoryBound, MinusType, MinusBound, ExchangeAssumption
  DEF DeliveryInv, IInv, TypeOK, ManagerType, KernelType, ModuleType, RangeType
<1>a. \A m \in Modules : dpc[m] \in {"begin", "import", "notify"} =>
                           sem[m] = 1 /\ AtWork(m) /\ Told(m)
  BY <1>0 DEF TurnInv, AtWork, Told
<1>b. ASSUME UNCHANGED <<from, to, dpc, pos, parsed, sem>>, Deleted' = Deleted,
             \A m \in Modules : Told(m)' = Told(m)
      PROVE  ParsedInv'
  BY <1>0, <1>b DEF ParsedInv, Reached
<1>1. CASE ReceivePacket
  <2>1. Deleted' = Deleted
    <3>1. CASE fileNames' = Append(fileNames, counter) /\ written' = written + 1
      <4>1. Len(fileNames') = Len(fileNames) + 1
        BY <3>1 DEF IInv, TypeOK, StoreType, ListenerType
      <4> QED BY <3>1, <4>1 DEF Deleted, IInv, TypeOK, StoreType, ListenerType
    <3>2. CASE UNCHANGED <<fileNames, written>>
      BY <3>2 DEF Deleted
    <3> QED BY <1>1, <3>1, <3>2 DEF ReceivePacket
  <2> QED
    BY <1>1, <1>b, <2>1
    DEF ReceivePacket, Told, rangeVars, managerVars, kernelVars, moduleVars
<1>2. CASE PushPacket \/ WrapNewest \/ NewPacket
  BY <1>2, <1>b
  DEF PushPacket, WrapNewest, NewPacket, Deleted, Told, storeVars, rangeVars,
      managerVars, kernelVars, moduleVars
<1>3a. CASE MarkBusy
  <2>1. mpc = "mark" /\ cur \in Modules
    BY <1>0, <1>3a DEF MarkBusy, TurnInv
  <2>2. \A m \in Modules : Told(m)' = Told(m)
    BY <1>0, <1>3a, <2>1 DEF MarkBusy, Told, Modules
  <2> QED
    BY <1>3a, <1>b, <2>2
    DEF MarkBusy, Deleted, listenerVars, storeVars, rangeVars, kernelVars, moduleVars
<1>3. CASE BeginRound \/ BeginWait \/ WaitModule
  BY <1>3, <1>b
  DEF BeginRound, BeginWait, WaitModule, NextWait, Deleted, Told, listenerVars,
      storeVars, rangeVars, kernelVars, moduleVars
<1>4. CASE EraseRemoved
  <2>1. mpc = "erase" /\ (mpc' = "erase" \/ (mpc' = "set" /\ cur' = 1))
    BY <1>0, <1>4 DEF EraseRemoved
  <2>2. \A m \in Modules : Told(m)' = Told(m)
    BY <2>1 DEF Told, Modules
  <2> QED
    BY <1>4, <1>b, <2>2
    DEF EraseRemoved, Deleted, listenerVars, storeVars, rangeVars, kernelVars,
        moduleVars
<1>5. CASE SetRange
  <2>1. /\ mpc = "set" /\ mpc' = "raise" /\ from' = oldest /\ to' = newest
        /\ UNCHANGED <<cur, dpc, pos, parsed, sem, written, fileNames>>
    BY <1>5
    DEF SetRange, Announce, listenerVars, storeVars, kernelVars, moduleVars
  <2>2. Deleted' = Deleted /\ \A m \in Modules : Told(m)' = Told(m)
    BY <2>1 DEF Deleted, Told
  <2>3. stored = Minus(newest, oldest) /\ stored \in Nat
    <3>1. newest \in Counter
      BY DEF IInv, TypeOK, StoreType, StoreInv
    <3>2. SettledNewest = newest
      BY <3>1, MaxFilesAssumption DEF SettledNewest, Counter
    <3> QED BY <3>2 DEF IInv, TypeOK, StoreType, StoreInv
  <2>4. ASSUME NEW m \in Modules, Told(m)
        PROVE  from' = from /\ Minus(to, from) <= Minus(to', from') /\ NumModules # 1
    <3>1. cur > 1 /\ cur \in Modules
      BY <1>0, <2>1, <2>4 DEF Told, TurnInv, Modules
    <3>2. from = oldest /\ Minus(to, from) <= stored
      BY <1>0, <2>1, <3>1 DEF RangeInv, Announced
    <3> QED BY <2>1, <2>3, <3>1, <3>2 DEF Modules
  <2>5. ASSUME NEW m \in Modules
        PROVE  /\ dpc'[m] = "import" => Minus(pos'[m], from') <= Minus(to', from')
               /\ parsed'[m] \subseteq 1 .. Deleted' + Reached(m)'
               /\ NumModules = 1 => parsed'[m] = 1 .. Deleted' + Reached(m)'
    <3>1. CASE Told(m)
      <4>1. from' = from /\ Minus(to, from) <= Minus(to', from') /\ NumModules # 1
            /\ Minus(to', from') \in Nat
        BY <2>1, <2>3, <2>4, <3>1
      <4>2. Reached(m) <= Reached(m)' /\ Reached(m) \in Nat /\ Reached(m)' \in Nat
        BY <1>0, <2>1, <2>2, <4>1 DEF Reached
      <4>3. parsed[m] \subseteq 1 .. Deleted + Reached(m)
        BY <1>0 DEF ParsedInv
      <4>4. dpc[m] = "import" => Minus(pos[m], from) <= Minus(to, from)
        BY <1>0 DEF ParsedInv
      <4>5. dpc'[m] = "import" => Minus(pos'[m], from') <= Minus(to', from')
        BY <1>0, <2>1, <4>1, <4>4
      <4>6. parsed'[m] \subseteq 1 .. Deleted' + Reached(m)'
        BY <1>0, <2>1, <2>2, <4>2, <4>3
      <4> QED BY <4>1, <4>5, <4>6
    <3>2. CASE ~Told(m)
      <4>1. dpc[m] = "wait"
        BY <1>0, <1>a, <3>2
      <4>2. Reached(m) = 0 /\ Reached(m)' = 0
        BY <2>1, <2>2, <3>2, <4>1 DEF Reached
      <4> QED BY <1>0, <2>1, <2>2, <4>1, <4>2 DEF ParsedInv
    <3> QED BY <3>1, <3>2
  <2> QED BY <2>5 DEF ParsedInv
<1>6. CASE RaiseSemaphore
  <2>1. /\ mpc = "raise" /\ cur \in Modules /\ container[cur] = cur
        /\ UNCHANGED <<from, to, dpc, pos, parsed, written, fileNames>>
    BY <1>0, <1>6
    DEF RaiseSemaphore, TurnInv, listenerVars, storeVars, rangeVars, moduleVars
  <2>2. sem[cur] = 0 /\ dpc[cur] = "wait"
    BY <1>0, <2>1 DEF TurnInv, AtWork, Modules
  <2>3. \A m \in Modules : sem'[m] = IF m = cur THEN 2 ELSE sem[m]
    BY <1>0, <1>6, <2>1, <2>2 DEF RaiseSemaphore, Removed
  <2>4. \A m \in Modules : m # cur => Told(m)' = Told(m)
    BY <1>0, <1>6, <2>1 DEF RaiseSemaphore, Told, Modules
  <2>5. Deleted' = Deleted
    BY <2>1 DEF Deleted
  <2>6. \A m \in Modules : Reached(m)' = Reached(m)
    <3> TAKE m \in Modules
    <3>1. CASE m = cur
      BY <1>0, <2>1, <2>2, <2>3, <3>1 DEF Reached, Told, Modules
    <3>2. CASE m # cur
      BY <2>1, <2>3, <2>4, <3>2 DEF Reached
    <3> QED BY <3>1, <3>2
  <2> QED BY <1>0, <2>1, <2>5, <2>6 DEF ParsedInv
<1>7. CASE ClearSink
  <2>1. mpc = "clear" /\ from = oldest /\ Minus(to, from) <= stored
    BY <1>0, <1>7 DEF ClearSink, RangeInv, Announced
  <2>2. ~(ToDelete > stored) /\ ToDelete = Minus(to, from) /\ ToDelete <= Len(fileNames)
    <3>1. stored \in Nat /\ stored <= Len(fileNames) /\ Len(fileNames) \in Nat
      BY DirectoryBound DEF DirectoryInv, IInv, TypeOK, StoreType
    <3> QED BY <1>0, <2>1, <3>1 DEF ToDelete
  <2>3. /\ fileNames' = SubSeq(fileNames, ToDelete + 1, Len(fileNames))
        /\ mpc' = "lock"
        /\ UNCHANGED <<written, from, to, sem, dpc, pos, parsed>>
    BY <1>7, <2>2
    DEF ClearSink, listenerVars, rangeVars, kernelVars, moduleVars
  <2>4. Deleted' = Deleted + Minus(to, from)
    <3>1. fileNames \in Seq(Counter) /\ written \in Nat
      BY DEF IInv, TypeOK, StoreType, ListenerType
    <3>2. Len(SubSeq(fileNames, ToDelete + 1, Len(fileNames)))
            = Len(fileNames) - ToDelete
      BY <1>0, <2>2, <3>1
    <3>3. Len(fileNames') = Len(fileNames) - ToDelete
      BY <2>3, <3>2
    <3>4. Deleted' = written - Len(fileNames')
      BY <2>3 DEF Deleted
    <3>5. Deleted = written - Len(fileNames)
      BY DEF Deleted
    <3> QED BY <1>0, <2>2, <3>1, <3>3, <3>4, <3>5
  <2>5. \A m \in Modules : dpc[m] = "wait" /\ sem[m] = 0
    BY <1>0, <2>1 DEF TurnInv, AtWork
  <2>6. \A m \in Modules : Reached(m) = Minus(to, from) /\ Reached(m)' = 0
    BY <2>1, <2>3, <2>5 DEF Reached, Told
  <2>7. \A m \in Modules : Deleted' + Reached(m)' = Deleted + Reached(m)
    BY <1>0, <2>4, <2>6
  <2> QED BY <1>0, <2>3, <2>5, <2>7 DEF ParsedInv
<1>8. ASSUME NEW k \in Modules, WaitForPackets(k) \/ NotifyDone(k)
      PROVE  ParsedInv'
  <2>1. UNCHANGED <<from, to, mpc, cur, pos, parsed, written, fileNames>>
        /\ sem[k] # Removed
    BY <1>0, <1>8
    DEF WaitForPackets, NotifyDone, TurnInv, listenerVars, storeVars, rangeVars,
        managerVars, Removed
  <2>2. /\ sem[k] > 0 /\ sem' = [sem EXCEPT ![k] = @ - 1]
        /\ \/ dpc[k] = "wait" /\ dpc' = [dpc EXCEPT ![k] = "begin"]
           \/ dpc[k] = "notify" /\ dpc' = [dpc EXCEPT ![k] = "wait"]
    BY <1>8, <2>1 DEF WaitForPackets, NotifyDone, TakeSemaphore
  <2>3. Deleted' = Deleted /\ \A m \in Modules : Told(m)' = Told(m)
    BY <2>1 DEF Deleted, Told
  <2>4. \A m \in Modules :
          Reached(m)' = Reached(m) /\ (dpc'[m] = "import" <=> dpc[m] = "import")
    <3> TAKE m \in Modules
    <3>1. CASE m # k
      BY <1>0, <2>1, <2>2, <2>3, <3>1 DEF Reached
    <3>2. CASE m = k /\ dpc[k] = "wait"
      BY <1>0, <2>1, <2>2, <2>3, <3>2 DEF Reached, TurnInv
    <3>3. CASE m = k /\ dpc[k] = "notify"
      <4>1. sem[k] = 1 /\ Told(k)
        BY <1>a, <3>3
      <4>2. sem'[k] = 0 /\ dpc'[k] = "wait"
        BY <1>0, <2>2, <3>3, <4>1
      <4> QED BY <2>1, <2>3, <3>3, <4>1, <4>2 DEF Reached
    <3> QED BY <2>2, <3>1, <3>2, <3>3
  <2> QED BY <1>0, <2>1, <2>3, <2>4 DEF ParsedInv
<1>9. ASSUME NEW k \in Modules, BeginImport(k)
      PROVE  ParsedInv'
  <2>1. /\ dpc[k] = "begin"
        /\ pos' = [pos EXCEPT ![k] = from] /\ dpc' = [dpc EXCEPT ![k] = "import"]
        /\ UNCHANGED <<from, to, mpc, cur, parsed, sem, written, fileNames>>
    BY <1>9
    DEF BeginImport, listenerVars, storeVars, rangeVars, managerVars, kernelVars
  <2>2. sem[k] = 1 /\ Minus(from, from) = 0
    BY <1>0, <1>a, <2>1, MinusBound
  <2>3. Deleted' = Deleted /\ \A m \in Modules : Told(m)' = Told(m)
    BY <2>1 DEF Deleted, Told
  <2>4. \A m \in Modules : Reached(m)' = Reached(m)
    <3> TAKE m \in Modules
    <3>1. CASE m # k
      BY <1>0, <2>1, <2>3, <3>1 DEF Reached
    <3>2. CASE m = k
      BY <1>0, <2>1, <2>2, <2>3, <3>2 DEF Reached
    <3> QED BY <3>1, <3>2
  <2>5. \A m \in Modules : dpc'[m] = "import" =>
          Minus(pos'[m], from') <= Minus(to', from')
    BY <1>0, <2>1, <2>2 DEF ParsedInv
  <2> QED BY <1>0, <2>1, <2>3, <2>4, <2>5 DEF ParsedInv
<1>10. ASSUME NEW k \in Modules, ImportPacket(k), UNCHANGED proc
       PROVE  ParsedInv'
  <2>1. /\ dpc[k] = "import" /\ proc[k] = "alive"
        /\ UNCHANGED <<from, to, mpc, cur, sem, written, fileNames>>
    BY <1>10 DEF ImportPacket, listenerVars, storeVars, rangeVars, managerVars
  <2>2. Deleted' = Deleted /\ \A m \in Modules : Told(m)' = Told(m)
    BY <2>1 DEF Deleted, Told
  <2>3. CASE /\ pos[k] = to /\ dpc' = [dpc EXCEPT ![k] = "notify"]
             /\ UNCHANGED <<pos, parsed>>
    <3>1. \A m \in Modules : Reached(m)' = Reached(m)
      <4> TAKE m \in Modules
      <4>1. CASE m # k
        BY <1>0, <2>1, <2>2, <2>3, <4>1 DEF Reached
      <4>2. CASE m = k
        BY <1>0, <1>a, <2>1, <2>2, <2>3, <4>2 DEF Reached
      <4> QED BY <4>1, <4>2
    <3>2. \A m \in Modules : dpc'[m] = "import" => dpc[m] = "import"
      BY <1>0, <2>3
    <3> QED BY <1>0, <2>1, <2>2, <2>3, <3>1, <3>2 DEF ParsedInv
  <2>4. CASE /\ pos[k] # to
             /\ parsed' = [parsed EXCEPT ![k] = @ \cup {disk[pos[k]]}]
             /\ pos' = [pos EXCEPT ![k] = Inc(@)]
             /\ UNCHANGED dpc
    <3>1. /\ Minus(pos[k], from) < Minus(to, from)
          /\ Minus(pos[k], from) + 1 < MAX_FILES
          /\ disk[pos[k]] = Deleted + Reached(k) + 1
      BY <2>1, <2>4, FileOfPosition
    <3>2. Minus(Inc(pos[k]), from) = Minus(pos[k], from) + 1
      BY <1>0, <3>1, MinusInc
    <3>3. Reached(k) = Minus(pos[k], from) /\ Reached(k)' = Reached(k) + 1
          /\ Reached(k) \in Nat
      BY <1>0, <2>1, <2>4, <3>2 DEF Reached
    <3>4. 1 .. Deleted + Reached(k)'
            = (1 .. Deleted + Reached(k)) \cup {Deleted + Reached(k) + 1}
      BY <1>0, <3>3
    <3>5. ASSUME NEW m \in Modules
          PROVE  /\ dpc'[m] = "import" => Minus(pos'[m], from') <= Minus(to', from')
                 /\ parsed'[m] \subseteq 1 .. Deleted' + Reached(m)'
                 /\ NumModules = 1 => parsed'[m] = 1 .. Deleted' + Reached(m)'
      <4>1. CASE m # k
        <5>1. Reached(m)' = Reached(m) /\ parsed'[m] = parsed[m] /\ pos'[m] = pos[m]
          BY <1>0, <2>1, <2>2, <2>4, <4>1 DEF Reached
        <5> QED BY <1>0, <2>1, <2>2, <2>4, <5>1 DEF ParsedInv
      <4>2. CASE m = k
        <5>1. parsed'[k] = parsed[k] \cup {Deleted + Reached(k) + 1}
              /\ pos'[k] = Inc(pos[k])
          BY <1>0, <2>4, <3>1
        <5>2. Minus(pos'[k], from') <= Minus(to', from')
          BY <1>0, <2>1, <3>1, <3>2, <5>1
        <5>3. /\ parsed[k] \subseteq 1 .. Deleted + Reached(k)
              /\ NumModules = 1 => parsed[k] = 1 .. Deleted + Reached(k)
          BY <1>0 DEF ParsedInv
        <5> QED BY <2>2, <3>4, <4>2, <5>1, <5>2, <5>3
      <4> QED BY <4>1, <4>2
    <3> QED BY <3>5 DEF ParsedInv
  <2>5. ~(pos[k] # to /\ disk[pos[k]] = NoFile)
    BY <2>1, FileOfPosition
  <2> QED BY <1>10, <2>3, <2>4, <2>5 DEF ImportPacket
<1> QED
  BY <1>1, <1>2, <1>3, <1>3a, <1>4, <1>5, <1>6, <1>7, <1>8, <1>9, <1>10, QuietStep
  DEF Listener

-----------------------------------------------------------------------------
(* The theorems.                                                           *)

\* The invariant of an exchange in which nothing but a write fails.
LEMMA InitDelivery == Init => DeliveryInv
<1> SUFFICES ASSUME Init PROVE DeliveryInv
  OBVIOUS
<1>1. mpc = "lock" /\ cur = 1
  BY DEF Init
<1>2. QuietInv
  BY DEF Init, QuietInv
<1>3. TurnInv
  BY <1>1 DEF Init, TurnInv
<1>4. RangeInv
  BY <1>1 DEF RangeInv, Announced
<1>5. ParsedInv
  <2>1. Deleted = 0
    <3>1. fileNames = <<>> /\ written = 0
      BY DEF Init
    <3>2. Len(fileNames) = 0
      BY <3>1, EmptySeq
    <3>3. Deleted = 0 - Len(fileNames)
      BY <3>1 DEF Deleted
    <3> QED BY <3>2, <3>3
  <2>2. \A m \in Modules : dpc[m] = "wait" /\ parsed[m] = {} /\ ~Told(m)
    BY <1>1 DEF Init, Told
  <2>3. \A m \in Modules : Reached(m) = 0
    BY <2>2 DEF Reached
  <2>4. \A m \in Modules : parsed[m] = 1 .. Deleted + Reached(m)
    BY <2>1, <2>2, <2>3
  <2> QED BY <2>2, <2>4 DEF ParsedInv
<1> QED BY <1>2, <1>3, <1>4, <1>5 DEF DeliveryInv

LEMMA DeliveryStep ==
  ASSUME IInv, DirectoryInv, DeliveryInv, WrapsAtOnce, Failures \subseteq {"write"},
         [Next]_vars
  PROVE  DeliveryInv'
<1>1. CASE Next
  BY <1>1, QuietStep, TurnStep, RangeStep, ParsedStep DEF DeliveryInv
<1>2. CASE UNCHANGED vars
  <2>1. UNCHANGED <<mpc, cur, container, state, proc, sem, sigterm, sigchld, reaped,
                    onManager, from, to, dpc, pos, parsed, written, fileNames,
                    oldest, stored>>
    BY <1>2
    DEF vars, listenerVars, storeVars, rangeVars, managerVars, containerVars,
        kernelVars, moduleVars
  <2> QED
    BY <2>1
    DEF DeliveryInv, QuietInv, TurnInv, AtWork, RangeInv, Announced, ParsedInv,
        Reached, Told, Deleted
<1> QED BY <1>1, <1>2

\* While nothing but a write fails, a module that opens a packet file finds it:
\* clearSink does not unlink a name of the range that a module still has to
\* open, and the listener has written every name before it announces it.
THEOREM EveryFileIsFound ==
  ASSUME Failures \subseteq {"write"}, WrapsAtOnce
  PROVE  Spec => []NoMissingFile
<1>1. IInv /\ DirectoryInv /\ DeliveryInv /\ [Next]_vars => DeliveryInv'
  BY DeliveryStep
<1>2. IInv /\ DirectoryInv /\ DeliveryInv => NoMissingFile
  BY FileOfPosition DEF NoMissingFile
<1> QED
  BY <1>1, <1>2, InitDelivery, Invariance, DirectoryIsConsistent, PTL DEF Spec

\* And it parses the packets in the order in which they were written, none
\* twice, whatever names they have and however often the names start over.
THEOREM PacketsAreParsedInOrder ==
  ASSUME Failures \subseteq {"write"}, WrapsAtOnce
  PROVE  Spec => ParsedInOrder
<1>1. IInv /\ DirectoryInv /\ DeliveryInv /\ [Next]_vars => DeliveryInv'
  BY DeliveryStep
<1>2. ASSUME IInv, DirectoryInv, DeliveryInv, [Next]_vars, NEW m \in Modules,
             dpc[m] = "import", pos'[m] # pos[m], proc'[m] = "alive",
             NEW p \in parsed[m]
      PROVE  p < disk[pos[m]]
  <2>a. TypeOK /\ StoreInv
    BY <1>2 DEF IInv
  <2>1. dpc \in [Modules -> {"wait", "begin", "import", "notify"}]
        /\ pos \in [Modules -> Counter] /\ Deleted \in Nat
    BY <1>2, <2>a, DirectoryBound DEF TypeOK, ModuleType
  <2>2. pos # pos'
    BY <1>2
  <2>3. CASE pos[m] # to
    <3>1. /\ disk[pos[m]] = Deleted + Reached(m) + 1
          /\ Minus(pos[m], from) \in Nat /\ Reached(m) \in Nat
      BY <1>2, <2>1, <2>3, FileOfPosition, MinusBound DEF Reached
    <3>2. p \in 1 .. Deleted + Reached(m)
      BY <1>2 DEF DeliveryInv, ParsedInv
    <3> QED BY <2>1, <3>1, <3>2
  <2>4. CASE pos[m] = to
    <3>1. Next
      BY <1>2, <2>2 DEF vars, moduleVars
    <3>2. \E k \in Modules : WaitForPackets(k) \/ BeginImport(k) \/ NotifyDone(k)
                              \/ (ImportPacket(k) /\ UNCHANGED proc)
      BY <1>2, <2>2, <3>1, QuietStep
      DEF Listener, ReceivePacket, PushPacket, WrapNewest, NewPacket, BeginRound,
          EraseRemoved, SetRange, RaiseSemaphore, MarkBusy, BeginWait, WaitModule, ClearSink,
          moduleVars
    <3>3. PICK k \in Modules : BeginImport(k) \/ (ImportPacket(k) /\ UNCHANGED proc)
      BY <2>2, <3>2 DEF WaitForPackets, NotifyDone
    <3>4. k = m
      BY <1>2, <2>1, <3>3 DEF BeginImport, ImportPacket, Die, IInv, TypeOK, KernelType
    <3> QED BY <1>2, <2>4, <3>3, <3>4 DEF BeginImport, ImportPacket
  <2> QED BY <2>3, <2>4
<1>3. IInv /\ DirectoryInv /\ DeliveryInv /\ [Next]_vars
        => [\A m \in Modules :
              (dpc[m] = "import" /\ pos'[m] # pos[m] /\ proc'[m] = "alive")
                => \A p \in parsed[m] : p < disk[pos[m]]]_vars
  BY <1>2
<1> QED
  BY <1>1, <1>3, InitDelivery, Invariance, DirectoryIsConsistent, PTL
  DEF Spec, ParsedInOrder

\* With one module the exchange implements the delivery of PacketDelivery:
\* every packet that was written is parsed, in order, before it is deleted.
THEOREM ExchangeImplementsDelivery ==
  ASSUME Failures \subseteq {"write"}, WrapsAtOnce, NumModules = 1
  PROVE  Spec => ImplementsDelivery
<1>1. Init => Delivery!Init
  <2> SUFFICES ASSUME Init PROVE Delivery!Init
    OBVIOUS
  <2>1. fileNames = <<>> /\ written = 0 /\ parsed = [m \in Modules |-> {}]
    BY DEF Init
  <2>2. Len(fileNames) = 0
    BY <2>1, EmptySeq
  <2>3. written - Len(fileNames) = 0
    <3>1. written = 0
      BY <2>1
    <3> QED BY <2>2, <3>1
  <2> QED BY <2>1, <2>3 DEF Delivery!Init
<1>2. IInv /\ DirectoryInv /\ DeliveryInv /\ [Next]_vars => DeliveryInv'
  BY DeliveryStep
<1>3. ASSUME IInv, DirectoryInv, DeliveryInv, Next
      PROVE  [Delivery!Next]_(Delivery!vars)
  <2>0. /\ 1 \in Modules /\ \A m \in Modules : m = 1
        /\ written \in Nat /\ Len(fileNames) \in Nat /\ Len(fileNames) <= written
        /\ fileNames \in Seq(Counter) /\ parsed \in [Modules -> SUBSET Nat]
        /\ Deleted = written - Len(fileNames) /\ counter \in Counter
    BY <1>3
    DEF Modules, IInv, TypeOK, ListenerType, StoreType, ModuleType, DirectoryInv,
        Deleted
  <2>1. ASSUME UNCHANGED <<written, fileNames, parsed>>
        PROVE  UNCHANGED Delivery!vars
    BY <2>1 DEF Delivery!vars
  <2>2. CASE ReceivePacket
    <3>1. CASE fileNames' = Append(fileNames, counter) /\ written' = written + 1
      <4>1. Len(fileNames') = Len(fileNames) + 1
        BY <2>0, <3>1
      <4>2. written' - Len(fileNames') = written - Len(fileNames) /\ UNCHANGED parsed
        BY <2>0, <2>2, <3>1, <4>1 DEF ReceivePacket, moduleVars
      <4> QED BY <3>1, <4>2 DEF Delivery!Publish, Delivery!Next
    <3>2. CASE UNCHANGED <<fileNames, written>>
      BY <2>1, <2>2, <3>2 DEF ReceivePacket, moduleVars
    <3> QED BY <2>2, <3>1, <3>2 DEF ReceivePacket
  <2>3. CASE ClearSink
    <3>1. mpc = "clear" /\ from = oldest /\ Minus(to, from) <= stored
      BY <1>3, <2>3 DEF ClearSink, DeliveryInv, RangeInv, Announced
    <3>2. Minus(to, from) \in Nat /\ stored \in Nat /\ stored <= Len(fileNames)
      <4>1. Minus(to, from) \in Nat /\ stored \in Nat
        BY <1>3, MinusType DEF IInv, TypeOK, RangeType, StoreType
      <4> QED BY <1>3, <4>1 DEF DirectoryInv
    <3> DEFINE count == Minus(to, from)
    <3>3. /\ fileNames' = SubSeq(fileNames, count + 1, Len(fileNames))
          /\ UNCHANGED <<written, parsed>>
      BY <2>3, <3>1, <3>2 DEF ClearSink, ToDelete, listenerVars, moduleVars
    <3>4. dpc[1] = "wait" /\ sem[1] = 0
      BY <1>3, <2>0, <3>1 DEF DeliveryInv, TurnInv, AtWork
    <3>5. Reached(1) = count
      BY <3>1, <3>4 DEF Reached, Told
    <3>6. parsed[1] = 1 .. Deleted + count
      BY <1>3, <2>0, <3>5 DEF DeliveryInv, ParsedInv
    <3> HIDE DEF count
    <3>7. count \in Nat /\ count <= Len(fileNames)
      BY <2>0, <3>1, <3>2 DEF count
    <3>8. written' - Len(fileNames') = Deleted + count
      <4>1. Len(SubSeq(fileNames, count + 1, Len(fileNames)))
              = Len(fileNames) - count
        BY <2>0, <3>7
      <4>2. Len(fileNames') = Len(fileNames) - count
        BY <3>3, <4>1
      <4>3. written' - Len(fileNames') = written - (Len(fileNames) - count)
        BY <3>3, <4>2
      <4>4. Deleted = written - Len(fileNames) /\ written \in Nat /\ Len(fileNames) \in Nat
        BY <2>0
      <4> QED BY <3>7, <4>3, <4>4
    <3>9. CASE count = 0
      <4>1. written' - Len(fileNames') = written - Len(fileNames)
        BY <2>0, <3>8, <3>9
      <4> QED BY <3>3, <4>1 DEF Delivery!vars
    <3>10. CASE count # 0
      <4>1. written' - Len(fileNames') \in (written - Len(fileNames)) + 1 .. written
        BY <2>0, <3>7, <3>8, <3>10
      <4>2. \A m \in Modules : 1 .. written' - Len(fileNames') \subseteq parsed[m]
        BY <2>0, <3>6, <3>8
      <4> QED BY <3>3, <4>1, <4>2 DEF Delivery!Delete, Delivery!Next
    <3> QED BY <3>9, <3>10
  <2>4. ASSUME NEW m \in Modules, ImportPacket(m), UNCHANGED proc
        PROVE  [Delivery!Next]_(Delivery!vars)
    <3>1. dpc[m] = "import" /\ proc[m] = "alive" /\ UNCHANGED <<written, fileNames>>
      BY <2>4 DEF ImportPacket, listenerVars, storeVars
    <3>2. CASE pos[m] = to
      BY <2>1, <2>4, <3>1, <3>2 DEF ImportPacket
    <3>3. CASE pos[m] # to
      <4>1. /\ Minus(pos[m], from) < Minus(to, from) /\ Minus(to, from) <= stored
            /\ disk[pos[m]] = Deleted + Reached(m) + 1 /\ disk[pos[m]] # NoFile
            /\ Reached(m) = Minus(pos[m], from) /\ Reached(m) \in Nat
            /\ Minus(to, from) \in Nat
        <5>1. AtWork(m)
          BY <1>3, <3>1 DEF DeliveryInv, TurnInv
        <5>2. Announced
          BY <1>3, <2>0, <5>1 DEF AtWork, Announced, DeliveryInv, TurnInv
        <5>3. pos[m] \in Counter
          BY <1>3 DEF IInv, TypeOK, ModuleType
        <5> QED
          BY <1>3, <3>1, <3>3, <5>2, <5>3, FileOfPosition, MinusBound
          DEF Reached, DeliveryInv, RangeInv
      <4>2. parsed' = [parsed EXCEPT ![m] = @ \cup {disk[pos[m]]}]
        BY <2>4, <3>3, <4>1 DEF ImportPacket
      <4> DEFINE p == Deleted + Reached(m) + 1
      <4>3. p \in 1 .. written
        <5>1. stored \in Nat /\ stored <= Len(fileNames)
          BY <1>3 DEF IInv, TypeOK, StoreType, DirectoryInv
        <5> QED BY <2>0, <4>1, <5>1
      <4>4. parsed[m] = 1 .. p - 1
        <5>1. parsed[m] = 1 .. Deleted + Reached(m)
          BY <1>3 DEF DeliveryInv, ParsedInv
        <5> QED BY <2>0, <4>1, <5>1
      <4>5. parsed' = [parsed EXCEPT ![m] = 1 .. p]
        <5>1. (1 .. p - 1) \cup {p} = 1 .. p
          BY <4>3
        <5> QED BY <4>1, <4>2, <4>4, <5>1
      <4>6. written' - Len(fileNames') = written - Len(fileNames)
        BY <3>1
      <4> HIDE DEF p
      <4>7. Delivery!Parse(m)
        BY <3>1, <4>3, <4>4, <4>5, <4>6 DEF Delivery!Parse
      <4> QED BY <4>7 DEF Delivery!Next
    <3> QED BY <3>2, <3>3
  <2>5. CASE PushPacket \/ WrapNewest \/ NewPacket \/ BeginRound \/ EraseRemoved
             \/ SetRange \/ RaiseSemaphore \/ MarkBusy \/ BeginWait \/ WaitModule
    BY <2>1, <2>5
    DEF PushPacket, WrapNewest, NewPacket, BeginRound, EraseRemoved, SetRange,
        RaiseSemaphore, MarkBusy, BeginWait, WaitModule, listenerVars, storeVars,
        moduleVars
  <2>6. ASSUME NEW m \in Modules, WaitForPackets(m) \/ BeginImport(m) \/ NotifyDone(m)
        PROVE  UNCHANGED Delivery!vars
    BY <2>1, <2>6
    DEF WaitForPackets, BeginImport, NotifyDone, listenerVars, storeVars
  <2> QED
    BY <1>3, <2>2, <2>3, <2>4, <2>5, <2>6, QuietStep DEF Listener
<1>4. ASSUME UNCHANGED vars
      PROVE  UNCHANGED Delivery!vars
  BY <1>4 DEF vars, listenerVars, storeVars, moduleVars, Delivery!vars
<1>5. IInv /\ DirectoryInv /\ DeliveryInv /\ [Next]_vars
        => [Delivery!Next]_(Delivery!vars)
  BY <1>3, <1>4
<1> QED
  BY <1>1, <1>2, <1>5, InitDelivery, Invariance, DirectoryIsConsistent, PTL
  DEF Spec, ImplementsDelivery, Delivery!Spec

=============================================================================
