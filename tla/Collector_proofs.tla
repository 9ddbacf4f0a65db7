-------------------------- MODULE Collector_proofs --------------------------
(***************************************************************************)
(* What is proved about the collector's receiver for every number of       *)
(* modules, packets, signals and ends of modules.                          *)
(***************************************************************************)
EXTENDS Collector, FiniteSetTheorems, TLAPS

Before  == {"create manager", "handlers", "create receiver"}
Started == {"test", "about to pause", "paused", "stop receiver"}
Ending  == {"prepare", "kill", "cancel manager"}
Ended   == {"returned", "thrown", "killed", "undefined"}

Types ==
  /\ main \in Before \cup {"play", "add processor", "start receiver"} \cup Started \cup Ending \cup Ended
  /\ listener \in {"none", "test", "recv", "lock", "callback", "ended"}
  /\ mutex \in {"main", "listener", "free"}
  /\ receivers \in {<<>>, <<"receiver">>, <<"NULL">>}
  /\ processorCount \in Nat

\* Who has the receiver's mutex, in each part of run(): the main thread from the
\* creation to the start and from the stop on, unless there is no listener.
MutexInv ==
  /\ listener = "callback" <=> mutex = "listener"
  /\ main \in Before \cup {"play"} => listener = "none" /\ mutex = "free" /\ receivers = <<>>
  /\ main = "add processor" =>
       \/ receivers = <<"NULL">> /\ listener = "none" /\ mutex = "free"
       \/ receivers = <<"receiver">> /\ mutex = "main"
  /\ main = "start receiver" => mutex = "main" /\ processorCount > 0
  /\ main \in Started => mutex # "main" /\ processorCount > 0
  /\ main \in Ending => listener = "none" \/ mutex = "main"

IInv == Types /\ MutexInv /\ ~dropped

LEMMA InitIInv == Init => IInv
<1> SUFFICES ASSUME Init PROVE IInv
  OBVIOUS
<1>1. Types
  <2>1. /\ main = "create manager" /\ listener = "none" /\ mutex = "free"
        /\ receivers = <<>> /\ processorCount = 0
    BY DEF Init
  <2> QED
    BY <2>1 DEF Types, Before
<1>2. MutexInv
  <2>1. main = "create manager" /\ listener = "none" /\ mutex = "free" /\ receivers = <<>>
    BY DEF Init
  <2> QED
    BY <2>1 DEF MutexInv, Before, Started, Ending
<1>3. ~dropped
  BY DEF Init
<1> QED
  BY <1>1, <1>2, <1>3 DEF IInv

\* The list of the one receiver that run() creates.
LEMMA OneReceiver ==
  /\ \A r : Append(<<>>, r) = <<r>> /\ ToSet(<<r>>) = {r}
  /\ "NULL" \in ToSet(<<"NULL">>) /\ "NULL" \notin ToSet(<<"receiver">>)
<1>1. \A r : Append(<<>>, r) = <<r>>
  OBVIOUS
<1>2. \A r : ToSet(<<r>>) = {r}
  BY DEF ToSet
<1> QED
  BY <1>1, <1>2

\* A receiver that is started has a processor, and one more than a number of
\* processors is one.
LEMMA StartedHasProcessor == IInv /\ main \in Started => processorCount # 0
<1> SUFFICES ASSUME IInv, main \in Started PROVE processorCount # 0
  OBVIOUS
<1>1. processorCount \in Nat
  BY DEF IInv, Types
<1>2. processorCount > 0
  BY DEF IInv, MutexInv
<1> QED
  BY <1>1, <1>2

LEMMA OneMore == IInv => processorCount + 1 \in Nat /\ processorCount + 1 > 0
<1> SUFFICES ASSUME IInv PROVE processorCount + 1 \in Nat /\ processorCount + 1 > 0
  OBVIOUS
<1>1. processorCount \in Nat
  BY DEF IInv, Types
<1> QED
  BY <1>1

\* Steps of other threads and of the kernel that leave the receiver alone, and
\* the main thread where it is or over.
LEMMA Elsewhere ==
  ASSUME IInv, UNCHANGED receiver, main' = main \/ main' = "killed"
  PROVE  IInv'
BY DEF IInv, Types, MutexInv, receiver, created, Before, Started, Ending, Ended

LEMMA MainSteps == IInv /\ MainThread => IInv'
<1> SUFFICES ASSUME IInv, MainThread PROVE IInv'
  OBVIOUS
<1> USE DEF IInv, Types, MutexInv, Before, Started, Ending, Ended
<1>1. CASE CreateManager
  BY <1>1 DEF CreateManager, receiver, created
<1>2. CASE InstallHandlers
  BY <1>2 DEF InstallHandlers, receiver, created
<1>3. CASE Play
  BY <1>3 DEF Play, receiver, created
<1>4. CASE CreateReceiver
  <2>1. /\ listener = "none" /\ mutex = "free" /\ receivers = <<>>
        /\ main' = "add processor" /\ processorCount' = processorCount
    BY <1>4 DEF CreateReceiver
  <2>2. \/ mutex' = "main" /\ receivers' = <<"receiver">> /\ listener' = "test"
        \/ mutex' = "free" /\ receivers' = <<"NULL">> /\ listener' = "none"
    BY <1>4, <2>1, OneReceiver DEF CreateReceiver, addIpfixReceiver, destroyIpfixReceiver
  <2>3. ~dropped'
    BY <1>4 DEF CreateReceiver
  <2> QED
    BY <2>1, <2>2, <2>3
<1>5. CASE AddPacketProcessor
  <2>1. /\ main = "add processor" /\ receivers' = receivers
        /\ listener' = listener /\ mutex' = mutex
    BY <1>5 DEF AddPacketProcessor
  <2>2. \/ receivers = <<"NULL">> /\ main' = "killed" /\ processorCount' = processorCount
        \/ receivers = <<"receiver">> /\ main' = "start receiver" /\ processorCount' = processorCount + 1
    BY <1>5, <2>1, OneReceiver DEF AddPacketProcessor, setPacketProcessors
  <2>3. ~dropped'
    BY <1>5 DEF AddPacketProcessor
  <2>4. CASE main' = "killed" /\ receivers = <<"NULL">>
    BY <2>1, <2>2, <2>3, <2>4
  <2>5. CASE main' = "start receiver" /\ receivers = <<"receiver">> /\ processorCount' = processorCount + 1
    <3>1. receivers # <<"NULL">>
      BY <2>5, OneReceiver
    <3>2. mutex = "main"
      BY <2>1, <3>1
    <3>3. processorCount' \in Nat /\ processorCount' > 0
      BY <2>5, OneMore
    <3>4. Types'
      BY <2>1, <2>5, <3>3
    <3>5. MutexInv'
      BY <2>1, <2>5, <3>2, <3>3
    <3> QED
      BY <2>3, <3>4, <3>5
  <2> QED
    BY <2>2, <2>4, <2>5
<1>6. CASE StartReceiver
  BY <1>6 DEF StartReceiver, startIpfixReceiver, created
<1>7. CASE TestTerminate \/ Pause
  <2>1. main \in Started /\ main' \in Started
    BY <1>7 DEF TestTerminate, Pause
  <2>2. UNCHANGED receiver
    BY <1>7 DEF TestTerminate, Pause
  <2> QED
    BY <2>1, <2>2 DEF receiver, created
<1>8. CASE StopReceiver
  BY <1>8 DEF StopReceiver, stopIpfixReceiver, created
<1>9. CASE PrepareShutdown
  BY <1>9 DEF PrepareShutdown, receiver, created
<1>10. CASE KillModule
  BY <1>10 DEF KillModule, receiver, created
<1>11. CASE CancelManager
  BY <1>11 DEF CancelManager, receiver, created
<1> QED
  BY <1>1, <1>2, <1>3, <1>4, <1>5, <1>6, <1>7, <1>8, <1>9, <1>10, <1>11 DEF MainThread

LEMMA ListenerSteps == IInv /\ Listener => IInv'
<1> SUFFICES ASSUME IInv, Listener PROVE IInv'
  OBVIOUS
<1> USE DEF IInv, Types, MutexInv, Before, Started, Ending, Ended
<1>1. CASE TestExit
  BY <1>1 DEF TestExit, created
<1>2. CASE ReceivePacket
  BY <1>2 DEF ReceivePacket, created
<1>3. CASE LockReceiver
  <2>1. /\ listener = "lock" /\ mutex = "free" /\ main' = main /\ ~Over
        /\ receivers' = receivers /\ processorCount' = processorCount
    BY <1>3 DEF LockReceiver, created
  <2>2. main \in Started
    BY <2>1 DEF Over
  <2>3. processorCount # 0
    BY <2>2, StartedHasProcessor
  <2>4. mutex' = "listener" /\ listener' = "callback"
    BY <1>3, <2>3 DEF LockReceiver
  <2>5. ~dropped'
    BY <1>3, <2>3 DEF LockReceiver
  <2>6. Types'
    BY <2>1, <2>2, <2>4
  <2>7. MutexInv'
    BY <2>1, <2>2, <2>3, <2>4
  <2> QED
    BY <2>5, <2>6, <2>7
<1>4. CASE Callback
  BY <1>4 DEF Callback, created
<1> QED
  BY <1>1, <1>2, <1>3, <1>4 DEF Listener

LEMMA NextIInv == IInv /\ [Next]_vars => IInv'
<1> SUFFICES ASSUME IInv, [Next]_vars PROVE IInv'
  OBVIOUS
<1>1. CASE MainThread
  BY <1>1, MainSteps
<1>2. CASE Listener
  BY <1>2, ListenerSteps
<1>3. CASE ManagerThread
  BY <1>3, Elsewhere DEF ManagerThread, ManagerTest, ManagerLock, TestRemoved, EraseRemoved,
     NotifyModules
<1>4. CASE SigInt
  <2>1. CASE main = "paused" /\ main' = "test"
    BY <1>4, <2>1 DEF SigInt, IInv, Types, MutexInv, receiver, created, Before, Started, Ending, Ended
  <2> QED
    BY <1>4, <2>1, Elsewhere DEF SigInt, Wake
<1>5. CASE ModuleEnds
  BY <1>5, Elsewhere DEF ModuleEnds
<1>6. CASE SigChild
  <2>1. CASE main = "paused" /\ main' = "test"
    BY <1>6, <2>1 DEF SigChild, IInv, Types, MutexInv, receiver, created, Before, Started, Ending, Ended
  <2> QED
    BY <1>6, <2>1, Elsewhere DEF SigChild, Wake
<1>7. CASE UNCHANGED vars
  BY <1>7, Elsewhere DEF vars
<1> QED
  BY <1>1, <1>2, <1>3, <1>4, <1>5, <1>6, <1>7 DEF Next, Kernel, Idle

\* Collector::messageCallBackFunction is not called before the receiver is
\* started nor after it is stopped, and no packet finds no processor, however
\* many packets and signals there are (ipfixReceiver.c, createIpfixReceiver to
\* stopIpfixReceiver).
THEOREM CallbackWithinStart == Spec => []CallbackOnlyWhileStarted
<1>1. IInv => CallbackOnlyWhileStarted
  BY DEF IInv, Types, MutexInv, CallbackOnlyWhileStarted, Over, Before, Started, Ending, Ended
<1> QED
  BY InitIInv, NextIInv, <1>1, PTL DEF Spec

-----------------------------------------------------------------------------
(* The end of the modules. *)

\* The container begins as a list of all modules.
LEMMA AllInList ==
  ASSUME NEW S, IsFiniteSet(S)
  PROVE  SetToSeq(S) \in Seq(S) /\ ToSet(SetToSeq(S)) = S
<1> DEFINE n == Cardinality(S)
           f == SetToSeq(S)
<1>1. n \in Nat /\ IsFiniteSet(1 .. n) /\ Cardinality(1 .. n) = n
  BY FS_CardinalityType, FS_Interval
<1>2. f \in [1 .. n -> S] /\ IsInjective(f)
  <2>1. \E g \in [1 .. n -> S] : IsInjective(g)
    <3>1. ExistsBijection(1 .. n, S)
      BY <1>1, FS_SameCardinalityBij
    <3> QED BY <3>1 DEF ExistsBijection, Bijection, Injection
  <2> QED BY <2>1 DEF SetToSeq
<1> HIDE DEF n, f
<1>3. ASSUME NEW x \in S PROVE \E i \in 1 .. n : f[i] = x
  <2> SUFFICES ASSUME \A i \in 1 .. n : f[i] # x PROVE FALSE
    OBVIOUS
  <2>1. f \in [1 .. n -> S \ {x}]
    BY <1>2
  <2>2. IsFiniteSet(S \ {x}) /\ Cardinality(S \ {x}) = n - 1
    BY FS_RemoveElement DEF n
  <2>3. Cardinality(S \ {x}) < Cardinality(1 .. n)
    BY <1>1, <2>2
  <2>4. PICK i \in 1 .. n, j \in 1 .. n : i # j /\ f[i] = f[j]
    BY <1>1, <2>1, <2>2, <2>3, FS_PigeonHole
  <2> QED BY <1>2, <2>4 DEF IsInjective
<1>4. f \in Seq(S) /\ ToSet(f) = S
  BY <1>1, <1>2, <1>3 DEF ToSet
<1> QED BY <1>4 DEF f

\* An element is erased from the container, the others stay.
LEMMA Erased ==
  ASSUME NEW S, NEW s \in Seq(S), NEW k \in 1 .. Len(s)
  PROVE  /\ RemoveAt(s, k) \in Seq(S)
         /\ ToSet(RemoveAt(s, k)) \subseteq ToSet(s)
         /\ ToSet(s) \subseteq ToSet(RemoveAt(s, k)) \cup {s[k]}
<1> DEFINE n == Len(s)
           a == SubSeq(s, 1, k - 1)
           b == SubSeq(s, k + 1, n)
           r == a \o b
<1>1. n \in Nat /\ s \in [1 .. n -> S]
  OBVIOUS
<1>2. a \in Seq(S) /\ Len(a) = k - 1 /\ \A i \in 1 .. (k - 1) : a[i] = s[i]
  OBVIOUS
<1>3. b \in Seq(S) /\ Len(b) = n - k /\ \A i \in 1 .. (n - k) : b[i] = s[k + i]
  OBVIOUS
<1> HIDE DEF a, b
<1>4. r \in Seq(S) /\ Len(r) = n - 1
      /\ \A i \in 1 .. (n - 1) : r[i] = IF i < k THEN s[i] ELSE s[i + 1]
  <2>1. r \in Seq(S) /\ Len(r) = n - 1
    <3>1. r \in Seq(S) /\ Len(r) = Len(a) + Len(b)
      <4>1. a \in Seq(S) /\ b \in Seq(S)
        BY <1>2, <1>3
      <4> QED BY ONLY <4>1
    <3>2. k \in 1 .. n /\ (k - 1) + (n - k) = n - 1
      BY <1>1
    <3> QED BY <1>2, <1>3, <3>1, <3>2
  <2>2. ASSUME NEW i \in 1 .. (n - 1) PROVE r[i] = IF i < k THEN s[i] ELSE s[i + 1]
    <3>1. CASE i < k
      BY <1>2, <1>3, <3>1
    <3>2. CASE ~(i < k)
      <4>1. r[i] = b[i - (k - 1)] /\ i - (k - 1) \in 1 .. (n - k)
        BY <1>2, <1>3, <3>2
      <4>2. k + (i - (k - 1)) = i + 1
        OBVIOUS
      <4> QED BY <1>3, <3>2, <4>1, <4>2
    <3> QED BY <3>1, <3>2
  <2> QED BY <2>1, <2>2
<1>5. RemoveAt(s, k) = r
  BY DEF RemoveAt, a, b
<1> HIDE DEF r
<1>6. ToSet(r) \subseteq ToSet(s)
  BY <1>1, <1>4 DEF ToSet
<1>7. ASSUME NEW j \in 1 .. n, j # k PROVE s[j] \in ToSet(r)
  <2>1. CASE j < k
    <3>1. j \in 1 .. (n - 1) /\ r[j] = s[j]
      BY <1>1, <1>4, <2>1
    <3> QED BY <1>4, <3>1 DEF ToSet
  <2>2. CASE j > k
    <3>1. j - 1 \in 1 .. (n - 1) /\ r[j - 1] = s[j]
      BY <1>1, <1>4, <2>2
    <3> QED BY <1>4, <3>1 DEF ToSet
  <2> QED BY <1>7, <2>1, <2>2
<1>8. ToSet(s) \subseteq ToSet(r) \cup {s[k]}
  BY <1>1, <1>7 DEF ToSet
<1> QED BY <1>4, <1>5, <1>6, <1>8

Killed == {"kill", "cancel manager", "returned", "undefined"}

\* What the manager, the handlers and the main thread have of the modules: one
\* that has not gone for good is in the container, and only one that has gone
\* waits to be erased.
ModulesInv ==
  /\ container \in Seq(Modules)
  /\ state \in [Modules -> {"Running", "Crashed", "Remove"}]
  /\ proc \in [Modules -> {"alive", "exited", "crashed", "gone"}]
  /\ erasing \in Nat \ {0} /\ killing \in Nat \ {0} /\ overlapped \in BOOLEAN
  /\ \A m \in Modules : state[m] = "Remove" => proc[m] = "gone"
  /\ \A m \in Modules : proc[m] # "gone" => m \in ToSet(container)
  /\ manager = "remove" => erasing \in 1 .. Len(container) /\ proc[container[erasing]] = "gone"

\* How far the modules have been killed: nothing is restarted any more.
KilledInv ==
  /\ main \in Killed => shutdown
  /\ main \notin Killed => killing = 1
  /\ main = "undefined" => overlapped
  /\ main = "kill" /\ ~overlapped =>
       /\ killing <= Len(container) + 1
       /\ \A i \in 1 .. Len(container) : i < killing => container[i] \in told
  /\ main \in {"cancel manager", "returned"} /\ ~overlapped => ToSet(container) \subseteq told

EndInv == IInv /\ ModulesInv /\ KilledInv

LEMMA InitEnd == ASSUME IsFiniteSet(Modules) PROVE Init => EndInv
<1> SUFFICES ASSUME Init PROVE EndInv
  OBVIOUS
<1>1. IInv
  BY InitIInv
<1>2. container = SetToSeq(Modules)
  BY DEF Init
<1>3. container \in Seq(Modules) /\ ToSet(container) = Modules
  BY <1>2, AllInList
<1>4. /\ state = [m \in Modules |-> "Running"] /\ proc = [m \in Modules |-> "alive"]
      /\ erasing = 1 /\ killing = 1 /\ overlapped = FALSE /\ main = "create manager"
  BY DEF Init
<1>5. ModulesInv
  <2>1. /\ state \in [Modules -> {"Running", "Crashed", "Remove"}]
        /\ proc \in [Modules -> {"alive", "exited", "crashed", "gone"}]
        /\ \A m \in Modules : state[m] = "Running"
    <3>1. state = [m \in Modules |-> "Running"] /\ proc = [m \in Modules |-> "alive"]
      BY <1>4
    <3> QED BY ONLY <3>1
  <2>2. /\ erasing \in Nat \ {0} /\ killing \in Nat \ {0} /\ overlapped \in BOOLEAN
    <3>1. erasing = 1 /\ killing = 1
      BY <1>4
    <3>2. erasing \in Nat \ {0} /\ killing \in Nat \ {0}
      BY ONLY <3>1
    <3>3. overlapped \in BOOLEAN
      BY <1>4
    <3> QED BY <3>2, <3>3
  <2>3. \A m \in Modules : state[m] = "Remove" => proc[m] = "gone"
    BY <2>1
  <2>4. \A m \in Modules : proc[m] # "gone" => m \in ToSet(container)
    BY <1>3
  <2>5. manager # "remove"
    BY DEF Init
  <2> QED BY <1>3, <2>1, <2>2, <2>3, <2>4, <2>5 DEF ModulesInv
<1>6. KilledInv
  BY <1>4 DEF KilledInv, Killed
<1> QED BY <1>1, <1>5, <1>6 DEF EndInv

\* Steps that leave the modules alone and do not reach their end.
LEMMA NotTheEnd ==
  ASSUME ModulesInv, KilledInv, UNCHANGED <<container, state, proc, told, killing, overlapped>>,
         erasing' \in Nat \ {0}, shutdown => shutdown',
         manager' = "remove" => manager = "remove" /\ erasing' = erasing,
         main' = main \/ (main \notin Killed /\ main' \notin Killed)
  PROVE  ModulesInv' /\ KilledInv'
<1>1. ModulesInv'
  BY DEF ModulesInv
<1>2. KilledInv'
  BY DEF KilledInv, Killed
<1> QED BY <1>1, <1>2

LEMMA MainEnd == EndInv /\ MainThread => ModulesInv' /\ KilledInv'
<1> SUFFICES ASSUME EndInv, MainThread PROVE ModulesInv' /\ KilledInv'
  OBVIOUS
<1>0. ModulesInv /\ KilledInv /\ erasing \in Nat \ {0}
  BY DEF EndInv, ModulesInv
<1>1. CASE CreateManager \/ InstallHandlers \/ Play \/ CreateReceiver \/ AddPacketProcessor
           \/ StartReceiver \/ TestTerminate \/ Pause \/ StopReceiver
  <2>1. /\ UNCHANGED <<container, state, proc, told, killing, overlapped, erasing, shutdown>>
        /\ main \notin Killed /\ main' \notin Killed
        /\ manager' = manager \/ manager' # "remove"
    BY <1>1 DEF CreateManager, InstallHandlers, Play, CreateReceiver, AddPacketProcessor,
       StartReceiver, TestTerminate, Pause, StopReceiver, modules, flags, managing, history, Killed
  <2> QED BY <1>0, <2>1, NotTheEnd
<1>2. CASE PrepareShutdown
  <2>1. /\ UNCHANGED <<container, state, proc, told, killing, overlapped, erasing, manager>>
        /\ shutdown' /\ main = "prepare" /\ main' = "kill"
    BY <1>2 DEF PrepareShutdown, prepareShutdown, modules, managing, history
  <2>2. killing = 1 /\ Len(container) \in Nat
    BY <1>0, <2>1 DEF KilledInv, ModulesInv, Killed
  <2>3. ModulesInv'
    BY <1>0, <2>1 DEF ModulesInv
  <2>4. KilledInv'
    BY <2>1, <2>2 DEF KilledInv, Killed
  <2> QED BY <2>3, <2>4
<1>3. CASE KillModule
  <2>1. /\ UNCHANGED <<container, proc, overlapped, erasing, manager, shutdown>>
        /\ main = "kill" /\ shutdown
        /\ Len(container) \in Nat /\ killing \in Nat \ {0} /\ overlapped \in BOOLEAN
        /\ container \in Seq(Modules)
    <3>1. UNCHANGED <<container, proc, overlapped, erasing, manager, shutdown>> /\ main = "kill"
      BY <1>3 DEF KillModule, managing, history, flags
    <3>2. shutdown
      BY <1>0, <3>1 DEF KilledInv, Killed
    <3>3. container \in Seq(Modules) /\ killing \in Nat \ {0} /\ overlapped \in BOOLEAN
      BY <1>0 DEF ModulesInv
    <3> QED BY <3>1, <3>2, <3>3
  <2>2. CASE killing > Len(container) + 1
    <3>1. main' = "undefined" /\ UNCHANGED <<state, told, killing>>
      BY <1>3, <2>2 DEF KillModule
    <3>2. overlapped
      BY <1>0, <2>1, <2>2 DEF KilledInv
    <3> QED BY <1>0, <2>1, <3>1, <3>2 DEF ModulesInv, KilledInv, Killed
  <2>3. CASE killing = Len(container) + 1
    <3>0. ~(killing > Len(container) + 1)
      BY <2>1, <2>3
    <3>1. main' = "cancel manager" /\ UNCHANGED <<state, told, killing>>
      BY <1>3, <2>3, <3>0 DEF KillModule
    <3>2. ~overlapped => ToSet(container) \subseteq told
      BY <1>0, <2>1, <2>3 DEF KilledInv, ToSet
    <3> QED BY <1>0, <2>1, <3>1, <3>2 DEF ModulesInv, KilledInv, Killed
  <2>4. CASE killing < Len(container) + 1
    <3> DEFINE m == container[killing]
    <3>0. ~(killing > Len(container) + 1) /\ killing # Len(container) + 1
      BY <2>1, <2>4
    <3>1. /\ state' = [state EXCEPT ![m] = "Crashed"] /\ told' = told \cup {m}
          /\ killing' = killing + 1 /\ main' = main
      BY <1>3, <3>0 DEF KillModule
    <3>2. m \in Modules
      BY <2>1, <2>4
    <3>3. ModulesInv'
      <4> HIDE DEF m
      <4> QED BY <1>0, <2>1, <3>1, <3>2 DEF ModulesInv
    <3>4. ASSUME ~overlapped, NEW i \in 1 .. Len(container), i < killing + 1
          PROVE  container[i] \in told'
      <4>1. i < killing \/ i = killing
        BY <2>1, <3>4
      <4> QED BY <1>0, <2>1, <3>1, <3>4, <4>1 DEF KilledInv
    <3>5. KilledInv'
      BY <2>1, <2>4, <3>1, <3>4 DEF KilledInv, Killed
    <3> QED BY <3>3, <3>5
  <2> QED BY <2>1, <2>2, <2>3, <2>4
<1>4. CASE CancelManager
  <2>1. /\ UNCHANGED <<container, state, proc, told, killing, overlapped, erasing, shutdown>>
        /\ main = "cancel manager" /\ main' = "returned" /\ manager' = "ended"
    BY <1>4 DEF CancelManager, modules, flags, history
  <2> QED BY <1>0, <2>1 DEF ModulesInv, KilledInv, Killed
<1> QED BY <1>1, <1>2, <1>3, <1>4 DEF MainThread

LEMMA ManagerEnd == EndInv /\ ManagerThread => ModulesInv' /\ KilledInv'
<1> SUFFICES ASSUME EndInv, ManagerThread PROVE ModulesInv' /\ KilledInv'
  OBVIOUS
<1>0. ModulesInv /\ KilledInv /\ erasing \in Nat \ {0}
  BY DEF EndInv, ModulesInv
<1>1. CASE ManagerTest \/ ManagerLock \/ NotifyModules
  <2>1. /\ UNCHANGED <<container, state, proc, told, killing, overlapped, shutdown, main>>
        /\ erasing' \in Nat \ {0} /\ manager' # "remove"
    BY <1>0, <1>1 DEF ManagerTest, ManagerLock, NotifyModules, modules, flags, history
  <2> QED BY <1>0, <2>1, NotTheEnd
<1>2. CASE TestRemoved
  <2>1. /\ UNCHANGED <<container, main, shutdown, state, proc, told, killing, overlapped>>
        /\ erasing' \in Nat \ {0}
    BY <1>0, <1>2 DEF TestRemoved, modules, flags, history
  <2>2. CASE manager' = "remove"
    <3>1. ~(erasing > Len(container)) /\ state[container[erasing]] = "Remove" /\ erasing' = erasing
      BY <1>2, <2>2 DEF TestRemoved
    <3>2. container \in Seq(Modules) /\ erasing \in 1 .. Len(container)
      BY <1>0, <3>1 DEF ModulesInv
    <3>3. proc[container[erasing]] = "gone"
      BY <1>0, <3>1, <3>2 DEF ModulesInv
    <3> QED BY <1>0, <2>1, <2>2, <3>1, <3>2, <3>3 DEF ModulesInv, KilledInv, Killed
  <2> QED BY <1>0, <2>1, <2>2, NotTheEnd
<1>3. CASE EraseRemoved
  <2>1. /\ UNCHANGED <<main, shutdown, state, proc, told, killing, erasing>>
        /\ manager = "remove" /\ manager' = "erase"
        /\ container' = RemoveAt(container, erasing)
        /\ overlapped' = (overlapped \/ main = "kill")
    BY <1>3 DEF EraseRemoved, flags
  <2>2. /\ container \in Seq(Modules) /\ erasing \in 1 .. Len(container)
        /\ container[erasing] \in Modules /\ proc[container[erasing]] = "gone"
    BY <1>0, <2>1 DEF ModulesInv
  <2>3. /\ container' \in Seq(Modules) /\ ToSet(container') \subseteq ToSet(container)
        /\ ToSet(container) \subseteq ToSet(container') \cup {container[erasing]}
    BY <2>1, <2>2, Erased
  <2>4. \A m \in Modules : proc[m] # "gone" => m \in ToSet(container')
    BY <1>0, <2>2, <2>3 DEF ModulesInv
  <2>5. overlapped' \in BOOLEAN
    BY <1>0, <2>1 DEF ModulesInv
  <2>6. ModulesInv'
    BY <1>0, <2>1, <2>3, <2>4, <2>5 DEF ModulesInv
  <2>7. KilledInv'
    BY <1>0, <2>1, <2>3 DEF KilledInv, Killed
  <2> QED BY <2>6, <2>7
<1> QED BY <1>1, <1>2, <1>3 DEF ManagerThread

LEMMA KernelEnd == EndInv /\ Kernel => ModulesInv' /\ KilledInv'
<1> SUFFICES ASSUME EndInv, Kernel PROVE ModulesInv' /\ KilledInv'
  OBVIOUS
<1>0. ModulesInv /\ KilledInv /\ erasing \in Nat \ {0}
  BY DEF EndInv, ModulesInv
<1>1. CASE SigInt
  <2>1. UNCHANGED <<container, state, proc, told, killing, overlapped, erasing, manager>>
    BY <1>1 DEF SigInt, modules, managing
  <2>2. /\ shutdown => shutdown'
        /\ main' = main \/ (main \notin Killed /\ main' \notin Killed)
    BY <1>1 DEF SigInt, flags, Wake, Killed
  <2> QED BY <1>0, <2>1, <2>2, NotTheEnd
<1>2. CASE ModuleEnds
  <2>1. /\ UNCHANGED <<container, state, told, killing, overlapped, erasing, manager, main, shutdown>>
    BY <1>2 DEF ModuleEnds, managing, flags
  <2>2. PICK m \in Modules, how \in {"exited", "crashed"} :
          proc[m] = "alive" /\ proc' = [proc EXCEPT ![m] = how]
    BY <1>2 DEF ModuleEnds
  <2>3. ModulesInv'
    BY <1>0, <2>1, <2>2 DEF ModulesInv
  <2>4. KilledInv'
    BY <1>0, <2>1 DEF KilledInv, Killed
  <2> QED BY <2>3, <2>4
<1>3. CASE SigChild
  <2>1. /\ UNCHANGED <<container, killing, overlapped, erasing, manager, shutdown>>
        /\ main' = main \/ (main \notin Killed /\ main' \notin Killed)
    BY <1>3 DEF SigChild, Wake, managing, flags, history, Killed
  <2>2. CASE shutdown
    <3>1. UNCHANGED <<state, proc, told>>
      BY <1>3, <2>2 DEF SigChild, ShutdownAnnounced
    <3> QED BY <1>0, <2>1, <3>1, NotTheEnd
  <2>3. CASE ~shutdown
    <3>1. main \notin Killed /\ main' \notin Killed
      BY <1>0, <2>1, <2>3 DEF KilledInv
    <3>2. PICK m \in Modules :
            /\ proc[m] \in {"exited", "crashed"}
            /\ \/ state' = [state EXCEPT ![m] = "Running"] /\ proc' = [proc EXCEPT ![m] = "alive"]
               \/ state' = [state EXCEPT ![m] = "Remove"] /\ proc' = [proc EXCEPT ![m] = "gone"]
      BY <1>3, <2>3 DEF SigChild, ShutdownAnnounced, setState
    <3>3. ModulesInv'
      BY <1>0, <2>1, <3>2 DEF ModulesInv
    <3>4. KilledInv'
      BY <1>0, <2>1, <3>1 DEF KilledInv, Killed
    <3> QED BY <3>3, <3>4
  <2> QED BY <2>2, <2>3
<1> QED BY <1>1, <1>2, <1>3 DEF Kernel

LEMMA NextEnd == EndInv /\ [Next]_vars => EndInv'
<1> SUFFICES ASSUME EndInv, [Next]_vars PROVE EndInv'
  OBVIOUS
<1>0. ModulesInv /\ KilledInv /\ erasing \in Nat \ {0}
  BY DEF EndInv, ModulesInv
<1>1. IInv'
  BY NextIInv DEF EndInv
<1>2. CASE MainThread
  BY <1>1, <1>2, MainEnd DEF EndInv
<1>3. CASE Listener
  <2>1. UNCHANGED <<container, state, proc, told, killing, overlapped, erasing, manager, shutdown,
                    main>>
    BY <1>3 DEF Listener, TestExit, ReceivePacket, LockReceiver, Callback, modules, managing, flags,
       history
  <2> QED BY <1>0, <1>1, <2>1, NotTheEnd DEF EndInv
<1>4. CASE ManagerThread
  BY <1>1, <1>4, ManagerEnd DEF EndInv
<1>5. CASE Kernel
  BY <1>1, <1>5, KernelEnd DEF EndInv
<1>6. CASE UNCHANGED vars
  <2>1. UNCHANGED <<container, state, proc, told, killing, overlapped, erasing, manager, shutdown,
                    main>>
    BY <1>6 DEF vars, modules, managing, flags, history
  <2> QED BY <1>0, <1>1, <2>1, NotTheEnd DEF EndInv
<1> QED BY <1>2, <1>3, <1>4, <1>5, <1>6 DEF Next, Idle

\* Collector::run, ModuleContainer::killDetectionModules and deleteModules: unless
\* the manager erases from the container while the modules are killed, run()
\* returns only when every module process that lives has been sent SIGTERM,
\* however many modules there are and whenever they end, crash and are restarted.
THEOREM ModulesAreKilled ==
  ASSUME IsFiniteSet(Modules)
  PROVE  Spec => []NoModuleSurvives
<1>1. EndInv => NoModuleSurvives
  BY DEF EndInv, ModulesInv, KilledInv, NoModuleSurvives
<1> QED
  BY InitEnd, NextEnd, <1>1, PTL DEF Spec
=============================================================================
