------------------------ MODULE MCCollectorSide_proofs ------------------------
(***************************************************************************)
(* What is proved about the components of the collector as they are put    *)
(* side by side in MCCollectorSide: the start of modules and the recorder. *)
(***************************************************************************)
EXTENDS MCCollectorSide, TLAPS

-----------------------------------------------------------------------------
(* The start of modules. *)

StartProofs == INSTANCE ModuleStart_proofs WITH index <- place, container <- kept,
  sigchld <- childEnded, restartOnCrash <- restarting, ends <- endings, MaxEnds <- MaxEndings

StartInv == component = "start" => StartProofs!IInv

LEMMA StartInit == SideInit => StartInv
<1>1. Start!Init => StartProofs!Init
  BY DEF Start!Init, StartProofs!Init, Start!PerModule, StartProofs!PerModule,
         Start!None, StartProofs!None, Start!ModulesOf, StartProofs!ModulesOf
<1>2. StartProofs!CountAssumption
  BY DEF StartProofs!CountAssumption, ModuleCount
<1> QED BY <1>1, <1>2, StartProofs!InitIInv DEF SideInit, StartInv

\* The steps of the start are those of the module that is proved about.
LEMMA SameSteps ==
  ASSUME Start!Next
  PROVE  [StartProofs!Next]_(StartProofs!vars)
<1>1. \A c : Start!CreateShared(c) => StartProofs!CreateShared(c)
  BY DEF Start!CreateShared, StartProofs!CreateShared, Start!detectMod,
         StartProofs!detectMod, Start!config, StartProofs!config, Start!bounds,
         StartProofs!bounds, Start!Block, StartProofs!Block, Start!Allocated,
         StartProofs!Allocated, Start!Taken, StartProofs!Taken, Start!Goes,
         StartProofs!Goes, Start!Main, StartProofs!Main
<1>2. \A c : Start!ReadConfig(c) => StartProofs!ReadConfig(c)
  BY DEF Start!ReadConfig, StartProofs!ReadConfig, Start!detectMod,
         StartProofs!detectMod, Start!host, StartProofs!host, Start!config,
         StartProofs!config, Start!bounds, StartProofs!bounds, Start!Goes,
         StartProofs!Goes, Start!Main, StartProofs!Main, Start!Created,
         StartProofs!Created, Start!ModulesOf, StartProofs!ModulesOf
<1>3. \A c : Start!CreateStorage(c) => StartProofs!CreateStorage(c)
  BY DEF Start!CreateStorage, StartProofs!CreateStorage, Start!detectMod,
         StartProofs!detectMod, Start!config, StartProofs!config, Start!bounds,
         StartProofs!bounds, Start!Storage, StartProofs!Storage, Start!Allocated,
         StartProofs!Allocated, Start!Taken, StartProofs!Taken, Start!Goes,
         StartProofs!Goes, Start!Main, StartProofs!Main
<1>4. \A c : Start!StartModule(c) => StartProofs!StartModule(c)
  BY DEF Start!StartModule, StartProofs!StartModule, Start!detectMod,
         StartProofs!detectMod, Start!host, StartProofs!host, Start!keys,
         StartProofs!keys, Start!config, StartProofs!config, Start!bounds,
         StartProofs!bounds, Start!Goes, StartProofs!Goes, Start!Main, StartProofs!Main,
         Start!Frame, StartProofs!Frame
<1>5. \A c : Start!Run(c) => StartProofs!Run(c)
  BY SMTT(30) DEF Start!Run, StartProofs!Run, Start!detectMod, StartProofs!detectMod,
         Start!host, StartProofs!host, Start!keys, StartProofs!keys, Start!config,
         StartProofs!config, Start!bounds, StartProofs!bounds, Start!Goes,
         StartProofs!Goes, Start!Main, StartProofs!Main
<1>6. \A c : Start!SlowModule(c) => StartProofs!SlowModule(c)
  BY DEF Start!SlowModule, StartProofs!SlowModule, Start!detectMod,
         StartProofs!detectMod, Start!keys, StartProofs!keys, Start!config,
         StartProofs!config, Start!Main, StartProofs!Main, Start!stopModule,
         StartProofs!stopModule, Start!Without, StartProofs!Without, Start!Restrict,
         StartProofs!Restrict, Start!SigTerm, StartProofs!SigTerm, Start!Alive,
         StartProofs!Alive, Start!Starting, StartProofs!Starting, Start!Dies,
         StartProofs!Dies, Start!Child, StartProofs!Child, Start!Process,
         StartProofs!Process, Start!None, StartProofs!None
<1>7. \A c : Start!KillModule(c) => StartProofs!KillModule(c)
  BY ZenonT(40) DEF Start!KillModule, StartProofs!KillModule, Start!detectMod,
         StartProofs!detectMod, Start!keys, StartProofs!keys, Start!config,
         StartProofs!config, Start!bounds, StartProofs!bounds, Start!Goes,
         StartProofs!Goes, Start!Main, StartProofs!Main, Start!stopModule,
         StartProofs!stopModule, Start!Without, StartProofs!Without, Start!Restrict,
         StartProofs!Restrict, Start!SigTerm, StartProofs!SigTerm, Start!Alive,
         StartProofs!Alive, Start!Starting, StartProofs!Starting, Start!Dies,
         StartProofs!Dies, Start!Child, StartProofs!Child, Start!Process,
         StartProofs!Process, Start!None, StartProofs!None
<1>8. \A c : Start!Destroy(c) => StartProofs!Destroy(c)
  BY DEF Start!Destroy, StartProofs!Destroy, Start!config, StartProofs!config,
         Start!bounds, StartProofs!bounds, Start!Block, StartProofs!Block,
         Start!Without, StartProofs!Without, Start!Restrict, StartProofs!Restrict,
         Start!Gone, StartProofs!Gone, Start!Goes, StartProofs!Goes, Start!Main,
         StartProofs!Main
<1>9. \A c : Start!CreateSemaphore(c) => StartProofs!CreateSemaphore(c)
  BY DEF Start!CreateSemaphore, StartProofs!CreateSemaphore, Start!keys,
         StartProofs!keys, Start!config, StartProofs!config, Start!bounds,
         StartProofs!bounds, Start!Allocated, StartProofs!Allocated, Start!Taken,
         StartProofs!Taken, Start!Top, StartProofs!Top, Start!Last, StartProofs!Last,
         Start!Working, StartProofs!Working, Start!Advance, StartProofs!Advance
<1>10. \A c : Start!Fork(c) => StartProofs!Fork(c)
  BY DEF Start!Fork, StartProofs!Fork, Start!host, StartProofs!host, Start!keys,
         StartProofs!keys, Start!config, StartProofs!config, Start!bounds,
         StartProofs!bounds, Start!Process, StartProofs!Process, Start!None,
         StartProofs!None, Start!Top, StartProofs!Top, Start!Last, StartProofs!Last,
         Start!Working, StartProofs!Working
<1>11. \A c : Start!RunFails(c) => StartProofs!RunFails(c)
  BY DEF Start!RunFails, StartProofs!RunFails, Start!detectMod, StartProofs!detectMod,
         Start!host, StartProofs!host, Start!config, StartProofs!config, Start!bounds,
         StartProofs!bounds, Start!Goes, StartProofs!Goes, Start!Gone, StartProofs!Gone,
         Start!Top, StartProofs!Top, Start!Last, StartProofs!Last
<1>12. \A c : Start!StorePipe(c) => StartProofs!StorePipe(c)
  BY SMTT(30) DEF Start!StorePipe, StartProofs!StorePipe, Start!host, StartProofs!host,
         Start!keys, StartProofs!keys, Start!config, StartProofs!config, Start!bounds,
         StartProofs!bounds, Start!Top, StartProofs!Top, Start!Last, StartProofs!Last,
         Start!Working, StartProofs!Working, Start!Advance, StartProofs!Advance
<1>13. \A c : Start!SendInitData(c) => StartProofs!SendInitData(c)
  BY DEF Start!SendInitData, StartProofs!SendInitData, Start!detectMod,
         StartProofs!detectMod, Start!host, StartProofs!host, Start!config,
         StartProofs!config, Start!bounds, StartProofs!bounds, Start!Gone,
         StartProofs!Gone, Start!Goes, StartProofs!Goes, Start!Top, StartProofs!Top,
         Start!Last, StartProofs!Last, Start!Working, StartProofs!Working, Start!Read,
         StartProofs!Read, Start!Alive, StartProofs!Alive, Start!Starting,
         StartProofs!Starting, Start!InitData, StartProofs!InitData, Start!Front,
         StartProofs!Front
<1>14. \A c : Start!SigChild(c) => StartProofs!SigChild(c)
  BY DEF Start!SigChild, StartProofs!SigChild, Start!detectMod, StartProofs!detectMod,
         Start!keys, StartProofs!keys, Start!config, StartProofs!config, Start!bounds,
         StartProofs!bounds, Start!Zombies, StartProofs!Zombies, Start!At,
         StartProofs!At, Start!Frame, StartProofs!Frame, Start!semaphoreRemoved,
         StartProofs!semaphoreRemoved, Start!Without, StartProofs!Without,
         Start!Restrict, StartProofs!Restrict
<1>15. \A c : Start!CollectorDies(c) => StartProofs!CollectorDies(c)
  BY DEF Start!CollectorDies, StartProofs!CollectorDies, Start!host, StartProofs!host,
         Start!config, StartProofs!config, Start!Gone, StartProofs!Gone, Start!Goes,
         StartProofs!Goes, Start!Main, StartProofs!Main
<1>16. \A p : Start!Exec(p) => StartProofs!Exec(p)
  BY DEF Start!Exec, StartProofs!Exec, Start!detectMod, StartProofs!detectMod,
         Start!keys, StartProofs!keys, Start!config, StartProofs!config, Start!bounds,
         StartProofs!bounds, Start!Block, StartProofs!Block, Start!Without,
         StartProofs!Without, Start!Restrict, StartProofs!Restrict, Start!Child,
         StartProofs!Child, Start!At, StartProofs!At, Start!Dies, StartProofs!Dies,
         Start!Process, StartProofs!Process, Start!None, StartProofs!None, Start!Step,
         StartProofs!Step
<1>17. \A p : Start!OpenSemaphore(p) => StartProofs!OpenSemaphore(p)
  BY DEF Start!OpenSemaphore, StartProofs!OpenSemaphore, Start!detectMod,
         StartProofs!detectMod, Start!host, StartProofs!host, Start!keys,
         StartProofs!keys, Start!config, StartProofs!config, Start!bounds,
         StartProofs!bounds, Start!None, StartProofs!None, Start!Child,
         StartProofs!Child, Start!Dies, StartProofs!Dies, Start!Process,
         StartProofs!Process, Start!Step, StartProofs!Step
<1>18. \A p : Start!OpenShared(p) => StartProofs!OpenShared(p)
  BY DEF Start!OpenShared, StartProofs!OpenShared, Start!detectMod,
         StartProofs!detectMod, Start!host, StartProofs!host, Start!keys,
         StartProofs!keys, Start!config, StartProofs!config, Start!bounds,
         StartProofs!bounds, Start!Dies, StartProofs!Dies, Start!Child,
         StartProofs!Child, Start!Process, StartProofs!Process, Start!None,
         StartProofs!None, Start!Step, StartProofs!Step
<1>19. \A p : Start!OpenStorage(p) => StartProofs!OpenStorage(p)
  BY DEF Start!OpenStorage, StartProofs!OpenStorage, Start!detectMod,
         StartProofs!detectMod, Start!host, StartProofs!host, Start!keys,
         StartProofs!keys, Start!config, StartProofs!config, Start!bounds,
         StartProofs!bounds, Start!Dies, StartProofs!Dies, Start!Child,
         StartProofs!Child, Start!Process, StartProofs!Process, Start!None,
         StartProofs!None, Start!Step, StartProofs!Step, Start!StorageKey,
         StartProofs!StorageKey
<1>20. \A p : Start!ModuleEnds(p) => StartProofs!ModuleEnds(p)
  BY DEF Start!ModuleEnds, StartProofs!ModuleEnds, Start!detectMod,
         StartProofs!detectMod, Start!host, StartProofs!host, Start!keys,
         StartProofs!keys, Start!config, StartProofs!config, Start!Dies,
         StartProofs!Dies, Start!Child, StartProofs!Child, Start!Process,
         StartProofs!Process, Start!None, StartProofs!None, Start!Step, StartProofs!Step
<1>21. (UNCHANGED Start!vars) => UNCHANGED StartProofs!vars
  BY DEF Start!vars, StartProofs!vars, Start!detectMod, StartProofs!detectMod,
         Start!host, StartProofs!host, Start!keys, StartProofs!keys, Start!config,
         StartProofs!config, Start!bounds, StartProofs!bounds
<1> QED
  BY <1>1, <1>2, <1>3, <1>4, <1>5, <1>6, <1>7, <1>8, <1>9, <1>10, <1>11, <1>12, <1>13, <1>14,
     <1>15, <1>16, <1>17, <1>18, <1>19, <1>20, <1>21
  DEF  Start!Next, StartProofs!Next, Start!Collector, StartProofs!Collector,
       Start!RunSteps, StartProofs!RunSteps, Start!Attach, StartProofs!Attach,
       Start!Finished, StartProofs!Finished

LEMMA StartNext == StartInv /\ [SideNext]_sideVars => StartInv'
<1> SUFFICES ASSUME StartInv, [SideNext]_sideVars, component' = "start" PROVE StartProofs!IInv'
  BY DEF StartInv
<1>1. component = "start" /\ StartProofs!IInv
  BY DEF StartInv, SideNext, sideVars
<1>2. [StartProofs!Next]_(StartProofs!vars)
  <2>1. CASE UNCHANGED sideVars
    BY <2>1 DEF sideVars, StartVars, StartProofs!vars, StartProofs!host, StartProofs!keys,
       StartProofs!detectMod, StartProofs!config, StartProofs!bounds
  <2>2. CASE SideNext
    BY <1>1, <2>2, SameSteps DEF SideNext
  <2> QED BY <2>1, <2>2
<1> QED BY <1>1, <1>2, StartProofs!NextIInv

\* AttachedToOwn: a module that runs waits on the semaphore made for it and has
\* its own collector's block and storage (SharedObj, DetectMod::run,
\* SemShmNotifier), whatever collectors allocate, die and restart meanwhile.
THEOREM ModulesAttachToOwn == SideSpec => []AttachedToOwn
<1>1. StartInv => AttachedToOwn
  BY StartProofs!OwnAttached DEF StartInv, AttachedToOwn,
         Start!AttachedToOwn, StartProofs!AttachedToOwn, Start!Exists,
         StartProofs!Exists, Start!Child, StartProofs!Child, Start!Block,
         StartProofs!Block, Start!Storage, StartProofs!Storage, Start!Range,
         StartProofs!Range
<1> QED BY StartInit, StartNext, <1>1, PTL DEF SideSpec

\* OrderlyEndFrees: a collector that ends through killModules leaves its block
\* and the semaphores of the modules it still had to nobody.
THEOREM OrderlyEndLeavesNothing == SideSpec => []OrderlyEndFrees
<1>1. StartInv => OrderlyEndFrees
  BY StartProofs!EndFrees DEF StartInv, OrderlyEndFrees,
         Start!OrderlyEndFrees, StartProofs!OrderlyEndFrees, Start!Exists,
         StartProofs!Exists, Start!Block, StartProofs!Block, Start!Range,
         StartProofs!Range
<1> QED BY StartInit, StartNext, <1>1, PTL DEF SideSpec

-----------------------------------------------------------------------------
(* The recorder. *)

\* The clock has a width, and a recording does not last that long.
ClockAssumption ==
  /\ Rec!Width \in Nat \ {0} /\ MaxTime \in Nat /\ MaxTime < Rec!Width
  /\ MaxLateness \in Nat

RecTypes ==
  /\ mode \in {"record", "play", "sleep", "deliver", "done", "thrown"}
  /\ clock \in Nat /\ start \in 0 .. Rec!Width - 1 /\ number \in Nat /\ line \in Nat
  /\ t \in 0 .. Rec!Width - 1 /\ wake \in Nat
  /\ aborted \in BOOLEAN
  /\ index \in Seq(Int \X Nat) /\ arrivals \in Seq(Nat) /\ delivered \in Seq(Nat \X Nat)

\* The index has each packet recorded, with the time it arrived at.
Recorded ==
  /\ Len(index) = number /\ Len(arrivals) = number
  /\ \A i \in 1 .. number : /\ index[i][2] = i - 1 /\ arrivals[i] < Rec!Width
                            /\ index[i][1] % Rec!Width = arrivals[i]

\* The packets of the lines read have been delivered, none early but those
\* whose sleep a signal has ended.
Replayed ==
  /\ Len(delivered) = line /\ line <= number
  /\ \A i \in 1 .. line :
       /\ delivered[i][1] = i - 1 /\ i - 1 \in files
       /\ clock < Rec!Width /\ i - 1 \notin cut => delivered[i][2] >= arrivals[i]

\* Where play() is: t is no later than the clock, and a packet in its hands has
\* come to its time, or does so at wake.
Playing ==
  /\ mode = "record" => clock <= MaxTime /\ line = 0 /\ t = 0
  /\ clock < Rec!Width => t <= clock
  /\ mode \in {"sleep", "deliver"} => line < number /\ line \in files
  /\ mode = "sleep" => wake >= clock /\ (clock < Rec!Width => wake >= arrivals[line + 1])
  /\ mode = "deliver" /\ clock < Rec!Width /\ line \notin cut => clock >= arrivals[line + 1]
  /\ mode = "done" /\ ~aborted => line = number

RecIInv == RecTypes /\ Recorded /\ Replayed /\ Playing
RecInv == component = "recorder" => RecIInv

\* What % makes of numbers that are less than one width out of range.
LEMMA Modulo ==
  ASSUME NEW W \in Nat \ {0}
  PROVE  /\ \A x \in Int : x % W \in 0 .. W - 1
         /\ \A x \in 0 .. W - 1 : x % W = x
         /\ \A x \in W .. 2 * W - 1 : x % W = x - W
         /\ \A x \in -W .. -1 : x % W = x + W
<1>1. \A x \in Int : x % W \in 0 .. W - 1
  OBVIOUS
<1>2. \A x \in 0 .. W - 1 : x % W = x
  OBVIOUS
<1>3. \A x \in W .. 2 * W - 1 : x % W = x - W
  OBVIOUS
<1>4. \A x \in -W .. -1 : x % W = x + W
  OBVIOUS
<1> QED BY <1>1, <1>2, <1>3, <1>4

\* The time play() sees is that of the clock, until its width is over.
LEMMA ElapsedTime ==
  ASSUME ClockAssumption, RecTypes
  PROVE  /\ Rec!Elapsed \in 0 .. Rec!Width - 1 /\ Rec!usecs - start \in Int
         /\ (Rec!usecs - start) % Rec!Width = Rec!Elapsed
         /\ clock < Rec!Width => Rec!Elapsed = clock
<1> DEFINE W == Rec!Width
<1>1. W \in Nat \ {0} /\ start \in 0 .. W - 1 /\ clock \in Nat
  BY DEF ClockAssumption, RecTypes
<1>2. Rec!usecs = (start + clock) % W /\ Rec!Elapsed = (Rec!usecs - start) % W
  BY DEF Rec!usecs, Rec!Elapsed
<1> HIDE DEF W
<1>3. Rec!usecs \in 0 .. W - 1
  BY <1>1, <1>2, Modulo
<1>4. Rec!usecs - start \in Int
  BY <1>1, <1>3
<1>5. Rec!Elapsed \in 0 .. W - 1
  BY <1>1, <1>2, <1>4, Modulo
<1>6. ASSUME clock < W PROVE Rec!Elapsed = clock
  <2>1. CASE start + clock < W
    <3>1. start + clock \in 0 .. W - 1 /\ clock \in 0 .. W - 1
      BY <1>1, <1>6, <2>1
    <3>2. (start + clock) % W = start + clock /\ clock % W = clock
      BY ONLY <1>1, <3>1, Modulo
    <3>3. Rec!usecs - start = clock
      BY <1>1, <1>2, <3>2
    <3> QED BY <1>2, <3>2, <3>3
  <2>2. CASE start + clock >= W
    <3>1. start + clock \in W .. 2 * W - 1
      BY <1>1, <1>6, <2>2
    <3>2. Rec!usecs = start + clock - W
      <4>1. (start + clock) % W = start + clock - W
        <5>1. \A x \in W .. 2 * W - 1 : x % W = x - W
          BY ONLY <1>1, Modulo
        <5> QED BY ONLY <1>1, <3>1, <5>1
      <4> QED BY <1>2, <4>1
    <3>3. Rec!usecs - start = clock - W /\ clock - W \in -W .. -1
      BY <1>1, <1>6, <3>2
    <3>4. (clock - W) % W = clock
      <4>1. (clock - W) % W = clock - W + W
        BY ONLY <1>1, <3>3, Modulo
      <4> QED BY <1>1, <4>1
    <3> QED BY <1>2, <3>3, <3>4
  <2> QED BY <1>1, <2>1, <2>2
<1> QED BY <1>2, <1>4, <1>5, <1>6 DEF W

LEMMA RecInit == ASSUME ClockAssumption PROVE SideInit => RecInv
<1> SUFFICES ASSUME Rec!Init PROVE RecIInv
  BY DEF SideInit, RecInv
<1>1. /\ mode = "record" /\ clock = 0 /\ index = <<>> /\ number = 0 /\ line = 0 /\ t = 0
      /\ arrivals = <<>> /\ delivered = <<>> /\ aborted = FALSE
      /\ wake = 0 /\ start \in 0 .. Rec!Width - 1
  BY DEF Rec!Init
<1>2. Rec!Width \in Nat \ {0} /\ MaxTime \in Nat
  BY DEF ClockAssumption
<1>3. RecTypes
  <2>1. index \in Seq(Int \X Nat) /\ arrivals \in Seq(Nat) /\ delivered \in Seq(Nat \X Nat)
    BY <1>1
  <2>2. 0 \in 0 .. Rec!Width - 1 /\ 0 \in Nat
    BY <1>2
  <2> QED BY <1>1, <2>1, <2>2 DEF RecTypes
<1>4. Recorded /\ Replayed /\ Playing
  BY <1>1, <1>2 DEF Recorded, Replayed, Playing
<1> QED BY <1>3, <1>4 DEF RecIInv

LEMMA TickKeeps == ASSUME ClockAssumption, RecIInv, Rec!Tick PROVE RecIInv'
<1>1. /\ mode \in {"record", "play", "deliver"} /\ clock < MaxTime /\ clock' = clock + 1
      /\ UNCHANGED <<mode, start, index, number, files, line, t, wake, arrivals, delivered,
                     aborted, cut>>
  BY DEF Rec!Tick
<1>2. UNCHANGED Rec!Width
  BY DEF Rec!Width
<1>3. RecTypes'
  BY <1>1, <1>2 DEF RecIInv, RecTypes
<1>4. Recorded'
  BY <1>1, <1>2 DEF RecIInv, Recorded
<1>5. clock \in Nat /\ Rec!Width \in Nat /\ MaxTime \in Nat
  BY DEF RecIInv, RecTypes, ClockAssumption
<1>6. Replayed'
  BY <1>1, <1>2, <1>5 DEF RecIInv, Replayed
<1>7. Playing'
  <2>1. clock' < Rec!Width => clock < Rec!Width
    BY <1>1, <1>5
  <2>2. (t \in Nat) /\ (line < number => arrivals[line + 1] \in Nat)
    BY DEF RecIInv, RecTypes, Recorded
  <2> QED BY <1>1, <1>2, <1>5, <2>1, <2>2 DEF RecIInv, Playing
<1> QED BY <1>3, <1>4, <1>6, <1>7 DEF RecIInv

LEMMA recordKeeps == ASSUME ClockAssumption, RecIInv, Rec!record PROVE RecIInv'
<1> DEFINE entry == <<Rec!usecs - start, number>>
<1>1. /\ mode = "record" /\ index' = Append(index, entry)
      /\ arrivals' = Append(arrivals, clock) /\ number' = number + 1
      /\ files \subseteq files'
      /\ UNCHANGED <<mode, clock, start, line, t, wake, delivered, aborted, cut>>
  BY DEF Rec!record
<1>2. UNCHANGED Rec!Width
  BY DEF Rec!Width
<1>3. RecTypes /\ Recorded /\ Replayed /\ Playing
  BY DEF RecIInv
<1>4. /\ number \in Nat /\ clock \in Nat /\ line = 0 /\ clock < Rec!Width /\ Rec!Width \in Nat
      /\ index \in Seq(Int \X Nat) /\ arrivals \in Seq(Nat)
      /\ Len(index) = number /\ Len(arrivals) = number
  BY <1>1, <1>3 DEF RecTypes, Recorded, Playing, ClockAssumption
<1>5. /\ entry \in Int \X Nat /\ entry[2] = number
      /\ entry[1] % Rec!Width = clock
  BY <1>3, <1>4, ElapsedTime
<1> HIDE DEF entry
<1>6. /\ index' \in Seq(Int \X Nat) /\ arrivals' \in Seq(Nat)
      /\ Len(index') = number + 1 /\ Len(arrivals') = number + 1
      /\ index'[number + 1] = entry /\ arrivals'[number + 1] = clock
      /\ \A i \in 1 .. number : index'[i] = index[i] /\ arrivals'[i] = arrivals[i]
  BY <1>1, <1>4, <1>5
<1>7. RecTypes'
  BY <1>1, <1>2, <1>3, <1>6 DEF RecTypes
<1>8. Recorded'
  <2> SUFFICES ASSUME NEW i \in 1 .. number + 1
               PROVE  /\ index'[i][2] = i - 1 /\ arrivals'[i] < Rec!Width
                      /\ index'[i][1] % Rec!Width = arrivals'[i]
    BY <1>1, <1>2, <1>6 DEF Recorded
  <2>1. CASE i \in 1 .. number
    BY <1>3, <1>6, <2>1 DEF Recorded
  <2>2. CASE i = number + 1
    BY <1>4, <1>5, <1>6, <2>2
  <2> QED BY <1>4, <2>1, <2>2
<1>9. Replayed'
  BY <1>1, <1>2, <1>3, <1>4 DEF Replayed
<1>10. Playing'
  BY <1>1, <1>2, <1>3 DEF Playing
<1> QED BY <1>7, <1>8, <1>9, <1>10 DEF RecIInv

LEMMA PrepareReplayingKeeps ==
  ASSUME ClockAssumption, RecIInv, Rec!PrepareReplaying
  PROVE  RecIInv'
<1>1. /\ mode = "record" /\ mode' = "play" /\ clock' = 0 /\ start' \in 0 .. Rec!Width - 1
      /\ UNCHANGED <<index, number, files, line, t, wake, arrivals, delivered, aborted, cut>>
  BY DEF Rec!PrepareReplaying
<1>2. UNCHANGED Rec!Width
  BY DEF Rec!Width
<1>3. RecTypes'
  BY <1>1, <1>2 DEF RecIInv, RecTypes
<1>4. Recorded'
  BY <1>1, <1>2 DEF RecIInv, Recorded
<1>5. line = 0 /\ t = 0
  BY <1>1 DEF RecIInv, RecTypes, Playing
<1>6. Replayed'
  BY <1>1, <1>2, <1>5 DEF RecIInv, Replayed
<1>7. Playing'
  BY <1>1, <1>2, <1>5 DEF Playing
<1> QED BY <1>3, <1>4, <1>6, <1>7 DEF RecIInv

LEMMA playKeeps == ASSUME ClockAssumption, RecIInv, Rec!play PROVE RecIInv'
<1>1. /\ mode = "play"
      /\ UNCHANGED <<clock, start, index, number, files, line, t, arrivals, delivered, aborted,
                     cut>>
  BY DEF Rec!play
<1>2. UNCHANGED Rec!Width
  BY DEF Rec!Width
<1>3. RecTypes /\ Recorded /\ Replayed /\ Playing
  BY DEF RecIInv
<1>4. Recorded'
  BY <1>1, <1>2, <1>3 DEF Recorded
<1>5. /\ clock \in Nat /\ t \in Nat /\ line \in Nat /\ number \in Nat /\ line <= number
      /\ Rec!Width \in Nat \ {0} /\ t < Rec!Width /\ Len(index) = number
  BY <1>3 DEF RecTypes, Recorded, Replayed, ClockAssumption
<1> DEFINE W == Rec!Width
<1>6. CASE /\ line < Len(index) /\ ~aborted /\ Rec!Packet \in files
            /\ IF Rec!TooEarly THEN mode' = "sleep" /\ wake' = clock + ((Rec!Time - t) % W)
               ELSE mode' = "deliver" /\ wake' = wake
  <2>1. /\ line + 1 \in 1 .. number /\ Rec!Time = arrivals[line + 1]
        /\ Rec!Time \in 0 .. W - 1
    BY <1>3, <1>5, <1>6, SMTT(30) DEF Rec!Time, Recorded, RecTypes
  <2>2. Rec!Elapsed \in 0 .. W - 1 /\ (clock < W => Rec!Elapsed = clock)
    BY <1>3, ElapsedTime
  <2>3. line \in files
    BY <1>3, <1>5, <1>6, <2>1 DEF Rec!Packet, Recorded
  <2>4. CASE Rec!TooEarly
    <3>1. mode' = "sleep" /\ wake' = clock + ((Rec!Time - t) % W)
      BY <1>6, <2>4
    <3>2. (Rec!Time - t) % W \in 0 .. W - 1
      <4>1. Rec!Time - t \in Int /\ W \in Nat \ {0}
        BY <1>5, <2>1
      <4> HIDE DEF W
      <4> QED BY ONLY <4>1, Modulo
    <3>3. clock < W => wake' = clock + Rec!Time - t
      <4> SUFFICES ASSUME clock < W PROVE (Rec!Time - t) % W = Rec!Time - t
        BY <1>5, <2>1, <3>1
      <4>1. clock < Rec!Time /\ t <= clock
        BY <1>3, <2>2, <2>4 DEF Rec!TooEarly, Playing
      <4>2. Rec!Time - t \in 0 .. W - 1 /\ W \in Nat \ {0}
        BY <1>5, <2>1, <4>1
      <4> HIDE DEF W
      <4> QED BY ONLY <4>2, Modulo
    <3>4. t <= clock \/ ~(clock < W)
      BY <1>3 DEF Playing
    <3>5. /\ wake' \in Nat /\ wake' >= clock
          /\ clock < W => wake' >= arrivals[line + 1]
      BY <1>5, <2>1, <3>1, <3>2, <3>3, <3>4, SMTT(30)
    <3>6. RecTypes'
      BY <1>1, <1>2, <1>3, <3>1, <3>5 DEF RecTypes
    <3>7. Replayed'
      BY <1>1, <1>2, <1>3, <2>3, <3>1 DEF Replayed
    <3>8. Playing'
      BY <1>1, <1>2, <1>3, <1>5, <1>6, <2>3, <3>1, <3>5 DEF Playing
    <3> QED BY <1>4, <3>6, <3>7, <3>8 DEF RecIInv
  <2>5. CASE ~Rec!TooEarly
    <3>1. mode' = "deliver" /\ wake' = wake
      BY <1>6, <2>5
    <3>2. clock < W => clock >= arrivals[line + 1]
      BY <1>5, <2>1, <2>2, <2>5 DEF Rec!TooEarly
    <3>3. RecTypes'
      BY <1>1, <1>2, <1>3, <3>1 DEF RecTypes
    <3>4. Replayed'
      BY <1>1, <1>2, <1>3, <2>3, <3>1 DEF Replayed
    <3>5. Playing'
      BY <1>1, <1>2, <1>3, <1>5, <1>6, <2>3, <3>1, <3>2 DEF Playing
    <3> QED BY <1>4, <3>3, <3>4, <3>5 DEF RecIInv
  <2> QED BY <2>4, <2>5
<1>7. CASE mode' \in {"done", "thrown"} /\ wake' = wake /\ (mode' = "done" => line = Len(index) \/ aborted)
  <2>1. RecTypes'
    BY <1>1, <1>2, <1>3, <1>7 DEF RecTypes
  <2>2. Replayed'
    BY <1>1, <1>2, <1>3, <1>7 DEF Replayed
  <2>3. Playing'
    BY <1>1, <1>2, <1>3, <1>5, <1>7 DEF Playing
  <2> QED BY <1>4, <2>1, <2>2, <2>3 DEF RecIInv
<1> QED BY <1>6, <1>7 DEF Rec!play

LEMMA usleepKeeps == ASSUME ClockAssumption, RecIInv, Rec!usleep PROVE RecIInv'
<1>1. PICK late \in 0 .. MaxLateness : clock' = wake + late
  BY DEF Rec!usleep
<1>2. /\ mode = "sleep" /\ mode' = "deliver"
      /\ UNCHANGED <<start, index, number, files, line, t, wake, arrivals, delivered, aborted, cut>>
  BY DEF Rec!usleep
<1>3. UNCHANGED Rec!Width
  BY DEF Rec!Width
<1>4. RecTypes /\ Recorded /\ Replayed /\ Playing
  BY DEF RecIInv
<1>5. /\ wake \in Nat /\ clock \in Nat /\ clock' \in Nat /\ clock' >= wake /\ wake >= clock
      /\ line < number /\ line \in files /\ Rec!Width \in Nat
      /\ clock' < Rec!Width => clock < Rec!Width
  BY <1>1, <1>2, <1>4 DEF RecTypes, Playing, ClockAssumption
<1>6. RecTypes'
  BY <1>2, <1>3, <1>4, <1>5 DEF RecTypes
<1>7. Recorded'
  BY <1>2, <1>3, <1>4 DEF Recorded
<1>8. Replayed'
  BY <1>2, <1>3, <1>4, <1>5 DEF Replayed
<1>9. Playing'
  <2>1. arrivals[line + 1] \in Nat /\ t \in Nat
    <3>1. /\ arrivals \in Seq(Nat) /\ Len(arrivals) = number /\ line \in Nat /\ number \in Nat
          /\ t \in 0 .. Rec!Width - 1
      BY <1>4 DEF RecTypes, Recorded
    <3> QED BY <1>5, <3>1
  <2>2. /\ clock < Rec!Width => t <= clock
        /\ clock < Rec!Width => wake >= arrivals[line + 1]
    BY <1>2, <1>4 DEF Playing
  <2>3. clock' < Rec!Width => clock' >= arrivals[line + 1] /\ t <= clock'
    BY <1>5, <2>1, <2>2
  <2> QED BY <1>2, <1>3, <1>5, <2>3 DEF Playing
<1> QED BY <1>6, <1>7, <1>8, <1>9 DEF RecIInv

\* A sleep that a handler ends: the packet counts as cut from then on.
LEMMA EndSleepKeeps ==
  ASSUME ClockAssumption, RecIInv, mode = "sleep", Rec!EndSleep, aborted' \in BOOLEAN,
         UNCHANGED <<start, index, number, files, line, t, wake, arrivals, delivered>>
  PROVE  RecIInv'
<1>1. RecTypes /\ Recorded /\ Replayed /\ Playing /\ UNCHANGED Rec!Width
  BY DEF RecIInv, Rec!Width
<1>2. /\ line \in Nat /\ number \in Nat /\ line < number /\ line \in files
      /\ \A i \in 1 .. number : index[i][2] = i - 1
  BY <1>1 DEF RecTypes, Recorded, Playing
<1>3. Rec!Packet = line
  BY <1>2 DEF Rec!Packet
<1>4. clock' \in clock .. wake - 1 /\ mode' = "deliver" /\ cut' = cut \cup {line}
  BY <1>3 DEF Rec!EndSleep
<1>5. /\ clock \in Nat /\ wake \in Nat /\ clock' \in Nat /\ clock' >= clock /\ Rec!Width \in Nat
      /\ t \in Nat
      /\ clock' < Rec!Width => clock < Rec!Width
  BY <1>1, <1>4 DEF RecTypes, ClockAssumption
<1>6. RecTypes'
  BY <1>1, <1>4, <1>5 DEF RecTypes
<1>7. Recorded'
  BY <1>1 DEF Recorded
<1>8. Replayed'
  BY <1>1, <1>4, <1>5 DEF Replayed
<1>9. Playing'
  <2>1. clock' < Rec!Width => t <= clock'
    BY <1>1, <1>5 DEF Playing
  <2> QED BY <1>1, <1>2, <1>4, <2>1 DEF Playing
<1> QED BY <1>6, <1>7, <1>8, <1>9 DEF RecIInv

LEMMA interruptKeeps == ASSUME ClockAssumption, RecIInv, Rec!interrupt PROVE RecIInv'
<1>1. aborted' \in BOOLEAN
  BY DEF Rec!interrupt, RecIInv, RecTypes
<1> QED BY <1>1, EndSleepKeeps DEF Rec!interrupt

LEMMA abortKeeps == ASSUME ClockAssumption, RecIInv, Rec!abort PROVE RecIInv'
<1>1. /\ aborted' = TRUE
      /\ UNCHANGED <<start, index, number, files, line, t, wake, arrivals, delivered>>
  BY DEF Rec!abort
<1>2. CASE mode = "sleep"
  BY <1>1, <1>2, EndSleepKeeps DEF Rec!abort
<1>3. CASE mode # "sleep"
  <2>1. UNCHANGED <<mode, clock, cut>> /\ UNCHANGED Rec!Width
    BY <1>3 DEF Rec!abort, Rec!Width
  <2>2. RecTypes' /\ Recorded'
    BY <1>1, <2>1 DEF RecIInv, RecTypes, Recorded
  <2>3. Replayed'
    BY <1>1, <2>1 DEF RecIInv, Replayed
  <2>4. Playing'
    BY <1>1, <2>1 DEF RecIInv, Playing
  <2> QED BY <2>2, <2>3, <2>4 DEF RecIInv
<1> QED BY <1>2, <1>3

LEMMA packetCallbackKeeps == ASSUME ClockAssumption, RecIInv, Rec!packetCallback PROVE RecIInv'
<1> DEFINE packet == <<Rec!Packet, clock>>
<1>1. /\ mode = "deliver" /\ mode' = "play" /\ t' = Rec!Elapsed /\ line' = line + 1
      /\ delivered' = Append(delivered, packet)
      /\ UNCHANGED <<clock, start, index, number, files, wake, arrivals, aborted, cut>>
  BY DEF Rec!packetCallback
<1>2. UNCHANGED Rec!Width
  BY DEF Rec!Width
<1>3. RecTypes /\ Recorded /\ Replayed /\ Playing
  BY DEF RecIInv
<1>4. /\ line \in Nat /\ number \in Nat /\ line < number /\ clock \in Nat
      /\ delivered \in Seq(Nat \X Nat) /\ Len(delivered) = line /\ Rec!Width \in Nat
  BY <1>1, <1>3 DEF RecTypes, Replayed, Playing, ClockAssumption
<1>5. packet \in Nat \X Nat /\ packet[1] = line /\ packet[2] = clock
  BY <1>3, <1>4 DEF Recorded, Rec!Packet
<1> HIDE DEF packet
<1>6. /\ delivered' \in Seq(Nat \X Nat) /\ Len(delivered') = line + 1
      /\ delivered'[line + 1] = packet
      /\ \A i \in 1 .. line : delivered'[i] = delivered[i]
  BY <1>1, <1>4, <1>5
<1>7. Rec!Elapsed \in 0 .. Rec!Width - 1 /\ (clock < Rec!Width => Rec!Elapsed = clock)
  BY <1>3, ElapsedTime
<1>8. RecTypes'
  BY <1>1, <1>2, <1>3, <1>4, <1>6, <1>7 DEF RecTypes
<1>9. Recorded'
  BY <1>1, <1>2, <1>3 DEF Recorded
<1>10. Replayed'
  <2>1. Len(delivered') = line' /\ line' <= number'
    BY <1>1, <1>4, <1>6
  <2>2. ASSUME NEW i \in 1 .. line'
        PROVE  /\ delivered'[i][1] = i - 1 /\ i - 1 \in files'
               /\ clock' < Rec!Width' /\ i - 1 \notin cut' => delivered'[i][2] >= arrivals'[i]
    <3>1. CASE i \in 1 .. line
      BY <1>1, <1>2, <1>3, <1>6, <3>1 DEF Replayed
    <3>2. CASE i = line + 1
      BY <1>1, <1>2, <1>3, <1>4, <1>5, <1>6, <3>2 DEF Playing
    <3> QED BY <1>1, <1>4, <3>1, <3>2
  <2> QED BY <2>1, <2>2 DEF Replayed
<1>11. Playing'
  BY <1>1, <1>2, <1>3, <1>4, <1>7 DEF Playing
<1> QED BY <1>8, <1>9, <1>10, <1>11 DEF RecIInv

LEMMA RecNext == ASSUME ClockAssumption PROVE RecInv /\ [SideNext]_sideVars => RecInv'
<1> SUFFICES ASSUME RecInv, [SideNext]_sideVars, component' = "recorder" PROVE RecIInv'
  BY DEF RecInv
<1>1. component = "recorder" /\ RecIInv
  BY DEF RecInv, SideNext, sideVars
<1>2. Rec!Next \/ UNCHANGED RecVars
  BY <1>1 DEF SideNext, sideVars
<1>3. CASE UNCHANGED RecVars
  <2>1. UNCHANGED <<mode, clock, start, index, number, files, line, t, wake, arrivals, delivered,
                    aborted, cut>>
    BY <1>3 DEF RecVars
  <2>2. UNCHANGED Rec!Width
    BY DEF Rec!Width
  <2>3. RecTypes'
    BY <1>1, <2>1, <2>2 DEF RecIInv, RecTypes
  <2>4. Recorded' /\ Replayed'
    BY <1>1, <2>1, <2>2 DEF RecIInv, Recorded, Replayed
  <2>5. Playing'
    BY <1>1, <2>1, <2>2 DEF RecIInv, Playing
  <2> QED BY <2>3, <2>4, <2>5 DEF RecIInv
<1>4. CASE Rec!Done
  BY <1>3, <1>4 DEF Rec!Done, Rec!vars, RecVars
<1> QED BY <1>1, <1>2, <1>3, <1>4, TickKeeps, recordKeeps, PrepareReplayingKeeps, playKeeps,
           usleepKeeps, interruptKeeps, abortKeeps, packetCallbackKeeps DEF Rec!Next

\* EarlyOnlyIfCut: play() hands on the packets of the index, each once and in
\* order, and not before its time unless a signal has ended the sleep for this
\* very packet, whatever the clock stood at in either run, by however much
\* usleep oversleeps and however many of the other sleeps are cut.
THEOREM OnlyCutSleepsAreEarly ==
  ASSUME ClockAssumption
  PROVE  SideSpec => []EarlyOnlyIfCut
<1>1. RecInv => EarlyOnlyIfCut
  <2> SUFFICES ASSUME RecIInv PROVE Rec!EarlyOnlyIfCut
    BY DEF RecInv, EarlyOnlyIfCut
  <2>1. /\ DOMAIN delivered = 1 .. line /\ Len(delivered) = line /\ Len(index) = number
    BY DEF RecIInv, RecTypes, Recorded, Replayed
  <2>2. ASSUME NEW i \in DOMAIN delivered
        PROVE  /\ delivered[i][1] = i - 1 /\ i - 1 \in files
               /\ clock < Rec!Width /\ i - 1 \notin cut => delivered[i][2] >= arrivals[i]
    BY <2>1, <2>2 DEF RecIInv, Replayed
  <2>3. mode = "done" /\ ~aborted => Len(delivered) = Len(index)
    BY <2>1 DEF RecIInv, Playing
  <2> QED BY <2>2, <2>3 DEF Rec!EarlyOnlyIfCut
<1> QED BY RecInit, RecNext, <1>1, PTL DEF SideSpec
=============================================================================
