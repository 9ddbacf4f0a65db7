------------------------ MODULE ModuleStart_proofs ------------------------
(***************************************************************************)
(* What is proved about the start of modules, for every number of          *)
(* collectors, modules, processes, ends and restarts: a module that runs   *)
(* has the semaphore made for it and the memory of its own collector.      *)
(***************************************************************************)
EXTENDS ModuleStart, SequenceTheorems, TLAPS

\* A table holds the id under the key.
Held(table, key, id) == key \in DOMAIN table /\ table[key] = id

Early    == {"shared", "config", "storage"}
Places   == Early \cup {"start", "run", "kill", "destroy", "over"}
Opening  == {"forked", "exec"}
Opened   == {"sem", "storage", "attached"}
Dead     == {"exited", "crashed", "reaped"}
Seeking  == {"key", "fork"}
ProcessFields == {"of", "at", "own", "told", "sem", "block", "storage", "inherits",
                  "handlers", "nested", "deaf"}
FrameFields == {"module", "at", "child", "handler"}

\* A list of whatever.
Listed(s) == Len(s) \in Nat /\ s \in Seq({s[i] : i \in 1 .. Len(s)})

OfModule(id, c, m) == id # None /\ id[1] = c /\ id[2] = m

\* The number of modules each collector is to start.
CountAssumption == ModuleCount \in [Collectors -> Nat]

Domains ==
  /\ CountAssumption
  /\ DOMAIN pc = Collectors /\ DOMAIN frames = Collectors /\ DOMAIN container = Collectors
  /\ DOMAIN shmKey = Collectors /\ DOMAIN storageKey = Collectors /\ DOMAIN orderly = Collectors
  /\ DOMAIN semKey = Collectors /\ DOMAIN semId = Collectors /\ DOMAIN pid = Collectors
  /\ DOMAIN pipe = Collectors /\ index \in [Collectors -> Nat]

Types == Domains /\ Listed(process)

\* A module's process: it is the one its collector thinks of, and until it has
\* opened its semaphore, that is where the collector has said, unless the
\* collector has sent it a SIGTERM that it did not notice.
ProcessInv(p) ==
  LET r == process[p]
      c == r.of[1]
      m == r.of[2]
  IN /\ DOMAIN r = ProcessFields
     /\ r.of = <<c, m>> /\ c \in Collectors /\ m \in ModulesOf(c) /\ pc[c] \notin Early
     /\ r.at \in Opening \cup Opened \cup Dead
     /\ r.at \notin Dead => OfModule(r.own, c, m)
     /\ r.at \notin Dead /\ pc[c] # "over" => pid[c][m] = p /\ semId[c][m] = r.own
     /\ r.at \in Opening /\ ~r.deaf =>
          /\ pc[c] # "over" => Held(sem, semKey[c][m], r.own)
          /\ r.told # None => Held(sem, r.told[1], r.own)
     /\ r.at \in Opened => r.deaf \/ r.sem = r.own
     /\ r.at = "sem" => r.told # None
     /\ r.at \notin Dead /\ r.told # None => (\A k : Held(shm, k, Block(c)) => k = r.told[2])
     /\ r.at \in {"storage", "attached"} => (\A k : Held(shm, k, Block(c)) => r.block = Block(c))
     /\ ~useFiles => Held(shm, storageKey[c], Storage(c))
     /\ r.at = "attached" /\ ~useFiles => (\A k : Held(shm, k, Block(c)) => r.storage = Storage(c))

\* A frame of the collector's main thread: while it looks for a semaphore or
\* forks, no process of its module lives.
FrameInv(c, i) ==
  LET f == frames[c][i]
      m == f.module
  IN /\ DOMAIN f = FrameFields /\ m \in ModulesOf(c)
     /\ f.at \in Seeking =>
          \A p \in DOMAIN process : process[p].of = <<c, m>> => process[p].at \in Dead
     /\ f.at = "key" => (\A k, id : Held(sem, k, id) => ~OfModule(id, c, m))
     /\ f.at = "fork" => Held(sem, semKey[c][m], semId[c][m]) /\ OfModule(semId[c][m], c, m)
     /\ f.at = "store" => f.child \in DOMAIN process /\ process[f.child].of = <<c, m>>
     /\ f.at = "send" => pipe[c][m] \in DOMAIN process /\ process[pipe[c][m]].of = <<c, m>>
     /\ f.handler => i = Len(frames[c]) /\ pid[c][m] # 0
     /\ ~f.handler => i = 1 /\ (f.at \in Seeking => pid[c][m] = 0)
     /\ pc[c] = "start" => m < index[c]

\* What a collector that is not over has of its modules.
ModulesInv(c) ==
  /\ semKey[c] \in [ModulesOf(c) -> Nat] /\ DOMAIN semId[c] = ModulesOf(c)
  /\ pid[c] \in [ModulesOf(c) -> Nat] /\ DOMAIN pipe[c] = ModulesOf(c)
  /\ \A m \in ModulesOf(c) :
       /\ pid[c][m] # 0 => pid[c][m] \in DOMAIN process /\ process[pid[c][m]].of = <<c, m>>
       /\ semId[c][m] # None => OfModule(semId[c][m], c, m)
       /\ pc[c] \in Early \cup {"start"} /\ m >= index[c] =>
            pid[c][m] = 0 /\ \A k, id : Held(sem, k, id) => ~OfModule(id, c, m)

CollectorInv(c) ==
  /\ pc[c] \in Places
  /\ frames[c] # <<>> => pc[c] \in {"start", "run"}
  /\ Listed(frames[c]) /\ \A i \in 1 .. Len(frames[c]) : FrameInv(c, i)
  /\ container[c] \subseteq ModulesOf(c)
  /\ pc[c] # "over" => ModulesInv(c)
  /\ \A k : Held(shm, k, Block(c)) => pc[c] # "shared" /\ (pc[c] # "over" => k = shmKey[c])
  /\ pc[c] \in {"start", "run"} /\ ~useFiles => Held(shm, storageKey[c], Storage(c))
  /\ pc[c] = "kill" =>
       \A k, id : Held(sem, k, id) /\ id[1] = c /\ id[2] \in container[c] => id[2] >= index[c]
  /\ orderly[c] =>
       /\ pc[c] \in {"destroy", "over"}
       /\ \A k, id : Held(sem, k, id) => ~(id[1] = c /\ id[2] \in container[c])
       /\ pc[c] = "over" => \A k : ~Held(shm, k, Block(c))

\* Every semaphore is the last one of its module.
SemaphoreInv ==
  \A k, id : Held(sem, k, id) =>
    /\ id # None /\ id[1] \in Collectors /\ id[2] \in ModulesOf(id[1])
    /\ pc[id[1]] # "over" => id = semId[id[1]][id[2]]

IInv ==
  /\ Types /\ SemaphoreInv
  /\ \A p \in DOMAIN process : ProcessInv(p)
  /\ \A c \in Collectors : CollectorInv(c)

-----------------------------------------------------------------------------
(* Tables, lists and processes. *)

\* A free key is taken.
LEMMA AddHeld ==
  ASSUME NEW table, NEW key, NEW id, key \notin DOMAIN table
  PROVE  \A k, x : Held(Allocated(table, key, id), k, x) <=> Held(table, k, x) \/ (k = key /\ x = id)
<1> DEFINE new == Allocated(table, key, id)
<1>1. /\ DOMAIN new = DOMAIN table \cup {key} /\ new[key] = id
      /\ \A k \in DOMAIN table : new[k] = table[k]
  BY DEF Allocated
<1> HIDE DEF new
<1>2. \A k, x : Held(new, k, x) <=> Held(table, k, x) \/ (k = key /\ x = id)
  BY <1>1 DEF Held
<1> QED BY <1>2 DEF new

\* IPC_RMID.
LEMMA RemoveHeld ==
  ASSUME NEW table, NEW id
  PROVE  \A k, x : Held(Without(table, id), k, x) <=> Held(table, k, x) /\ x # id
BY DEF Held, Without, Restrict

LEMMA AppendListed ==
  ASSUME NEW s, NEW e, Listed(s)
  PROVE  /\ Listed(Append(s, e)) /\ Len(Append(s, e)) = Len(s) + 1 /\ DOMAIN s = 1 .. Len(s)
         /\ Append(s, e)[Len(s) + 1] = e /\ \A i \in 1 .. Len(s) : Append(s, e)[i] = s[i]
<1> DEFINE S == {s[i] : i \in 1 .. Len(s)} \cup {e}
           t == Append(s, e)
<1>1. s \in Seq(S) /\ Len(s) \in Nat /\ e \in S
  <2>1. \A i \in 1 .. Len(s) : s[i] \in S
    OBVIOUS
  <2> QED BY <2>1 DEF Listed
<1> HIDE DEF S
<1>2. /\ t \in Seq(S) /\ Len(t) = Len(s) + 1 /\ DOMAIN s = 1 .. Len(s) /\ t[Len(s) + 1] = e
      /\ \A i \in 1 .. Len(s) : t[i] = s[i]
  BY <1>1
<1> HIDE DEF t
<1>3. Listed(t)
  BY <1>1, <1>2 DEF Listed
<1> QED BY <1>2, <1>3 DEF t

LEMMA SetListed ==
  ASSUME NEW s, NEW p \in DOMAIN s, NEW e, Listed(s)
  PROVE  /\ Listed([s EXCEPT ![p] = e]) /\ Len([s EXCEPT ![p] = e]) = Len(s)
         /\ DOMAIN s = 1 .. Len(s) /\ DOMAIN [s EXCEPT ![p] = e] = DOMAIN s
         /\ [s EXCEPT ![p] = e][p] = e
         /\ \A i \in DOMAIN s : i # p => [s EXCEPT ![p] = e][i] = s[i]
<1> DEFINE S == {s[i] : i \in 1 .. Len(s)} \cup {e}
           t == [s EXCEPT ![p] = e]
<1>1. s \in Seq(S) /\ Len(s) \in Nat /\ e \in S
  <2>1. \A i \in 1 .. Len(s) : s[i] \in S
    OBVIOUS
  <2> QED BY <2>1 DEF Listed
<1> HIDE DEF S
<1>2. /\ t \in Seq(S) /\ Len(t) = Len(s) /\ DOMAIN s = 1 .. Len(s) /\ DOMAIN t = DOMAIN s
      /\ t[p] = e /\ \A i \in DOMAIN s : i # p => t[i] = s[i]
  BY <1>1
<1> HIDE DEF t
<1>3. Listed(t)
  BY <1>1, <1>2 DEF Listed
<1> QED BY <1>2, <1>3 DEF t

LEMMA FrontListed ==
  ASSUME NEW s, Listed(s), s # <<>>
  PROVE  /\ Listed(Front(s)) /\ Len(Front(s)) = Len(s) - 1 /\ Len(s) > 0
         /\ \A i \in 1 .. Len(s) - 1 : Front(s)[i] = s[i]
<1> DEFINE S == {s[i] : i \in 1 .. Len(s)}
           t == Front(s)
<1>1. s \in Seq(S) /\ Len(s) \in Nat
  BY DEF Listed
<1> HIDE DEF S
<1>2. Len(s) > 0
  BY <1>1
<1>3. t \in Seq(S) /\ Len(t) = Len(s) - 1 /\ \A i \in 1 .. Len(s) - 1 : t[i] = s[i]
  BY <1>1, <1>2, SMTT(30) DEF Front
<1> HIDE DEF t
<1>4. Len(t) \in Nat /\ t \in [1 .. Len(t) -> S]
  BY <1>3
<1>5. Listed(t)
  BY ONLY <1>4 DEF Listed
<1> QED BY <1>2, <1>3, <1>5 DEF t

LEMMA EmptyListed == Listed(<<>>) /\ Len(<<>>) = 0
BY DEF Listed

LEMMA ListedEmpty == ASSUME NEW s, Listed(s), Len(s) = 0 PROVE s = <<>>
BY DEF Listed

\* A process is what it was where nothing of its collector, of its semaphore
\* and of the memory has changed.
LEMMA ProcessKept ==
  ASSUME NEW p, NEW c, NEW m, process[p].of = <<c, m>>, ProcessInv(p), process'[p] = process[p],
         useFiles' = useFiles, pc'[c] \notin Early, storageKey'[c] = storageKey[c],
         \/ process[p].at \in Dead \/ pc'[c] = "over"
         \/ /\ pc[c] # "over" /\ pid'[c][m] = pid[c][m] /\ semId'[c][m] = semId[c][m]
            /\ semKey'[c][m] = semKey[c][m],
         process[p].at \in Opening /\ ~process[p].deaf =>
           \A k : Held(sem, k, process[p].own) => Held(sem', k, process[p].own),
         \A k : Held(shm', k, Block(c)) => Held(shm, k, Block(c)),
         \A k : Held(shm, k, Storage(c)) => Held(shm', k, Storage(c))
  PROVE  ProcessInv(p)'
<1> DEFINE r == process[p]
<1>1. r.of[1] = c /\ r.of[2] = m /\ process'[p] = r
  OBVIOUS
<1>2. /\ DOMAIN r = ProcessFields /\ r.of = <<c, m>> /\ c \in Collectors /\ m \in ModulesOf(c)
      /\ r.at \in Opening \cup Opened \cup Dead
      /\ r.at \notin Dead => OfModule(r.own, c, m)
      /\ r.at \in Opened => r.deaf \/ r.sem = r.own
      /\ r.at = "sem" => r.told # None
  BY <1>1 DEF ProcessInv
<1>3. /\ r.at \notin Dead /\ pc[c] # "over" => pid[c][m] = p /\ semId[c][m] = r.own
      /\ r.at \in Opening /\ ~r.deaf =>
           /\ pc[c] # "over" => Held(sem, semKey[c][m], r.own)
           /\ r.told # None => Held(sem, r.told[1], r.own)
  BY <1>1 DEF ProcessInv
<1>4. /\ r.at \notin Dead /\ r.told # None => (\A k : Held(shm, k, Block(c)) => k = r.told[2])
      /\ r.at \in {"storage", "attached"} => (\A k : Held(shm, k, Block(c)) => r.block = Block(c))
      /\ ~useFiles => Held(shm, storageKey[c], Storage(c))
      /\ r.at = "attached" /\ ~useFiles =>
           (\A k : Held(shm, k, Block(c)) => r.storage = Storage(c))
  BY <1>1 DEF ProcessInv
<1>5. /\ r.at \notin Dead /\ pc'[c] # "over" => pid'[c][m] = p /\ semId'[c][m] = r.own
      /\ r.at \in Opening /\ ~r.deaf =>
           /\ pc'[c] # "over" => Held(sem', semKey'[c][m], r.own)
           /\ r.told # None => Held(sem', r.told[1], r.own)
  BY <1>3 DEF Opening, Dead
<1>6. /\ r.at \notin Dead /\ r.told # None => (\A k : Held(shm', k, Block(c)) => k = r.told[2])
      /\ r.at \in {"storage", "attached"} => (\A k : Held(shm', k, Block(c)) => r.block = Block(c))
      /\ ~useFiles' => Held(shm', storageKey'[c], Storage(c))
      /\ r.at = "attached" /\ ~useFiles' =>
           (\A k : Held(shm', k, Block(c)) => r.storage = Storage(c))
  BY <1>4, SMTT(30)
<1> QED
  BY <1>1, <1>2, <1>5, <1>6 DEF ProcessInv, Held, ModulesOf, Block, Storage, OfModule, None

\* What a step of someone else leaves as it is for the collector d.
SameSemaphores(d) == \A k, id : id[1] = d => (Held(sem', k, id) <=> Held(sem, k, id))
SameMemory(d) ==
  /\ \A k : Held(shm', k, Block(d)) => Held(shm, k, Block(d))
  /\ \A k : Held(shm, k, Storage(d)) => Held(shm', k, Storage(d))
SamePids(d) == semKey'[d] = semKey[d] /\ semId'[d] = semId[d] /\ pid'[d] = pid[d]
SameModules(d) == SamePids(d) /\ pipe'[d] = pipe[d]
SameCollector(d) ==
  /\ pc'[d] = pc[d] /\ frames'[d] = frames[d] /\ index'[d] = index[d]
  /\ container'[d] = container[d] /\ orderly'[d] = orderly[d]
  /\ shmKey'[d] = shmKey[d] /\ storageKey'[d] = storageKey[d] /\ SameModules(d)
\* Processes do not change their module, nor do they come back.
ProcessesGoOn ==
  \A p \in DOMAIN process :
    /\ p \in DOMAIN process' /\ process'[p].of = process[p].of
    /\ process[p].at \in Dead => process'[p].at \in Dead
NoneForked(d) ==
  \A p \in DOMAIN process' : p \in DOMAIN process \/ process'[p].of[1] # d

LEMMA FrameKept ==
  ASSUME NEW d, NEW i, FrameInv(d, i), NEW f, f = frames[d][i], frames'[d][i] = f,
         ProcessesGoOn,
         pc'[d] = "start" => pc[d] = "start" /\ index'[d] >= index[d] /\ index[d] \in Nat /\ index'[d] \in Nat,
         f.handler => i = Len(frames'[d]) /\ pid'[d][f.module] # 0,
         f.at = "send" =>
           /\ pipe'[d][f.module] \in DOMAIN process'
           /\ process'[pipe'[d][f.module]].of = <<d, f.module>>,
         f.at \in Seeking =>
           /\ semKey'[d][f.module] = semKey[d][f.module] /\ semId'[d][f.module] = semId[d][f.module]
           /\ pid'[d][f.module] = pid[d][f.module]
           /\ \A k, id : OfModule(id, d, f.module) => (Held(sem', k, id) <=> Held(sem, k, id))
           /\ \A p \in DOMAIN process' : process'[p].of = <<d, f.module>> => p \in DOMAIN process
  PROVE  FrameInv(d, i)'
<1>0. PICK m : m = f.module
  BY SMTT(30)
<1>1. /\ DOMAIN f = FrameFields /\ m \in ModulesOf(d)
      /\ f.at \in Seeking =>
           (\A p \in DOMAIN process : process[p].of = <<d, m>> => process[p].at \in Dead)
      /\ f.at = "key" => (\A k, id : Held(sem, k, id) => ~OfModule(id, d, m))
      /\ f.at = "fork" => Held(sem, semKey[d][m], semId[d][m]) /\ OfModule(semId[d][m], d, m)
  BY <1>0, SMTT(30) DEF FrameInv
<1>2. /\ f.at = "store" => f.child \in DOMAIN process /\ process[f.child].of = <<d, m>>
      /\ ~f.handler => i = 1 /\ (f.at \in Seeking => pid[d][m] = 0)
      /\ pc[d] = "start" => m < index[d]
  BY <1>0 DEF FrameInv
<1>3. f.at \in Seeking =>
        (\A p \in DOMAIN process' : process'[p].of = <<d, m>> => process'[p].at \in Dead)
  <2>1. SUFFICES ASSUME f.at \in Seeking, NEW p \in DOMAIN process', process'[p].of = <<d, m>>
                 PROVE  process'[p].at \in Dead
    OBVIOUS
  <2>2. p \in DOMAIN process
    BY <1>0, <2>1
  <2>3. process[p].of = <<d, m>>
    BY <2>1, <2>2 DEF ProcessesGoOn
  <2> QED BY <1>1, <2>1, <2>2, <2>3 DEF ProcessesGoOn
<1>4. f.at = "key" => (\A k, id : Held(sem', k, id) => ~OfModule(id, d, m))
  BY <1>0, <1>1 DEF Seeking
<1>5. f.at = "fork" => Held(sem', semKey'[d][m], semId'[d][m]) /\ OfModule(semId'[d][m], d, m)
  BY <1>0, <1>1 DEF Seeking
<1>6. f.at = "store" => f.child \in DOMAIN process' /\ process'[f.child].of = <<d, m>>
  BY <1>2 DEF ProcessesGoOn
<1>7. ~f.handler => i = 1 /\ (f.at \in Seeking => pid'[d][m] = 0)
  BY <1>0, <1>2
<1>8. pc'[d] = "start" => m < index'[d]
  BY <1>1, <1>2 DEF ModulesOf
<1> QED
  BY <1>0, <1>1, <1>3, <1>4, <1>5, <1>6, <1>7, <1>8 DEF FrameInv, Held, OfModule, None, ModulesOf

LEMMA FramesKept ==
  ASSUME NEW d, NEW i, FrameInv(d, i), frames'[d] = frames[d], pc'[d] = pc[d], index'[d] = index[d],
         index[d] \in Nat, SameModules(d), SameSemaphores(d), ProcessesGoOn, NoneForked(d)
  PROVE  FrameInv(d, i)'
<1>1. PICK f : f = frames[d][i]
  OBVIOUS
<1> DEFINE m == f.module
<1>3. frames'[d][i] = f /\ Len(frames'[d]) = Len(frames[d])
  BY <1>1
<1>4. /\ semKey'[d][m] = semKey[d][m] /\ semId'[d][m] = semId[d][m]
      /\ pid'[d][m] = pid[d][m] /\ pipe'[d][m] = pipe[d][m]
  BY DEF SameModules, SamePids
<1>5. f.handler => i = Len(frames'[d]) /\ pid'[d][m] # 0
  BY <1>1, <1>3, <1>4 DEF FrameInv
<1>6. f.at = "send" => pipe'[d][m] \in DOMAIN process' /\ process'[pipe'[d][m]].of = <<d, m>>
  <2>1. f.at = "send" => pipe[d][m] \in DOMAIN process /\ process[pipe[d][m]].of = <<d, m>>
    BY <1>1 DEF FrameInv
  <2> QED BY <1>4, <2>1, SMTT(30) DEF ProcessesGoOn
<1>7. \A k, id : OfModule(id, d, m) => (Held(sem', k, id) <=> Held(sem, k, id))
  BY DEF SameSemaphores, OfModule
<1>8. \A p \in DOMAIN process' : process'[p].of = <<d, m>> => p \in DOMAIN process
  BY DEF NoneForked
<1>9. f.at \in Seeking =>
        /\ semKey'[d][m] = semKey[d][m] /\ semId'[d][m] = semId[d][m] /\ pid'[d][m] = pid[d][m]
        /\ \A k, id : OfModule(id, d, m) => (Held(sem', k, id) <=> Held(sem, k, id))
        /\ \A p \in DOMAIN process' : process'[p].of = <<d, m>> => p \in DOMAIN process
  BY <1>4, <1>7, <1>8
<1>10. pc'[d] = "start" =>
         pc[d] = "start" /\ index'[d] >= index[d] /\ index[d] \in Nat /\ index'[d] \in Nat
  OBVIOUS
<1> QED BY ONLY FrameInv(d, i), ProcessesGoOn, <1>1, <1>3, <1>5, <1>6, <1>9, <1>10, FrameKept

LEMMA ModulesKept ==
  ASSUME NEW d, ModulesInv(d), index[d] \in Nat, index'[d] \in Nat, ModuleCount[d] \in Nat,
         pc'[d] \in Early \cup {"start"} => pc[d] \in Early \cup {"start"} /\ index'[d] >= index[d],
         SamePids(d), DOMAIN pipe'[d] = DOMAIN pipe[d], SameSemaphores(d), ProcessesGoOn
  PROVE  ModulesInv(d)'
<1>1. semKey'[d] = semKey[d] /\ semId'[d] = semId[d] /\ pid'[d] = pid[d]
  BY DEF SamePids
<1>2. ASSUME NEW m \in ModulesOf(d)
      PROVE  /\ pid'[d][m] # 0 => pid'[d][m] \in DOMAIN process' /\ process'[pid'[d][m]].of = <<d, m>>
             /\ semId'[d][m] # None => OfModule(semId'[d][m], d, m)
  BY <1>1 DEF ModulesInv, ProcessesGoOn
<1>3. ASSUME NEW m \in ModulesOf(d), pc'[d] \in Early \cup {"start"}, m >= index'[d]
      PROVE  pid'[d][m] = 0 /\ (\A k, id : Held(sem', k, id) => ~OfModule(id, d, m))
  <2>1. m >= index[d]
    BY <1>3 DEF ModulesOf
  <2>2. pid[d][m] = 0 /\ (\A k, id : Held(sem, k, id) => ~OfModule(id, d, m))
    BY <1>3, <2>1 DEF ModulesInv
  <2> QED BY <1>1, <2>2 DEF SameSemaphores, OfModule
<1> QED
  BY <1>1, <1>2, <1>3 DEF ModulesInv, Held, OfModule, None, ModulesOf

LEMMA CollectorKept ==
  ASSUME NEW d, CollectorInv(d), SameCollector(d), useFiles' = useFiles, SameSemaphores(d),
         SameMemory(d), ProcessesGoOn, NoneForked(d), index[d] \in Nat,
         ModuleCount[d] \in Nat
  PROVE  CollectorInv(d)'
<1>1. /\ pc'[d] = pc[d] /\ frames'[d] = frames[d] /\ index'[d] = index[d]
      /\ container'[d] = container[d] /\ orderly'[d] = orderly[d]
      /\ shmKey'[d] = shmKey[d] /\ storageKey'[d] = storageKey[d] /\ SameModules(d)
  BY DEF SameCollector
<1>2. \A i \in 1 .. Len(frames'[d]) : FrameInv(d, i)'
  BY <1>1, FramesKept DEF CollectorInv
<1>3. pc'[d] # "over" => ModulesInv(d)'
  BY <1>1, ModulesKept DEF CollectorInv, SameModules
<1>4. /\ frames'[d] # <<>> => pc'[d] \in {"start", "run"}
      /\ pc'[d] \in Places
      /\ Listed(frames'[d]) /\ container'[d] \subseteq ModulesOf(d)
  BY <1>1 DEF CollectorInv
<1>5. /\ \A k : Held(shm', k, Block(d)) => pc'[d] # "shared" /\ (pc'[d] # "over" => k = shmKey'[d])
      /\ pc'[d] \in {"start", "run"} /\ ~useFiles' => Held(shm', storageKey'[d], Storage(d))
  BY <1>1 DEF CollectorInv, SameMemory
<1>6. /\ pc'[d] = "kill" =>
           (\A k, id : Held(sem', k, id) /\ id[1] = d /\ id[2] \in container'[d] => id[2] >= index'[d])
  BY <1>1 DEF CollectorInv, SameSemaphores
<1>7. orderly'[d] =>
       /\ pc'[d] \in {"destroy", "over"}
       /\ \A k, id : Held(sem', k, id) => ~(id[1] = d /\ id[2] \in container'[d])
       /\ pc'[d] = "over" => (\A k : ~Held(shm', k, Block(d)))
  BY <1>1 DEF CollectorInv, SameSemaphores, SameMemory
<1> QED
  BY <1>2, <1>3, <1>4, <1>5, <1>6, <1>7 DEF CollectorInv, Held, Block, Storage, ModulesOf, Listed, Places, Early

\* Processes that are left alone by a collector's step.
LEMMA AllProcessesKept ==
  ASSUME \A p \in DOMAIN process : ProcessInv(p), process' = process, useFiles' = useFiles,
         sem' = sem,
         \A d \in Collectors : pc[d] \notin Early =>
           /\ pc'[d] \notin Early /\ storageKey'[d] = storageKey[d] /\ SameMemory(d)
           /\ pc'[d] = "over" \/ (pc[d] # "over" /\ SamePids(d))
  PROVE  \A p \in DOMAIN process' : ProcessInv(p)'
<1> SUFFICES ASSUME NEW p \in DOMAIN process PROVE ProcessInv(p)'
  OBVIOUS
<1>1. PICK c, m : c = process[p].of[1] /\ m = process[p].of[2]
  OBVIOUS
<1>2. ProcessInv(p) /\ process[p].of = <<c, m>> /\ c \in Collectors /\ pc[c] \notin Early
  BY <1>1 DEF ProcessInv
<1>3. /\ pc'[c] \notin Early /\ storageKey'[c] = storageKey[c] /\ SameMemory(c)
      /\ pc'[c] = "over" \/ (pc[c] # "over" /\ SamePids(c))
  BY <1>2
<1>4. /\ pc'[c] = "over" \/ /\ pc[c] # "over" /\ pid'[c][m] = pid[c][m]
                            /\ semId'[c][m] = semId[c][m] /\ semKey'[c][m] = semKey[c][m]
      /\ \A k : Held(shm', k, Block(c)) => Held(shm, k, Block(c))
      /\ \A k : Held(shm, k, Storage(c)) => Held(shm', k, Storage(c))
  BY <1>3 DEF SamePids, SameMemory
<1>5. process'[p] = process[p] /\ \A k : Held(sem, k, process[p].own) => Held(sem', k, process[p].own)
  OBVIOUS
<1> QED BY <1>2, <1>3, <1>4, <1>5, ProcessKept

LEMMA SemaphoresKept ==
  ASSUME SemaphoreInv, \A k, id : Held(sem', k, id) => Held(sem, k, id),
         \A d \in Collectors : pc'[d] # "over" => pc[d] # "over" /\ semId'[d] = semId[d]
  PROVE  SemaphoreInv'
BY DEF SemaphoreInv, Held, ModulesOf, None

-----------------------------------------------------------------------------
(* What the steps leave alone. *)

\* One process changes.
LEMMA ProcessSet ==
  ASSUME Types, NEW p \in DOMAIN process, NEW e, process' = [process EXCEPT ![p] = e],
         e.of = process[p].of, process[p].at \in Dead => e.at \in Dead
  PROVE  /\ Listed(process') /\ Len(process') = Len(process) /\ DOMAIN process' = DOMAIN process
         /\ process'[p] = e /\ \A q \in DOMAIN process : q # p => process'[q] = process[q]
         /\ ProcessesGoOn /\ \A d : NoneForked(d)
<1>1. /\ Listed(process') /\ Len(process') = Len(process) /\ DOMAIN process' = DOMAIN process
      /\ process'[p] = e /\ \A q \in DOMAIN process : q # p => process'[q] = process[q]
  <2>1. Listed(process)
    BY DEF Types
  <2> DEFINE t == [process EXCEPT ![p] = e]
  <2>2. /\ Listed(t) /\ Len(t) = Len(process) /\ DOMAIN t = DOMAIN process
        /\ t[p] = e /\ \A q \in DOMAIN process : q # p => t[q] = process[q]
    BY <2>1, SetListed
  <2>3. process' = t
    OBVIOUS
  <2> HIDE DEF t
  <2> QED BY <2>2, <2>3
<1>2. ProcessesGoOn
  BY <1>1 DEF ProcessesGoOn
<1>3. ASSUME NEW d PROVE NoneForked(d)
  BY <1>1 DEF NoneForked
<1> QED BY <1>1, <1>2, <1>3

LEMMA ProcessesSame ==
  ASSUME process' = process
  PROVE  ProcessesGoOn /\ \A d : NoneForked(d)
BY DEF ProcessesGoOn, NoneForked

\* The end of a process.
DeadOf(of, how) ==
  Process(of, IF pc[of[1]] = "over" THEN "reaped" ELSE how)

LEMMA DeadFields ==
  ASSUME NEW of, NEW how \in {"exited", "crashed"}
  PROVE  /\ DOMAIN DeadOf(of, how) = ProcessFields /\ DeadOf(of, how).of = of
         /\ DeadOf(of, how).at \in Dead
BY DEF DeadOf, Process, ProcessFields, Dead

LEMMA DiesSets ==
  ASSUME NEW p \in DOMAIN process, NEW how, Dies(p, how)
  PROVE  process' = [process EXCEPT ![p] = DeadOf(process[p].of, how)]
BY DEF Dies, DeadOf, Child

LEMMA SetFields ==
  ASSUME NEW r, DOMAIN r = ProcessFields, NEW x
  PROVE  /\ DOMAIN [r EXCEPT !.at = x] = ProcessFields
         /\ [r EXCEPT !.at = x].at = x
         /\ \A f \in ProcessFields \ {"at"} : [r EXCEPT !.at = x][f] = r[f]
BY DEF ProcessFields

\* A SIGTERM changes the process that has the pid, if it lives.
LEMMA SigTermSets ==
  ASSUME Types, NEW p, p = 0 \/ (p \in DOMAIN process /\ ProcessInv(p)), SigTerm(p)
  PROVE  \/ process' = process /\ (p # 0 => process[p].at \notin Opening)
         \/ /\ p # 0 /\ process' = [process EXCEPT ![p] = [process[p] EXCEPT !.deaf = TRUE]]
            /\ process[p].at = "forked"
         \/ \E how \in {"exited", "crashed"} :
              p # 0 /\ process' = [process EXCEPT ![p] = DeadOf(process[p].of, how)]
<1>1. CASE p = 0 \/ ~Alive(p)
  BY <1>1 DEF SigTerm, Alive, Starting, Opening
<1>2. CASE p # 0 /\ Alive(p) /\ process[p].at = "forked" /\ process[p].handlers
  BY <1>2 DEF SigTerm
<1>3. CASE p # 0 /\ Alive(p) /\ ~(process[p].at = "forked" /\ process[p].handlers)
  <2>1. p \in DOMAIN process
    BY <1>3
  <2>2. CASE Dies(p, "crashed")
    BY <1>3, <2>1, <2>2, DiesSets
  <2>3. CASE Dies(p, "exited")
    BY <1>3, <2>1, <2>3, DiesSets
  <2>4. CASE process[p].at = "attached" /\ process' = process
    BY <2>4, SMTT(30) DEF Opening
  <2> QED BY <1>3, <2>2, <2>3, <2>4 DEF SigTerm
<1> QED BY <1>1, <1>2, <1>3

LEMMA DeadInv ==
  ASSUME NEW p, ProcessInv(p), NEW e, process'[p] = e, e.of = process[p].of,
         DOMAIN e = ProcessFields, e.at \in Dead,
         useFiles' = useFiles, pc'[e.of[1]] \notin Early, storageKey'[e.of[1]] = storageKey[e.of[1]],
         \A k : Held(shm, k, Storage(e.of[1])) => Held(shm', k, Storage(e.of[1]))
  PROVE  ProcessInv(p)'
<1> DEFINE c == e.of[1]
           m == e.of[2]
<1>1. /\ e.of = <<c, m>> /\ c \in Collectors /\ m \in ModulesOf(c)
      /\ ~useFiles => Held(shm, storageKey[c], Storage(c))
  BY DEF ProcessInv
<1>2. ~useFiles' => Held(shm', storageKey'[c], Storage(c))
  BY <1>1
<1>3. e.at \notin Opening /\ e.at \notin Opened /\ e.at \notin {"sem", "storage", "attached"}
  BY DEF Dead, Opening, Opened
<1> QED BY <1>1, <1>2, <1>3 DEF ProcessInv, Held, Storage, ModulesOf

\* stopModule: the semaphore goes, and its module does not wait for it any more.
LEMMA Stopped ==
  ASSUME IInv, NEW c \in Collectors, NEW m \in ModulesOf(c), pc[c] \in {"run", "kill"},
         stopModule(c, m),
         pc' = pc /\ pid' = pid /\ semId' = semId /\ semKey' = semKey,
         shm' = shm /\ storageKey' = storageKey /\ useFiles' = useFiles
  PROVE  /\ Listed(process') /\ ProcessesGoOn /\ \A d : NoneForked(d)
         /\ \A p \in DOMAIN process' : ProcessInv(p)'
         /\ \A d \in Collectors : d # c => SameSemaphores(d)
         /\ \A k, id : Held(sem', k, id) => Held(sem, k, id) /\ ~OfModule(id, c, m)
<1>0. PICK p : p = pid[c][m]
  OBVIOUS
<1>1. SigTerm(p) /\ sem' = Without(sem, semId[c][m])
  BY <1>0 DEF stopModule
<1>2. \A k, x : Held(sem', k, x) <=> Held(sem, k, x) /\ x # semId[c][m]
  BY <1>1, RemoveHeld
<1>3. ModulesInv(c) /\ Types /\ SemaphoreInv /\ \A q \in DOMAIN process : ProcessInv(q)
  BY DEF IInv, CollectorInv
<1>4. /\ p = 0 \/ (p \in DOMAIN process /\ ProcessInv(p) /\ process[p].of = <<c, m>>)
      /\ semId[c][m] # None => OfModule(semId[c][m], c, m)
  BY <1>0, <1>3 DEF ModulesInv
<1>5. ASSUME NEW d \in Collectors, d # c PROVE SameSemaphores(d)
  BY <1>2, <1>3, <1>4, <1>5 DEF SameSemaphores, SemaphoreInv, OfModule
<1>6. \A k, id : Held(sem', k, id) => Held(sem, k, id) /\ ~OfModule(id, c, m)
  BY <1>2, <1>3 DEF SemaphoreInv, OfModule
<1>7. ASSUME NEW q \in DOMAIN process, process'[q] = process[q], q # p \/ process[q].at \notin Opening
      PROVE  ProcessInv(q)'
  <2>1. PICK d, n : d = process[q].of[1] /\ n = process[q].of[2]
    OBVIOUS
  <2>2. ProcessInv(q) /\ process[q].of = <<d, n>> /\ d \in Collectors /\ pc[d] \notin Early
    BY <1>3, <2>1 DEF ProcessInv
  <2>3. process[q].at \in Opening => \A k : Held(sem, k, process[q].own) => Held(sem', k, process[q].own)
    <3>1. SUFFICES ASSUME process[q].at \in Opening, NEW k, Held(sem, k, process[q].own)
                   PROVE  process[q].own # semId[c][m]
      BY <1>2
    <3>2. OfModule(process[q].own, d, n)
      BY <2>1, <2>2, <3>1 DEF ProcessInv, Opening, Dead
    <3>3. SUFFICES ASSUME process[q].own = semId[c][m] PROVE FALSE
      OBVIOUS
    <3>4. d = c /\ n = m
      BY <1>4, <3>2, <3>3 DEF OfModule
    <3>5. pid[d][n] = q
      BY <2>1, <2>2, <3>1, <3>4 DEF ProcessInv, Opening, Dead
    <3> QED BY <1>0, <1>7, <3>1, <3>4, <3>5
  <2>4. \/ process[q].at \in Dead \/ pc'[d] = "over"
        \/ /\ pc[d] # "over" /\ pid'[d][n] = pid[d][n] /\ semId'[d][n] = semId[d][n]
           /\ semKey'[d][n] = semKey[d][n]
    OBVIOUS
  <2> QED BY <1>7, <2>2, <2>3, <2>4, ProcessKept
<1>8. CASE process' = process /\ (p # 0 => process[p].at \notin Opening)
  <2>1. ASSUME NEW q \in DOMAIN process PROVE q # p \/ process[q].at \notin Opening
    <3>1. q # 0
      BY <1>3 DEF Types, Listed
    <3> QED BY <1>8, <3>1
  <2> QED BY <1>3, <1>5, <1>6, <1>7, <1>8, <2>1, ProcessesSame DEF Types
<1>9. CASE p # 0 /\ process' = [process EXCEPT ![p] = [process[p] EXCEPT !.deaf = TRUE]]
           /\ process[p].at = "forked"
  <2> DEFINE r == process[p]
             e == [r EXCEPT !.deaf = TRUE]
  <2>1. p \in DOMAIN process /\ ProcessInv(p) /\ r.of = <<c, m>> /\ r.at = "forked"
        /\ DOMAIN r = ProcessFields
    BY <1>4, <1>9 DEF ProcessInv
  <2>2. DOMAIN e = ProcessFields /\ e.deaf = TRUE
        /\ \A f \in ProcessFields \ {"deaf"} : e[f] = r[f]
    BY <2>1 DEF ProcessFields
  <2>3. e.of = r.of /\ e.at = r.at /\ e.own = r.own /\ e.told = r.told
    BY <2>2 DEF ProcessFields
  <2>4. process' = [process EXCEPT ![p] = e]
    BY <1>9
  <2> HIDE DEF e, r
  <2>5. /\ Listed(process') /\ DOMAIN process' = DOMAIN process
        /\ process'[p] = e /\ \A q \in DOMAIN process : q # p => process'[q] = process[q]
        /\ ProcessesGoOn /\ \A d : NoneForked(d)
    BY <1>3, <2>1, <2>3, <2>4, ProcessSet DEF r
  <2>6. ProcessInv(p)'
    <3>0. r.of[1] = c /\ r.of[2] = m
      BY <2>1
    <3>1. /\ c \in Collectors /\ m \in ModulesOf(c) /\ pc[c] \notin Early
          /\ OfModule(r.own, c, m)
          /\ pc[c] # "over" => pid[c][m] = p /\ semId[c][m] = r.own
          /\ r.told # None => (\A k : Held(shm, k, Block(c)) => k = r.told[2])
          /\ ~useFiles => Held(shm, storageKey[c], Storage(c))
      BY <2>1, <3>0 DEF ProcessInv, r, Dead
    <3> QED
      BY <2>1, <2>2, <2>3, <2>5, <3>0, <3>1
         DEF ProcessInv, Held, Opening, Opened, Dead, OfModule, None, ModulesOf, Block, Storage
  <2> QED BY <1>5, <1>6, <1>7, <2>5, <2>6
<1>10. ASSUME NEW how \in {"exited", "crashed"},
              p # 0, process' = [process EXCEPT ![p] = DeadOf(process[p].of, how)]
       PROVE  /\ Listed(process') /\ ProcessesGoOn /\ \A d : NoneForked(d)
              /\ \A q \in DOMAIN process' : ProcessInv(q)'
  <2> DEFINE e == DeadOf(process[p].of, how)
  <2>1. e.of = process[p].of /\ e.at \in Dead /\ DOMAIN e = ProcessFields
    BY DeadFields
  <2>2. p \in DOMAIN process /\ ProcessInv(p) /\ process[p].of = <<c, m>>
    BY <1>4, <1>10
  <2>3. process' = [process EXCEPT ![p] = e]
    BY <1>10
  <2> HIDE DEF e
  <2>4. /\ Listed(process') /\ DOMAIN process' = DOMAIN process
        /\ process'[p] = e /\ \A q \in DOMAIN process : q # p => process'[q] = process[q]
        /\ ProcessesGoOn /\ \A d : NoneForked(d)
    BY <1>3, <2>1, <2>2, <2>3, ProcessSet
  <2>5. e.of[1] = c
    BY <2>1, <2>2
  <2>6. pc'[e.of[1]] \notin Early
    BY <2>5 DEF Early
  <2>7. storageKey'[e.of[1]] = storageKey[e.of[1]]
        /\ \A k : Held(shm, k, Storage(e.of[1])) => Held(shm', k, Storage(e.of[1]))
    OBVIOUS
  <2>8. ProcessInv(p)'
    BY <2>1, <2>2, <2>4, <2>6, <2>7, DeadInv
  <2> QED BY <1>7, <2>4, <2>8
<1> QED
  BY <1>1, <1>3, <1>4, <1>5, <1>6, <1>8, <1>9, <1>10, SigTermSets

-----------------------------------------------------------------------------
(* Steps of a collector and the others. *)

\* A collector's step changes the state of no other, and no configuration.
LEMMA OnlyItsOwn ==
  ASSUME Domains, NEW c \in Collectors, Collector(c)
  PROVE  /\ Domains' /\ useFiles' = useFiles
         /\ \A d \in Collectors \ {c} : SameCollector(d)
<1> USE DEF Domains, SameCollector, SameModules, SamePids, vars, host, keys, detectMod, config, bounds,
            Goes, Main, Gone, Advance
<1>1. CASE CreateShared(c)
  BY <1>1 DEF CreateShared
<1>2. CASE ReadConfig(c)
  BY <1>2 DEF ReadConfig
<1>3. CASE CreateStorage(c)
  BY <1>3 DEF CreateStorage
<1>4. CASE StartModule(c)
  <2>1. CASE index[c] > ModuleCount[c]
    BY <1>4, <2>1 DEF StartModule
  <2>2. CASE ~(index[c] > ModuleCount[c])
    <3>1. UNCHANGED <<pc, host, keys, container, detectMod, config, orderly>>
      BY <1>4, <2>2 DEF StartModule
    <3>2. frames' = frames \/ frames' = [frames EXCEPT ![c] = <<Frame(index[c], FALSE)>>]
      BY <1>4, <2>2 DEF StartModule
    <3>3. index' = [index EXCEPT ![c] = @ + 1]
      BY <1>4, <2>2 DEF StartModule
    <3>4. index' \in [Collectors -> Nat]
      BY <3>3
    <3> QED BY <3>1, <3>2, <3>3, <3>4
  <2> QED BY <2>1, <2>2
<1>5. CASE Run(c)
  BY <1>5 DEF Run
<1>6. CASE SlowModule(c)
  BY <1>6 DEF SlowModule
<1>7. CASE KillModule(c)
  BY <1>7 DEF KillModule
<1>8. CASE Destroy(c)
  BY <1>8 DEF Destroy
<1>9. CASE CreateSemaphore(c)
  BY <1>9 DEF CreateSemaphore
<1>10. CASE Fork(c)
  BY <1>10 DEF Fork
<1>11. CASE RunFails(c)
  BY <1>11, SMTT(30) DEF RunFails
<1>12. CASE StorePipe(c)
  BY <1>12 DEF StorePipe
<1>13. CASE SendInitData(c)
  BY <1>13 DEF SendInitData
<1>14. CASE SigChild(c)
  BY <1>14 DEF SigChild
<1>15. CASE CollectorDies(c)
  BY <1>15 DEF CollectorDies
<1> QED
  BY <1>1, <1>2, <1>3, <1>4, <1>5, <1>6, <1>7, <1>8, <1>9, <1>10, <1>11, <1>12, <1>13, <1>14, <1>15 DEF Collector, RunSteps

\* What remains to be shown of a step of the collector c.
OwnPart(c) ==
  /\ Listed(process') /\ ProcessesGoOn
  /\ \A d \in Collectors \ {c} : SameSemaphores(d) /\ SameMemory(d) /\ NoneForked(d)
  /\ SemaphoreInv' /\ CollectorInv(c)'
  /\ \A p \in DOMAIN process' : ProcessInv(p)'

LEMMA OthersKept ==
  ASSUME IInv, NEW c \in Collectors, Collector(c), OwnPart(c)
  PROVE  IInv'
<1>1. Domains' /\ useFiles' = useFiles /\ \A d \in Collectors \ {c} : SameCollector(d)
  BY OnlyItsOwn DEF IInv, Types
<1>2. /\ \A d \in Collectors \ {c} : SameSemaphores(d) /\ SameMemory(d) /\ NoneForked(d)
      /\ ProcessesGoOn /\ CollectorInv(c)'
  BY DEF OwnPart
<1>3. ASSUME NEW d \in Collectors PROVE CollectorInv(d)'
  <2>1. CASE d = c
    BY <1>2, <2>1
  <2>2. CASE d # c
    BY <1>1, <1>2, <2>2, CollectorKept DEF IInv, Types, Domains, CountAssumption
  <2> QED BY <2>1, <2>2
<1>4. Types' /\ SemaphoreInv' /\ \A p \in DOMAIN process' : ProcessInv(p)'
  BY <1>1 DEF OwnPart, Types
<1> QED BY <1>3, <1>4 DEF IInv

-----------------------------------------------------------------------------
(* Steps that leave processes and semaphores alone. *)

LEMMA QuietStep ==
  ASSUME IInv, NEW c \in Collectors, Collector(c), process' = process, sem' = sem,
         \A d \in Collectors \ {c} : SameMemory(d),
         pc[c] \notin Early =>
           /\ pc'[c] \notin Early /\ storageKey'[c] = storageKey[c] /\ SameMemory(c)
           /\ pc'[c] = "over" \/ (pc[c] # "over" /\ SamePids(c)),
         pc'[c] # "over" => pc[c] # "over" /\ semId'[c] = semId[c],
         CollectorInv(c)'
  PROVE  OwnPart(c)
<1>1. useFiles' = useFiles /\ \A d \in Collectors \ {c} : SameCollector(d)
  BY OnlyItsOwn DEF IInv, Types
<1>2. ASSUME NEW d \in Collectors, pc[d] \notin Early
      PROVE  /\ pc'[d] \notin Early /\ storageKey'[d] = storageKey[d] /\ SameMemory(d)
             /\ pc'[d] = "over" \/ (pc[d] # "over" /\ SamePids(d))
  <2>1. CASE d = c
    BY <1>2, <2>1
  <2>2. CASE d # c
    <3>1. CASE pc[d] = "over"
      BY <1>1, <1>2, <2>2, <3>1 DEF SameCollector
    <3> QED BY <1>1, <1>2, <2>2 DEF SameCollector, SameModules
  <2> QED BY <2>1, <2>2
<1>3. \A p \in DOMAIN process' : ProcessInv(p)'
  BY <1>1, <1>2, AllProcessesKept DEF IInv
<1>4. SemaphoreInv'
  <2>1. \A d \in Collectors : pc'[d] # "over" => pc[d] # "over" /\ semId'[d] = semId[d]
    BY <1>1 DEF SameCollector, SameModules, SamePids
  <2>2. \A k, id : Held(sem', k, id) => Held(sem, k, id)
    OBVIOUS
  <2> QED BY <2>1, <2>2, SemaphoresKept DEF IInv
<1>5. Listed(process') /\ ProcessesGoOn /\ \A d : NoneForked(d)
  BY ProcessesSame DEF IInv, Types
<1>6. \A d : SameSemaphores(d)
  BY DEF SameSemaphores
<1> QED BY <1>3, <1>4, <1>5, <1>6 DEF OwnPart

\* A collector that is over.
LEMMA GoneInv ==
  ASSUME Domains, NEW c \in Collectors, Gone(c), container'[c] \subseteq ModulesOf(c),
         orderly'[c] =>
           /\ \A k, id : Held(sem', k, id) => ~(id[1] = c /\ id[2] \in container'[c])
           /\ \A k : ~Held(shm', k, Block(c))
  PROVE  CollectorInv(c)'
<1>1. pc'[c] = "over" /\ frames'[c] = <<>>
  BY DEF Gone, Goes, Domains
<1>2. Listed(frames'[c]) /\ 1 .. Len(frames'[c]) = {}
  BY <1>1, EmptyListed
<1>3. \A i \in 1 .. Len(frames'[c]) : FrameInv(c, i)'
  BY <1>2
<1>4. /\ frames'[c] # <<>> => pc'[c] \in {"start", "run"}
      /\ pc'[c] # "over" => ModulesInv(c)'
      /\ \A k : Held(shm', k, Block(c)) => pc'[c] # "shared" /\ (pc'[c] # "over" => k = shmKey'[c])
      /\ ~(pc'[c] \in {"start", "run"}) /\ pc'[c] # "kill"
  BY <1>1
<1> QED
  BY <1>1, <1>2, <1>3, <1>4 DEF CollectorInv, Held, Block, Storage, ModulesOf, Listed, Places, Early

LEMMA MemorySame ==
  ASSUME shm' = shm
  PROVE  \A d : SameMemory(d)
BY DEF SameMemory

\* A collector's step that changes no modules and has no frame before or after.
LEMMA PlainInv ==
  ASSUME IInv, NEW c \in Collectors, Collector(c), SameModules(c), process' = process, sem' = sem,
         frames'[c] = <<>>, pc[c] # "over", pc'[c] # "over", pc'[c] \in Places,
         pc'[c] \in Early \cup {"start"} => pc[c] \in Early \cup {"start"} /\ index'[c] >= index[c],
         container'[c] \subseteq ModulesOf(c),
         \A k : Held(shm', k, Block(c)) => pc'[c] # "shared" /\ k = shmKey'[c],
         pc'[c] \in {"start", "run"} /\ ~useFiles => Held(shm', storageKey'[c], Storage(c)),
         pc'[c] = "kill" => index'[c] = 1,
         ~orderly'[c]
  PROVE  CollectorInv(c)'
<1>1. useFiles' = useFiles /\ Domains' /\ Domains
  BY OnlyItsOwn DEF IInv, Types
<1>2. Listed(frames'[c]) /\ 1 .. Len(frames'[c]) = {}
  BY EmptyListed
<1>3. \A i \in 1 .. Len(frames'[c]) : FrameInv(c, i)'
  BY <1>2
<1>7. ModulesInv(c)'
  <2>1. ModulesInv(c) /\ index[c] \in Nat /\ index'[c] \in Nat /\ ModuleCount[c] \in Nat
    BY <1>1 DEF IInv, CollectorInv, Domains, CountAssumption
  <2>2. SamePids(c) /\ pipe'[c] = pipe[c] /\ SameSemaphores(c) /\ ProcessesGoOn
    BY ProcessesSame DEF SameModules, SameSemaphores
  <2> QED BY <2>1, <2>2, ModulesKept
<1>8. pc'[c] = "kill" =>
        (\A k, id : Held(sem', k, id) /\ id[1] = c /\ id[2] \in container'[c] => id[2] >= index'[c])
  BY DEF ModulesOf
<1> QED
  BY <1>1, <1>2, <1>3, <1>7, <1>8 DEF CollectorInv, Held, Block, Storage, ModulesOf, Listed, Places, Early

LEMMA MainFacts ==
  ASSUME IInv, NEW c \in Collectors
  PROVE  /\ Domains /\ CollectorInv(c) /\ index[c] \in Nat /\ ModuleCount[c] \in Nat
         /\ pc[c] \notin {"destroy", "over"} => ~orderly[c]
         /\ pc[c] = "shared" => (\A k : ~Held(shm, k, Block(c)))
         /\ \A k : pc[c] # "over" /\ Held(shm, k, Block(c)) => k = shmKey[c]
         /\ container[c] \subseteq ModulesOf(c)
         /\ \A d \in Collectors : d # c => Block(c) # Block(d) /\ Storage(c) # Block(d)
         /\ Storage(c) # Block(c)
BY DEF IInv, Types, Domains, CountAssumption, CollectorInv, Block, Storage

-----------------------------------------------------------------------------
(* The collector's steps outside of run(). *)

\* IPC_CREAT with a free key adds nothing but what is created.
LEMMA MemoryAdded ==
  ASSUME NEW key, NEW id, key \notin DOMAIN shm, shm' = Allocated(shm, key, id)
  PROVE  /\ \A k, x : Held(shm', k, x) <=> Held(shm, k, x) \/ (k = key /\ x = id)
         /\ \A d : id # Block(d) => SameMemory(d)
<1> DEFINE t == Allocated(shm, key, id)
<1>1. \A k, x : Held(t, k, x) <=> Held(shm, k, x) \/ (k = key /\ x = id)
  BY AddHeld
<1>2. shm' = t
  OBVIOUS
<1> HIDE DEF t
<1>3. \A k, x : Held(shm', k, x) <=> Held(shm, k, x) \/ (k = key /\ x = id)
  BY <1>1, <1>2
<1> QED BY <1>3 DEF SameMemory

LEMMA MemoryRemoved ==
  ASSUME NEW c, shm' = Without(shm, Block(c))
  PROVE  /\ \A k, x : Held(shm', k, x) <=> Held(shm, k, x) /\ x # Block(c)
         /\ \A d : SameMemory(d)
<1> DEFINE t == Without(shm, Block(c))
<1>1. \A k, x : Held(t, k, x) <=> Held(shm, k, x) /\ x # Block(c)
  BY RemoveHeld
<1>2. shm' = t
  OBVIOUS
<1> HIDE DEF t
<1>3. \A k, x : Held(shm', k, x) <=> Held(shm, k, x) /\ x # Block(c)
  BY <1>1, <1>2
<1>4. \A d : Storage(d) # Block(c)
  BY DEF Storage, Block
<1> QED BY <1>3, <1>4 DEF SameMemory

LEMMA CreateSharedKeeps ==
  ASSUME IInv, NEW c \in Collectors, CreateShared(c)
  PROVE  OwnPart(c)
<1>1. /\ Collector(c) /\ pc[c] = "shared" /\ frames[c] = <<>> /\ process' = process /\ sem' = sem
      /\ frames' = frames /\ index' = index /\ container' = container /\ orderly' = orderly
      /\ SameModules(c)
  BY DEF Collector, CreateShared, Main, SameModules, SamePids, detectMod
<1>2. /\ \A d \in Collectors \ {c} : SameMemory(d)
      /\ pc'[c] # "over" /\ pc'[c] \in Early
      /\ \A k : Held(shm', k, Block(c)) => pc'[c] # "shared" /\ k = shmKey'[c]
  <2>1. CASE Taken(shm, shmKey[c])
    <3>1. shm' = shm /\ pc' = pc
      BY <2>1 DEF CreateShared
    <3> QED BY <1>1, <3>1, MemorySame, MainFacts DEF Early
  <2>2. CASE ~Taken(shm, shmKey[c])
    <3>1. /\ shm' = Allocated(shm, shmKey[c], Block(c)) /\ Goes(c, "config") /\ shmKey' = shmKey
          /\ shmKey[c] \notin DOMAIN shm
      BY <2>2 DEF CreateShared, Taken
    <3>2. pc'[c] = "config"
      BY <3>1, MainFacts DEF Goes, Domains
    <3>3. /\ \A k, x : Held(shm', k, x) <=> Held(shm, k, x) \/ (k = shmKey[c] /\ x = Block(c))
          /\ \A d : Block(c) # Block(d) => SameMemory(d)
      BY <3>1, MemoryAdded
    <3> QED BY <1>1, <3>1, <3>2, <3>3, MainFacts DEF Early
  <2> QED BY <2>1, <2>2
<1>3. CollectorInv(c)'
  <2>1. ~(pc'[c] \in {"start", "run"}) /\ pc'[c] # "kill"
    BY <1>2 DEF Early
  <2> QED BY <1>1, <1>2, <2>1, MainFacts, PlainInv DEF Early, Places
<1>4. pc[c] \in Early /\ pc[c] # "over" /\ semId'[c] = semId[c]
  BY <1>1 DEF Early, SameModules, SamePids
<1> QED BY <1>1, <1>2, <1>3, <1>4, QuietStep

LEMMA ReadConfigKeeps ==
  ASSUME IInv, NEW c \in Collectors, ReadConfig(c)
  PROVE  OwnPart(c)
<1>1. /\ Collector(c) /\ pc[c] = "config" /\ frames[c] = <<>> /\ process' = process /\ sem' = sem
      /\ shm' = shm /\ shmKey' = shmKey /\ frames' = frames /\ index' = index /\ orderly' = orderly
      /\ SameModules(c)
  BY DEF Collector, ReadConfig, Main, SameModules, SamePids, detectMod, host
<1>2. /\ pc'[c] \in {"start", "storage", "destroy"} /\ (pc'[c] = "start" => useFiles)
      /\ container'[c] \subseteq ModulesOf(c)
  BY MainFacts DEF ReadConfig, Goes, Domains, Created
<1>3. CollectorInv(c)'
  <2>1. /\ pc[c] # "over" /\ pc'[c] # "over" /\ pc'[c] # "kill" /\ pc[c] \in Early
        /\ pc'[c] \in Places
    BY <1>1, <1>2 DEF Early, Places
  <2>3. ~(pc'[c] \in {"start", "run"} /\ ~useFiles)
    BY <1>2
  <2>2. \A k : Held(shm', k, Block(c)) => pc'[c] # "shared" /\ k = shmKey'[c]
    BY <1>1, <1>2, MainFacts
  <2> QED BY <1>1, <1>2, <2>1, <2>2, <2>3, MainFacts, PlainInv
<1>4. pc[c] \in Early /\ pc[c] # "over" /\ semId'[c] = semId[c] /\ \A d : SameMemory(d)
  BY <1>1, MemorySame DEF Early, SameModules, SamePids
<1> QED BY <1>1, <1>3, <1>4, QuietStep

LEMMA CreateStorageKeeps ==
  ASSUME IInv, NEW c \in Collectors, CreateStorage(c)
  PROVE  OwnPart(c)
<1>1. /\ Collector(c) /\ pc[c] = "storage" /\ frames[c] = <<>> /\ process' = process /\ sem' = sem
      /\ frames' = frames /\ index' = index /\ container' = container /\ orderly' = orderly
      /\ shmKey' = shmKey /\ SameModules(c)
  BY DEF Collector, CreateStorage, Main, SameModules, SamePids, detectMod
<1>2. /\ \A d \in Collectors \ {c} : SameMemory(d)
      /\ pc'[c] \in {"storage", "start"}
      /\ \A k : Held(shm', k, Block(c)) => k = shmKey'[c]
      /\ pc'[c] = "start" => Held(shm', storageKey'[c], Storage(c))
  <2>1. CASE Taken(shm, storageKey[c])
    <3>1. shm' = shm /\ pc' = pc
      BY <2>1 DEF CreateStorage
    <3> QED BY <1>1, <3>1, MemorySame, MainFacts
  <2>2. CASE ~Taken(shm, storageKey[c])
    <3>1. /\ shm' = Allocated(shm, storageKey[c], Storage(c)) /\ Goes(c, "start")
          /\ storageKey' = storageKey /\ storageKey[c] \notin DOMAIN shm
      BY <2>2 DEF CreateStorage, Taken
    <3>2. pc'[c] = "start"
      BY <3>1, MainFacts DEF Goes, Domains
    <3>3. /\ \A k, x : Held(shm', k, x) <=> Held(shm, k, x) \/ (k = storageKey[c] /\ x = Storage(c))
          /\ \A d : Storage(c) # Block(d) => SameMemory(d)
      BY <3>1, MemoryAdded
    <3> QED BY <1>1, <3>1, <3>2, <3>3, MainFacts
  <2> QED BY <2>1, <2>2
<1>3. CollectorInv(c)'
  <2>1. pc[c] \in Early /\ pc'[c] # "over" /\ pc'[c] # "kill" /\ pc'[c] # "shared" /\ pc[c] # "over"
    BY <1>1, <1>2 DEF Early
  <2> QED BY <1>1, <1>2, <2>1, MainFacts, PlainInv DEF Places
<1>4. pc[c] \in Early /\ pc[c] # "over" /\ semId'[c] = semId[c]
  BY <1>1 DEF Early, SameModules, SamePids
<1> QED BY <1>1, <1>2, <1>3, <1>4, QuietStep

\* A collector that starts modules or runs, before and after a step.
LEMMA RunningInv ==
  ASSUME IInv, NEW c \in Collectors, pc[c] \in {"start", "run"}, pc' = pc,
         useFiles' = useFiles, storageKey' = storageKey, shmKey' = shmKey, orderly' = orderly,
         container'[c] \subseteq ModulesOf(c), SameMemory(c), Listed(frames'[c]),
         \A i \in 1 .. Len(frames'[c]) : FrameInv(c, i)', ModulesInv(c)'
  PROVE  CollectorInv(c)'
<1>1. /\ \A k : Held(shm', k, Block(c)) => pc'[c] # "shared" /\ (pc'[c] # "over" => k = shmKey'[c])
      /\ pc'[c] \in {"start", "run"} /\ ~useFiles' => Held(shm', storageKey'[c], Storage(c))
  BY DEF IInv, CollectorInv, SameMemory
<1>2. pc'[c] \in {"start", "run"} /\ pc'[c] # "kill" /\ ~orderly'[c]
  BY MainFacts
<1> QED
  BY <1>1, <1>2 DEF CollectorInv, Held, Block, Storage, ModulesOf, Listed, Places, Early

\* The memory and the modules of a collector that runs stay.
LEMMA SameForOwn ==
  ASSUME NEW c, SameModules(c), shm' = shm
  PROVE  SamePids(c) /\ SameMemory(c) /\ semId'[c] = semId[c] /\ pipe'[c] = pipe[c]
BY MemorySame DEF SameModules, SamePids

LEMMA StartModuleKeeps ==
  ASSUME IInv, NEW c \in Collectors, StartModule(c)
  PROVE  OwnPart(c)
<1>1. /\ Collector(c) /\ pc[c] = "start" /\ frames[c] = <<>> /\ process' = process /\ sem' = sem
      /\ shm' = shm /\ shmKey' = shmKey /\ storageKey' = storageKey /\ container' = container
      /\ orderly' = orderly /\ useFiles' = useFiles /\ SameModules(c)
  BY DEF Collector, StartModule, Main, SameModules, SamePids, detectMod, host, keys, config
<1>2. ~orderly'[c] /\ container'[c] \subseteq ModulesOf(c) /\ \A d : SameMemory(d)
  BY <1>1, MainFacts, MemorySame
<1>3. \A k : Held(shm', k, Block(c)) => k = shmKey'[c]
  BY <1>1, MainFacts
<1>4. ~useFiles => Held(shm', storageKey'[c], Storage(c))
  BY <1>1, MainFacts DEF CollectorInv
<1>5. CASE index[c] > ModuleCount[c]
  <2>1. pc'[c] = "run" /\ frames' = frames /\ index' = index
    BY <1>5, MainFacts DEF StartModule, Goes, Domains
  <2>2. CollectorInv(c)'
    <3>1. pc[c] # "over" /\ pc'[c] # "over" /\ pc'[c] \notin Early \cup {"start"} /\ pc'[c] # "kill"
          /\ pc'[c] # "shared"
      BY <1>1, <2>1 DEF Early
    <3> QED BY <1>1, <1>2, <1>3, <1>4, <2>1, <3>1, PlainInv DEF Places
  <2>3. pc'[c] \notin Early /\ pc[c] # "over"
    BY <1>1, <2>1 DEF Early
  <2> QED BY <1>1, <1>2, <2>2, <2>3, SameForOwn, QuietStep
<1>6. CASE ~(index[c] > ModuleCount[c])
  <2>1. pc' = pc /\ index' = [index EXCEPT ![c] = @ + 1]
    BY <1>6 DEF StartModule
  <2>2. index'[c] = index[c] + 1 /\ index[c] \in Nat /\ ModuleCount[c] \in Nat
    BY <2>1, MainFacts DEF Domains
  <2>3. ModulesInv(c)'
    <3>1. ModulesInv(c) /\ SamePids(c) /\ pipe'[c] = pipe[c]
      BY <1>1, MainFacts, SameForOwn DEF CollectorInv
    <3>2. SameSemaphores(c) /\ ProcessesGoOn
      BY <1>1, ProcessesSame DEF SameSemaphores
    <3>3. index'[c] \in Nat /\ index'[c] >= index[c]
      BY <2>2
    <3> QED BY <1>1, <2>1, <2>2, <3>1, <3>2, <3>3, ModulesKept
  <2>4. Listed(frames'[c]) /\ \A i \in 1 .. Len(frames'[c]) : FrameInv(c, i)'
    <3>1. CASE index[c] \notin container[c]
      <4>1. frames' = frames
        BY <1>6, <3>1 DEF StartModule
      <4>2. Listed(frames'[c]) /\ 1 .. Len(frames'[c]) = {}
        BY <1>1, <4>1, EmptyListed
      <4> QED BY <4>2
    <3>2. CASE index[c] \in container[c]
      <4> DEFINE m == index[c]
                 f == Frame(m, FALSE)
      <4>1. frames'[c] = <<f>>
        <5>1. frames' = [frames EXCEPT ![c] = <<f>>]
          BY <1>6, <3>2 DEF StartModule
        <5> QED BY <5>1, MainFacts DEF Domains
      <4>2. m \in ModulesOf(c) /\ m >= index[c]
        BY <3>2, <2>2, MainFacts
      <4>3. DOMAIN f = FrameFields /\ f.module = m /\ f.at = "key" /\ f.handler = FALSE
        BY DEF Frame, FrameFields
      <4> HIDE DEF f
      <4>4. Listed(frames'[c]) /\ 1 .. Len(frames'[c]) = {1} /\ frames'[c][1] = f
        BY <4>1 DEF Listed
      <4>5. pid[c][m] = 0 /\ \A k, id : Held(sem, k, id) => ~OfModule(id, c, m)
        BY <1>1, <4>2, MainFacts DEF CollectorInv, ModulesInv
      <4>6. \A p \in DOMAIN process : process[p].of = <<c, m>> => process[p].at \in Dead
        <5>1. SUFFICES ASSUME NEW p \in DOMAIN process, process[p].of = <<c, m>>,
                              process[p].at \notin Dead
                       PROVE  FALSE
          OBVIOUS
        <5>2. ProcessInv(p)
          BY <5>1 DEF IInv
        <5>3. pid[c][m] = p
          BY <1>1, <5>1, <5>2 DEF ProcessInv
        <5>4. p # 0
          BY <5>1 DEF IInv, Types, Listed
        <5> QED BY <4>5, <5>3, <5>4
      <4>7. pid'[c][m] = 0 /\ m < index'[c]
        BY <1>1, <2>2, <4>5, SameForOwn DEF SamePids
      <4>8. FrameInv(c, 1)'
        BY <1>1, <4>2, <4>3, <4>4, <4>5, <4>6, <4>7
           DEF FrameInv, Held, OfModule, None, ModulesOf
      <4> QED BY <4>4, <4>8
    <3> QED BY <3>1, <3>2
  <2>5. CollectorInv(c)'
    BY <1>1, <1>2, <2>1, <2>3, <2>4, RunningInv
  <2>6. pc'[c] \notin Early /\ pc[c] # "over"
    BY <1>1, <2>1 DEF Early
  <2> QED BY <1>1, <1>2, <2>5, <2>6, SameForOwn, QuietStep
<1> QED BY <1>5, <1>6

LEMMA RunKeeps ==
  ASSUME IInv, NEW c \in Collectors, Run(c)
  PROVE  OwnPart(c)
<1>1. /\ Collector(c) /\ pc[c] = "run" /\ frames[c] = <<>> /\ process' = process /\ sem' = sem
      /\ shm' = shm /\ shmKey' = shmKey /\ storageKey' = storageKey /\ container' = container
      /\ frames' = frames /\ orderly' = orderly /\ useFiles' = useFiles /\ SameModules(c)
  BY DEF Collector, Run, Main, SameModules, SamePids, detectMod, host, keys, config
<1>2. ~orderly'[c] /\ container'[c] \subseteq ModulesOf(c) /\ \A d : SameMemory(d)
  BY <1>1, MainFacts, MemorySame
<1>3. pc'[c] = "kill" /\ index'[c] = 1
  BY MainFacts DEF Run, Goes, Domains
<1>4. pc[c] # "over" /\ pc'[c] # "over" /\ pc'[c] \notin Early \cup {"start"}
      /\ pc'[c] \notin {"start", "run"} /\ pc'[c] # "shared"
  BY <1>1, <1>3 DEF Early
<1>5. \A k : Held(shm', k, Block(c)) => k = shmKey'[c]
  BY <1>1, MainFacts
<1>6. CollectorInv(c)'
  BY <1>1, <1>2, <1>3, <1>4, <1>5, PlainInv DEF Places
<1> QED BY <1>1, <1>2, <1>4, <1>6, SameForOwn, QuietStep

LEMMA DestroyKeeps ==
  ASSUME IInv, NEW c \in Collectors, Destroy(c)
  PROVE  OwnPart(c)
<1>1. /\ Collector(c) /\ pc[c] = "destroy" /\ process' = process /\ sem' = sem /\ Gone(c)
      /\ shm' = Without(shm, Block(c)) /\ storageKey' = storageKey /\ container' = container
      /\ orderly' = orderly
  BY DEF Collector, Destroy, Main
<1>2. pc'[c] = "over"
  BY <1>1, MainFacts DEF Gone, Goes, Domains
<1>3. (\A k : ~Held(shm', k, Block(c))) /\ \A d : SameMemory(d)
  BY <1>1, MemoryRemoved
<1>4. orderly[c] => \A k, id : Held(sem, k, id) => ~(id[1] = c /\ id[2] \in container[c])
  BY MainFacts DEF CollectorInv
<1>5. CollectorInv(c)'
  BY <1>1, <1>3, <1>4, MainFacts, GoneInv
<1>6. pc'[c] \notin Early
  BY <1>2 DEF Early
<1> QED BY <1>1, <1>2, <1>3, <1>5, <1>6, QuietStep

\* The collector's death while it runs.
LEMMA DeathKeeps ==
  ASSUME IInv, NEW c \in Collectors, Collector(c), process' = process, sem' = sem, shm' = shm, Gone(c),
         storageKey' = storageKey, container' = container, ~orderly'[c]
  PROVE  OwnPart(c)
<1>1. pc'[c] = "over" /\ \A d : SameMemory(d)
  BY MainFacts, MemorySame DEF Gone, Goes, Domains
<1>2. CollectorInv(c)'
  BY MainFacts, GoneInv
<1>3. pc'[c] \notin Early
  BY <1>1 DEF Early
<1> QED BY <1>1, <1>2, <1>3, QuietStep

LEMMA CollectorDiesKeeps ==
  ASSUME IInv, NEW c \in Collectors, CollectorDies(c)
  PROVE  OwnPart(c)
<1>1. /\ Collector(c) /\ process' = process /\ sem' = sem /\ shm' = shm /\ Gone(c)
      /\ storageKey' = storageKey /\ container' = container
      /\ orderly' = [orderly EXCEPT ![c] = FALSE]
  BY DEF Collector, CollectorDies, host
<1>2. ~orderly'[c]
  BY <1>1, MainFacts DEF Domains
<1> QED BY <1>1, <1>2, DeathKeeps

-----------------------------------------------------------------------------
(* run(), sendInitData and sigChild: one module of one collector. *)

SameModule(d, n) ==
  /\ semKey'[d][n] = semKey[d][n] /\ semId'[d][n] = semId[d][n] /\ pid'[d][n] = pid[d][n]
  /\ \A k, id : OfModule(id, d, n) => (Held(sem', k, id) <=> Held(sem, k, id))
NoneForkedOf(d, n) ==
  \A p \in DOMAIN process' : process'[p].of = <<d, n>> => p \in DOMAIN process
\* Nothing else but the module m of c.
Elsewhere(c, m) ==
  \A d \in Collectors : \A n \in ModulesOf(d) : <<d, n>> # <<c, m>> =>
    SameModule(d, n) /\ NoneForkedOf(d, n)
\* What a step of run() leaves alone.
Running(c) ==
  /\ Collector(c) /\ pc[c] \in {"start", "run"} /\ pc' = pc /\ index' = index /\ shm' = shm
  /\ useFiles' = useFiles /\ shmKey' = shmKey /\ storageKey' = storageKey /\ orderly' = orderly

LEMMA TopFacts ==
  ASSUME IInv, NEW c \in Collectors, frames[c] # <<>>
  PROVE  /\ Listed(frames[c]) /\ Len(frames[c]) \in Nat \ {0} /\ Top(c) = frames[c][Len(frames[c])]
         /\ pc[c] \in {"start", "run"} /\ FrameInv(c, Len(frames[c]))
         /\ \A i \in 1 .. Len(frames[c]) : FrameInv(c, i)
         /\ Top(c).module \in ModulesOf(c) /\ DOMAIN Top(c) = FrameFields
         /\ DOMAIN frames[c] = 1 .. Len(frames[c])
<1>1. Listed(frames[c]) /\ pc[c] \in {"start", "run"} /\ \A i \in 1 .. Len(frames[c]) : FrameInv(c, i)
  BY DEF IInv, CollectorInv
<1>2. Len(frames[c]) \in Nat /\ Len(frames[c]) # 0
  BY <1>1, ListedEmpty DEF Listed
<1>3. Top(c) = frames[c][Len(frames[c])]
  BY DEF Top, Last
<1>4. FrameInv(c, Len(frames[c]))
  BY <1>1, <1>2
<1>5. Top(c).module \in ModulesOf(c) /\ DOMAIN Top(c) = FrameFields
  BY <1>3, <1>4 DEF FrameInv
<1>6. DOMAIN frames[c] = 1 .. Len(frames[c])
  BY <1>1 DEF Listed
<1> QED BY <1>1, <1>2, <1>3, <1>4, <1>5, <1>6

\* The frame on top changes.
LEMMA TopSet ==
  ASSUME IInv, NEW c \in Collectors, frames[c] # <<>>, NEW e,
         frames' = [frames EXCEPT ![c][Len(frames[c])] = e]
  PROVE  /\ Listed(frames'[c]) /\ Len(frames'[c]) = Len(frames[c])
         /\ frames'[c][Len(frames[c])] = e
         /\ \A i \in 1 .. Len(frames[c]) - 1 : frames'[c][i] = frames[c][i]
<1> DEFINE n == Len(frames[c])
           t == [frames[c] EXCEPT ![n] = e]
<1>1. frames'[c] = t
  BY MainFacts DEF Domains
<1>2. n \in DOMAIN frames[c] /\ Listed(frames[c]) /\ n \in Nat \ {0}
  BY TopFacts
<1>3. /\ Listed(t) /\ Len(t) = n /\ t[n] = e /\ DOMAIN frames[c] = 1 .. n
      /\ \A i \in DOMAIN frames[c] : i # n => t[i] = frames[c][i]
  BY <1>2, SetListed
<1> HIDE DEF t
<1>4. \A i \in 1 .. n - 1 : t[i] = frames[c][i]
  BY <1>2, <1>3
<1> QED BY <1>1, <1>3, <1>4

\* A frame that is not a handler's, while something happens to another module.
LEMMA LowerKept ==
  ASSUME IInv, NEW c \in Collectors, NEW i \in 1 .. Len(frames[c]), ~frames[c][i].handler,
         frames'[c][i] = frames[c][i], pc' = pc, index' = index, ProcessesGoOn,
         \A m \in ModulesOf(c) : pid[c][m] = 0 => SameModule(c, m) /\ NoneForkedOf(c, m),
         \A m \in ModulesOf(c) :
           \/ pipe'[c][m] = pipe[c][m]
           \/ pipe'[c][m] \in DOMAIN process' /\ process'[pipe'[c][m]].of = <<c, m>>
  PROVE  FrameInv(c, i)'
<1>1. PICK f : f = frames[c][i]
  OBVIOUS
<1> DEFINE m == f.module
<1>2. FrameInv(c, i) /\ index[c] \in Nat
  BY MainFacts DEF CollectorInv
<1>3. /\ m \in ModulesOf(c) /\ ~f.handler /\ (f.at \in Seeking => pid[c][m] = 0)
      /\ f.at = "send" => pipe[c][m] \in DOMAIN process /\ process[pipe[c][m]].of = <<c, m>>
  BY <1>1, <1>2 DEF FrameInv
<1>4. f.at \in Seeking =>
        /\ semKey'[c][m] = semKey[c][m] /\ semId'[c][m] = semId[c][m] /\ pid'[c][m] = pid[c][m]
        /\ \A k, id : OfModule(id, c, m) => (Held(sem', k, id) <=> Held(sem, k, id))
        /\ \A p \in DOMAIN process' : process'[p].of = <<c, m>> => p \in DOMAIN process
  BY <1>3 DEF SameModule, NoneForkedOf
<1>5. f.at = "send" => pipe'[c][m] \in DOMAIN process' /\ process'[pipe'[c][m]].of = <<c, m>>
  BY <1>3 DEF ProcessesGoOn
<1>6. f.handler => i = Len(frames'[c]) /\ pid'[c][m] # 0
  BY <1>3
<1>7. pc'[c] = "start" =>
        pc[c] = "start" /\ index'[c] >= index[c] /\ index[c] \in Nat /\ index'[c] \in Nat
  BY <1>2
<1>8. frames'[c][i] = f
  BY <1>1
<1> QED BY ONLY ProcessesGoOn, <1>1, <1>2, <1>4, <1>5, <1>6, <1>7, <1>8, FrameKept

\* A frame below another one.
LEMMA BelowKept ==
  ASSUME IInv, NEW c \in Collectors, frames[c] # <<>>, NEW i \in 1 .. Len(frames[c]) - 1,
         frames'[c][i] = frames[c][i], pc' = pc, index' = index, ProcessesGoOn,
         Elsewhere(c, Top(c).module),
         \A m \in ModulesOf(c) :
           \/ pipe'[c][m] = pipe[c][m]
           \/ pipe'[c][m] \in DOMAIN process' /\ process'[pipe'[c][m]].of = <<c, m>>
  PROVE  FrameInv(c, i)'
<1> DEFINE n == Len(frames[c])
           m == Top(c).module
<1>1. n \in Nat \ {0} /\ i \in 1 .. n /\ i # n /\ n # 1 /\ Top(c) = frames[c][n]
      /\ FrameInv(c, i) /\ FrameInv(c, n)
  BY TopFacts, SMTT(30)
<1>2. ~frames[c][i].handler
  BY <1>1, SMTT(30) DEF FrameInv
<1>3. pid[c][m] # 0
  BY <1>1 DEF FrameInv
<1>4. \A q \in ModulesOf(c) : pid[c][q] = 0 => SameModule(c, q) /\ NoneForkedOf(c, q)
  BY <1>3 DEF Elsewhere
<1> QED BY <1>1, <1>2, <1>4, LowerKept

LEMMA ModulesElse ==
  ASSUME IInv, NEW c \in Collectors, NEW m \in ModulesOf(c), Elsewhere(c, m), Running(c),
         pc[c] = "start" => m < index[c],
         semKey'[c] \in [ModulesOf(c) -> Nat], DOMAIN semId'[c] = ModulesOf(c),
         pid'[c] \in [ModulesOf(c) -> Nat], DOMAIN pipe'[c] = ModulesOf(c), ProcessesGoOn,
         pid'[c][m] # 0 => pid'[c][m] \in DOMAIN process' /\ process'[pid'[c][m]].of = <<c, m>>,
         semId'[c][m] # None => OfModule(semId'[c][m], c, m)
  PROVE  ModulesInv(c)'
<1>1. ModulesInv(c) /\ index[c] \in Nat /\ pc[c] \notin Early
  BY MainFacts DEF CollectorInv, Running, Early
<1>2. ASSUME NEW n \in ModulesOf(c)
      PROVE  /\ pid'[c][n] # 0 => pid'[c][n] \in DOMAIN process' /\ process'[pid'[c][n]].of = <<c, n>>
             /\ semId'[c][n] # None => OfModule(semId'[c][n], c, n)
             /\ pc'[c] \in Early \cup {"start"} /\ n >= index'[c] =>
                  pid'[c][n] = 0 /\ \A k, id : Held(sem', k, id) => ~OfModule(id, c, n)
  <2>1. CASE n = m
    <3>1. ~(pc'[c] \in Early \cup {"start"} /\ n >= index'[c])
      BY <1>1, <2>1 DEF Running, ModulesOf
    <3> QED BY <2>1, <3>1
  <2>2. CASE n # m
    <3>1. SameModule(c, n)
      BY <2>2 DEF Elsewhere
    <3>2. pc' = pc /\ index' = index
      BY DEF Running
    <3> QED BY <1>1, <3>1, <3>2 DEF SameModule, ModulesInv, ProcessesGoOn
  <2> QED BY <2>1, <2>2
<1> QED BY <1>2 DEF ModulesInv, Held, OfModule, None, ModulesOf

\* A process of another module, or one that is over.
LEMMA ProcessElse ==
  ASSUME IInv, NEW c \in Collectors, NEW m \in ModulesOf(c), Elsewhere(c, m), Running(c),
         NEW p \in DOMAIN process, process'[p] = process[p],
         \/ process[p].of = <<c, m>> => process[p].at \in Dead
         \/ SameModule(c, m)
  PROVE  ProcessInv(p)'
<1>1. PICK d, n : d = process[p].of[1] /\ n = process[p].of[2]
  OBVIOUS
<1>2. /\ ProcessInv(p) /\ process[p].of = <<d, n>> /\ d \in Collectors /\ n \in ModulesOf(d)
      /\ pc[d] \notin Early /\ (process[p].at \notin Dead => OfModule(process[p].own, d, n))
  BY <1>1 DEF IInv, ProcessInv
<1>3. process[p].at \in Dead \/ SameModule(d, n)
  BY <1>2 DEF Elsewhere
<1>4. /\ useFiles' = useFiles /\ pc'[d] \notin Early /\ storageKey'[d] = storageKey[d]
      /\ \A k : Held(shm', k, Block(d)) => Held(shm, k, Block(d))
      /\ \A k : Held(shm, k, Storage(d)) => Held(shm', k, Storage(d))
  BY <1>2, MemorySame DEF Running, SameMemory
<1>5. \/ process[p].at \in Dead \/ pc'[d] = "over"
      \/ /\ pc[d] # "over" /\ pid'[d][n] = pid[d][n] /\ semId'[d][n] = semId[d][n]
         /\ semKey'[d][n] = semKey[d][n]
  BY <1>3 DEF SameModule, Running
<1>6. process[p].at \in Opening /\ ~process[p].deaf =>
        \A k : Held(sem, k, process[p].own) => Held(sem', k, process[p].own)
  BY <1>2, <1>3 DEF SameModule, Opening, Dead
<1> QED BY <1>2, <1>4, <1>5, <1>6, ProcessKept

LEMMA SameForOthers ==
  ASSUME IInv, NEW c \in Collectors, NEW m \in ModulesOf(c), Running(c),
         \A k, id : Held(sem', k, id) <=> Held(sem, k, id) \/ (Held(sem', k, id) /\ OfModule(id, c, m)),
         \A k, id : ~OfModule(id, c, m) /\ Held(sem, k, id) => Held(sem', k, id),
         \A d \in Collectors : d # c => NoneForked(d)
  PROVE  \A d \in Collectors \ {c} : SameSemaphores(d) /\ SameMemory(d) /\ NoneForked(d)
BY MemorySame DEF Running, SameSemaphores, OfModule

LEMMA RunFailsKeeps ==
  ASSUME IInv, NEW c \in Collectors, RunFails(c)
  PROVE  OwnPart(c)
<1>1. /\ Collector(c) /\ frames[c] # <<>> /\ process' = process /\ sem' = sem /\ shm' = shm
      /\ storageKey' = storageKey /\ container' = container /\ orderly' = orderly
  BY DEF Collector, RunSteps, RunFails, host
<1>2. pc[c] \in {"start", "run"} /\ ~orderly'[c]
  BY <1>1, TopFacts, MainFacts
<1>3. CASE Gone(c)
  BY <1>1, <1>2, <1>3, DeathKeeps
<1>4. CASE ~Gone(c)
  <2>1. /\ pc' = [pc EXCEPT ![c] = "destroy"] /\ frames' = [frames EXCEPT ![c] = <<>>]
        /\ shmKey' = shmKey /\ index' = index /\ SameModules(c)
    BY <1>4 DEF RunFails, Goes, SameModules, SamePids, detectMod
  <2>2. pc'[c] = "destroy" /\ frames'[c] = <<>> /\ container'[c] \subseteq ModulesOf(c)
        /\ \A k : Held(shm', k, Block(c)) => k = shmKey'[c]
    BY <1>1, <1>2, <2>1, MainFacts DEF Domains
  <2>3. pc'[c] \notin Early \cup {"start", "run", "kill", "over", "shared"} /\ pc[c] # "over"
    BY <1>2, <2>2 DEF Early
  <2>4. CollectorInv(c)'
    BY <1>1, <1>2, <2>1, <2>2, <2>3, PlainInv DEF Places
  <2>5. \A d : SameMemory(d)
    BY <1>1, MemorySame
  <2> QED BY <1>1, <2>1, <2>3, <2>4, <2>5, SameForOwn, QuietStep
<1> QED BY <1>3, <1>4

\* Advance: the frame on top is at another place.
LEMMA Advanced ==
  ASSUME IInv, NEW c \in Collectors, frames[c] # <<>>, NEW where, Advance(c, where)
  PROVE  LET n == Len(frames[c]) IN
         /\ Listed(frames'[c]) /\ Len(frames'[c]) = n
         /\ \A i \in 1 .. n - 1 : frames'[c][i] = frames[c][i]
         /\ DOMAIN frames'[c][n] = FrameFields /\ frames'[c][n].at = where
         /\ frames'[c][n].module = Top(c).module /\ frames'[c][n].child = Top(c).child
         /\ frames'[c][n].handler = Top(c).handler
<1> DEFINE n == Len(frames[c])
           e == [frames[c][n] EXCEPT !.at = where]
<1>1. Top(c) = frames[c][n] /\ DOMAIN frames[c][n] = FrameFields
  BY TopFacts
<1>2. /\ DOMAIN e = FrameFields /\ e.at = where /\ e.module = Top(c).module
      /\ e.child = Top(c).child /\ e.handler = Top(c).handler
  BY <1>1 DEF FrameFields
<1>3. frames' = [frames EXCEPT ![c][n] = e]
  BY DEF Advance
<1> HIDE DEF e
<1> QED BY <1>2, <1>3, TopSet

LEMMA StorePipeKeeps ==
  ASSUME IInv, NEW c \in Collectors, StorePipe(c)
  PROVE  OwnPart(c)
<1> DEFINE n == Len(frames[c])
           m == Top(c).module
<1>1. /\ Collector(c) /\ frames[c] # <<>> /\ Top(c).at = "store" /\ process' = process /\ sem' = sem
      /\ shm' = shm /\ shmKey' = shmKey /\ storageKey' = storageKey /\ container' = container
      /\ orderly' = orderly /\ pc' = pc /\ index' = index /\ useFiles' = useFiles
      /\ semKey' = semKey /\ semId' = semId /\ pid' = pid
      /\ pipe' = [pipe EXCEPT ![c][m] = Top(c).child] /\ Advance(c, "send")
  BY DEF Collector, RunSteps, StorePipe, Working, host, keys, config
<1>2. /\ n \in Nat \ {0} /\ Top(c) = frames[c][n] /\ FrameInv(c, n) /\ m \in ModulesOf(c)
      /\ pc[c] \in {"start", "run"}
  BY <1>1, TopFacts
<1>3. Running(c) /\ SamePids(c) /\ (\A d : SameMemory(d)) /\ ProcessesGoOn
  BY <1>1, <1>2, MemorySame, ProcessesSame DEF Running, SamePids
<1>4. Elsewhere(c, m)
  BY <1>1 DEF Elsewhere, SameModule, NoneForkedOf
<1>5. ModulesInv(c) /\ Domains /\ container[c] \subseteq ModulesOf(c)
  BY <1>2, MainFacts DEF CollectorInv
<1>6. /\ DOMAIN pipe'[c] = ModulesOf(c) /\ pipe'[c][m] = Top(c).child
      /\ \A q \in ModulesOf(c) \ {m} : pipe'[c][q] = pipe[c][q]
  BY <1>1, <1>2, <1>5, SMTT(30) DEF Domains, ModulesInv
<1>7. Top(c).child \in DOMAIN process /\ process[Top(c).child].of = <<c, m>>
      /\ (pc[c] = "start" => m < index[c])
      /\ (Top(c).handler => pid[c][m] # 0) /\ (~Top(c).handler => n = 1)
  BY <1>1, <1>2 DEF FrameInv
<1>8. /\ Listed(frames'[c]) /\ Len(frames'[c]) = n
      /\ \A i \in 1 .. n - 1 : frames'[c][i] = frames[c][i]
      /\ DOMAIN frames'[c][n] = FrameFields /\ frames'[c][n].at = "send"
      /\ frames'[c][n].module = m /\ frames'[c][n].handler = Top(c).handler
  BY <1>1, Advanced, SMTT(30)
<1>9. ModulesInv(c)'
  <2>1. /\ semKey'[c] \in [ModulesOf(c) -> Nat] /\ DOMAIN semId'[c] = ModulesOf(c)
        /\ pid'[c] \in [ModulesOf(c) -> Nat]
        /\ pid'[c][m] # 0 => pid'[c][m] \in DOMAIN process' /\ process'[pid'[c][m]].of = <<c, m>>
        /\ semId'[c][m] # None => OfModule(semId'[c][m], c, m)
    BY <1>1, <1>2, <1>5, SMTT(30) DEF ModulesInv
  <2> QED BY <1>2, <1>3, <1>4, <1>6, <1>7, <2>1, ModulesElse, SMTT(30)
<1>10. ASSUME NEW i \in 1 .. Len(frames'[c]) PROVE FrameInv(c, i)'
  <2>1. CASE i = n
    <3>1. frames'[c][i].at \notin Seeking
      BY <1>8, <2>1 DEF Seeking
    <3>2. pipe'[c][m] \in DOMAIN process' /\ process'[pipe'[c][m]].of = <<c, m>>
      BY <1>1, <1>6, <1>7
    <3>3. /\ Top(c).handler => i = Len(frames'[c]) /\ pid'[c][m] # 0
          /\ ~Top(c).handler => i = 1
          /\ pc'[c] = "start" => m < index'[c]
      BY <1>1, <1>7, <1>8, <2>1
    <3> QED BY <1>2, <1>8, <2>1, <3>1, <3>2, <3>3 DEF FrameInv, Held, OfModule, None, ModulesOf
  <2>2. CASE i # n
    <3>1. i \in 1 .. n - 1 /\ frames'[c][i] = frames[c][i]
      BY <1>2, <1>8, <2>2
    <3>2. \A q \in ModulesOf(c) :
            \/ pipe'[c][q] = pipe[c][q]
            \/ pipe'[c][q] \in DOMAIN process' /\ process'[pipe'[c][q]].of = <<c, q>>
      BY <1>1, <1>6, <1>7
    <3> QED BY <1>1, <1>3, <1>4, <3>1, <3>2, BelowKept
  <2> QED BY <2>1, <2>2
<1>11. CollectorInv(c)'
  BY <1>1, <1>2, <1>3, <1>5, <1>8, <1>9, <1>10, RunningInv
<1>12. pc'[c] \notin Early /\ pc[c] # "over"
  BY <1>1, <1>2 DEF Early
<1> QED BY <1>1, <1>3, <1>11, <1>12, QuietStep

\* Attempts of the search for a semaphore: a taken key, and a free one.
SearchResult(c, m, n) ==
  /\ Elsewhere(c, m)
  /\ semKey'[c] \in [ModulesOf(c) -> Nat] /\ DOMAIN semId'[c] = ModulesOf(c)
  /\ semId'[c][m] # None => OfModule(semId'[c][m], c, m)
  /\ \A k, id : Held(sem', k, id) =>
       Held(sem, k, id) \/ (OfModule(id, c, m) /\ id = semId'[c][m])
  /\ \A k, id : Held(sem, k, id) => Held(sem', k, id)
  /\ Listed(frames'[c]) /\ Len(frames'[c]) = n
  /\ \A i \in 1 .. n - 1 : frames'[c][i] = frames[c][i]
  /\ DOMAIN frames'[c][n] = FrameFields /\ frames'[c][n].module = m
  /\ frames'[c][n].handler = Top(c).handler /\ frames'[c][n].at \in Seeking
  /\ frames'[c][n].at = "key" => (\A k, id : Held(sem', k, id) => ~OfModule(id, c, m))
  /\ frames'[c][n].at = "fork" =>
       Held(sem', semKey'[c][m], semId'[c][m]) /\ OfModule(semId'[c][m], c, m)

LEMMA SearchFacts ==
  ASSUME IInv, NEW c \in Collectors, CreateSemaphore(c)
  PROVE  SearchResult(c, Top(c).module, Len(frames[c]))
<1> DEFINE n == Len(frames[c])
           m == Top(c).module
<1>1. frames[c] # <<>> /\ Top(c).at = "key" /\ process' = process /\ pid' = pid
  BY DEF CreateSemaphore, Working
<1>2. /\ n \in Nat \ {0} /\ Top(c) = frames[c][n] /\ FrameInv(c, n) /\ m \in ModulesOf(c)
      /\ pc[c] \in {"start", "run"} /\ Listed(frames[c]) /\ DOMAIN Top(c) = FrameFields
  BY <1>1, TopFacts
<1>3. ModulesInv(c) /\ Domains
  BY <1>2, MainFacts, SMTT(30) DEF CollectorInv
<1>4. \A k, id : Held(sem, k, id) => ~OfModule(id, c, m)
  BY <1>1, <1>2 DEF FrameInv
<1>5. \A d, q : NoneForkedOf(d, q)
  BY <1>1 DEF NoneForkedOf
<1>6. CASE Taken(sem, semKey[c][m])
  <2>1. /\ semKey' = [semKey EXCEPT ![c][m] = @ + 1]
        /\ sem' = sem /\ semId' = semId /\ frames' = frames
    BY <1>6 DEF CreateSemaphore
  <2>2. Elsewhere(c, m)
    BY <1>1, <1>5, <2>1 DEF Elsewhere, SameModule
  <2>3. /\ semKey'[c] \in [ModulesOf(c) -> Nat] /\ DOMAIN semId'[c] = ModulesOf(c)
        /\ semId'[c][m] # None => OfModule(semId'[c][m], c, m)
    BY <1>2, <1>3, <2>1 DEF ModulesInv, Domains
  <2>4. frames'[c][n].at = "key"
    BY <1>1, <1>2, <2>1
  <2>5. /\ Listed(frames'[c]) /\ Len(frames'[c]) = n
        /\ \A i \in 1 .. n - 1 : frames'[c][i] = frames[c][i]
        /\ DOMAIN frames'[c][n] = FrameFields /\ frames'[c][n].module = m
        /\ frames'[c][n].handler = Top(c).handler
    BY <1>2, <2>1
  <2>6. \A k, id : Held(sem', k, id) <=> Held(sem, k, id)
    BY <2>1
  <2> QED BY <1>4, <2>2, <2>3, <2>4, <2>5, <2>6 DEF SearchResult, Seeking
<1>7. CASE ~Taken(sem, semKey[c][m])
  <2> DEFINE id == <<c, m, Len(process) + 1>>
             key == semKey[c][m]
  <2>1. /\ sem' = Allocated(sem, key, id) /\ semId' = [semId EXCEPT ![c][m] = id]
        /\ Advance(c, "fork") /\ semKey' = semKey /\ key \notin DOMAIN sem
    BY <1>7 DEF CreateSemaphore, Taken
  <2>2. OfModule(id, c, m)
    BY DEF OfModule, None
  <2>3. semId'[c][m] = id /\ DOMAIN semId'[c] = ModulesOf(c) /\ semKey'[c][m] = key
        /\ \A d \in Collectors : \A q \in ModulesOf(d) :
             <<d, q>> # <<c, m>> => semId'[d][q] = semId[d][q]
    BY <1>2, <1>3, <2>1 DEF Domains, ModulesInv
  <2> HIDE DEF id, key
  <2>4. \A k, x : Held(sem', k, x) <=> Held(sem, k, x) \/ (k = key /\ x = id)
    <3> DEFINE t == Allocated(sem, key, id)
    <3>1. \A k, x : Held(t, k, x) <=> Held(sem, k, x) \/ (k = key /\ x = id)
      BY <2>1, AddHeld
    <3>2. sem' = t
      BY <2>1
    <3> HIDE DEF t
    <3> QED BY <3>1, <3>2
  <2>5. Elsewhere(c, m)
    <3>1. ASSUME NEW d \in Collectors, NEW q \in ModulesOf(d), <<d, q>> # <<c, m>>
          PROVE  SameModule(d, q)
      <4>1. ~OfModule(id, d, q)
        BY <2>2, <3>1 DEF OfModule
      <4> QED BY <1>1, <2>1, <2>3, <2>4, <3>1, <4>1 DEF SameModule
    <3> QED BY <1>5, <3>1 DEF Elsewhere
  <2>6. /\ Listed(frames'[c]) /\ Len(frames'[c]) = n
        /\ \A i \in 1 .. n - 1 : frames'[c][i] = frames[c][i]
        /\ DOMAIN frames'[c][n] = FrameFields /\ frames'[c][n].at = "fork"
        /\ frames'[c][n].module = m /\ frames'[c][n].handler = Top(c).handler
    BY <1>1, <2>1, Advanced
  <2>7. semKey'[c] \in [ModulesOf(c) -> Nat]
    BY <1>3, <2>1 DEF ModulesInv
  <2>8. Held(sem', semKey'[c][m], semId'[c][m]) /\ OfModule(semId'[c][m], c, m)
    BY <2>2, <2>3, <2>4
  <2>9. \A k, x : Held(sem', k, x) => Held(sem, k, x) \/ (OfModule(x, c, m) /\ x = semId'[c][m])
    BY <2>2, <2>3, <2>4
  <2>10. \A k, x : Held(sem, k, x) => Held(sem', k, x)
    BY <2>4
  <2> QED BY <2>3, <2>5, <2>6, <2>7, <2>8, <2>9, <2>10 DEF SearchResult, Seeking
<1> QED BY <1>6, <1>7

LEMMA CreateSemaphoreKeeps ==
  ASSUME IInv, NEW c \in Collectors, CreateSemaphore(c)
  PROVE  OwnPart(c)
<1> DEFINE n == Len(frames[c])
           m == Top(c).module
<1>1. /\ Collector(c) /\ frames[c] # <<>> /\ Top(c).at = "key" /\ process' = process /\ pid' = pid
      /\ shm' = shm /\ shmKey' = shmKey /\ storageKey' = storageKey /\ container' = container
      /\ orderly' = orderly /\ pc' = pc /\ index' = index /\ useFiles' = useFiles /\ pipe' = pipe
  BY DEF Collector, RunSteps, CreateSemaphore, Working, keys, config
<1>2. /\ n \in Nat \ {0} /\ Top(c) = frames[c][n] /\ FrameInv(c, n) /\ m \in ModulesOf(c)
      /\ pc[c] \in {"start", "run"}
  BY <1>1, TopFacts
<1>3. Running(c) /\ (\A d : SameMemory(d) /\ NoneForked(d)) /\ ProcessesGoOn
  BY <1>1, <1>2, MemorySame, ProcessesSame DEF Running
<1>4. ModulesInv(c) /\ Domains /\ container[c] \subseteq ModulesOf(c) /\ SemaphoreInv
      /\ Listed(process)
  BY <1>2, MainFacts DEF CollectorInv, IInv, Types
<1>5. SearchResult(c, m, n)
  BY SearchFacts
<1>6. /\ Elsewhere(c, m) /\ semKey'[c] \in [ModulesOf(c) -> Nat] /\ DOMAIN semId'[c] = ModulesOf(c)
      /\ semId'[c][m] # None => OfModule(semId'[c][m], c, m)
      /\ \A k, id : Held(sem', k, id) =>
           Held(sem, k, id) \/ (OfModule(id, c, m) /\ id = semId'[c][m])
      /\ \A k, id : Held(sem, k, id) => Held(sem', k, id)
      /\ Listed(frames'[c]) /\ Len(frames'[c]) = n
      /\ \A i \in 1 .. n - 1 : frames'[c][i] = frames[c][i]
  BY <1>5, SMTT(30) DEF SearchResult
<1>7. /\ \A p \in DOMAIN process : process[p].of = <<c, m>> => process[p].at \in Dead
      /\ \A k, id : Held(sem, k, id) => ~OfModule(id, c, m)
      /\ (pc[c] = "start" => m < index[c])
      /\ (Top(c).handler => pid[c][m] # 0) /\ (~Top(c).handler => n = 1 /\ pid[c][m] = 0)
  BY <1>1, <1>2, SMTT(30) DEF FrameInv, Seeking
<1>8. ModulesInv(c)'
  <2>1. /\ pid'[c] \in [ModulesOf(c) -> Nat] /\ DOMAIN pipe'[c] = ModulesOf(c)
        /\ pid'[c][m] # 0 => pid'[c][m] \in DOMAIN process' /\ process'[pid'[c][m]].of = <<c, m>>
    BY <1>1, <1>2, <1>4, SMTT(30) DEF ModulesInv
  <2> QED BY <1>2, <1>3, <1>6, <1>7, <2>1, ModulesElse
<1>9. ASSUME NEW i \in 1 .. Len(frames'[c]) PROVE FrameInv(c, i)'
  <2>1. CASE i = n
    <3>1. /\ DOMAIN frames'[c][n] = FrameFields /\ frames'[c][n].module = m
          /\ frames'[c][n].handler = Top(c).handler /\ frames'[c][n].at \in Seeking
          /\ frames'[c][n].at = "key" => (\A k, id : Held(sem', k, id) => ~OfModule(id, c, m))
          /\ frames'[c][n].at = "fork" =>
               Held(sem', semKey'[c][m], semId'[c][m]) /\ OfModule(semId'[c][m], c, m)
      BY <1>5 DEF SearchResult
    <3>2. frames'[c][n].at # "store" /\ frames'[c][n].at # "send"
      BY <3>1 DEF Seeking
    <3>3. /\ Top(c).handler => i = Len(frames'[c]) /\ pid'[c][m] # 0
          /\ ~Top(c).handler => i = 1 /\ pid'[c][m] = 0
          /\ pc'[c] = "start" => m < index'[c]
          /\ \A p \in DOMAIN process' : process'[p].of = <<c, m>> => process'[p].at \in Dead
      BY <1>1, <1>6, <1>7, <2>1
    <3> QED BY <1>2, <2>1, <3>1, <3>2, <3>3, ZenonT(40) DEF FrameInv, Held, OfModule, None, ModulesOf
  <2>2. CASE i # n
    <3>1. i \in 1 .. n - 1 /\ frames'[c][i] = frames[c][i]
      BY <1>2, <1>6, <2>2
    <3> QED BY <1>1, <1>3, <1>6, <3>1, BelowKept
  <2> QED BY <2>1, <2>2
<1>10. CollectorInv(c)'
  BY <1>1, <1>2, <1>3, <1>4, <1>6, <1>8, <1>9, RunningInv
<1>11. \A p \in DOMAIN process' : ProcessInv(p)'
  BY <1>1, <1>2, <1>3, <1>6, <1>7, ProcessElse
<1>12. \A d \in Collectors \ {c} : SameSemaphores(d) /\ SameMemory(d) /\ NoneForked(d)
  BY <1>3, <1>6 DEF SameSemaphores, OfModule
<1>13. SemaphoreInv'
  <2>1. SUFFICES ASSUME NEW k, NEW id, Held(sem', k, id)
                 PROVE  /\ id # None /\ id[1] \in Collectors /\ id[2] \in ModulesOf(id[1])
                        /\ pc'[id[1]] # "over" => id = semId'[id[1]][id[2]]
    BY DEF SemaphoreInv, Held, ModulesOf, None
  <2>2. CASE OfModule(id, c, m) /\ id = semId'[c][m]
    BY <1>2, <2>2 DEF OfModule
  <2>3. CASE Held(sem, k, id)
    <3>1. /\ id # None /\ id[1] \in Collectors /\ id[2] \in ModulesOf(id[1])
          /\ pc[id[1]] # "over" => id = semId[id[1]][id[2]]
      BY <1>4, <2>3 DEF SemaphoreInv
    <3>2. <<id[1], id[2]>> # <<c, m>>
      BY <1>7, <2>3, <3>1 DEF OfModule
    <3>3. semId'[id[1]][id[2]] = semId[id[1]][id[2]]
      BY <1>6, <3>1, <3>2 DEF Elsewhere, SameModule
    <3> QED BY <1>1, <3>1, <3>3
  <2> QED BY <1>6, <2>1, <2>2, <2>3
<1>14. Listed(process')
  BY <1>1, <1>4
<1> QED BY <1>3, <1>10, <1>11, <1>12, <1>13, <1>14 DEF OwnPart

LEMMA ForkKeeps ==
  ASSUME IInv, NEW c \in Collectors, Fork(c)
  PROVE  OwnPart(c)
<1> DEFINE n == Len(frames[c])
           m == Top(c).module
           below == IF Len(frames[c]) = 2 /\ frames[c][1].at = "store" THEN frames[c][1].child ELSE 0
           new == [Process(<<c, m>>, "forked") EXCEPT !.own = semId[c][m], !.inherits = below,
                     !.handlers = pc[c] = "run", !.nested = Top(c).handler]
           top == [frames[c][n] EXCEPT !.at = "store", !.child = Len(process) + 1]
<1>0. PICK p : p = Len(process) + 1
  OBVIOUS
<1>1. /\ Collector(c) /\ frames[c] # <<>> /\ Top(c).at = "fork" /\ sem' = sem
      /\ shm' = shm /\ shmKey' = shmKey /\ storageKey' = storageKey /\ container' = container
      /\ orderly' = orderly /\ pc' = pc /\ index' = index /\ useFiles' = useFiles /\ pipe' = pipe
      /\ semKey' = semKey /\ semId' = semId
  BY DEF Collector, RunSteps, Fork, Working, keys, config, host
<1>2. /\ n \in Nat \ {0} /\ Top(c) = frames[c][n] /\ FrameInv(c, n) /\ m \in ModulesOf(c)
      /\ pc[c] \in {"start", "run"} /\ DOMAIN Top(c) = FrameFields
  BY <1>1, TopFacts
<1>3. /\ process' = Append(process, new) /\ pid' = [pid EXCEPT ![c][m] = p]
      /\ frames' = [frames EXCEPT ![c][n] = top]
  BY <1>0 DEF Fork
<1>4. /\ DOMAIN new = ProcessFields /\ new.of = <<c, m>> /\ new.at = "forked"
      /\ new.own = semId[c][m] /\ new.told = None /\ new.deaf = FALSE
  BY DEF Process, ProcessFields
<1>5. /\ DOMAIN top = FrameFields /\ top.at = "store" /\ top.child = p /\ top.module = m
      /\ top.handler = Top(c).handler
  BY <1>0, <1>2 DEF FrameFields
<1> HIDE DEF new, top, below
<1>6. ModulesInv(c) /\ Domains /\ container[c] \subseteq ModulesOf(c) /\ SemaphoreInv
      /\ Listed(process)
  BY <1>2, MainFacts DEF CollectorInv, IInv, Types
<1>7. /\ Listed(process') /\ p \in Nat \ {0} /\ DOMAIN process' = DOMAIN process \cup {p}
      /\ p \notin DOMAIN process /\ process'[p] = new
      /\ \A q \in DOMAIN process : process'[q] = process[q]
  <2> DEFINE t == Append(process, new)
  <2>1. /\ Listed(t) /\ Len(t) = Len(process) + 1 /\ DOMAIN process = 1 .. Len(process)
        /\ t[Len(process) + 1] = new /\ \A q \in 1 .. Len(process) : t[q] = process[q]
    BY <1>6, AppendListed
  <2>2. process' = t
    BY <1>3
  <2> HIDE DEF t
  <2>3. Len(process) \in Nat /\ DOMAIN t = 1 .. Len(t)
    BY <1>6, <2>1 DEF Listed
  <2>4. DOMAIN t = DOMAIN process \cup {p} /\ p \notin DOMAIN process
    BY <1>0, <2>1, <2>3
  <2> QED BY <1>0, <2>1, <2>2, <2>3, <2>4
<1>8. /\ Listed(frames'[c]) /\ Len(frames'[c]) = n /\ frames'[c][n] = top
      /\ \A i \in 1 .. n - 1 : frames'[c][i] = frames[c][i]
  BY <1>1, <1>3, TopSet
<1>9. /\ \A q \in DOMAIN process : process[q].of = <<c, m>> => process[q].at \in Dead
      /\ Held(sem, semKey[c][m], semId[c][m]) /\ OfModule(semId[c][m], c, m)
      /\ (pc[c] = "start" => m < index[c]) /\ (~Top(c).handler => n = 1)
  BY <1>1, <1>2 DEF FrameInv, Seeking
<1>10. /\ pid'[c] \in [ModulesOf(c) -> Nat] /\ pid'[c][m] = p
       /\ \A d \in Collectors : \A q \in ModulesOf(d) : <<d, q>> # <<c, m>> => pid'[d][q] = pid[d][q]
  BY <1>2, <1>3, <1>6, <1>7 DEF Domains, ModulesInv
<1>11. ProcessesGoOn /\ \A d \in Collectors : d # c => NoneForked(d)
  BY <1>4, <1>7 DEF ProcessesGoOn, NoneForked
<1>12. Running(c) /\ \A d : SameMemory(d)
  BY <1>1, <1>2, MemorySame DEF Running
<1>13. Elsewhere(c, m)
  BY <1>1, <1>4, <1>7, <1>10, SMTT(30) DEF Elsewhere, SameModule, NoneForkedOf
<1>14. ModulesInv(c)'
  <2>1. /\ semKey'[c] \in [ModulesOf(c) -> Nat] /\ DOMAIN semId'[c] = ModulesOf(c)
        /\ DOMAIN pipe'[c] = ModulesOf(c)
        /\ (semId'[c][m] # None => OfModule(semId'[c][m], c, m))
    BY <1>1, <1>6, <1>9 DEF ModulesInv
  <2>2. pid'[c][m] \in DOMAIN process' /\ process'[pid'[c][m]].of = <<c, m>>
    BY <1>4, <1>7, <1>10
  <2> QED BY <1>2, <1>9, <1>10, <1>11, <1>12, <1>13, <2>1, <2>2, ModulesElse
<1>15. ASSUME NEW i \in 1 .. Len(frames'[c]) PROVE FrameInv(c, i)'
  <2>1. CASE i = n
    <3>1. frames'[c][i] = top /\ top.at \notin Seeking /\ top.at # "send"
      BY <1>5, <1>8, <2>1 DEF Seeking
    <3>2. top.child \in DOMAIN process' /\ process'[top.child].of = <<c, m>>
      BY <1>4, <1>5, <1>7
    <3>3. /\ top.handler => i = Len(frames'[c]) /\ pid'[c][m] # 0
          /\ ~top.handler => i = 1
          /\ pc'[c] = "start" => m < index'[c]
      BY <1>1, <1>5, <1>7, <1>8, <1>9, <1>10, <2>1
    <3> QED BY <1>2, <1>5, <3>1, <3>2, <3>3 DEF FrameInv, Held, OfModule, None, ModulesOf, Seeking
  <2>2. CASE i # n
    <3>1. i \in 1 .. n - 1 /\ frames'[c][i] = frames[c][i]
      BY <1>2, <1>8, <2>2
    <3> QED BY <1>1, <1>11, <1>13, <3>1, BelowKept
  <2> QED BY <2>1, <2>2
<1>16. CollectorInv(c)'
  BY <1>1, <1>2, <1>6, <1>8, <1>12, <1>14, <1>15, RunningInv
<1>17. ASSUME NEW q \in DOMAIN process' PROVE ProcessInv(q)'
  <2>1. CASE q \in DOMAIN process
    BY <1>2, <1>7, <1>9, <1>12, <1>13, <2>1, ProcessElse, SMTT(30)
  <2>2. CASE q = p
    <3>1. ~useFiles => Held(shm, storageKey[c], Storage(c))
      BY <1>2, MainFacts DEF CollectorInv
    <3>2. pc[c] \notin Early /\ new.at \notin Opened /\ new.at \in Opening /\ new.at \notin Dead
      BY <1>2, <1>4 DEF Early, Opened, Opening, Dead
    <3>3. /\ process'[q] = new /\ pid'[c][m] = q /\ semId'[c][m] = new.own
          /\ Held(sem', semKey'[c][m], new.own) /\ OfModule(new.own, c, m)
          /\ new.at # "sem" /\ new.at \notin {"storage", "attached"}
      BY <1>1, <1>4, <1>7, <1>9, <1>10, <2>2
    <3>4. ~useFiles' => Held(shm', storageKey'[c], Storage(c))
      BY <1>1, <3>1
    <3> QED
      BY <1>1, <1>2, <1>4, <3>2, <3>3, <3>4
         DEF ProcessInv, Held, OfModule, None, ModulesOf, Block, Storage
  <2> QED BY <1>7, <2>1, <2>2
<1>18. \A d \in Collectors \ {c} : SameSemaphores(d) /\ SameMemory(d) /\ NoneForked(d)
  BY <1>1, <1>11, <1>12 DEF SameSemaphores
<1>19. SemaphoreInv'
  <2>1. \A k, id : Held(sem', k, id) => Held(sem, k, id)
    BY <1>1
  <2> QED BY <1>1, <1>6, <2>1, SemaphoresKept
<1> QED BY <1>7, <1>11, <1>16, <1>17, <1>18, <1>19 DEF OwnPart

LEMMA SendInitDataKeeps ==
  ASSUME IInv, NEW c \in Collectors, SendInitData(c)
  PROVE  OwnPart(c)
<1> DEFINE n == Len(frames[c])
           m == Top(c).module
<1>0. PICK p : p = pipe[c][m]
  OBVIOUS
<1>1. /\ Collector(c) /\ frames[c] # <<>> /\ Top(c).at = "send" /\ sem' = sem
      /\ shm' = shm /\ storageKey' = storageKey /\ container' = container
      /\ orderly' = orderly /\ useFiles' = useFiles
  BY DEF Collector, RunSteps, SendInitData, Working, config, host
<1>2. /\ n \in Nat \ {0} /\ Top(c) = frames[c][n] /\ FrameInv(c, n) /\ m \in ModulesOf(c)
      /\ pc[c] \in {"start", "run"} /\ Listed(frames[c])
  BY <1>1, TopFacts, SMTT(30)
<1>3. p \in DOMAIN process /\ process[p].of = <<c, m>> /\ (pc[c] = "start" => m < index[c])
  BY <1>0, <1>1, <1>2 DEF FrameInv
<1>4. CASE ~Read(p)
  <2>1. Gone(c) /\ process' = process
    BY <1>0, <1>4 DEF SendInitData
  <2>2. ~orderly'[c]
    BY <1>1, <1>2, MainFacts
  <2> QED BY <1>1, <2>1, <2>2, DeathKeeps
<1>5. CASE Read(p)
  <2> DEFINE r == process[p]
             e == [r EXCEPT !.told = InitData(c, m)]
  <2>1. /\ process' = [process EXCEPT ![p] = e] /\ frames' = [frames EXCEPT ![c] = Front(@)]
        /\ pc' = pc /\ shmKey' = shmKey /\ index' = index
        /\ semKey' = semKey /\ semId' = semId /\ pid' = pid /\ pipe' = pipe
    BY <1>0, <1>5 DEF SendInitData, detectMod
  <2>2. ProcessInv(p) /\ DOMAIN r = ProcessFields
    BY <1>3 DEF IInv, ProcessInv
  <2>3. DOMAIN e = ProcessFields /\ e.told = InitData(c, m)
        /\ \A f \in ProcessFields \ {"told"} : e[f] = r[f]
    BY <2>2 DEF ProcessFields
  <2>4. /\ e.of = r.of /\ e.at = r.at /\ e.own = r.own /\ e.sem = r.sem /\ e.deaf = r.deaf
        /\ e.block = r.block /\ e.storage = r.storage
    BY <2>3 DEF ProcessFields
  <2>5. e.told # None /\ e.told[1] = semKey[c][m] /\ e.told[2] = shmKey[c]
    BY <2>3 DEF InitData, None
  <2> HIDE DEF e, r
  <2>6. /\ Listed(process') /\ DOMAIN process' = DOMAIN process
        /\ process'[p] = e /\ \A q \in DOMAIN process : q # p => process'[q] = process[q]
        /\ ProcessesGoOn /\ \A d : NoneForked(d)
    BY <1>3, <2>1, <2>4, ProcessSet DEF r, IInv
  <2>7. Running(c) /\ \A d : SameMemory(d)
    BY <1>1, <1>2, <2>1, MemorySame DEF Running
  <2>8. Elsewhere(c, m) /\ SameModule(c, m)
    BY <1>1, <2>1, <2>6 DEF Elsewhere, SameModule, NoneForkedOf
  <2>9. /\ Listed(frames'[c]) /\ Len(frames'[c]) = n - 1
        /\ \A i \in 1 .. n - 1 : frames'[c][i] = frames[c][i]
    <3> DEFINE t == Front(frames[c])
    <3>1. Listed(t) /\ Len(t) = n - 1 /\ \A i \in 1 .. n - 1 : t[i] = frames[c][i]
      BY <1>1, <1>2, FrontListed
    <3>2. frames'[c] = t
      BY <2>1, MainFacts DEF Domains
    <3> HIDE DEF t
    <3> QED BY <3>1, <3>2
  <2>10. ModulesInv(c) /\ container[c] \subseteq ModulesOf(c) /\ SemaphoreInv
    BY <1>2, MainFacts, SMTT(30) DEF CollectorInv, IInv
  <2>11. ModulesInv(c)'
    <3>1. /\ semKey'[c] \in [ModulesOf(c) -> Nat] /\ DOMAIN semId'[c] = ModulesOf(c)
          /\ DOMAIN pipe'[c] = ModulesOf(c) /\ pid'[c] \in [ModulesOf(c) -> Nat]
          /\ (semId'[c][m] # None => OfModule(semId'[c][m], c, m))
      BY <1>2, <2>1, <2>10 DEF ModulesInv
    <3>2. pid'[c][m] # 0 => pid'[c][m] \in DOMAIN process' /\ process'[pid'[c][m]].of = <<c, m>>
      <4>1. pid[c][m] # 0 => pid[c][m] \in DOMAIN process /\ process[pid[c][m]].of = <<c, m>>
        BY <1>2, <2>10 DEF ModulesInv
      <4> QED BY <2>1, <2>6, <4>1 DEF ProcessesGoOn
    <3> QED BY <1>2, <1>3, <2>6, <2>7, <2>8, <3>1, <3>2, ModulesElse
  <2>12. ASSUME NEW i \in 1 .. Len(frames'[c]) PROVE FrameInv(c, i)'
    <3>1. i \in 1 .. n - 1 /\ frames'[c][i] = frames[c][i]
      BY <2>9
    <3> QED BY <1>1, <2>1, <2>6, <2>8, <3>1, BelowKept
  <2>13. CollectorInv(c)'
    BY <1>1, <1>2, <2>1, <2>7, <2>9, <2>10, <2>11, <2>12, RunningInv
  <2>14. ASSUME NEW q \in DOMAIN process' PROVE ProcessInv(q)'
    <3>1. CASE q # p
      BY <1>2, <2>6, <2>7, <2>8, <3>1, ProcessElse
    <3>2. CASE q = p
      <4>0. r.of[1] = c /\ r.of[2] = m /\ process'[q] = e
        BY <1>3, <2>6, <3>2 DEF r
      <4>1. /\ r.of = <<c, m>> /\ m \in ModulesOf(c) /\ pc[c] \notin Early
            /\ r.at \in Opening \cup Opened \cup Dead
            /\ (r.at \notin Dead => OfModule(r.own, c, m))
            /\ (r.at \notin Dead => pid[c][m] = p /\ semId[c][m] = r.own)
            /\ (r.at \in Opening /\ ~r.deaf => Held(sem, semKey[c][m], r.own))
            /\ (r.at \in Opened => r.deaf \/ r.sem = r.own)
        BY <1>2, <2>2, <4>0 DEF ProcessInv, r
      <4>2. /\ r.at \in {"storage", "attached"} => (\A k : Held(shm, k, Block(c)) => r.block = Block(c))
            /\ ~useFiles => Held(shm, storageKey[c], Storage(c))
            /\ r.at = "attached" /\ ~useFiles =>
                 (\A k : Held(shm, k, Block(c)) => r.storage = Storage(c))
        BY <2>2, <4>0 DEF ProcessInv, r
      <4>3. \A k : Held(shm, k, Block(c)) => k = shmKey[c]
        BY <1>2, MainFacts
      <4>4. /\ e.at \notin Dead => pid'[c][m] = q /\ semId'[c][m] = e.own
            /\ e.at \in Opening /\ ~e.deaf =>
                 Held(sem', semKey'[c][m], e.own) /\ Held(sem', e.told[1], e.own)
            /\ \A k : Held(shm', k, Block(c)) => k = e.told[2]
            /\ pc'[c] \notin Early /\ c \in Collectors
        BY <1>1, <2>1, <2>4, <2>5, <3>2, <4>1, <4>3
      <4>5. /\ e.at \in {"storage", "attached"} => (\A k : Held(shm', k, Block(c)) => e.block = Block(c))
            /\ ~useFiles' => Held(shm', storageKey'[c], Storage(c))
            /\ e.at = "attached" /\ ~useFiles' =>
                 (\A k : Held(shm', k, Block(c)) => e.storage = Storage(c))
        BY <1>1, <2>4, <4>2
      <4>6. /\ DOMAIN e = ProcessFields /\ e.of = <<c, m>> /\ m \in ModulesOf(c)
            /\ e.at \in Opening \cup Opened \cup Dead
            /\ (e.at \notin Dead => OfModule(e.own, c, m))
            /\ (e.at \in Opened => e.deaf \/ e.sem = e.own)
            /\ e.told # None
        BY <2>3, <2>4, <2>5, <4>1
      <4> QED
        BY <4>0, <4>4, <4>5, <4>6 DEF ProcessInv, Held, OfModule, None, ModulesOf, Block, Storage
    <3> QED BY <3>1, <3>2
  <2>15. \A d \in Collectors \ {c} : SameSemaphores(d) /\ SameMemory(d) /\ NoneForked(d)
    BY <1>1, <2>6, <2>7 DEF SameSemaphores
  <2>16. SemaphoreInv'
    <3>1. \A k, id : Held(sem', k, id) => Held(sem, k, id)
      BY <1>1
    <3> QED BY <2>1, <2>10, <3>1, SemaphoresKept
  <2> QED BY <2>6, <2>13, <2>14, <2>15, <2>16 DEF OwnPart
<1> QED BY <1>4, <1>5

-----------------------------------------------------------------------------
(* Modules that are stopped or have ended. *)

\* When no module waits to be started.
LEMMA BusyModules ==
  ASSUME NEW c, ModulesInv(c), pc'[c] \notin Early \cup {"start"}, SameModules(c), ProcessesGoOn
  PROVE  ModulesInv(c)'
<1>1. /\ semKey'[c] = semKey[c] /\ semId'[c] = semId[c] /\ pid'[c] = pid[c] /\ pipe'[c] = pipe[c]
  BY DEF SameModules, SamePids
<1>2. ASSUME NEW m \in ModulesOf(c)
      PROVE  /\ pid'[c][m] # 0 => pid'[c][m] \in DOMAIN process' /\ process'[pid'[c][m]].of = <<c, m>>
             /\ semId'[c][m] # None => OfModule(semId'[c][m], c, m)
  BY <1>1 DEF ModulesInv, ProcessesGoOn
<1> QED
  BY <1>1, <1>2 DEF ModulesInv, Held, OfModule, None, ModulesOf

LEMMA SlowModuleKeeps ==
  ASSUME IInv, NEW c \in Collectors, SlowModule(c)
  PROVE  OwnPart(c)
<1>1. /\ Collector(c) /\ pc[c] = "run" /\ frames[c] = <<>> /\ shm' = shm /\ shmKey' = shmKey
      /\ storageKey' = storageKey /\ container' = container /\ orderly' = orderly /\ pc' = pc
      /\ index' = index /\ useFiles' = useFiles /\ frames' = frames
      /\ semKey' = semKey /\ semId' = semId /\ pid' = pid /\ pipe' = pipe
  BY DEF Collector, SlowModule, Main, keys, config, detectMod
<1>2. container[c] \subseteq ModulesOf(c) /\ ModulesInv(c) /\ SemaphoreInv
  BY <1>1, MainFacts DEF CollectorInv, IInv
<1>3. PICK m \in ModulesOf(c) : stopModule(c, m)
  BY <1>2 DEF SlowModule
<1>4. /\ Listed(process') /\ ProcessesGoOn /\ \A d : NoneForked(d)
      /\ \A p \in DOMAIN process' : ProcessInv(p)'
      /\ \A d \in Collectors : d # c => SameSemaphores(d)
      /\ \A k, id : Held(sem', k, id) => Held(sem, k, id) /\ ~OfModule(id, c, m)
  BY <1>1, <1>3, Stopped
<1>5. Running(c) /\ SameModules(c) /\ \A d : SameMemory(d)
  BY <1>1, MemorySame DEF Running, SameModules, SamePids
<1>6. ModulesInv(c)'
  <2>1. pc'[c] \notin Early \cup {"start"}
    BY <1>1 DEF Early
  <2> QED BY <1>2, <1>4, <1>5, <2>1, BusyModules
<1>7. Listed(frames'[c]) /\ 1 .. Len(frames'[c]) = {}
  BY <1>1, EmptyListed
<1>8. CollectorInv(c)'
  BY <1>1, <1>2, <1>5, <1>6, <1>7, RunningInv
<1>9. SemaphoreInv'
  BY <1>1, <1>2, <1>4, SemaphoresKept
<1> QED BY <1>4, <1>5, <1>8, <1>9 DEF OwnPart

\* killDetectionModules: the modules up to the index have no semaphore.
LEMMA KillInv ==
  ASSUME IInv, NEW c \in Collectors, pc[c] = "kill", Main(c, "kill"), frames' = frames,
         pc'[c] \in {"kill", "destroy"}, shm' = shm, shmKey' = shmKey, container' = container,
         SameModules(c), ProcessesGoOn,
         pc'[c] = "kill" =>
           (\A k, id : Held(sem', k, id) /\ id[1] = c /\ id[2] \in container[c] => id[2] >= index'[c]),
         orderly'[c] =>
           /\ pc'[c] = "destroy"
           /\ \A k, id : Held(sem', k, id) => ~(id[1] = c /\ id[2] \in container[c])
  PROVE  CollectorInv(c)'
<1>1. frames'[c] = <<>> /\ Listed(frames'[c]) /\ 1 .. Len(frames'[c]) = {}
  BY EmptyListed DEF Main
<1>2. \A i \in 1 .. Len(frames'[c]) : FrameInv(c, i)'
  BY <1>1
<1>3. ModulesInv(c)'
  <2>1. pc'[c] \notin Early \cup {"start"} /\ ModulesInv(c)
    BY MainFacts DEF Early, CollectorInv
  <2> QED BY <2>1, BusyModules
<1>4. \A k : Held(shm', k, Block(c)) => k = shmKey'[c]
  BY MainFacts
<1>5. container'[c] \subseteq ModulesOf(c) /\ pc'[c] \in Places
  BY MainFacts DEF Places
<1> QED
  BY <1>1, <1>2, <1>3, <1>4, <1>5
     DEF CollectorInv, Held, Block, Storage, ModulesOf, Listed, Places, Early

LEMMA KillModuleKeeps ==
  ASSUME IInv, NEW c \in Collectors, KillModule(c)
  PROVE  OwnPart(c)
<1>1. /\ Collector(c) /\ pc[c] = "kill" /\ Main(c, "kill") /\ frames' = frames /\ shm' = shm
      /\ shmKey' = shmKey /\ storageKey' = storageKey /\ container' = container
      /\ useFiles' = useFiles /\ semKey' = semKey /\ semId' = semId /\ pid' = pid /\ pipe' = pipe
  BY DEF Collector, KillModule, Main, keys, config, detectMod
<1>2. /\ container[c] \subseteq ModulesOf(c) /\ ModulesInv(c) /\ SemaphoreInv /\ Domains
      /\ index[c] \in Nat /\ ModuleCount[c] \in Nat /\ ~orderly[c] /\ Listed(process)
      /\ \A k, id : Held(sem, k, id) /\ id[1] = c /\ id[2] \in container[c] => id[2] >= index[c]
  BY <1>1, MainFacts DEF CollectorInv, IInv, Types
<1>3. SameModules(c) /\ \A d : SameMemory(d)
  BY <1>1, MemorySame DEF SameModules, SamePids
<1>4. CASE index[c] > ModuleCount[c]
  <2>1. /\ pc' = [pc EXCEPT ![c] = "destroy"] /\ orderly' = [orderly EXCEPT ![c] = TRUE]
        /\ sem' = sem /\ process' = process
    BY <1>4 DEF KillModule, Goes
  <2>2. pc'[c] = "destroy"
    BY <1>2, <2>1 DEF Domains
  <2>3. \A k, id : Held(sem', k, id) => ~(id[1] = c /\ id[2] \in container[c])
    BY <1>2, <1>4, <2>1 DEF ModulesOf
  <2>4. CollectorInv(c)'
    BY <1>1, <1>3, <2>1, <2>2, <2>3, KillInv, ProcessesSame
  <2>5. pc'[c] \notin Early /\ pc'[c] # "over" /\ pc[c] # "over"
    BY <1>1, <2>2 DEF Early
  <2> QED BY <1>1, <1>3, <2>1, <2>4, <2>5, SameForOwn, QuietStep
<1>5. CASE ~(index[c] > ModuleCount[c]) /\ index[c] \notin container[c]
  <2>1. /\ pc' = pc /\ orderly' = orderly /\ sem' = sem /\ process' = process
        /\ index' = [index EXCEPT ![c] = @ + 1]
    BY <1>5 DEF KillModule
  <2>2. index'[c] = index[c] + 1
    BY <1>2, <2>1 DEF Domains
  <2>3. \A k, id : Held(sem', k, id) /\ id[1] = c /\ id[2] \in container[c] => id[2] >= index'[c]
    BY <1>2, <1>5, <2>1, <2>2 DEF ModulesOf
  <2>4. CollectorInv(c)'
    BY <1>1, <1>2, <1>3, <2>1, <2>3, KillInv, ProcessesSame
  <2>5. pc'[c] \notin Early /\ pc'[c] # "over" /\ pc[c] # "over"
    BY <1>1, <2>1 DEF Early
  <2> QED BY <1>1, <1>3, <2>1, <2>4, <2>5, SameForOwn, QuietStep
<1>6. CASE ~(index[c] > ModuleCount[c]) /\ index[c] \in container[c]
  <2> DEFINE m == index[c]
  <2>1. /\ pc' = pc /\ orderly' = orderly /\ stopModule(c, m)
        /\ index' = [index EXCEPT ![c] = @ + 1]
    BY <1>6 DEF KillModule
  <2>2. index'[c] = m + 1 /\ m \in ModulesOf(c)
    BY <1>2, <1>6, <2>1 DEF Domains
  <2>3. /\ Listed(process') /\ ProcessesGoOn /\ \A d : NoneForked(d)
        /\ \A p \in DOMAIN process' : ProcessInv(p)'
        /\ \A d \in Collectors : d # c => SameSemaphores(d)
        /\ \A k, id : Held(sem', k, id) => Held(sem, k, id) /\ ~OfModule(id, c, m)
    BY <1>1, <2>1, <2>2, Stopped
  <2>4. \A k, id : Held(sem', k, id) /\ id[1] = c /\ id[2] \in container[c] => id[2] >= index'[c]
    <3>1. SUFFICES ASSUME NEW k, NEW id, Held(sem', k, id), id[1] = c, id[2] \in container[c]
                   PROVE  id[2] >= index'[c]
      OBVIOUS
    <3>2. Held(sem, k, id) /\ ~OfModule(id, c, m)
      BY <2>3, <3>1
    <3>3. id # None /\ id[2] \in ModulesOf(c) /\ id[2] >= m
      BY <1>2, <3>1, <3>2 DEF SemaphoreInv
    <3>4. id[2] # m
      BY <3>1, <3>2, <3>3 DEF OfModule
    <3> QED BY <1>2, <2>2, <3>3, <3>4 DEF ModulesOf
  <2>5. CollectorInv(c)'
    BY <1>1, <1>2, <1>3, <2>1, <2>3, <2>4, KillInv
  <2>6. SemaphoreInv'
    BY <1>1, <1>2, <2>1, <2>3, SemaphoresKept
  <2> QED BY <1>3, <2>3, <2>5, <2>6 DEF OwnPart
<1> QED BY <1>4, <1>5, <1>6

\* waitpid: one that had ended is over.
LEMMA ReapedFacts ==
  ASSUME IInv, NEW c \in Collectors, pc[c] \notin {"kill", "destroy", "over"}, NEW p \in Zombies(c),
         At(p, "reaped")
  PROVE  /\ p \in DOMAIN process /\ process[p].of[1] = c /\ process[p].at \in Dead /\ ProcessInv(p)
         /\ pc[c] \in {"start", "run"}
         /\ Listed(process') /\ DOMAIN process' = DOMAIN process /\ ProcessesGoOn
         /\ \A d : NoneForked(d)
         /\ \A q \in DOMAIN process : q # p => process'[q] = process[q]
         /\ DOMAIN process'[p] = ProcessFields /\ process'[p].of = process[p].of
         /\ process'[p].at \in Dead
<1> DEFINE r == process[p]
           e == [r EXCEPT !.at = "reaped"]
<1>1. p \in DOMAIN process /\ r.of[1] = c /\ r.at \in {"exited", "crashed"}
  BY DEF Zombies
<1>2. ProcessInv(p) /\ Types
  BY <1>1 DEF IInv
<1>3. pc[c] \in {"start", "run"}
  <2>1. pc[c] \notin Early
    BY <1>1, <1>2 DEF ProcessInv
  <2> QED BY <2>1, MainFacts DEF CollectorInv, Places
<1>4. DOMAIN r = ProcessFields
  BY <1>2 DEF ProcessInv
<1>5. DOMAIN e = ProcessFields /\ e.of = r.of /\ e.at \in Dead
  BY <1>4 DEF ProcessFields, Dead
<1>6. process' = [process EXCEPT ![p] = e]
  BY DEF At
<1> HIDE DEF e
<1>7. /\ Listed(process') /\ DOMAIN process' = DOMAIN process /\ process'[p] = e
      /\ \A q \in DOMAIN process : q # p => process'[q] = process[q]
      /\ ProcessesGoOn /\ \A d : NoneForked(d)
  BY <1>1, <1>2, <1>5, <1>6, ProcessSet
<1> QED BY <1>1, <1>2, <1>3, <1>5, <1>7 DEF Dead

LEMMA ReapedInv ==
  ASSUME IInv, NEW c \in Collectors, NEW p \in DOMAIN process, ProcessInv(p), process[p].of[1] = c,
         DOMAIN process'[p] = ProcessFields, process'[p].of = process[p].of, process'[p].at \in Dead,
         Running(c)
  PROVE  ProcessInv(p)'
<1>1. PICK e : e = process'[p]
  OBVIOUS
<1>2. e.of[1] = c /\ useFiles' = useFiles /\ pc'[c] \notin Early /\ storageKey'[c] = storageKey[c]
      /\ \A k : Held(shm, k, Storage(c)) => Held(shm', k, Storage(c))
  BY <1>1, MemorySame DEF Running, Early, SameMemory
<1> QED BY <1>1, <1>2, DeadInv

\* Nothing is to be restarted.
LEMMA ReapKeeps ==
  ASSUME IInv, NEW c \in Collectors, Running(c), NEW p \in Zombies(c), At(p, "reaped"),
         SameModules(c), sem' = sem, frames' = frames, container'[c] \subseteq container[c]
  PROVE  OwnPart(c)
<1>1. /\ p \in DOMAIN process /\ process[p].of[1] = c /\ process[p].at \in Dead /\ ProcessInv(p)
      /\ Listed(process') /\ DOMAIN process' = DOMAIN process /\ ProcessesGoOn
      /\ \A d : NoneForked(d)
      /\ \A q \in DOMAIN process : q # p => process'[q] = process[q]
      /\ DOMAIN process'[p] = ProcessFields /\ process'[p].of = process[p].of
      /\ process'[p].at \in Dead
  <2>1. pc[c] \notin {"kill", "destroy", "over"}
    BY DEF Running
  <2> QED BY <2>1, ReapedFacts
<1>2. /\ Collector(c) /\ pc[c] \in {"start", "run"} /\ pc' = pc /\ index' = index /\ shm' = shm
      /\ useFiles' = useFiles /\ shmKey' = shmKey /\ storageKey' = storageKey /\ orderly' = orderly
  BY DEF Running
<1>3. /\ \A d : SameSemaphores(d) /\ SameMemory(d)
      /\ SamePids(c) /\ pipe'[c] = pipe[c]
  BY <1>2, MemorySame DEF SameSemaphores, SameModules
<1>4. /\ index[c] \in Nat /\ ModuleCount[c] \in Nat /\ Listed(frames[c]) /\ ModulesInv(c)
      /\ container[c] \subseteq ModulesOf(c) /\ \A i \in 1 .. Len(frames[c]) : FrameInv(c, i)
  BY <1>2, MainFacts DEF CollectorInv
<1>5. ModulesInv(c)'
  <2>1. /\ pc'[c] \in Early \cup {"start"} => pc[c] \in Early \cup {"start"} /\ index'[c] >= index[c]
        /\ index'[c] \in Nat
    BY <1>2, <1>4
  <2> QED BY <1>1, <1>3, <1>4, <2>1, ModulesKept
<1>6. ASSUME NEW i \in 1 .. Len(frames'[c]) PROVE FrameInv(c, i)'
  BY <1>1, <1>2, <1>3, <1>4, FramesKept
<1>7. CollectorInv(c)'
  BY <1>2, <1>3, <1>4, <1>5, <1>6, RunningInv
<1>8. ASSUME NEW q \in DOMAIN process' PROVE ProcessInv(q)'
  <2>1. CASE q = p
    BY <1>1, <2>1, ReapedInv
  <2>2. CASE q # p
    <3>1. PICK m : m = process[p].of[2]
      OBVIOUS
    <3>2. m \in ModulesOf(c)
      BY <1>1, <3>1 DEF ProcessInv
    <3>3. Elsewhere(c, m) /\ SameModule(c, m)
      <4>1. \A d, n : NoneForkedOf(d, n)
        BY <1>1 DEF NoneForkedOf
      <4>2. \A d \in Collectors : semKey'[d] = semKey[d] /\ semId'[d] = semId[d] /\ pid'[d] = pid[d]
        <5>1. \A d \in Collectors \ {c} : SameCollector(d)
          BY <1>2, OnlyItsOwn DEF IInv, Types
        <5> QED BY <1>3, <5>1 DEF SameCollector, SameModules, SamePids
      <4> QED BY <4>1, <4>2 DEF Elsewhere, SameModule
    <3> QED BY <1>1, <2>2, <3>2, <3>3, ProcessElse
  <2> QED BY <2>1, <2>2
<1>9. SemaphoreInv'
  <2>1. \A d \in Collectors : pc'[d] # "over" => pc[d] # "over" /\ semId'[d] = semId[d]
    <3>1. \A d \in Collectors \ {c} : SameCollector(d)
      BY <1>2, OnlyItsOwn DEF IInv, Types
    <3> QED BY <1>2, <1>3, <3>1 DEF SameCollector, SameModules, SamePids
  <2>2. SemaphoreInv /\ \A k, id : Held(sem', k, id) => Held(sem, k, id)
    BY DEF IInv
  <2> QED BY <2>1, <2>2, SemaphoresKept
<1> QED BY <1>1, <1>3, <1>7, <1>8, <1>9 DEF OwnPart

\* restartCrashed, up to run().
LEMMA RestartKeeps ==
  ASSUME IInv, NEW c \in Collectors, Running(c), NEW p \in Zombies(c), At(p, "reaped"),
         semKey' = semKey, semId' = semId, pid' = pid, pipe' = pipe, container' = container,
         \A i \in DOMAIN frames[c] : ~frames[c][i].handler,
         NEW m \in container[c], pid[c][m] = p, semaphoreRemoved(c, m),
         frames' = [frames EXCEPT ![c] = Append(@, Frame(m, TRUE))]
  PROVE  OwnPart(c)
<1> DEFINE n == Len(frames[c])
           f == Frame(m, TRUE)
<1>1. /\ p \in DOMAIN process /\ process[p].of[1] = c /\ process[p].at \in Dead /\ ProcessInv(p)
      /\ Listed(process') /\ DOMAIN process' = DOMAIN process /\ ProcessesGoOn
      /\ \A d : NoneForked(d)
      /\ \A q \in DOMAIN process : q # p => process'[q] = process[q]
      /\ DOMAIN process'[p] = ProcessFields /\ process'[p].of = process[p].of
      /\ process'[p].at \in Dead
  <2>1. pc[c] \notin {"kill", "destroy", "over"}
    BY DEF Running
  <2> QED BY <2>1, ReapedFacts
<1>2. /\ Collector(c) /\ pc[c] \in {"start", "run"} /\ pc' = pc /\ index' = index /\ shm' = shm
      /\ useFiles' = useFiles /\ shmKey' = shmKey /\ storageKey' = storageKey /\ orderly' = orderly
  BY DEF Running
<1>3. /\ index[c] \in Nat /\ ModuleCount[c] \in Nat /\ Listed(frames[c]) /\ ModulesInv(c)
      /\ container[c] \subseteq ModulesOf(c) /\ \A i \in 1 .. Len(frames[c]) : FrameInv(c, i)
      /\ SemaphoreInv /\ Domains /\ Listed(process)
  BY <1>2, MainFacts DEF CollectorInv, IInv, Types
<1>4. m \in ModulesOf(c) /\ p # 0 /\ (semId[c][m] # None => OfModule(semId[c][m], c, m))
      /\ (pc[c] = "start" => m < index[c])
  <2>1. p # 0
    BY <1>1, <1>3 DEF Listed
  <2>2. m \in ModulesOf(c)
    BY <1>3
  <2>3. semId[c][m] # None => OfModule(semId[c][m], c, m)
    BY <1>3, <2>2 DEF ModulesInv
  <2>4. pc[c] = "start" => ~(m >= index[c])
    BY <1>3, <2>1, <2>2 DEF ModulesInv
  <2> QED BY <1>3, <2>1, <2>2, <2>3, <2>4 DEF ModulesOf
<1>5. \A k, x : Held(sem', k, x) <=> Held(sem, k, x) /\ x # semId[c][m]
  <2> DEFINE t == Without(sem, semId[c][m])
  <2>1. \A k, x : Held(t, k, x) <=> Held(sem, k, x) /\ x # semId[c][m]
    BY RemoveHeld
  <2>2. sem' = t
    BY DEF semaphoreRemoved
  <2> HIDE DEF t
  <2> QED BY <2>1, <2>2
<1>6. Elsewhere(c, m)
  <2>1. ASSUME NEW d \in Collectors, NEW q \in ModulesOf(d), <<d, q>> # <<c, m>>
        PROVE  SameModule(d, q)
    <3>1. \A x : OfModule(x, d, q) => x # semId[c][m]
      BY <1>4, <2>1 DEF OfModule
    <3> QED BY <1>5, <3>1 DEF SameModule
  <2>2. \A d, q : NoneForkedOf(d, q)
    BY <1>1 DEF NoneForkedOf
  <2> QED BY <2>1, <2>2 DEF Elsewhere
<1>7. \A k, x : Held(sem', k, x) => ~OfModule(x, c, m)
  BY <1>2, <1>3, <1>5 DEF SemaphoreInv, OfModule
<1>8. \A q \in DOMAIN process : process[q].of = <<c, m>> => process[q].at \in Dead
  <2>1. SUFFICES ASSUME NEW q \in DOMAIN process, process[q].of = <<c, m>>, process[q].at \notin Dead
                 PROVE  FALSE
    OBVIOUS
  <2>2. ProcessInv(q)
    BY <2>1 DEF IInv
  <2>3. pid[c][m] = q
    BY <1>2, <2>1, <2>2 DEF ProcessInv
  <2> QED BY <1>1, <2>1, <2>3
<1>9. ModulesInv(c)'
  <2>1. /\ semKey'[c] \in [ModulesOf(c) -> Nat] /\ DOMAIN semId'[c] = ModulesOf(c)
        /\ DOMAIN pipe'[c] = ModulesOf(c) /\ pid'[c] \in [ModulesOf(c) -> Nat]
        /\ (semId'[c][m] # None => OfModule(semId'[c][m], c, m))
    BY <1>3, <1>4 DEF ModulesInv
  <2>2. pid'[c][m] # 0 => pid'[c][m] \in DOMAIN process' /\ process'[pid'[c][m]].of = <<c, m>>
    <3>1. pid[c][m] # 0 => pid[c][m] \in DOMAIN process /\ process[pid[c][m]].of = <<c, m>>
      BY <1>3, <1>4 DEF ModulesInv
    <3> QED BY <1>1, <3>1 DEF ProcessesGoOn
  <2> QED BY <1>1, <1>4, <1>6, <2>1, <2>2, ModulesElse
<1>10. /\ Listed(frames'[c]) /\ Len(frames'[c]) = n + 1 /\ n \in Nat /\ DOMAIN frames[c] = 1 .. n
       /\ frames'[c][n + 1] = f /\ \A i \in 1 .. n : frames'[c][i] = frames[c][i]
  <2> DEFINE t == Append(frames[c], f)
  <2> HIDE DEF f
  <2>1. /\ Listed(t) /\ Len(t) = n + 1 /\ DOMAIN frames[c] = 1 .. n
        /\ t[n + 1] = f /\ \A i \in 1 .. n : t[i] = frames[c][i]
    BY <1>3, AppendListed
  <2>2. frames'[c] = t
    BY <1>3 DEF Domains, f
  <2>3. n \in Nat
    BY <1>3 DEF Listed
  <2> HIDE DEF t
  <2> QED BY <2>1, <2>2, <2>3
<1>11. ASSUME NEW i \in 1 .. Len(frames'[c]) PROVE FrameInv(c, i)'
  <2>1. CASE i = n + 1
    <3>1. DOMAIN f = FrameFields /\ f.module = m /\ f.at = "key" /\ f.handler = TRUE
      BY DEF Frame, FrameFields
    <3> HIDE DEF f
    <3>2. frames'[c][i] = f /\ i = Len(frames'[c]) /\ pid'[c][m] # 0
          /\ (pc'[c] = "start" => m < index'[c])
      BY <1>2, <1>4, <1>10, <2>1
    <3>3. \A q \in DOMAIN process' : process'[q].of = <<c, m>> => process'[q].at \in Dead
      <4>1. SUFFICES ASSUME NEW q \in DOMAIN process', process'[q].of = <<c, m>>
                     PROVE  process'[q].at \in Dead
        OBVIOUS
      <4>2. q \in DOMAIN process /\ process[q].of = <<c, m>>
        BY <1>1, <4>1 DEF ProcessesGoOn
      <4> QED BY <1>1, <1>8, <4>2 DEF ProcessesGoOn
    <3> QED BY <1>4, <1>7, <3>1, <3>2, <3>3 DEF FrameInv, Held, OfModule, None, ModulesOf
  <2>2. CASE i # n + 1
    <3>0. i \in 1 .. n
      BY <1>10, <2>2
    <3>4. \A j \in 1 .. n : ~frames[c][j].handler
      BY <1>10
    <3>1. frames'[c][i] = frames[c][i] /\ ~frames[c][i].handler
      BY <1>10, <3>0, <3>4
    <3>2. \A q \in ModulesOf(c) : pid[c][q] = 0 => SameModule(c, q) /\ NoneForkedOf(c, q)
      BY <1>4, <1>6 DEF Elsewhere
    <3>3. \A q \in ModulesOf(c) : pipe'[c][q] = pipe[c][q]
      OBVIOUS
    <3> QED BY <1>1, <1>2, <3>0, <3>1, <3>2, <3>3, LowerKept
  <2> QED BY <2>1, <2>2
<1>12. SameMemory(c) /\ container'[c] \subseteq ModulesOf(c)
  BY <1>2, <1>3, MemorySame
<1>13. CollectorInv(c)'
  BY <1>2, <1>9, <1>10, <1>11, <1>12, RunningInv
<1>14. ASSUME NEW q \in DOMAIN process' PROVE ProcessInv(q)'
  <2>1. CASE q = p
    BY <1>1, <2>1, ReapedInv
  <2>2. CASE q # p
    BY <1>1, <1>4, <1>6, <1>8, <2>2, ProcessElse
  <2> QED BY <2>1, <2>2
<1>15. \A d \in Collectors \ {c} : SameSemaphores(d) /\ SameMemory(d) /\ NoneForked(d)
  <2>1. ASSUME NEW d \in Collectors, d # c PROVE SameSemaphores(d)
    BY <1>3, <1>4, <1>5, <2>1 DEF SameSemaphores, SemaphoreInv, OfModule
  <2> QED BY <1>1, <1>2, <2>1, MemorySame
<1>16. SemaphoreInv'
  <2>1. \A k, x : Held(sem', k, x) => Held(sem, k, x)
    BY <1>5
  <2> QED BY <1>2, <1>3, <2>1, SemaphoresKept
<1> QED BY <1>1, <1>13, <1>14, <1>15, <1>16 DEF OwnPart

LEMMA SigChildKeeps ==
  ASSUME IInv, NEW c \in Collectors, SigChild(c)
  PROVE  OwnPart(c)
<1>1. /\ Collector(c) /\ pc[c] # "over" /\ shm' = shm /\ shmKey' = shmKey /\ storageKey' = storageKey
      /\ orderly' = orderly /\ pc' = pc /\ index' = index /\ useFiles' = useFiles
      /\ semKey' = semKey /\ semId' = semId /\ pid' = pid /\ pipe' = pipe
      /\ \A i \in DOMAIN frames[c] : ~frames[c][i].handler
  BY DEF Collector, SigChild, keys, config, detectMod
<1>2. SameModules(c) /\ \A d : SameMemory(d)
  BY <1>1, MemorySame DEF SameModules, SamePids
<1>3. CASE pc[c] \in {"kill", "destroy"} \/ Zombies(c) = {}
  <2>1. sem' = sem /\ frames' = frames /\ container' = container /\ process' = process
    BY <1>3 DEF SigChild
  <2>2. SameCollector(c) /\ SameSemaphores(c) /\ ProcessesGoOn /\ NoneForked(c)
    BY <1>1, <1>2, <2>1, ProcessesSame DEF SameCollector, SameSemaphores
  <2>3. CollectorInv(c)'
    BY <1>1, <1>2, <2>2, MainFacts, CollectorKept
  <2> QED BY <1>1, <1>2, <2>1, <2>3, SameForOwn, QuietStep
<1>4. CASE ~(pc[c] \in {"kill", "destroy"} \/ Zombies(c) = {})
  <2>1. PICK p \in Zombies(c) :
          /\ At(p, "reaped")
          /\ IF process[p].at = "crashed" /\ restartOnCrash
               THEN IF {m \in container[c] : pid[c][m] = p} = {} THEN UNCHANGED <<sem, frames, container>>
                    ELSE \E m \in {q \in container[c] : pid[c][q] = p} :
                      /\ semaphoreRemoved(c, m)
                      /\ frames' = [frames EXCEPT ![c] = Append(@, Frame(m, TRUE))]
                      /\ UNCHANGED container
               ELSE /\ container' = [container EXCEPT ![c] = @ \ {m \in container[c] : pid[c][m] = p}]
                    /\ UNCHANGED <<sem, frames>>
    BY <1>4 DEF SigChild
  <2>2. pc[c] \in {"start", "run"}
    BY <1>1, <1>4, <2>1, ReapedFacts
  <2>3. Running(c)
    BY <1>1, <2>2 DEF Running
  <2>4. CASE process[p].at = "crashed" /\ restartOnCrash /\ {m \in container[c] : pid[c][m] = p} # {}
    <3>1. PICK m \in {q \in container[c] : pid[c][q] = p} :
            /\ semaphoreRemoved(c, m)
            /\ frames' = [frames EXCEPT ![c] = Append(@, Frame(m, TRUE))]
            /\ UNCHANGED container
      BY <2>1, <2>4
    <3>2. m \in container[c] /\ pid[c][m] = p
      OBVIOUS
    <3> QED BY <1>1, <2>1, <2>3, <3>1, <3>2, RestartKeeps
  <2>5. CASE ~(process[p].at = "crashed" /\ restartOnCrash /\ {m \in container[c] : pid[c][m] = p} # {})
    <3>1. sem' = sem /\ frames' = frames
      BY <2>1, <2>5
    <3>2. container'[c] \subseteq container[c]
      BY <2>1, <2>5, MainFacts, ZenonT(40) DEF Domains
    <3> QED BY <1>2, <2>1, <2>3, <3>1, <3>2, ReapKeeps
  <2> QED BY <2>4, <2>5
<1> QED BY <1>3, <1>4

LEMMA CollectorStepKeeps ==
  ASSUME IInv, NEW c \in Collectors, Collector(c)
  PROVE  IInv'
<1>1. OwnPart(c)
  <2>1. CASE CreateShared(c) BY <2>1, CreateSharedKeeps
  <2>2. CASE ReadConfig(c) BY <2>2, ReadConfigKeeps
  <2>3. CASE CreateStorage(c) BY <2>3, CreateStorageKeeps
  <2>4. CASE StartModule(c) BY <2>4, StartModuleKeeps
  <2>5. CASE Run(c) BY <2>5, RunKeeps
  <2>6. CASE SlowModule(c) BY <2>6, SlowModuleKeeps
  <2>7. CASE KillModule(c) BY <2>7, KillModuleKeeps
  <2>8. CASE Destroy(c) BY <2>8, DestroyKeeps
  <2>9. CASE CreateSemaphore(c) BY <2>9, CreateSemaphoreKeeps
  <2>10. CASE Fork(c) BY <2>10, ForkKeeps
  <2>11. CASE RunFails(c) BY <2>11, RunFailsKeeps
  <2>12. CASE StorePipe(c) BY <2>12, StorePipeKeeps
  <2>13. CASE SendInitData(c) BY <2>13, SendInitDataKeeps
  <2>14. CASE SigChild(c) BY <2>14, SigChildKeeps
  <2>15. CASE CollectorDies(c) BY <2>15, CollectorDiesKeeps
  <2> QED
    BY <2>1, <2>2, <2>3, <2>4, <2>5, <2>6, <2>7, <2>8, <2>9, <2>10, <2>11, <2>12, <2>13, <2>14, <2>15
       DEF Collector, RunSteps
<1> QED BY <1>1, OthersKept

-----------------------------------------------------------------------------
(* A module's process. *)

ProcessStep ==
  /\ UNCHANGED <<sem, keys, pc, frames, index, container, detectMod, config, orderly>>
  /\ \A d : SameMemory(d)

\* One process goes on and the collectors do nothing.
LEMMA OneProcess ==
  ASSUME IInv, ProcessStep, NEW p \in DOMAIN process, NEW e, process' = [process EXCEPT ![p] = e],
         e.of = process[p].of, process[p].at \in Dead => e.at \in Dead,
         process'[p] = e => ProcessInv(p)'
  PROVE  IInv'
<1>1. /\ Listed(process') /\ DOMAIN process' = DOMAIN process /\ process'[p] = e
      /\ \A q \in DOMAIN process : q # p => process'[q] = process[q]
      /\ ProcessesGoOn /\ \A d : NoneForked(d)
  BY ProcessSet DEF IInv
<1>2. /\ sem' = sem /\ shmKey' = shmKey /\ storageKey' = storageKey /\ pc' = pc /\ frames' = frames
      /\ index' = index /\ container' = container /\ semKey' = semKey /\ semId' = semId
      /\ pid' = pid /\ pipe' = pipe /\ useFiles' = useFiles /\ orderly' = orderly
      /\ \A d : SameMemory(d)
  BY DEF ProcessStep, keys, detectMod, config
<1>3. \A d : SameSemaphores(d) /\ SameCollector(d)
  BY <1>2 DEF SameSemaphores, SameCollector, SameModules, SamePids
<1>4. ASSUME NEW d \in Collectors PROVE CollectorInv(d)'
  BY <1>1, <1>2, <1>3, MainFacts, CollectorKept
<1>5. ASSUME NEW q \in DOMAIN process' PROVE ProcessInv(q)'
  <2>1. CASE q = p
    BY <1>1, <2>1
  <2>2. CASE q # p
    <3>1. PICK c, m : c = process[q].of[1] /\ m = process[q].of[2]
      OBVIOUS
    <3>2. /\ ProcessInv(q) /\ process[q].of = <<c, m>> /\ process'[q] = process[q]
          /\ pc'[c] \notin Early
      BY <1>1, <1>2, <2>2, <3>1 DEF IInv, ProcessInv
    <3>3. /\ \A k : Held(shm', k, Block(c)) => Held(shm, k, Block(c))
          /\ \A k : Held(shm, k, Storage(c)) => Held(shm', k, Storage(c))
          /\ storageKey'[c] = storageKey[c]
      BY <1>2 DEF SameMemory
    <3>4. \/ process[q].at \in Dead \/ pc'[c] = "over"
          \/ /\ pc[c] # "over" /\ pid'[c][m] = pid[c][m] /\ semId'[c][m] = semId[c][m]
             /\ semKey'[c][m] = semKey[c][m]
      BY <1>2
    <3>5. process[q].at \in Opening /\ ~process[q].deaf =>
            (\A k : Held(sem, k, process[q].own) => Held(sem', k, process[q].own))
      BY <1>2
    <3>6. useFiles' = useFiles
      BY <1>2
    <3> QED BY <3>2, <3>3, <3>4, <3>5, <3>6, ProcessKept
  <2> QED BY <2>1, <2>2
<1>6. SemaphoreInv'
  <2>1. SemaphoreInv /\ \A k, id : Held(sem', k, id) => Held(sem, k, id)
    BY <1>2 DEF IInv
  <2> QED BY <1>2, <2>1, SemaphoresKept
<1>7. Types'
  <2>1. Domains
    BY DEF IInv, Types
  <2> QED BY <1>1, <1>2, <2>1 DEF Types, Domains, CountAssumption, Listed
<1> QED BY <1>4, <1>5, <1>6, <1>7 DEF IInv

LEMMA EndKeeps ==
  ASSUME IInv, ProcessStep, NEW p \in DOMAIN process, NEW how \in {"exited", "crashed"}, Dies(p, how)
  PROVE  IInv'
<1>0. PICK e : e = DeadOf(process[p].of, how)
  OBVIOUS
<1>1. /\ process' = [process EXCEPT ![p] = e] /\ DOMAIN e = ProcessFields
      /\ e.of = process[p].of /\ e.at \in Dead
  BY <1>0, DiesSets, DeadFields
<1>2. ProcessInv(p)
  BY DEF IInv
<1>3. /\ useFiles' = useFiles /\ pc'[e.of[1]] \notin Early /\ storageKey'[e.of[1]] = storageKey[e.of[1]]
      /\ \A k : Held(shm, k, Storage(e.of[1])) => Held(shm', k, Storage(e.of[1]))
  BY <1>1, <1>2 DEF ProcessStep, ProcessInv, config, keys, SameMemory
<1>4. process'[p] = e => ProcessInv(p)'
  BY <1>1, <1>2, <1>3, DeadInv
<1> QED BY <1>1, <1>4, OneProcess

\* What is known of a module's process that has not ended.
LEMMA LiveFacts ==
  ASSUME IInv, NEW p \in DOMAIN process, process[p].at \notin Dead
  PROVE  \E c, m :
           /\ c \in Collectors /\ m \in ModulesOf(c)
           /\ process[p].of = <<c, m>> /\ Child(p) = c /\ DOMAIN process[p] = ProcessFields
           /\ pc[c] \notin Early /\ OfModule(process[p].own, c, m)
           /\ (pc[c] # "over" => pid[c][m] = p /\ semId[c][m] = process[p].own)
           /\ (process[p].at \in Opening /\ ~process[p].deaf =>
                 /\ (pc[c] # "over" => Held(sem, semKey[c][m], process[p].own))
                 /\ (process[p].told # None => Held(sem, process[p].told[1], process[p].own)))
           /\ (process[p].at \in Opened => process[p].deaf \/ process[p].sem = process[p].own)
           /\ (process[p].at = "sem" => process[p].told # None)
           /\ (process[p].told # None =>
                 (\A k : Held(shm, k, Block(c)) => k = process[p].told[2]))
           /\ (process[p].at \in {"storage", "attached"} =>
                 (\A k : Held(shm, k, Block(c)) => process[p].block = Block(c)))
           /\ (~useFiles => Held(shm, storageKey[c], Storage(c)))
           /\ (process[p].at = "attached" /\ ~useFiles =>
                 (\A k : Held(shm, k, Block(c)) => process[p].storage = Storage(c)))
<1>1. ProcessInv(p)
  BY DEF IInv
<1>2. PICK c, m : c = process[p].of[1] /\ m = process[p].of[2]
  OBVIOUS
<1>3. c \in Collectors /\ m \in ModulesOf(c)
  BY <1>1, <1>2 DEF ProcessInv
<1> QED BY <1>1, <1>2, <1>3 DEF ProcessInv, Child

\* A process that is alive after its step.
LEMMA LiveStep ==
  ASSUME IInv, ProcessStep, NEW p \in DOMAIN process, NEW c \in Collectors, NEW m \in ModulesOf(c),
         NEW e, process' = [process EXCEPT ![p] = e], process[p].of = <<c, m>>, pc[c] \notin Early,
         process[p].at \notin Dead,
         DOMAIN e = ProcessFields, e.of = process[p].of, e.own = process[p].own,
         e.told = process[p].told, e.deaf = process[p].deaf,
         OfModule(e.own, c, m), e.at \in {"exec"} \cup Opened,
         pc[c] # "over" => pid[c][m] = p /\ semId[c][m] = e.own,
         e.at = "exec" /\ ~e.deaf =>
           /\ (pc[c] # "over" => Held(sem, semKey[c][m], e.own))
           /\ (e.told # None => Held(sem, e.told[1], e.own)),
         e.at \in Opened => e.deaf \/ e.sem = e.own,
         e.at = "sem" => e.told # None,
         e.told # None => (\A k : Held(shm, k, Block(c)) => k = e.told[2]),
         e.at \in {"storage", "attached"} => (\A k : Held(shm, k, Block(c)) => e.block = Block(c)),
         ~useFiles => Held(shm, storageKey[c], Storage(c)),
         e.at = "attached" /\ ~useFiles =>
           (\A k : Held(shm, k, Block(c)) => e.storage = Storage(c))
  PROVE  IInv'
<1>1. /\ sem' = sem /\ storageKey' = storageKey /\ pc' = pc
      /\ semKey' = semKey /\ semId' = semId /\ pid' = pid /\ useFiles' = useFiles
      /\ \A k : Held(shm', k, Block(c)) => Held(shm, k, Block(c))
      /\ \A k : Held(shm, k, Storage(c)) => Held(shm', k, Storage(c))
  BY DEF ProcessStep, keys, detectMod, config, SameMemory
<1>2. ASSUME process'[p] = e PROVE ProcessInv(p)'
  <2>1. e.of[1] = c /\ e.of[2] = m /\ e.of = <<c, m>>
    OBVIOUS
  <2>2. /\ e.at \in Opening \cup Opened \cup Dead /\ e.at \notin Dead
        /\ e.at \in Opening => e.at = "exec"
    BY DEF Opening, Opened, Dead
  <2>3. /\ pc'[c] # "over" => pid'[c][m] = p /\ semId'[c][m] = e.own
        /\ e.at \in Opening /\ ~e.deaf =>
             /\ (pc'[c] # "over" => Held(sem', semKey'[c][m], e.own))
             /\ (e.told # None => Held(sem', e.told[1], e.own))
    BY <1>1, <2>2
  <2>4. /\ (e.told # None => (\A k : Held(shm', k, Block(c)) => k = e.told[2]))
        /\ (e.at \in {"storage", "attached"} =>
              (\A k : Held(shm', k, Block(c)) => e.block = Block(c)))
        /\ (~useFiles' => Held(shm', storageKey'[c], Storage(c)))
        /\ (e.at = "attached" /\ ~useFiles' =>
              (\A k : Held(shm', k, Block(c)) => e.storage = Storage(c)))
    BY <1>1
  <2>5. pc'[c] \notin Early
    BY <1>1
  <2> QED
    BY <1>2, <2>1, <2>2, <2>3, <2>4, <2>5
       DEF ProcessInv, Held, OfModule, None, ModulesOf, Block, Storage
<1>3. process[p].at \in Dead => e.at \in Dead
  OBVIOUS
<1> QED BY <1>2, <1>3, OneProcess

LEMMA ExecKeeps ==
  ASSUME IInv, NEW p, Exec(p)
  PROVE  IInv'
<1>1. /\ p \in DOMAIN process /\ process[p].at = "forked"
      /\ UNCHANGED <<sem, keys, pc, frames, index, container, detectMod, config, orderly>>
  BY DEF Exec, Step
<1>2. CASE At(p, "exec") /\ shm' = shm
  <2> DEFINE r == process[p]
             e == [r EXCEPT !.at = "exec"]
  <2>1. ProcessStep
    BY <1>1, <1>2, MemorySame DEF ProcessStep
  <2>2. process[p].at \notin Dead /\ process[p].at \in Opening
    BY <1>1 DEF Dead, Opening
  <2>3. PICK c, m :
           /\ c \in Collectors /\ m \in ModulesOf(c)
           /\ r.of = <<c, m>> /\ DOMAIN r = ProcessFields /\ pc[c] \notin Early
           /\ OfModule(r.own, c, m)
           /\ (pc[c] # "over" => pid[c][m] = p /\ semId[c][m] = r.own)
           /\ (~r.deaf =>
                 /\ (pc[c] # "over" => Held(sem, semKey[c][m], r.own))
                 /\ (r.told # None => Held(sem, r.told[1], r.own)))
           /\ (r.told # None => (\A k : Held(shm, k, Block(c)) => k = r.told[2]))
           /\ (~useFiles => Held(shm, storageKey[c], Storage(c)))
    BY <1>1, <2>2, LiveFacts
  <2>4. /\ DOMAIN e = ProcessFields /\ e.at = "exec" /\ e.of = r.of /\ e.own = r.own
        /\ e.told = r.told /\ e.deaf = r.deaf
    BY <2>3 DEF ProcessFields
  <2>5. process' = [process EXCEPT ![p] = e]
    BY <1>2 DEF At
  <2>6. e.at \notin Opened /\ e.at \in {"exec"} \cup Opened /\ e.at # "sem" /\ e.at \notin {"storage", "attached"}
    BY <2>4 DEF Opened
  <2> HIDE DEF e
  <2> QED BY <1>1, <2>1, <2>2, <2>3, <2>4, <2>5, <2>6, LiveStep
<1>3. CASE Dies(p, "crashed") /\ (shm' = shm \/ shm' = Without(shm, Block(Child(p))))
  <2>1. ProcessStep
    BY <1>1, <1>3, MemorySame, MemoryRemoved DEF ProcessStep
  <2> QED BY <1>1, <1>3, <2>1, EndKeeps
<1> QED BY <1>2, <1>3 DEF Exec

LEMMA OpenSemaphoreKeeps ==
  ASSUME IInv, NEW p, OpenSemaphore(p)
  PROVE  IInv'
<1>1. p \in DOMAIN process /\ process[p].at = "exec" /\ ProcessStep
  BY MemorySame DEF OpenSemaphore, Step, ProcessStep, host
<1>2. CASE Dies(p, "crashed")
  BY <1>1, <1>2, EndKeeps
<1>3. CASE ~Dies(p, "crashed")
  <2> DEFINE r == process[p]
             key == r.told[1]
             e == [r EXCEPT !.at = "sem", !.sem = sem[key]]
  <2>1. r.told # None /\ key \in DOMAIN sem /\ process' = [process EXCEPT ![p] = e]
    BY <1>3 DEF OpenSemaphore
  <2>2. r.at \notin Dead /\ r.at \in Opening
    BY <1>1 DEF Dead, Opening
  <2>3. PICK c, m :
           /\ c \in Collectors /\ m \in ModulesOf(c)
           /\ r.of = <<c, m>> /\ DOMAIN r = ProcessFields /\ pc[c] \notin Early
           /\ OfModule(r.own, c, m)
           /\ (pc[c] # "over" => pid[c][m] = p /\ semId[c][m] = r.own)
           /\ (~r.deaf => Held(sem, r.told[1], r.own))
           /\ (\A k : Held(shm, k, Block(c)) => k = r.told[2])
           /\ (~useFiles => Held(shm, storageKey[c], Storage(c)))
    BY <1>1, <2>1, <2>2, LiveFacts
  <2>4. /\ DOMAIN e = ProcessFields /\ e.at = "sem" /\ e.of = r.of /\ e.own = r.own
        /\ e.told = r.told /\ e.deaf = r.deaf /\ e.sem = sem[key]
    BY <2>3 DEF ProcessFields
  <2>5. e.deaf \/ e.sem = e.own
    BY <2>3, <2>4 DEF Held
  <2>6. e.at \in {"exec"} \cup Opened /\ e.at # "exec" /\ e.at \notin {"storage", "attached"}
    BY <2>4 DEF Opened
  <2> HIDE DEF e
  <2> QED BY <1>1, <2>1, <2>2, <2>3, <2>4, <2>5, <2>6, LiveStep
<1> QED BY <1>2, <1>3

LEMMA OpenSharedKeeps ==
  ASSUME IInv, NEW p, OpenShared(p)
  PROVE  IInv'
<1>1. p \in DOMAIN process /\ process[p].at = "sem" /\ ProcessStep
  BY MemorySame DEF OpenShared, Step, ProcessStep, host
<1>2. CASE Dies(p, "crashed")
  BY <1>1, <1>2, EndKeeps
<1>3. CASE ~Dies(p, "crashed")
  <2> DEFINE r == process[p]
             key == r.told[2]
             where == IF useFiles THEN "attached" ELSE "storage"
             e == [r EXCEPT !.at = where, !.block = shm[key]]
  <2>1. key \in DOMAIN shm /\ process' = [process EXCEPT ![p] = e]
    BY <1>3 DEF OpenShared
  <2>2. r.at \notin Dead /\ r.at \in Opened
    BY <1>1 DEF Dead, Opened
  <2>3. PICK c, m :
           /\ c \in Collectors /\ m \in ModulesOf(c)
           /\ r.of = <<c, m>> /\ DOMAIN r = ProcessFields /\ pc[c] \notin Early
           /\ OfModule(r.own, c, m)
           /\ (pc[c] # "over" => pid[c][m] = p /\ semId[c][m] = r.own)
           /\ (r.deaf \/ r.sem = r.own) /\ r.told # None
           /\ (\A k : Held(shm, k, Block(c)) => k = r.told[2])
           /\ (~useFiles => Held(shm, storageKey[c], Storage(c)))
    BY <1>1, <2>1, <2>2, LiveFacts
  <2>4. /\ DOMAIN e = ProcessFields /\ e.at = where /\ e.of = r.of /\ e.own = r.own
        /\ e.told = r.told /\ e.deaf = r.deaf /\ e.sem = r.sem /\ e.block = shm[key]
    BY <2>3 DEF ProcessFields
  <2>5. \A k : Held(shm, k, Block(c)) => e.block = Block(c)
    BY <2>3, <2>4 DEF Held
  <2>6. /\ e.at \in {"exec"} \cup Opened /\ e.at # "exec" /\ e.at # "sem"
        /\ ~(e.at = "attached" /\ ~useFiles)
    BY <2>4 DEF Opened
  <2>7. e.deaf \/ e.sem = e.own
    BY <2>3, <2>4
  <2> HIDE DEF e, where
  <2> QED BY <1>1, <2>1, <2>2, <2>3, <2>4, <2>5, <2>6, <2>7, LiveStep
<1> QED BY <1>2, <1>3

LEMMA OpenStorageKeeps ==
  ASSUME IInv, NEW p, OpenStorage(p)
  PROVE  IInv'
<1>1. p \in DOMAIN process /\ process[p].at = "storage" /\ ProcessStep
  BY MemorySame DEF OpenStorage, Step, ProcessStep, host
<1>2. CASE Dies(p, "crashed")
  BY <1>1, <1>2, EndKeeps
<1>3. CASE ~Dies(p, "crashed")
  <2> DEFINE r == process[p]
             key == StorageKey(r.block[1])
             e == [r EXCEPT !.at = "attached", !.storage = shm[key]]
  <2>1. key \in DOMAIN shm /\ process' = [process EXCEPT ![p] = e]
    BY <1>3 DEF OpenStorage
  <2>2. r.at \notin Dead /\ r.at \in Opened
    BY <1>1 DEF Dead, Opened
  <2>3. PICK c, m :
           /\ c \in Collectors /\ m \in ModulesOf(c)
           /\ r.of = <<c, m>> /\ DOMAIN r = ProcessFields /\ pc[c] \notin Early
           /\ OfModule(r.own, c, m)
           /\ (pc[c] # "over" => pid[c][m] = p /\ semId[c][m] = r.own)
           /\ (r.deaf \/ r.sem = r.own)
           /\ (r.told # None => (\A k : Held(shm, k, Block(c)) => k = r.told[2]))
           /\ (\A k : Held(shm, k, Block(c)) => r.block = Block(c))
           /\ (~useFiles => Held(shm, storageKey[c], Storage(c)))
    BY <1>1, <2>1, <2>2, LiveFacts
  <2>4. /\ DOMAIN e = ProcessFields /\ e.at = "attached" /\ e.of = r.of /\ e.own = r.own
        /\ e.told = r.told /\ e.deaf = r.deaf /\ e.sem = r.sem /\ e.block = r.block
        /\ e.storage = shm[key]
    BY <2>3 DEF ProcessFields
  <2>5. \A k : Held(shm, k, Block(c)) => e.block = Block(c)
    BY <2>3, <2>4
  <2>6. /\ e.at \in {"exec"} \cup Opened /\ e.at # "exec" /\ e.at # "sem"
    BY <2>4 DEF Opened
  <2>7. e.deaf \/ e.sem = e.own
    BY <2>3, <2>4
  <2>8. ~useFiles => \A k : Held(shm, k, Block(c)) => e.storage = Storage(c)
    <3>1. SUFFICES ASSUME ~useFiles, NEW k, Held(shm, k, Block(c)) PROVE shm[key] = Storage(c)
      BY <2>4
    <3>2. r.block[1] = c
      BY <2>3, <3>1 DEF Block
    <3>3. key = storageKey[c]
      BY <2>3, <3>2 DEF StorageKey, Early
    <3> QED BY <2>3, <3>1, <3>3 DEF Held
  <2> HIDE DEF e
  <2> QED BY <1>1, <2>1, <2>2, <2>3, <2>4, <2>5, <2>6, <2>7, <2>8, LiveStep
<1> QED BY <1>2, <1>3

LEMMA ModuleEndsKeeps ==
  ASSUME IInv, NEW p, ModuleEnds(p)
  PROVE  IInv'
<1>1. p \in DOMAIN process /\ ProcessStep
  BY MemorySame DEF ModuleEnds, Step, ProcessStep, host
<1> QED BY <1>1, EndKeeps DEF ModuleEnds

-----------------------------------------------------------------------------
(* The invariant. *)

LEMMA InitIInv ==
  ASSUME CountAssumption, Init
  PROVE  IInv
<1>1. Domains /\ process = <<>> /\ shm = <<>> /\ sem = <<>>
  BY DEF Init, Domains, PerModule
<1>2. Listed(process) /\ DOMAIN process = {}
  BY <1>1, EmptyListed
<1>3. \A k, id : ~Held(shm, k, id) /\ ~Held(sem, k, id)
  BY <1>1 DEF Held
<1>4. ASSUME NEW c \in Collectors PROVE CollectorInv(c)
  <2>1. /\ pc[c] = "shared" /\ frames[c] = <<>> /\ container[c] = {} /\ ~orderly[c]
        /\ semKey[c] = [m \in ModulesOf(c) |-> 10000] /\ semId[c] = [m \in ModulesOf(c) |-> None]
        /\ pid[c] = [m \in ModulesOf(c) |-> 0] /\ pipe[c] = [m \in ModulesOf(c) |-> 0]
    BY DEF Init, PerModule
  <2>2. ModulesInv(c)
    BY <1>3, <2>1 DEF ModulesInv
  <2>3. Listed(frames[c]) /\ 1 .. Len(frames[c]) = {}
    BY <2>1, EmptyListed
  <2>4. \A i \in 1 .. Len(frames[c]) : FrameInv(c, i)
    BY <2>3
  <2>5. pc[c] \in Places /\ pc[c] \notin {"start", "run", "kill"}
    BY <2>1 DEF Places, Early
  <2> QED BY <1>3, <2>1, <2>2, <2>3, <2>4, <2>5 DEF CollectorInv
<1>5. SemaphoreInv
  BY <1>3 DEF SemaphoreInv
<1> QED BY <1>1, <1>2, <1>4, <1>5 DEF IInv, Types

LEMMA NextIInv ==
  ASSUME IInv, [Next]_vars
  PROVE  IInv'
<1>1. ASSUME NEW c \in Collectors, Collector(c) PROVE IInv'
  BY <1>1, CollectorStepKeeps
<1>2. ASSUME NEW p \in 1 .. MaxProcesses, Attach(p) \/ ModuleEnds(p) PROVE IInv'
  BY <1>2, ExecKeeps, OpenSemaphoreKeeps, OpenSharedKeeps, OpenStorageKeeps, ModuleEndsKeeps
     DEF Attach
<1>3. CASE UNCHANGED vars
  <2>1. UNCHANGED <<shm, sem, shmKey, storageKey, pc, frames, index, container, semKey, semId, pid,
                    pipe, useFiles, process, orderly>>
    BY <1>3 DEF vars, host, keys, detectMod, config
  <2>2. /\ \A d : SameCollector(d) /\ SameSemaphores(d) /\ SameMemory(d) /\ NoneForked(d)
        /\ ProcessesGoOn
    BY <2>1, MemorySame, ProcessesSame DEF SameCollector, SameModules, SamePids, SameSemaphores
  <2>3. ASSUME NEW c \in Collectors PROVE CollectorInv(c)'
    BY <2>1, <2>2, MainFacts, CollectorKept
  <2>4. \A p \in DOMAIN process' : ProcessInv(p)'
    <3>1. \A d \in Collectors : pc[d] \notin Early =>
            /\ pc'[d] \notin Early /\ storageKey'[d] = storageKey[d] /\ SameMemory(d)
            /\ pc'[d] = "over" \/ (pc[d] # "over" /\ SamePids(d))
      BY <2>1, <2>2 DEF SamePids
    <3>2. (\A p \in DOMAIN process : ProcessInv(p)) /\ process' = process /\ useFiles' = useFiles
          /\ sem' = sem
      BY <2>1 DEF IInv
    <3> QED BY <3>1, <3>2, AllProcessesKept
  <2>5. SemaphoreInv'
    BY <2>1, SemaphoresKept DEF IInv
  <2>6. Types'
    BY <2>1 DEF IInv, Types, Domains, CountAssumption, Listed
  <2> QED BY <2>3, <2>4, <2>5, <2>6 DEF IInv
<1> QED BY <1>1, <1>2, <1>3 DEF Next, Finished

\* The tables, the processes and the frames of the main threads agree in every
\* reachable state (sharedobj.cpp, detectmod.cpp, modulecontainer.cpp).
THEOREM Invariance == ASSUME CountAssumption PROVE Spec => []IInv
<1>1. Init => IInv
  BY InitIInv
<1>2. IInv /\ [Next]_vars => IInv'
  BY NextIInv
<1> QED BY <1>1, <1>2, PTL DEF Spec

LEMMA OwnAttached == ASSUME IInv PROVE AttachedToOwn
<1> SUFFICES ASSUME NEW p \in DOMAIN process, process[p].at = "attached"
             PROVE  /\ process[p].deaf \/ process[p].sem = process[p].own
                    /\ Exists(Child(p)) => process[p].block = Block(Child(p))
                    /\ Exists(Child(p)) /\ ~useFiles => process[p].storage = Storage(Child(p))
  BY DEF AttachedToOwn
<1>1. process[p].at \notin Dead /\ process[p].at \in Opened
  BY DEF Dead, Opened
<1>2. PICK c, m :
        /\ c \in Collectors /\ m \in ModulesOf(c) /\ Child(p) = c
        /\ (process[p].deaf \/ process[p].sem = process[p].own)
        /\ (\A k : Held(shm, k, Block(c)) => process[p].block = Block(c))
        /\ (~useFiles => \A k : Held(shm, k, Block(c)) => process[p].storage = Storage(c))
  BY <1>1, LiveFacts
<1>3. Exists(c) => \E k : Held(shm, k, Block(c))
  BY DEF Exists, Held, Range
<1> QED BY <1>2, <1>3

LEMMA EndFrees == ASSUME IInv PROVE OrderlyEndFrees
<1> SUFFICES ASSUME NEW c \in Collectors, orderly[c], pc[c] = "over"
             PROVE  /\ ~Exists(c)
                    /\ \A id \in Range(sem) : id[1] = c => id[2] \notin container[c]
  BY DEF OrderlyEndFrees
<1>1. /\ \A k, id : Held(sem, k, id) => ~(id[1] = c /\ id[2] \in container[c])
      /\ \A k : ~Held(shm, k, Block(c))
  BY DEF IInv, CollectorInv
<1> QED BY <1>1 DEF Exists, Held, Range

\* sharedobj.cpp, detectmod.cpp: a module that runs waits on the semaphore
\* made for it and has its own collector's block and storage.
THEOREM ModulesAttachToOwn == ASSUME CountAssumption PROVE Spec => []AttachedToOwn
<1>1. IInv => AttachedToOwn
  BY OwnAttached
<1> QED BY <1>1, Invariance, PTL

\* collector.cpp, detectmod.cpp: what an orderly end leaves in the tables.
THEOREM OrderlyEndLeavesNothing == ASSUME CountAssumption PROVE Spec => []OrderlyEndFrees
<1>1. IInv => OrderlyEndFrees
  BY EndFrees
<1> QED BY <1>1, Invariance, PTL
=============================================================================
