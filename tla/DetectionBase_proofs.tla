------------------------ MODULE DetectionBase_proofs ------------------------
(***************************************************************************)
(* What is proved about the hand-over of storages from the working thread  *)
(* to the test thread for every number of records, every capacity of the   *)
(* list, every moment of a signal and of the cancellation.                 *)
(***************************************************************************)
EXTENDS DetectionBase, SequenceTheorems, WellFoundedInduction, TLAPS

Storage == [recs : Seq(Nat), valid : BOOLEAN, whole : BOOLEAN]

Types ==
  /\ policy \in {"buffered", "unbuffered", "offline"}
  /\ main \in {"entry", "assign", "poll", "cancel", "done"}
  /\ work \in {"none", "loop", "wait", "import", "records", "write", "importFile", "ended"}
  /\ test \in {"none", "loop", "get", "pop", "got"}
  /\ packetLock \in Nat /\ recordMutex \in Nat
  /\ buffers \in Seq(Storage) /\ held \in Storage
  /\ arrived \in Nat

\* The steps of each policy.
Steps ==
  /\ policy = "offline" => work \notin {"import", "records", "write"}
  /\ work = "importFile" => policy = "offline"
  /\ test = "pop" => policy = "unbuffered"
  /\ main \in {"entry", "assign"} => work = "none" /\ test = "none"

\* Who has the two locks.  A thread that is cancelled while it writes keeps them,
\* and nobody asks for them then.
Locks ==
  /\ policy # "offline" =>
       recordMutex = 1 \/ work = "write" \/ (main = "done" /\ work = "none")
  /\ work = "write" => recordMutex = 0
  /\ policy = "buffered" =>
       /\ Len(buffers) = 1 /\ packetLock \in 0..1
       /\ work \in {"records", "write"} => packetLock = 0
       /\ packetLock = 1 => recordMutex = 1
  /\ policy = "offline" =>
       /\ packetLock + recordMutex <= 1
       /\ work = "importFile" => packetLock = 0 /\ recordMutex = 0
       /\ recordMutex = 1 => Len(buffers) = 1

AllWhole(list) == \A i \in 1..Len(list) : list[i].whole = TRUE
AllButLastWhole(list) == \A i \in 1..(Len(list) - 1) : list[i].whole = TRUE

\* Only the storage at the end of the list is written, by who has the mutex.
WholeInv ==
  /\ policy = "offline" \/ recordMutex = 1 => AllWhole(buffers)
  /\ work = "write" => Len(buffers) > 0 /\ AllButLastWhole(buffers)
  /\ test = "got" => held.whole = TRUE

PostsInv ==
  policy = "unbuffered" =>
    /\ packetLock <= Len(buffers)
    /\ test = "pop" => packetLock < Len(buffers)

IInv == Types /\ Steps /\ Locks /\ WholeInv /\ PostsInv

-----------------------------------------------------------------------------
(* Lists of storages. *)

LEMMA NewStorageIsWhole == NewStorage \in Storage /\ NewStorage.whole = TRUE
BY DEF NewStorage, Storage

LEMMA EmptyIsWhole == <<>> \in Seq(Storage) /\ Len(<<>>) = 0 /\ AllWhole(<<>>)
BY DEF AllWhole

LEMMA OneStorage ==
  ASSUME NEW s \in Storage
  PROVE  /\ <<s>> \in Seq(Storage) /\ Len(<<s>>) = 1
         /\ s.whole = TRUE => AllWhole(<<s>>)
         /\ AllButLastWhole(<<s>>)
BY DEF AllWhole, AllButLastWhole

LEMMA WrittenIsStorage ==
  ASSUME NEW s \in Storage, arrived \in Nat
  PROVE  Written(s) \in Storage /\ [Written(s) EXCEPT !.whole = TRUE] \in Storage
                                /\ [Written(s) EXCEPT !.whole = TRUE].whole = TRUE
<1>1. Append(s.recs, arrived + 1) \in Seq(Nat)
  BY DEF Storage
<1> QED
  BY <1>1 DEF Written, Storage

LEMMA AppendStorage ==
  ASSUME NEW list \in Seq(Storage), NEW s \in Storage, AllWhole(list)
  PROVE  /\ Append(list, s) \in Seq(Storage)
         /\ Len(Append(list, s)) = Len(list) + 1
         /\ AllButLastWhole(Append(list, s))
         /\ s.whole = TRUE => AllWhole(Append(list, s))
BY DEF AllWhole, AllButLastWhole

LEMMA TakeFirst ==
  ASSUME NEW list \in Seq(Storage), Len(list) > 0
  PROVE  /\ Head(list) \in Storage /\ Tail(list) \in Seq(Storage)
         /\ Len(Tail(list)) = Len(list) - 1
         /\ AllWhole(list) => Head(list).whole = TRUE /\ AllWhole(Tail(list))
BY DEF AllWhole

LEMMA EndLast ==
  ASSUME NEW list \in Seq(Storage), NEW ended, AllButLastWhole(list), Len(list) > 0,
         ended = [i \in DOMAIN list |->
                    IF i = Len(list) THEN [list[i] EXCEPT !.whole = TRUE] ELSE list[i]]
  PROVE  ended \in Seq(Storage) /\ Len(ended) = Len(list) /\ AllWhole(ended)
<1>1. DOMAIN list = 1..Len(list) /\ Len(list) \in Nat
  OBVIOUS
<1>0. \A s \in Storage : [s EXCEPT !.whole = TRUE] \in Storage
                         /\ [s EXCEPT !.whole = TRUE].whole = TRUE
  BY DEF Storage
<1>2. \A i \in 1..Len(list) : ended[i] \in Storage /\ ended[i].whole = TRUE
  <2> TAKE i \in 1..Len(list)
  <2>1. list[i] \in Storage
    BY <1>1
  <2>2. CASE i = Len(list)
    BY <1>1, <1>0, <2>1, <2>2
  <2>3. CASE i # Len(list)
    <3>1. i \in 1..(Len(list) - 1) /\ ended[i] = list[i]
      BY <1>1, <2>3
    <3> QED
      BY <2>1, <3>1 DEF AllButLastWhole
  <2> QED
    BY <2>2, <2>3
<1>3. ended \in [1..Len(list) -> Storage]
  BY <1>1, <1>2
<1>4. ended \in Seq(Storage) /\ Len(ended) = Len(list)
  BY <1>1, <1>3
<1> QED
  BY <1>2, <1>4 DEF AllWhole
-----------------------------------------------------------------------------
LEMMA InitIInv == Init => IInv
<1> SUFFICES ASSUME Init PROVE IInv
  OBVIOUS
<1> USE NewStorageIsWhole, EmptyIsWhole
<1>1. buffers = <<NewStorage>> \/ buffers = <<>>
  BY DEF Init
<1>2. /\ <<NewStorage>> \in Seq(Storage) /\ Len(<<NewStorage>>) = 1
      /\ AllWhole(<<NewStorage>>)
  BY OneStorage
<1>3. Types
  BY <1>1, <1>2 DEF Init, Types, InitialLock
<1>4. Steps
  BY DEF Init, Steps
<1>5. Locks
  BY <1>2 DEF Init, Locks, InitialLock
<1>6. WholeInv
  BY <1>1, <1>2 DEF Init, WholeInv
<1>7. PostsInv
  BY DEF Init, PostsInv, InitialLock
<1> QED
  BY <1>3, <1>4, <1>5, <1>6, <1>7 DEF IInv

LEMMA MainSteps == IInv /\ (MainThread \/ SigTerm) => IInv'
<1> SUFFICES ASSUME IInv, MainThread \/ SigTerm PROVE IInv'
  OBVIOUS
<1> USE DEF IInv, Types, Steps, Locks, WholeInv, PostsInv
<1>1. CASE CheckState
  BY <1>1 DEF CheckState, locks, history
<1>2. CASE StartThreads
  BY <1>2 DEF StartThreads, locks, history
<1>3. CASE CancelTest
  <2>1. /\ UNCHANGED <<policy, work, buffers, packetLock, recordMutex, held, arrived>>
        /\ main = "poll" /\ main' = "cancel" /\ test' = "none"
    BY <1>3 DEF CancelTest, locks
  <2>2. Types' /\ Steps' /\ Locks'
    BY <2>1
  <2>3. WholeInv'
    BY <2>1
  <2>4. PostsInv'
    BY <2>1
  <2> QED
    BY <2>2, <2>3, <2>4
<1>4. CASE CancelWork
  BY <1>4 DEF CancelWork, locks, history
<1>5. CASE SigTerm
  BY <1>5 DEF SigTerm, locks, history, threads
<1> QED
  BY <1>1, <1>2, <1>3, <1>4, <1>5 DEF MainThread

LEMMA WorkingSteps == IInv /\ WorkingThread => IInv'
<1> SUFFICES ASSUME IInv, WorkingThread PROVE IInv'
  OBVIOUS
<1> USE DEF IInv, Types, Steps, Locks, WholeInv, PostsInv
<1>1. CASE NextRound
  BY <1>1 DEF NextRound, locks, history
<1>2. CASE Wait
  BY <1>2 DEF Wait, locks, history
<1>3. CASE BeginImport
  BY <1>3 DEF BeginImport, locks, history
<1>4. CASE GetBuffer
  <2> DEFINE front == IF policy = "unbuffered" THEN buffers ELSE <<>>
             fresh == IF policy = "unbuffered" THEN NewStorage ELSE buffers[1]
  <2>1. /\ work = "records" /\ recordMutex = 1 /\ arrived' = arrived + 1
        /\ UNCHANGED <<policy, main, test, held>>
    BY <1>4 DEF GetBuffer
  <2>2. policy \in {"buffered", "unbuffered"} /\ AllWhole(buffers)
    BY <2>1
  <2>3. CASE BufferIsFull
    <3>1. UNCHANGED <<work, buffers, packetLock, recordMutex>>
      BY <1>4, <2>3 DEF GetBuffer, locks
    <3> QED
      BY <2>1, <3>1
  <2>4. CASE ~BufferIsFull
    <3>1. /\ front \in Seq(Storage) /\ AllWhole(front)
          /\ fresh \in Storage /\ fresh.whole = TRUE
      <4>1. CASE policy = "unbuffered"
        BY <2>2, <4>1, NewStorageIsWhole
      <4>2. CASE policy = "buffered"
        <5>1. Len(buffers) = 1 /\ buffers \in Seq(Storage)
          BY <4>2
        <5>2. buffers[1] \in Storage /\ buffers[1].whole = TRUE
          BY <2>2, <5>1 DEF AllWhole
        <5> QED
          BY <4>2, <5>2, EmptyIsWhole
      <4> QED
        BY <2>2, <4>1, <4>2
    <3>2. /\ policy = "unbuffered" => Len(front) = Len(buffers)
          /\ policy = "buffered" => Len(front) = 0
      BY EmptyIsWhole
    <3>3. /\ policy = "unbuffered" => packetLock' = packetLock + 1
          /\ policy = "buffered" => packetLock' = packetLock
      BY <1>4, <2>4 DEF GetBuffer
    <3>4. CASE /\ buffers' = Append(front, Written(fresh))
               /\ recordMutex' = 0 /\ work' = "write"
      <4>1. /\ buffers' \in Seq(Storage) /\ Len(buffers') = Len(front) + 1
            /\ AllButLastWhole(buffers')
        BY <3>1, <3>4, WrittenIsStorage, AppendStorage
      <4>2. Types' /\ Steps'
        BY <2>1, <2>2, <3>3, <3>4, <4>1
      <4>3. Locks'
        BY <2>1, <2>2, <3>2, <3>3, <3>4, <4>1
      <4>4. WholeInv'
        BY <2>1, <2>2, <3>2, <3>4, <4>1
      <4>5. PostsInv'
        BY <2>1, <3>2, <3>3, <4>1
      <4> QED
        BY <4>2, <4>3, <4>4, <4>5
    <3>5. CASE buffers' = Append(front, fresh) /\ UNCHANGED <<recordMutex, work>>
      <4>1. /\ buffers' \in Seq(Storage) /\ Len(buffers') = Len(front) + 1
            /\ AllWhole(buffers')
        BY <3>1, <3>5, AppendStorage
      <4>2. Types' /\ Steps'
        BY <2>1, <2>2, <3>3, <3>5, <4>1
      <4>3. Locks'
        BY <2>1, <2>2, <3>2, <3>3, <3>5, <4>1
      <4>4. WholeInv'
        BY <2>1, <2>2, <3>5, <4>1
      <4>5. PostsInv'
        BY <2>1, <3>2, <3>3, <4>1
      <4> QED
        BY <4>2, <4>3, <4>4, <4>5
    <3> QED
      BY <1>4, <2>4, <3>4, <3>5 DEF GetBuffer
  <2> QED
    BY <2>3, <2>4
<1>5. CASE RecordEnd
  <2>1. /\ work = "write" /\ work' = "records" /\ recordMutex' = 1
        /\ UNCHANGED <<policy, main, test, packetLock, held, arrived>>
    BY <1>5 DEF RecordEnd
  <2>2. buffers' \in Seq(Storage) /\ Len(buffers') = Len(buffers) /\ AllWhole(buffers')
    BY <1>5, <2>1, EndLast DEF RecordEnd
  <2>3. Types' /\ Steps' /\ Locks'
    BY <2>1, <2>2
  <2>4. WholeInv' /\ PostsInv'
    BY <2>1, <2>2
  <2> QED
    BY <2>3, <2>4
<1>6. CASE EndImport
  BY <1>6 DEF EndImport, history
<1>7. CASE OfflineWait
  BY <1>7 DEF OfflineWait, BufferLockFree, history
<1>8. CASE OfflineImport
  <2>1. /\ policy = "offline" /\ work' = "loop" /\ recordMutex' = recordMutex + 1
        /\ UNCHANGED <<policy, main, test, packetLock, held>>
        /\ work = "importFile"
    BY <1>8 DEF OfflineImport
  <2>2. arrived' \in Nat
    BY <1>8 DEF OfflineImport
  <2>3. \E s \in Storage : buffers' = <<s>> /\ s.whole = TRUE
    BY <1>8, NewStorageIsWhole, WrittenIsStorage DEF OfflineImport
  <2>4. buffers' \in Seq(Storage) /\ AllWhole(buffers')
    BY <2>3, OneStorage
  <2>5. main \notin {"entry", "assign"}
    BY <2>1
  <2>6. Types' /\ Steps'
    BY <2>1, <2>2, <2>4, <2>5
  <2>7. Locks'
    BY <2>1, <2>3, OneStorage
  <2>8. WholeInv' /\ PostsInv'
    BY <2>1, <2>4
  <2> QED
    BY <2>6, <2>7, <2>8
<1> QED
  BY <1>1, <1>2, <1>3, <1>4, <1>5, <1>6, <1>7, <1>8 DEF WorkingThread

LEMMA TestSteps == IInv /\ TestThread => IInv'
<1> SUFFICES ASSUME IInv, TestThread PROVE IInv'
  OBVIOUS
<1> USE DEF IInv, Types, Steps, Locks, WholeInv, PostsInv
<1>1. CASE NextTest
  <2>1. /\ UNCHANGED <<policy, main, work, buffers, packetLock, recordMutex, held, arrived>>
        /\ test = "loop" /\ test' \in {"get", "none"}
    BY <1>1 DEF NextTest, locks
  <2>2. Types' /\ Steps' /\ Locks'
    BY <2>1
  <2>3. WholeInv'
    BY <2>1
  <2>4. PostsInv'
    BY <2>1
  <2> QED
    BY <2>2, <2>3, <2>4
<1>2. CASE SwapBuffer
  <2>1. /\ policy = "buffered" /\ test = "get" /\ packetLock = 1 /\ test' = "got"
        /\ held' = buffers[1] /\ buffers' = <<NewStorage>>
        /\ UNCHANGED <<policy, main, work, packetLock, recordMutex, arrived>>
    BY <1>2 DEF SwapBuffer, locks
  <2>0. Len(buffers) = 1 /\ buffers \in Seq(Storage) /\ AllWhole(buffers)
    BY <2>1
  <2>2. buffers[1] \in Storage /\ buffers[1].whole = TRUE
    BY <2>0 DEF AllWhole
  <2>3. buffers' \in Seq(Storage) /\ Len(buffers') = 1 /\ AllWhole(buffers')
    BY <2>1, OneStorage, NewStorageIsWhole
  <2>4. Types' /\ Steps' /\ Locks'
    BY <2>1, <2>2, <2>3
  <2>5. WholeInv'
    BY <2>1, <2>2, <2>3
  <2>6. PostsInv'
    BY <2>1, <2>2, <2>3
  <2> QED
    BY <2>4, <2>5, <2>6
<1>3. CASE TakePost
  <2>1. /\ policy = "unbuffered" /\ test = "get" /\ test' = "pop"
        /\ packetLock > 0 /\ packetLock' = packetLock - 1
        /\ UNCHANGED <<policy, main, work, buffers, recordMutex, held, arrived>>
    BY <1>3 DEF TakePost
  <2>2. Types' /\ Steps' /\ Locks'
    BY <2>1
  <2>3. WholeInv' /\ PostsInv'
    BY <2>1
  <2> QED
    BY <2>2, <2>3
<1>4. CASE PopFront
  <2>1. /\ test = "pop" /\ recordMutex = 1 /\ test' = "got"
        /\ held' = Head(buffers) /\ buffers' = Tail(buffers)
        /\ UNCHANGED <<policy, main, work, packetLock, recordMutex, arrived>>
    BY <1>4 DEF PopFront, RecordMutexFree, locks
  <2>2. policy = "unbuffered" /\ packetLock < Len(buffers) /\ AllWhole(buffers)
    BY <2>1
  <2>3. /\ held' \in Storage /\ held'.whole = TRUE /\ buffers' \in Seq(Storage)
        /\ Len(buffers') = Len(buffers) - 1 /\ AllWhole(buffers')
    <3>1. buffers \in Seq(Storage) /\ Len(buffers) > 0
      BY <2>2
    <3>2. /\ Head(buffers) \in Storage /\ Tail(buffers) \in Seq(Storage)
          /\ Len(Tail(buffers)) = Len(buffers) - 1
          /\ Head(buffers).whole = TRUE /\ AllWhole(Tail(buffers))
      BY <2>2, <3>1, TakeFirst
    <3> QED
      BY <2>1, <3>2
  <2>4. Types' /\ Steps' /\ Locks'
    BY <2>1, <2>2, <2>3
  <2>5. WholeInv'
    BY <2>1, <2>2, <2>3
  <2>6. PostsInv'
    BY <2>1, <2>2, <2>3
  <2> QED
    BY <2>4, <2>5, <2>6
<1>5. CASE OfflineTake
  <2>1. /\ policy = "offline" /\ test = "get" /\ test' = "got" /\ recordMutex > 0
        /\ recordMutex' = recordMutex - 1 /\ packetLock' = packetLock + 1
        /\ held' = buffers[1] /\ buffers' = <<>>
        /\ UNCHANGED <<policy, main, work, arrived>>
    BY <1>5 DEF OfflineTake, BufferLockGivenBack
  <2>2. recordMutex = 1 /\ packetLock = 0
    BY <2>1
  <2>3. Len(buffers) = 1 /\ buffers \in Seq(Storage) /\ AllWhole(buffers)
    BY <2>1, <2>2
  <2>4. held' \in Storage /\ held'.whole = TRUE
    <3>1. buffers[1] \in Storage /\ buffers[1].whole = TRUE
      BY <2>3 DEF AllWhole
    <3> QED
      BY <2>1, <3>1
  <2>5. buffers' \in Seq(Storage) /\ AllWhole(buffers')
    BY <2>1, EmptyIsWhole
  <2>6. Types' /\ Steps'
    BY <2>1, <2>2, <2>4, <2>5
  <2>7. Locks'
    BY <2>1, <2>2
  <2>8. WholeInv' /\ PostsInv'
    BY <2>1, <2>4, <2>5
  <2> QED
    BY <2>6, <2>7, <2>8
<1>6. CASE RunTest
  BY <1>6, NewStorageIsWhole DEF RunTest, locks
<1> QED
  BY <1>1, <1>2, <1>3, <1>4, <1>5, <1>6 DEF TestThread

LEMMA NextIInv == IInv /\ [Next]_vars => IInv'
<1> SUFFICES ASSUME IInv, [Next]_vars PROVE IInv'
  OBVIOUS
<1>1. CASE MainThread \/ SigTerm
  BY <1>1, MainSteps
<1>2. CASE WorkingThread
  BY <1>2, WorkingSteps
<1>3. CASE TestThread
  BY <1>3, TestSteps
<1>4. CASE UNCHANGED vars
  BY <1>4 DEF vars, threads, locks, IInv, Types, Steps, Locks, WholeInv, PostsInv
<1> QED
  BY <1>1, <1>2, <1>3, <1>4 DEF Next, Returned, Starved

\* test() gets only storages that the parser has finished, whatever the policy,
\* the rate of records and the moment of a cancellation (recordStart to recordEnd
\* against getStorage, filepolicy.h and offlinepolicy.h).
THEOREM StorageIsWhole == Spec => []TestedIsWhole
<1>1. IInv => TestedIsWhole
  BY DEF IInv, WholeInv, TestedIsWhole
<1> QED
  BY InitIInv, NextIInv, <1>1, PTL DEF Spec

\* getStorage of the unbuffered policy never takes from an empty list: its
\* semaphore is posted once per storage (UnbufferedFilter, filepolicy.h).
THEOREM ListIsCounted == Spec => []PostsMatchBuffers
<1>1. IInv => PostsMatchBuffers
  <2> SUFFICES ASSUME IInv, policy = "unbuffered"
               PROVE  packetLock + (IF test = "pop" THEN 1 ELSE 0) <= Len(buffers)
    BY DEF PostsMatchBuffers
  <2>0. buffers \in Seq(Storage)
    BY DEF IInv, Types
  <2>3. packetLock \in Nat
    BY DEF IInv, Types
  <2>1. Len(buffers) \in Nat
    BY <2>0
  <2>2. packetLock <= Len(buffers) /\ (test = "pop" => packetLock < Len(buffers))
    BY DEF IInv, PostsInv
  <2> QED
    BY <2>1, <2>2, <2>3
<1> QED
  BY InitIInv, NextIInv, <1>1, PTL DEF Spec

-----------------------------------------------------------------------------
(* Induction over the natural numbers, as a fact about sets of numbers.    *)

LEMMA LeastNatural ==
  ASSUME NEW T, T \subseteq Nat, T # {}
  PROVE  \E n \in T : \A k \in T : n <= k
<1>1. IsWellFoundedOn(OpToRel(<, Nat), Nat)
  BY NatLessThanWellFounded
<1>2. PICK n \in T : \A k \in T : ~ (<<k, n>> \in OpToRel(<, Nat))
  BY <1>1, WFMin
<1>3. \A k \in T : ~ (k < n)
  BY <1>2 DEF OpToRel
<1> QED
  BY <1>3

LEMMA SetInduction ==
  ASSUME NEW S, 0 \in S, \A n \in Nat : n \in S => n + 1 \in S
  PROVE  \A n \in Nat : n \in S
<1> SUFFICES ASSUME Nat \ S # {} PROVE FALSE
  OBVIOUS
<1>1. PICK n \in Nat \ S : \A k \in Nat \ S : n <= k
  BY LeastNatural
<1>2. n # 0 /\ n - 1 \in Nat /\ n - 1 \in S
  BY <1>1
<1>3. (n - 1) + 1 \in S
  BY <1>2
<1> QED
  BY <1>1, <1>3

-----------------------------------------------------------------------------
(* FlattenSeq.                                                             *)

\* f runs through the concatenations of the first n elements of seqs.
Flattens(f, seqs, n) ==
  \A i \in 1 .. n : f[i] = IF i = 1 THEN seqs[i] ELSE f[i - 1] \o seqs[i]

LEMMA FlatteningExists ==
  ASSUME NEW E, NEW seqs \in Seq(Seq(E))
  PROVE  \E f \in [1 .. Len(seqs) -> Seq(E)] : Flattens(f, seqs, Len(seqs))
<1> DEFINE S == {n \in Nat : n <= Len(seqs) =>
                   \E f \in [1 .. n -> Seq(E)] : Flattens(f, seqs, n)}
<1>0. Len(seqs) \in Nat /\ \A i \in 1 .. Len(seqs) : seqs[i] \in Seq(E)
  OBVIOUS
<1>1. 0 \in S
  <2>1. [i \in 1 .. 0 |-> <<>>] \in [1 .. 0 -> Seq(E)]
    OBVIOUS
  <2>2. Flattens([i \in 1 .. 0 |-> <<>>], seqs, 0)
    BY DEF Flattens
  <2> QED BY <2>1, <2>2
<1>2. ASSUME NEW n \in Nat, n \in S
      PROVE  n + 1 \in S
  <2> SUFFICES ASSUME n + 1 <= Len(seqs)
               PROVE  \E f \in [1 .. n + 1 -> Seq(E)] : Flattens(f, seqs, n + 1)
    OBVIOUS
  <2>1. PICK f \in [1 .. n -> Seq(E)] : Flattens(f, seqs, n)
    BY <1>0, <1>2
  <2> DEFINE last == IF n = 0 THEN seqs[1] ELSE f[n] \o seqs[n + 1]
             g == [i \in 1 .. n + 1 |-> IF i = n + 1 THEN last ELSE f[i]]
  <2>2. last \in Seq(E)
    <3>1. CASE n = 0
      BY <1>0, <3>1
    <3>2. CASE n # 0
      <4>1. f[n] \in Seq(E) /\ seqs[n + 1] \in Seq(E)
        BY <1>0, <3>2
      <4>2. f[n] \o seqs[n + 1] \in Seq(E)
        BY <4>1, ConcatProperties
      <4> QED BY <3>2, <4>2
    <3> QED BY <3>1, <3>2
  <2> HIDE DEF last
  <2>3. g \in [1 .. n + 1 -> Seq(E)]
    <3>1. \A i \in 1 .. n + 1 : i # n + 1 => i \in 1 .. n
      BY <1>2
    <3> QED BY <2>2, <3>1
  <2>4. Flattens(g, seqs, n + 1)
    <3> SUFFICES ASSUME NEW i \in 1 .. n + 1
                 PROVE  g[i] = IF i = 1 THEN seqs[i] ELSE g[i - 1] \o seqs[i]
      BY DEF Flattens
    <3>1. CASE i = n + 1 /\ n = 0
      BY <3>1 DEF last
    <3>2. CASE i = n + 1 /\ n # 0
      <4>1. i - 1 = n /\ i - 1 \in 1 .. n + 1 /\ i - 1 # n + 1
        BY <3>2
      <4>2. g[i - 1] = f[n] /\ i # 1
        BY <3>2, <4>1
      <4>3. g[i] = f[n] \o seqs[i]
        BY <3>2 DEF last
      <4> QED BY <4>2, <4>3
    <3>3. CASE i # n + 1
      <4>1. i \in 1 .. n
        BY <3>3
      <4>2. f[i] = IF i = 1 THEN seqs[i] ELSE f[i - 1] \o seqs[i]
        BY <2>1, <4>1 DEF Flattens
      <4>3. g[i] = f[i] /\ (i # 1 => g[i - 1] = f[i - 1])
        BY <4>1
      <4> QED BY <4>2, <4>3
    <3> QED BY <3>1, <3>2, <3>3
  <2> QED BY <2>3, <2>4
<1> HIDE DEF S
<1>3. \A n \in Nat : n \in S
  BY <1>1, <1>2, SetInduction
<1>4. Len(seqs) \in S
  BY <1>0, <1>3
<1> QED BY <1>0, <1>4 DEF S

\* And they are determined by the elements.
LEMMA FlatteningUnique ==
  ASSUME NEW n \in Nat, NEW f, NEW g, NEW s, NEW t,
         Flattens(f, s, n), Flattens(g, t, n), \A i \in 1 .. n : s[i] = t[i]
  PROVE  \A i \in 1 .. n : f[i] = g[i]
<1> DEFINE T == {i \in 1 .. n : f[i] # g[i]}
<1> SUFFICES ASSUME T # {} PROVE FALSE
  OBVIOUS
<1>0. T \subseteq Nat
  OBVIOUS
<1> HIDE DEF T
<1>1. PICK i \in T : \A k \in T : i <= k
  BY <1>0, LeastNatural
<1> USE DEF T
<1>2. /\ f[i] = IF i = 1 THEN s[i] ELSE f[i - 1] \o s[i]
      /\ g[i] = IF i = 1 THEN t[i] ELSE g[i - 1] \o t[i]
      /\ s[i] = t[i]
  BY DEF Flattens
<1>3. i # 1 => i - 1 \in 1 .. n /\ i - 1 \notin T
  BY <1>1
<1> QED
  BY <1>2, <1>3

\* What the library's recursive definition comes to.
LEMMA FlattenDef ==
  ASSUME NEW E, NEW seqs \in Seq(Seq(E)), Len(seqs) # 0
  PROVE  \E f \in [1 .. Len(seqs) -> Seq(E)] :
           Flattens(f, seqs, Len(seqs)) /\ FlattenSeq(seqs) = f[Len(seqs)]
<1> DEFINE step(f) == [i \in 1 .. Len(seqs) |->
                         IF i = 1 THEN seqs[i] ELSE f[i - 1] \o seqs[i]]
           flatten == CHOOSE f : f = step(f)
<1>1. FlattenSeq(seqs) = flatten[Len(seqs)]
  BY DEF FlattenSeq
<1>2. PICK f \in [1 .. Len(seqs) -> Seq(E)] : Flattens(f, seqs, Len(seqs))
  BY FlatteningExists
<1>3. f = step(f)
  BY <1>2 DEF Flattens
<1>4. flatten = step(flatten)
  BY <1>3
<1> HIDE DEF flatten
<1>5. Flattens(flatten, seqs, Len(seqs)) /\ Len(seqs) \in Nat
  <2>1. ASSUME NEW h, h = step(h), NEW i \in 1 .. Len(seqs)
        PROVE  h[i] = IF i = 1 THEN seqs[i] ELSE h[i - 1] \o seqs[i]
    <3>1. h[i] = step(h)[i]
      BY <2>1
    <3> QED BY <3>1
  <2>2. \A i \in 1 .. Len(seqs) :
          flatten[i] = IF i = 1 THEN seqs[i] ELSE flatten[i - 1] \o seqs[i]
    <3> HIDE DEF step
    <3> QED BY <1>4, <2>1
  <2> QED BY <2>2 DEF Flattens
<1>6. \A i \in 1 .. Len(seqs) : f[i] = flatten[i]
  BY <1>2, <1>5, FlatteningUnique
<1>7. FlattenSeq(seqs) = f[Len(seqs)]
  BY <1>1, <1>5, <1>6
<1> QED
  BY <1>2, <1>7

LEMMA FlattenEmpty == \A seqs : Len(seqs) = 0 => FlattenSeq(seqs) = seqs
BY DEF FlattenSeq

\* One element.
LEMMA FlattenOne ==
  ASSUME NEW E, NEW s \in Seq(E)
  PROVE  FlattenSeq(<<s>>) = s
<1>1. <<s>> \in Seq(Seq(E)) /\ Len(<<s>>) = 1 /\ <<s>>[1] = s
  OBVIOUS
<1>2. PICK f \in [1 .. 1 -> Seq(E)] :
        Flattens(f, <<s>>, 1) /\ FlattenSeq(<<s>>) = f[1]
  <2>1. \E f \in [1 .. Len(<<s>>) -> Seq(E)] :
          Flattens(f, <<s>>, Len(<<s>>)) /\ FlattenSeq(<<s>>) = f[Len(<<s>>)]
    <3> DEFINE one == <<s>>
    <3>1. one \in Seq(Seq(E)) /\ Len(one) # 0
      BY <1>1
    <3> HIDE DEF one
    <3>2. \E f \in [1 .. Len(one) -> Seq(E)] :
            Flattens(f, one, Len(one)) /\ FlattenSeq(one) = f[Len(one)]
      BY <3>1, FlattenDef
    <3> QED BY <3>2 DEF one
  <2> QED BY <1>1, <2>1
<1> QED
  BY <1>1, <1>2 DEF Flattens

LEMMA FlattenType ==
  ASSUME NEW E, NEW seqs \in Seq(Seq(E))
  PROVE  FlattenSeq(seqs) \in Seq(E)
<1>1. CASE Len(seqs) = 0
  <2>1. seqs = <<>>
    BY <1>1
  <2>2. FlattenSeq(seqs) = <<>>
    BY <1>1, <2>1, FlattenEmpty
  <2> QED BY <2>2
<1>2. CASE Len(seqs) # 0
  <2>1. Len(seqs) \in 1 .. Len(seqs)
    BY <1>2
  <2> QED BY <1>2, <2>1, FlattenDef, SMTT(30)
<1> QED BY <1>1, <1>2

\* One more at the end.
LEMMA FlattenAppend ==
  ASSUME NEW E, NEW seqs \in Seq(Seq(E)), NEW s \in Seq(E)
  PROVE  FlattenSeq(Append(seqs, s)) = FlattenSeq(seqs) \o s
<1> DEFINE more == Append(seqs, s)
<1>0. /\ Len(seqs) \in Nat /\ more \in Seq(Seq(E)) /\ Len(more) = Len(seqs) + 1
      /\ more[Len(seqs) + 1] = s
      /\ \A i \in 1 .. Len(seqs) : more[i] = seqs[i]
  OBVIOUS
<1>1. CASE Len(seqs) = 0
  <2>1. seqs = <<>> /\ more = <<s>>
    BY <1>1
  <2>2. FlattenSeq(seqs) = <<>> /\ FlattenSeq(more) = s
    BY <1>1, <2>1, FlattenEmpty, FlattenOne
  <2> QED BY <2>2
<1>2. CASE Len(seqs) # 0
  <2> HIDE DEF more
  <2>1. PICK f \in [1 .. Len(seqs) -> Seq(E)] :
          Flattens(f, seqs, Len(seqs)) /\ FlattenSeq(seqs) = f[Len(seqs)]
    BY <1>2, FlattenDef
  <2>2. PICK g \in [1 .. Len(more) -> Seq(E)] :
          Flattens(g, more, Len(more)) /\ FlattenSeq(more) = g[Len(more)]
    <3>1. Len(more) # 0
      BY <1>0
    <3> QED BY <1>0, <3>1, FlattenDef
  <2>3. Flattens(g, more, Len(seqs))
    <3>1. \A i \in 1 .. Len(seqs) : i \in 1 .. Len(more)
      BY <1>0
    <3> QED BY <2>2, <3>1 DEF Flattens
  <2>4. f[Len(seqs)] = g[Len(seqs)]
    <3>1. \A i \in 1 .. Len(seqs) : f[i] = g[i]
      BY <1>0, <2>1, <2>3, FlatteningUnique, ZenonT(40)
    <3>2. Len(seqs) \in 1 .. Len(seqs)
      BY <1>0, <1>2
    <3> QED BY <3>1, <3>2, Zenon
  <2>5. g[Len(seqs) + 1] = g[Len(seqs)] \o s
    <3>1. Len(seqs) + 1 \in 1 .. Len(more) /\ Len(seqs) + 1 # 1
          /\ (Len(seqs) + 1) - 1 = Len(seqs)
      BY <1>0, <1>2
    <3> QED BY <1>0, <2>2, <3>1 DEF Flattens
  <2>6. FlattenSeq(more) = g[Len(seqs)] \o s
    BY <1>0, <2>2, <2>5
  <2> QED BY <2>1, <2>4, <2>6 DEF more
<1> QED BY <1>1, <1>2

\* One less at the front.
LEMMA FlattenTail ==
  ASSUME NEW E, NEW seqs \in Seq(Seq(E)), Len(seqs) # 0
  PROVE  FlattenSeq(seqs) = Head(seqs) \o FlattenSeq(Tail(seqs))
<1> DEFINE rest == Tail(seqs)
<1>0. /\ Len(seqs) \in Nat /\ rest \in Seq(Seq(E)) /\ Len(rest) = Len(seqs) - 1
      /\ seqs[1] \in Seq(E) /\ Head(seqs) = seqs[1]
      /\ \A i \in 1 .. Len(rest) : rest[i] = seqs[i + 1] /\ rest[i] \in Seq(E)
  OBVIOUS
<1> HIDE DEF rest
<1>1. PICK f \in [1 .. Len(seqs) -> Seq(E)] :
        Flattens(f, seqs, Len(seqs)) /\ FlattenSeq(seqs) = f[Len(seqs)]
  BY FlattenDef
<1>2. f[1] = seqs[1]
  <2>1. 1 \in 1 .. Len(seqs)
    BY <1>0
  <2> QED BY <1>1, <2>1 DEF Flattens
<1>3. CASE Len(rest) = 0
  <2>1. rest = <<>>
    BY <1>0, <1>3
  <2>2. FlattenSeq(rest) = <<>>
    BY <1>3, <2>1, FlattenEmpty
  <2>3. Len(seqs) = 1
    BY <1>0, <1>3
  <2>4. Head(seqs) \o FlattenSeq(rest) = Head(seqs)
    BY <1>0, <2>2
  <2> QED BY <1>0, <1>1, <1>2, <2>3, <2>4 DEF rest
<1>4. CASE Len(rest) # 0
  <2>1. PICK g \in [1 .. Len(rest) -> Seq(E)] :
          Flattens(g, rest, Len(rest)) /\ FlattenSeq(rest) = g[Len(rest)]
    BY <1>0, <1>4, FlattenDef
  <2> DEFINE T == {n \in 1 .. Len(rest) : f[n + 1] # seqs[1] \o g[n]}
  <2>2. ASSUME T # {} PROVE FALSE
    <3>0. T \subseteq Nat
      OBVIOUS
    <3> HIDE DEF T
    <3>1. PICK n \in T : \A k \in T : n <= k
      BY <2>2, <3>0, LeastNatural
    <3>b. n \in Nat /\ n - 1 \notin T
      BY <3>0, <3>1
    <3> USE DEF T
    <3>2. n \in 1 .. Len(rest) /\ n + 1 \in 1 .. Len(seqs) /\ (n + 1) - 1 = n /\ n + 1 # 1
      BY <1>0
    <3>3. f[n + 1] = f[n] \o rest[n]
      BY <1>0, <1>1, <3>2 DEF Flattens
    <3>4. g[n] = IF n = 1 THEN rest[n] ELSE g[n - 1] \o rest[n]
      BY <2>1, <3>2 DEF Flattens
    <3>a. f[n + 1] # seqs[1] \o g[n]
      OBVIOUS
    <3>5. CASE n = 1
      <4>1. f[n] = seqs[1]
        BY <1>2, <3>5
      <4>2. f[n + 1] = seqs[1] \o rest[n]
        BY <3>3, <4>1
      <4>3. g[n] = rest[n]
        BY <3>4, <3>5
      <4> QED BY <3>a, <4>2, <4>3
    <3>6. CASE n # 1
      <4>1. n - 1 \in 1 .. Len(rest) /\ n - 1 \notin T /\ (n - 1) + 1 = n
        <5>1. n - 1 \in 1 .. Len(rest) /\ (n - 1) + 1 = n
          BY <1>0, <3>2, <3>6
        <5> QED BY <3>b, <5>1
      <4>2. f[n] = seqs[1] \o g[n - 1]
        BY <4>1
      <4>3. seqs[1] \in Seq(E) /\ g[n - 1] \in Seq(E) /\ rest[n] \in Seq(E)
        BY <1>0, <3>2, <4>1
      <4>4. g[n] = g[n - 1] \o rest[n]
        BY <3>4, <3>6
      <4>5. f[n] \o rest[n] = seqs[1] \o g[n]
        <5> HIDE DEF T
        <5>1. PICK a \in Seq(E), b \in Seq(E), c \in Seq(E) :
                a = seqs[1] /\ b = g[n - 1] /\ c = rest[n]
          BY <4>3, Zenon
        <5>2. (a \o b) \o c = a \o (b \o c)
          BY ConcatAssociative, SMTT(30)
        <5>3. f[n] = a \o b /\ g[n] = b \o c
          BY <4>2, <4>4, <5>1, Zenon
        <5> QED BY <5>1, <5>2, <5>3, Zenon
      <4> QED BY <3>a, <3>3, <4>5
    <3> QED BY <3>5, <3>6
  <2>3. Len(rest) \in 1 .. Len(rest) /\ Len(rest) + 1 = Len(seqs)
    BY <1>0, <1>4
  <2>4. f[Len(rest) + 1] = seqs[1] \o g[Len(rest)]
    BY <2>2, <2>3
  <2> QED BY <1>0, <1>1, <2>1, <2>3, <2>4 DEF rest
<1> QED BY <1>3, <1>4
-----------------------------------------------------------------------------
(* The records that wait in storages.                                      *)

Recs(list) == [i \in DOMAIN list |-> list[i].recs]
Waiting(list) == FlattenSeq(Recs(list))

LEMMA RecsType ==
  ASSUME NEW list \in Seq(Storage)
  PROVE  /\ Recs(list) \in Seq(Seq(Nat)) /\ Len(Recs(list)) = Len(list)
         /\ \A i \in 1 .. Len(list) : Recs(list)[i] = list[i].recs
<1>1. \A i \in 1 .. Len(list) : list[i].recs \in Seq(Nat)
  <2>1. \A i \in 1 .. Len(list) : list[i] \in Storage
    OBVIOUS
  <2> QED BY <2>1 DEF Storage
<1>2. Recs(list) \in [1 .. Len(list) -> Seq(Nat)] /\ Len(list) \in Nat
      /\ \A i \in 1 .. Len(list) : Recs(list)[i] = list[i].recs
  BY <1>1 DEF Recs
<1> HIDE DEF Recs
<1> QED BY <1>2

LEMMA WaitingType ==
  ASSUME NEW list \in Seq(Storage)
  PROVE  Waiting(list) \in Seq(Nat)
BY RecsType, FlattenType DEF Waiting

LEMMA WaitingEmpty == Waiting(<<>>) = <<>>
<1>1. <<>> \in Seq(Storage)
  OBVIOUS
<1>2. Recs(<<>>) \in Seq(Seq(Nat)) /\ Len(Recs(<<>>)) = 0
  BY <1>1, RecsType
<1>3. Recs(<<>>) = <<>>
  BY <1>2
<1> QED BY <1>2, <1>3, FlattenEmpty DEF Waiting

LEMMA WaitingOne ==
  ASSUME NEW s \in Storage
  PROVE  Waiting(<<s>>) = s.recs
<1>1. <<s>> \in Seq(Storage) /\ Len(<<s>>) = 1 /\ <<s>>[1] = s
  OBVIOUS
<1>2. Recs(<<s>>) \in Seq(Seq(Nat)) /\ Len(Recs(<<s>>)) = 1 /\ Recs(<<s>>)[1] = s.recs
  <2> DEFINE one == <<s>>
  <2>1. one \in Seq(Storage) /\ Len(one) = 1 /\ one[1] = s
    BY <1>1
  <2> HIDE DEF one
  <2>2. Recs(one) \in Seq(Seq(Nat)) /\ Len(Recs(one)) = 1 /\ Recs(one)[1] = s.recs
    BY <2>1, RecsType
  <2> QED BY <2>2 DEF one
<1>3. Recs(<<s>>) = <<s.recs>>
  BY <1>2
<1>4. s.recs \in Seq(Nat)
  BY DEF Storage
<1> QED BY <1>3, <1>4, FlattenOne DEF Waiting

LEMMA WaitingAppend ==
  ASSUME NEW list \in Seq(Storage), NEW s \in Storage
  PROVE  Waiting(Append(list, s)) = Waiting(list) \o s.recs
<1>1. /\ Append(list, s) \in Seq(Storage) /\ Len(list) \in Nat
      /\ Len(Append(list, s)) = Len(list) + 1
      /\ \A i \in 1 .. Len(list) : Append(list, s)[i] = list[i]
      /\ Append(list, s)[Len(list) + 1] = s
  OBVIOUS
<1>2. s.recs \in Seq(Nat) /\ Recs(list) \in Seq(Seq(Nat))
  BY RecsType DEF Storage
<1>3. /\ Recs(Append(list, s)) \in Seq(Seq(Nat))
      /\ Len(Recs(Append(list, s))) = Len(list) + 1
      /\ \A i \in 1 .. Len(list) + 1 :
           Recs(Append(list, s))[i] = Append(list, s)[i].recs
  BY <1>1, RecsType
<1>4. /\ Append(Recs(list), s.recs) \in Seq(Seq(Nat))
      /\ Len(Append(Recs(list), s.recs)) = Len(list) + 1
      /\ \A i \in 1 .. Len(list) : Append(Recs(list), s.recs)[i] = list[i].recs
      /\ Append(Recs(list), s.recs)[Len(list) + 1] = s.recs
  <2>1. Len(Recs(list)) = Len(list) /\ \A i \in 1 .. Len(list) : Recs(list)[i] = list[i].recs
    BY RecsType
  <2> HIDE DEF Recs
  <2> QED BY <1>2, <2>1
<1>5. Recs(Append(list, s)) = Append(Recs(list), s.recs)
  <2>1. \A i \in 1 .. Len(list) + 1 :
          Recs(Append(list, s))[i] = Append(Recs(list), s.recs)[i]
    <3> TAKE i \in 1 .. Len(list) + 1
    <3>1. CASE i = Len(list) + 1
      BY <1>1, <1>3, <1>4, <3>1
    <3>2. CASE i # Len(list) + 1
      <4>1. i \in 1 .. Len(list)
        BY <1>1, <3>2
      <4> QED BY <1>1, <1>3, <1>4, <4>1
    <3> QED BY <3>1, <3>2
  <2> QED BY <1>3, <1>4, <2>1, SeqEqual
<1> QED BY <1>2, <1>5, FlattenAppend DEF Waiting

LEMMA WaitingTail ==
  ASSUME NEW list \in Seq(Storage), Len(list) > 0
  PROVE  Waiting(list) = Head(list).recs \o Waiting(Tail(list))
<1>1. /\ Tail(list) \in Seq(Storage) /\ Len(Tail(list)) = Len(list) - 1
      /\ \A i \in 1 .. Len(list) - 1 : Tail(list)[i] = list[i + 1]
      /\ Head(list) = list[1] /\ Len(list) \in Nat
  OBVIOUS
<1>2. /\ Recs(list) \in Seq(Seq(Nat)) /\ Len(Recs(list)) = Len(list)
      /\ \A i \in 1 .. Len(list) : Recs(list)[i] = list[i].recs
  BY RecsType
<1>3. /\ Recs(Tail(list)) \in Seq(Seq(Nat)) /\ Len(Recs(Tail(list))) = Len(list) - 1
      /\ \A i \in 1 .. Len(list) - 1 : Recs(Tail(list))[i] = Tail(list)[i].recs
  BY <1>1, RecsType
<1> HIDE DEF Recs
<1>4. /\ Tail(Recs(list)) \in Seq(Seq(Nat)) /\ Len(Tail(Recs(list))) = Len(list) - 1
      /\ \A i \in 1 .. Len(list) - 1 : Tail(Recs(list))[i] = Recs(list)[i + 1]
      /\ Head(Recs(list)) = Recs(list)[1]
  BY <1>1, <1>2
<1>5. Recs(Tail(list)) = Tail(Recs(list))
  <2>1. \A i \in 1 .. Len(list) - 1 : Recs(Tail(list))[i] = Tail(Recs(list))[i]
    <3> TAKE i \in 1 .. Len(list) - 1
    <3>1. i + 1 \in 1 .. Len(list)
      BY <1>1
    <3> QED BY <1>1, <1>2, <1>3, <1>4, <3>1
  <2> QED BY <1>3, <1>4, <2>1, SeqEqual
<1>6. Head(Recs(list)) = Head(list).recs
  <2>1. 1 \in 1 .. Len(list)
    BY <1>1
  <2> QED BY <1>1, <1>2, <1>4, <2>1
<1>7. FlattenSeq(Recs(list)) = Head(Recs(list)) \o FlattenSeq(Tail(Recs(list)))
  BY <1>1, <1>2, FlattenTail
<1> QED BY <1>5, <1>6, <1>7 DEF Waiting

-----------------------------------------------------------------------------
(* No record is lost or tested twice.                                      *)

\* An invalid storage holds nothing; the offline policy's hold one set.
Sound(p, storage) ==
  /\ ~storage.valid => storage.recs = <<>>
  /\ p = "offline" => Len(storage.recs) <= 1

AllSound(p, list) == \A i \in 1 .. Len(list) : Sound(p, list[i])

\* Every record that a storage took is, in order, tested, with the test thread
\* or waiting.  The test thread takes a storage only when it has finished the
\* one before; the offline policy fills the storage only when it is empty, and
\* nothing waits in it when the end of the file is met.
RecordsInv ==
  /\ accepted \in Seq(Nat) /\ tested \in Seq(Nat)
  /\ accepted = tested \o held.recs \o Waiting(buffers)
  /\ Sound(policy, held)
  /\ AllSound(policy, buffers)
  /\ test \in {"loop", "get", "pop"} \/ main \in {"entry", "assign"} => held.recs = <<>>
  /\ policy = "offline" /\ recordMutex = 0 => buffers = <<>>
  /\ work = "ended" => policy = "offline" /\ recordMutex = 0

LEMMA NewStorageIsSound == NewStorage.recs = <<>> /\ \A p : Sound(p, NewStorage)
BY DEF NewStorage, Sound

LEMMA SoundEmpty == \A p : AllSound(p, <<>>)
BY DEF AllSound

LEMMA SoundOne ==
  ASSUME NEW p, NEW s, Sound(p, s)
  PROVE  AllSound(p, <<s>>)
<1>1. Len(<<s>>) = 1 /\ <<s>>[1] = s
  OBVIOUS
<1>2. \A i \in 1 .. Len(<<s>>) : <<s>>[i] = s
  BY <1>1
<1> QED BY <1>2 DEF AllSound

LEMMA SoundAppend ==
  ASSUME NEW p, NEW list \in Seq(Storage), NEW s, AllSound(p, list), Sound(p, s)
  PROVE  AllSound(p, Append(list, s))
<1>1. /\ Len(Append(list, s)) = Len(list) + 1 /\ Len(list) \in Nat
      /\ Append(list, s)[Len(list) + 1] = s
      /\ \A i \in 1 .. Len(list) : Append(list, s)[i] = list[i]
  OBVIOUS
<1>2. ASSUME NEW i \in 1 .. Len(list) + 1
      PROVE  Sound(p, Append(list, s)[i])
  <2>1. CASE i = Len(list) + 1
    BY <1>1, <2>1
  <2>2. CASE i \in 1 .. Len(list)
    BY <1>1, <2>2 DEF AllSound
  <2> QED BY <1>1, <2>1, <2>2
<1> QED BY <1>1, <1>2 DEF AllSound

LEMMA SoundTail ==
  ASSUME NEW p, NEW list \in Seq(Storage), Len(list) > 0, AllSound(p, list)
  PROVE  Sound(p, Head(list)) /\ AllSound(p, Tail(list))
<1>1. /\ Len(Tail(list)) = Len(list) - 1 /\ Len(list) \in Nat /\ Head(list) = list[1]
      /\ \A i \in 1 .. Len(list) - 1 : Tail(list)[i] = list[i + 1]
  OBVIOUS
<1>2. ASSUME NEW i \in 1 .. Len(list) - 1
      PROVE  Sound(p, Tail(list)[i])
  <2>1. i + 1 \in 1 .. Len(list)
    BY <1>1
  <2> QED BY <1>1, <2>1 DEF AllSound
<1>3. Sound(p, list[1])
  <2>1. 1 \in 1 .. Len(list)
    BY <1>1
  <2> QED BY <2>1 DEF AllSound
<1> QED BY <1>1, <1>2, <1>3 DEF AllSound

\* Sequences of records.
LEMMA OnlyElement ==
  ASSUME NEW S, NEW list \in Seq(S), Len(list) = 1
  PROVE  list[1] \in S /\ list = <<list[1]>>
<1>1. list[1] \in S
  OBVIOUS
<1>2. <<list[1]>> \in Seq(S) /\ Len(<<list[1]>>) = 1 /\ <<list[1]>>[1] = list[1]
  BY <1>1
<1>3. \A i \in 1 .. Len(list) : list[i] = <<list[1]>>[i]
  BY <1>2
<1> QED BY <1>1, <1>2, <1>3, SeqEqual

LEMMA AppendLast ==
  ASSUME NEW a \in Seq(Nat), NEW x \in Nat
  PROVE  Append(a, x) = a \o <<x>> /\ Append(a, x) \in Seq(Nat) /\ Append(<<>>, x) = <<x>>
OBVIOUS

LEMMA ConcatAssociates ==
  ASSUME NEW a \in Seq(Nat), NEW b \in Seq(Nat), NEW c \in Seq(Nat)
  PROVE  a \o (b \o c) = (a \o b) \o c
BY ConcatAssociative, SMTT(30)

LEMMA AppendInside ==
  ASSUME NEW a \in Seq(Nat), NEW b \in Seq(Nat), NEW c \in Seq(Nat), NEW x \in Nat
  PROVE  Append(a \o (b \o c), x) = a \o (b \o Append(c, x))
<1> DEFINE z == <<x>>
<1>1. z \in Seq(Nat) /\ b \o c \in Seq(Nat) /\ a \o (b \o c) \in Seq(Nat)
      /\ c \o z \in Seq(Nat)
  OBVIOUS
<1>2. Append(a \o (b \o c), x) = (a \o (b \o c)) \o z /\ Append(c, x) = c \o z
  BY <1>1, AppendLast
<1> HIDE DEF z
<1>3. (a \o (b \o c)) \o z = a \o ((b \o c) \o z)
  BY <1>1, ConcatAssociates, SMTT(30)
<1>4. (b \o c) \o z = b \o (c \o z)
  BY <1>1, ConcatAssociates, ZenonT(40)
<1> QED BY <1>2, <1>3, <1>4, Zenon

LEMMA ConcatEmpty ==
  ASSUME NEW a \in Seq(Nat)
  PROVE  a \o <<>> = a /\ <<>> \o a = a
BY ConcatEmptySeq

LEMMA RecordsInit == Init => RecordsInv
<1> SUFFICES ASSUME Init PROVE RecordsInv
  OBVIOUS
<1>1. accepted = <<>> /\ tested = <<>> /\ held = NewStorage /\ held.recs = <<>>
      /\ Sound(policy, held)
  BY NewStorageIsSound DEF Init
<1>2. buffers = <<NewStorage>> \/ buffers = <<>>
  BY DEF Init
<1>3. Waiting(buffers) = <<>>
  BY <1>2, WaitingEmpty, WaitingOne, NewStorageIsWhole, NewStorageIsSound
<1>4. AllSound(policy, buffers)
  BY <1>2, SoundEmpty, SoundOne, NewStorageIsSound
<1>5. accepted = tested \o held.recs \o Waiting(buffers)
  BY <1>1, <1>3
<1>6. work # "ended" /\ (policy = "offline" => buffers = <<>>)
  BY DEF Init
<1> QED BY <1>1, <1>4, <1>5, <1>6 DEF RecordsInv

\* Steps that leave the records where they are.
LEMMA RecordsFrame ==
  ASSUME RecordsInv, UNCHANGED <<policy, buffers, held, accepted, tested, recordMutex>>,
         work' = "ended" => work = "ended",
         test' \in {"loop", "get", "pop"} \/ main' \in {"entry", "assign"} =>
           test \in {"loop", "get", "pop"} \/ main \in {"entry", "assign"}
  PROVE  RecordsInv'
BY DEF RecordsInv

LEMMA RecordsMain == IInv /\ RecordsInv /\ (MainThread \/ SigTerm) => RecordsInv'
<1> SUFFICES ASSUME IInv, RecordsInv, MainThread \/ SigTerm PROVE RecordsInv'
  OBVIOUS
<1>1. CASE CheckState
  BY <1>1, RecordsFrame DEF CheckState, locks, history
<1>2. CASE StartThreads
  BY <1>2, RecordsFrame DEF StartThreads, locks, history
<1>3. CASE CancelTest
  BY <1>3, RecordsFrame DEF CancelTest, locks, history
<1>4. CASE CancelWork
  BY <1>4, RecordsFrame DEF CancelWork, locks, history
<1>5. CASE SigTerm
  BY <1>5, RecordsFrame DEF SigTerm, locks, history, threads
<1> QED BY <1>1, <1>2, <1>3, <1>4, <1>5 DEF MainThread

LEMMA RecordsWorking == IInv /\ RecordsInv /\ WorkingThread => RecordsInv'
<1> SUFFICES ASSUME IInv, RecordsInv, WorkingThread PROVE RecordsInv'
  OBVIOUS
<1>0. /\ buffers \in Seq(Storage) /\ held \in Storage /\ held.recs \in Seq(Nat)
      /\ arrived \in Nat /\ Waiting(buffers) \in Seq(Nat)
      /\ accepted \in Seq(Nat) /\ tested \in Seq(Nat)
      /\ tested \o held.recs \in Seq(Nat)
      /\ accepted = tested \o held.recs \o Waiting(buffers)
  <2>1. buffers \in Seq(Storage) /\ held \in Storage /\ arrived \in Nat
    BY DEF IInv, Types
  <2>2. held.recs \in Seq(Nat)
    BY <2>1 DEF Storage
  <2>3. Waiting(buffers) \in Seq(Nat)
    BY <2>1, WaitingType
  <2>4. accepted \in Seq(Nat) /\ tested \in Seq(Nat)
        /\ accepted = tested \o held.recs \o Waiting(buffers)
    BY DEF RecordsInv
  <2> QED BY <2>1, <2>2, <2>3, <2>4
<1>1. CASE NextRound
  BY <1>1, RecordsFrame DEF NextRound, locks, history
<1>2. CASE Wait
  BY <1>2, RecordsFrame DEF Wait, locks, history
<1>3. CASE BeginImport
  BY <1>3, RecordsFrame DEF BeginImport, locks, history
<1>4. CASE EndImport
  BY <1>4, RecordsFrame DEF EndImport, locks, history
<1>5. CASE OfflineWait
  <2>1. /\ UNCHANGED <<policy, main, test, buffers, recordMutex, held, accepted, tested>>
        /\ policy = "offline" /\ packetLock = 1
    BY <1>5 DEF OfflineWait, BufferLockFree, history
  <2>2. recordMutex = 0
    BY <2>1 DEF IInv, Types, Locks
  <2> QED BY <2>1, <2>2 DEF RecordsInv
<1>6. CASE GetBuffer
  <2> DEFINE front == IF policy = "unbuffered" THEN buffers ELSE <<>>
             fresh == IF policy = "unbuffered" THEN NewStorage ELSE buffers[1]
  <2>1. /\ work = "records" /\ arrived' = arrived + 1
        /\ UNCHANGED <<policy, main, test, held, tested>>
    BY <1>6 DEF GetBuffer
  <2>2. policy \in {"buffered", "unbuffered"}
    BY <2>1 DEF IInv, Types, Steps
  <2>3. CASE BufferIsFull
    BY <1>6, <2>1, <2>3, RecordsFrame DEF GetBuffer, locks
  <2>4. CASE ~BufferIsFull
    <3>1. /\ front \in Seq(Storage) /\ fresh \in Storage
          /\ Waiting(buffers) = Waiting(front) \o fresh.recs
          /\ Sound(policy, fresh) /\ AllSound(policy, front)
      <4>1. CASE policy = "unbuffered"
        <5>1. front = buffers /\ fresh = NewStorage
          BY <4>1
        <5>2. Waiting(buffers) \o <<>> = Waiting(buffers)
          BY <1>0, ConcatEmpty
        <5> HIDE DEF front, fresh
        <5> QED
          BY <1>0, <5>1, <5>2, NewStorageIsSound, NewStorageIsWhole DEF RecordsInv
      <4>2. CASE policy = "buffered"
        <5>1. Len(buffers) = 1
          BY <4>2 DEF IInv, Locks
        <5>2. buffers[1] \in Storage /\ buffers = <<buffers[1]>>
          BY <1>0, <5>1, OnlyElement
        <5>3. Waiting(buffers) = buffers[1].recs
          BY <5>2, WaitingOne
        <5>4. front = <<>> /\ fresh = buffers[1]
          BY <4>2
        <5>5. buffers[1].recs \in Seq(Nat)
          BY <5>2 DEF Storage
        <5>6. <<>> \o buffers[1].recs = buffers[1].recs
          BY <5>5, ConcatEmpty
        <5>7. Sound(policy, buffers[1])
          BY <5>1 DEF RecordsInv, AllSound
        <5> HIDE DEF front, fresh
        <5>8. Waiting(buffers) = Waiting(front) \o fresh.recs
          BY <5>3, <5>4, <5>6, WaitingEmpty
        <5>9. front \in Seq(Storage) /\ AllSound(policy, front)
          BY <5>4, EmptyIsWhole, SoundEmpty
        <5> QED BY <5>2, <5>4, <5>7, <5>8, <5>9
      <4> QED BY <2>2, <4>1, <4>2
    <3> HIDE DEF front, fresh
    <3>2. fresh.recs \in Seq(Nat) /\ Waiting(front) \in Seq(Nat)
      BY <3>1, WaitingType DEF Storage
    <3>3. CASE /\ buffers' = Append(front, Written(fresh))
               /\ accepted' = Append(accepted, arrived + 1)
               /\ recordMutex' = 0 /\ work' = "write"
      <4>1. /\ Written(fresh) \in Storage
            /\ Written(fresh).recs = Append(fresh.recs, arrived + 1)
            /\ Written(fresh).valid = TRUE
        BY <1>0, <3>1, WrittenIsStorage DEF Written
      <4>2. Waiting(buffers') = Waiting(front) \o Append(fresh.recs, arrived + 1)
        BY <3>1, <3>3, <4>1, WaitingAppend
      <4>3. accepted' = tested \o held.recs \o Waiting(buffers')
        <5>1. PICK a \in Seq(Nat), b \in Seq(Nat), c \in Seq(Nat), x \in Nat :
                /\ a = tested \o held.recs /\ b = Waiting(front) /\ c = fresh.recs
                /\ x = arrived + 1
          <6>1. arrived + 1 \in Nat
            BY <1>0
          <6> QED BY <1>0, <3>2, <6>1, Zenon
        <5>2. Append(a \o (b \o c), x) = a \o (b \o Append(c, x))
          BY AppendInside, ZenonT(40)
        <5>3. accepted = a \o (b \o c)
          BY <1>0, <3>1, <5>1, Zenon
        <5> QED BY <3>3, <4>2, <5>1, <5>2, <5>3, Zenon
      <4>4. accepted' \in Seq(Nat)
        BY <1>0, <3>3, AppendLast
      <4>5. Sound(policy, Written(fresh))
        BY <2>2, <4>1 DEF Sound
      <4>6. AllSound(policy, buffers')
        BY <3>1, <3>3, <4>5, SoundAppend
      <4> QED
        BY <1>0, <2>1, <2>2, <3>3, <4>3, <4>4, <4>6 DEF RecordsInv
    <3>4. CASE /\ buffers' = Append(front, fresh)
               /\ UNCHANGED <<recordMutex, work, accepted>>
      <4>1. Waiting(buffers') = Waiting(buffers)
        BY <3>1, <3>4, WaitingAppend
      <4>2. AllSound(policy, buffers')
        BY <3>1, <3>4, SoundAppend
      <4> QED
        BY <2>1, <2>2, <3>4, <4>1, <4>2 DEF RecordsInv
    <3> QED BY <1>6, <2>4, <3>3, <3>4 DEF GetBuffer, front, fresh
  <2> QED BY <2>3, <2>4
<1>7. CASE RecordEnd
  <2>1. /\ work = "write" /\ work' = "records" /\ recordMutex' = 1
        /\ UNCHANGED <<policy, main, test, held, accepted, tested>>
        /\ buffers' = [i \in DOMAIN buffers |->
                         IF i = Len(buffers) THEN [buffers[i] EXCEPT !.whole = TRUE]
                                             ELSE buffers[i]]
    BY <1>7 DEF RecordEnd, history
  <2>2. policy # "offline"
    BY <2>1 DEF IInv, Steps
  <2>3. /\ buffers' \in Seq(Storage) /\ Len(buffers') = Len(buffers)
        /\ DOMAIN buffers = 1 .. Len(buffers)
    <3>1. AllButLastWhole(buffers) /\ Len(buffers) > 0
      BY <2>1 DEF IInv, WholeInv
    <3>2. PICK ended : ended = buffers'
      OBVIOUS
    <3>3. ended \in Seq(Storage) /\ Len(ended) = Len(buffers)
      BY <1>0, <2>1, <3>1, <3>2, EndLast
    <3>4. DOMAIN buffers = 1 .. Len(buffers)
      BY <1>0
    <3> QED BY <3>2, <3>3, <3>4
  <2>4. ASSUME NEW i \in 1 .. Len(buffers)
        PROVE  buffers'[i].recs = buffers[i].recs /\ buffers'[i].valid = buffers[i].valid
    <3>1. buffers[i] \in Storage
      BY <1>0
    <3>2. /\ [buffers[i] EXCEPT !.whole = TRUE].recs = buffers[i].recs
          /\ [buffers[i] EXCEPT !.whole = TRUE].valid = buffers[i].valid
      BY <3>1 DEF Storage
    <3> QED BY <2>1, <2>3, <3>2
  <2>5. Recs(buffers') = Recs(buffers)
    <3>1. /\ Recs(buffers') \in Seq(Seq(Nat)) /\ Len(Recs(buffers')) = Len(buffers)
          /\ \A i \in 1 .. Len(buffers) : Recs(buffers')[i] = buffers'[i].recs
      <4> DEFINE ended == buffers'
      <4>1. ended \in Seq(Storage) /\ Len(ended) = Len(buffers)
        BY <2>3
      <4> HIDE DEF ended
      <4>2. /\ Recs(ended) \in Seq(Seq(Nat)) /\ Len(Recs(ended)) = Len(buffers)
            /\ \A i \in 1 .. Len(buffers) : Recs(ended)[i] = ended[i].recs
        BY <4>1, RecsType
      <4> QED BY <4>2 DEF ended
    <3>2. /\ Recs(buffers) \in Seq(Seq(Nat)) /\ Len(Recs(buffers)) = Len(buffers)
          /\ \A i \in 1 .. Len(buffers) : Recs(buffers)[i] = buffers[i].recs
      BY <1>0, RecsType
    <3>3. \A i \in 1 .. Len(buffers) : Recs(buffers')[i] = Recs(buffers)[i]
      BY <2>4, <3>1, <3>2, Zenon
    <3> QED BY <3>1, <3>2, <3>3, SeqEqual
  <2>6. AllSound(policy, buffers')
    <3>1. AllSound(policy, buffers)
      BY DEF RecordsInv
    <3> QED BY <2>3, <2>4, <3>1 DEF AllSound, Sound
  <2>7. Waiting(buffers') = Waiting(buffers)
    BY <2>5, Zenon DEF Waiting
  <2> QED BY <2>1, <2>2, <2>6, <2>7 DEF RecordsInv
<1>8. CASE OfflineImport
  <2>1. /\ work = "importFile" /\ work' = "loop" /\ recordMutex' = recordMutex + 1
        /\ UNCHANGED <<policy, main, test, held, tested>>
    BY <1>8 DEF OfflineImport
  <2>2. policy = "offline" /\ recordMutex = 0 /\ recordMutex' # 0
    BY <2>1 DEF IInv, Steps, Locks
  <2>3. Waiting(buffers) = <<>>
    <3>1. buffers = <<>>
      BY <2>2 DEF RecordsInv
    <3> QED BY <3>1, WaitingEmpty, Zenon
  <2>4. accepted = tested \o held.recs
    BY <1>0, <2>3, ConcatEmpty
  <2>5. CASE /\ arrived' = arrived + 1
             /\ buffers' = <<[Written(NewStorage) EXCEPT !.whole = TRUE]>>
             /\ accepted' = Append(accepted, arrived + 1)
    <3> DEFINE s == [Written(NewStorage) EXCEPT !.whole = TRUE]
    <3>1. s \in Storage
      BY <1>0, NewStorageIsWhole, WrittenIsStorage
    <3>2. s.recs = <<arrived + 1>> /\ s.valid = TRUE
      <4>1. s.recs = Append(<<>>, arrived + 1) /\ s.valid = TRUE
        BY DEF Written, NewStorage
      <4>2. arrived + 1 \in Nat /\ accepted \in Seq(Nat)
        BY <1>0
      <4>3. Append(<<>>, arrived + 1) = <<arrived + 1>>
        BY <4>2, AppendLast
      <4> QED BY <4>1, <4>3
    <3>3. buffers' = <<s>>
      BY <2>5
    <3> HIDE DEF s
    <3>4. Waiting(buffers') = <<arrived + 1>>
      <4>1. Waiting(<<s>>) = s.recs
        BY <3>1, WaitingOne
      <4> QED BY <3>2, <3>3, <4>1, Zenon
    <3>5. accepted' = accepted \o <<arrived + 1>> /\ accepted' \in Seq(Nat)
      <4>1. arrived + 1 \in Nat
        BY <1>0
      <4> QED BY <1>0, <2>5, <4>1, AppendLast
    <3>6. Sound(policy, s)
      BY <3>2 DEF Sound
    <3>7. AllSound(policy, buffers')
      BY <3>3, <3>6, SoundOne
    <3>8. accepted' = tested \o held.recs \o Waiting(buffers')
      BY <2>4, <3>4, <3>5, Zenon
    <3> QED
      BY <2>1, <2>2, <3>5, <3>7, <3>8 DEF RecordsInv
  <2>6. CASE buffers' = <<NewStorage>> /\ UNCHANGED <<arrived, accepted>>
    <3>1. Waiting(buffers') = <<>>
      <4>1. Waiting(<<NewStorage>>) = <<>>
        BY WaitingOne, NewStorageIsWhole, NewStorageIsSound
      <4> QED BY <2>6, <4>1, Zenon
    <3>2. AllSound(policy, buffers')
      BY <2>6, SoundOne, NewStorageIsSound
    <3>3. accepted' = tested \o held.recs \o Waiting(buffers')
      BY <1>0, <2>3, <2>6, <3>1, Zenon
    <3> QED
      BY <2>1, <2>2, <2>6, <3>2, <3>3 DEF RecordsInv
  <2> QED BY <1>8, <2>5, <2>6 DEF OfflineImport
<1> QED
  BY <1>1, <1>2, <1>3, <1>4, <1>5, <1>6, <1>7, <1>8 DEF WorkingThread

LEMMA RecordsTest == IInv /\ RecordsInv /\ TestThread => RecordsInv'
<1> SUFFICES ASSUME IInv, RecordsInv, TestThread PROVE RecordsInv'
  OBVIOUS
<1>0. /\ buffers \in Seq(Storage) /\ held \in Storage /\ held.recs \in Seq(Nat)
      /\ Waiting(buffers) \in Seq(Nat)
      /\ accepted \in Seq(Nat) /\ tested \in Seq(Nat)
      /\ accepted = tested \o held.recs \o Waiting(buffers)
  <2>1. buffers \in Seq(Storage) /\ held \in Storage
    BY DEF IInv, Types
  <2>2. held.recs \in Seq(Nat)
    BY <2>1 DEF Storage
  <2>3. Waiting(buffers) \in Seq(Nat)
    BY <2>1, WaitingType
  <2>4. accepted \in Seq(Nat) /\ tested \in Seq(Nat)
        /\ accepted = tested \o held.recs \o Waiting(buffers)
    BY DEF RecordsInv
  <2> QED BY <2>1, <2>2, <2>3, <2>4
<1>1. CASE NextTest
  BY <1>1, RecordsFrame DEF NextTest, locks, history
<1>2. CASE TakePost
  BY <1>2, RecordsFrame DEF TakePost, locks, history
<1>3. ASSUME NEW first \in Storage, NEW rest \in Seq(Storage),
             Waiting(buffers) = first.recs \o Waiting(rest),
             Sound(policy, first), AllSound(policy, rest),
             test \in {"get", "pop"}, test' = "got",
             held' = first, buffers' = rest,
             policy = "offline" => recordMutex = 1 /\ rest = <<>>,
             UNCHANGED <<policy, main, work, accepted, tested>>
      PROVE  RecordsInv'
  <2>1. held.recs = <<>> /\ main' \notin {"entry", "assign"}
    BY <1>3 DEF RecordsInv, IInv, Steps
  <2>2. first.recs \in Seq(Nat) /\ Waiting(rest) \in Seq(Nat)
    BY WaitingType DEF Storage
  <2>3. accepted = tested \o (first.recs \o Waiting(rest))
    <3>1. tested \o held.recs = tested
      BY <1>0, <2>1, ConcatEmpty, Zenon
    <3> QED BY <1>0, <1>3, <3>1, Zenon
  <2>4. accepted = (tested \o first.recs) \o Waiting(rest)
    BY <1>0, <2>2, <2>3, ConcatAssociates
  <2>5. work # "ended"
    BY <1>3 DEF RecordsInv
  <2>6. accepted' = tested' \o held'.recs \o Waiting(buffers')
    BY <1>3, <2>4, Zenon
  <2> QED BY <1>3, <1>0, <2>1, <2>5, <2>6 DEF RecordsInv
<1>4. CASE SwapBuffer
  <2>1. /\ policy = "buffered" /\ test = "get" /\ test' = "got"
        /\ held' = buffers[1] /\ buffers' = <<NewStorage>>
        /\ UNCHANGED <<policy, main, work, accepted, tested>>
    BY <1>4 DEF SwapBuffer, history
  <2>2. Len(buffers) = 1
    BY <2>1 DEF IInv, Locks
  <2>3. buffers[1] \in Storage /\ buffers = <<buffers[1]>>
    BY <1>0, <2>2, OnlyElement
  <2>4. Waiting(buffers) = buffers[1].recs /\ buffers[1].recs \in Seq(Nat)
    BY <2>3, WaitingOne DEF Storage
  <2>5. Waiting(<<NewStorage>>) = <<>>
    BY WaitingOne, NewStorageIsWhole, NewStorageIsSound
  <2>6. Waiting(buffers) = buffers[1].recs \o Waiting(<<NewStorage>>)
    BY <2>4, <2>5, ConcatEmpty
  <2>7. Sound(policy, buffers[1])
    BY <2>2 DEF RecordsInv, AllSound
  <2>8. <<NewStorage>> \in Seq(Storage) /\ AllSound(policy, <<NewStorage>>)
    BY NewStorageIsWhole, NewStorageIsSound, SoundOne, OneStorage
  <2> QED BY <1>3, <2>1, <2>3, <2>6, <2>7, <2>8
<1>5. CASE PopFront
  <2>1. /\ test = "pop" /\ test' = "got"
        /\ held' = Head(buffers) /\ buffers' = Tail(buffers)
        /\ UNCHANGED <<policy, main, work, accepted, tested>>
    BY <1>5 DEF PopFront, history
  <2>2. policy = "unbuffered"
    BY <2>1 DEF IInv, Steps
  <2>3. Len(buffers) > 0
    <3>1. packetLock < Len(buffers) /\ packetLock \in Nat
      BY <2>1, <2>2 DEF IInv, PostsInv, Types
    <3> QED BY <1>0, <3>1
  <2>4. Head(buffers) \in Storage /\ Tail(buffers) \in Seq(Storage)
    BY <1>0, <2>3, TakeFirst
  <2>5. Waiting(buffers) = Head(buffers).recs \o Waiting(Tail(buffers))
    BY <1>0, <2>3, WaitingTail
  <2>6. Sound(policy, Head(buffers)) /\ AllSound(policy, Tail(buffers))
    BY <1>0, <2>3, SoundTail DEF RecordsInv
  <2> QED BY <1>3, <2>1, <2>2, <2>4, <2>5, <2>6
<1>6. CASE OfflineTake
  <2>1. /\ policy = "offline" /\ test = "get" /\ test' = "got" /\ recordMutex > 0
        /\ held' = buffers[1] /\ buffers' = <<>>
        /\ UNCHANGED <<policy, main, work, accepted, tested>>
    BY <1>6 DEF OfflineTake, history
  <2>2. recordMutex = 1 /\ Len(buffers) = 1
    <3>1. recordMutex = 1
      BY <2>1 DEF IInv, Types, Locks
    <3> QED BY <2>1, <3>1 DEF IInv, Locks
  <2>3. buffers[1] \in Storage /\ buffers = <<buffers[1]>>
    BY <1>0, <2>2, OnlyElement
  <2>4. Waiting(buffers) = buffers[1].recs /\ buffers[1].recs \in Seq(Nat)
    BY <2>3, WaitingOne DEF Storage
  <2>5. Waiting(buffers) = buffers[1].recs \o Waiting(<<>>)
    BY <2>4, WaitingEmpty, ConcatEmpty
  <2>6. Sound(policy, buffers[1])
    BY <2>2 DEF RecordsInv, AllSound
  <2>7. <<>> \in Seq(Storage) /\ AllSound(policy, <<>>)
    BY EmptyIsWhole, SoundEmpty
  <2> QED BY <1>3, <2>1, <2>2, <2>3, <2>5, <2>6, <2>7
<1>7. CASE RunTest
  <2>1. /\ test = "got" /\ test' = "loop" /\ held' = NewStorage
        /\ tested' = IF alarmTime = "interval" \/ held.valid THEN tested \o held.recs
                                                             ELSE tested
        /\ UNCHANGED <<policy, main, work, buffers, recordMutex, accepted>>
    BY <1>7 DEF RunTest, locks
  <2>2. tested' = tested \o held.recs
    <3>1. CASE held.valid
      BY <2>1, <3>1
    <3>2. CASE ~held.valid
      <4>1. held.recs = <<>>
        BY <3>2 DEF RecordsInv, Sound
      <4>2. tested \o held.recs = tested
        BY <1>0, <4>1, ConcatEmpty
      <4> QED BY <2>1, <4>2
    <3> QED BY <3>1, <3>2
  <2>3. tested' \in Seq(Nat)
    BY <1>0, <2>2
  <2>4. held'.recs = <<>> /\ Sound(policy, held')
    BY <2>1, NewStorageIsSound
  <2>5. tested' \o held'.recs = tested'
    BY <2>3, <2>4, ConcatEmpty
  <2>6. accepted' = tested' \o held'.recs \o Waiting(buffers')
    BY <1>0, <2>1, <2>2, <2>5, Zenon
  <2> QED BY <1>0, <2>1, <2>3, <2>4, <2>6 DEF RecordsInv
<1> QED
  BY <1>1, <1>2, <1>4, <1>5, <1>6, <1>7 DEF TestThread

LEMMA RecordsNext == IInv /\ RecordsInv /\ [Next]_vars => RecordsInv'
<1> SUFFICES ASSUME IInv, RecordsInv, [Next]_vars PROVE RecordsInv'
  OBVIOUS
<1>1. CASE UNCHANGED vars
  BY <1>1, RecordsFrame DEF vars, threads, locks, history
<1>2. CASE MainThread \/ SigTerm
  BY <1>2, RecordsMain
<1>3. CASE WorkingThread
  BY <1>3, RecordsWorking
<1>4. CASE TestThread
  BY <1>4, RecordsTest
<1> QED BY <1>1, <1>2, <1>3, <1>4 DEF Next, Returned, Starved

LEMMA OneMore ==
  ASSUME NEW a \in Seq(Nat), NEW b \in Seq(Nat), Len(b) <= 1
  PROVE  Len(a) + 1 >= Len(a \o b)
OBVIOUS

\* The beginning of a concatenation is its first operand.
LEMMA PrefixOfConcat ==
  ASSUME NEW a \in Seq(Nat), NEW b \in Seq(Nat)
  PROVE  IsPrefix(a, a \o b)
<1>1. Len(a) \in Nat /\ Len(b) \in Nat /\ Len(a \o b) = Len(a) + Len(b)
  OBVIOUS
<1>2. \A i \in 1..Len(a) : (a \o b)[i] = a[i]
  OBVIOUS
<1>3. SubSeq(a, 1, Len(a)) = SubSeq(a \o b, 1, Len(a))
  BY <1>1, <1>2
<1> QED BY <1>1, <1>3 DEF IsPrefix

\* RecordsSurvive: in each of the three input policies every record that a
\* storage took (newDataRecordArrived, importToStorage of the offline policy) is
\* tested once and in order, or still with the live test thread or in a storage,
\* when signals, stop() and the cancellation of the threads fall between any two
\* steps; what a cancelled test thread leaves is the end of what was accepted,
\* and the end of the offline file is met with one set at most untested.
THEOREM RecordsAreNotLost == Spec => []RecordsSurvive
<1>1. IInv /\ RecordsInv => RecordsSurvive
  <2> SUFFICES ASSUME IInv, RecordsInv PROVE RecordsSurvive
    OBVIOUS
  <2>0. /\ held.recs \in Seq(Nat) /\ tested \in Seq(Nat)
        /\ accepted = (tested \o held.recs) \o Waiting(buffers)
        /\ Waiting(buffers) \in Seq(Nat)
    BY WaitingType DEF IInv, Types, Storage, RecordsInv
  <2>1. accepted = tested \o (held.recs \o Waiting(buffers))
    BY <2>0, ConcatAssociates
  <2>2. Untested = held.recs \o Waiting(buffers) /\ Untested \in Seq(Nat)
    BY <2>0 DEF Untested, Waiting, Recs
  <2>3. accepted = tested \o Untested /\ IsPrefix(tested, accepted)
    BY <2>0, <2>1, <2>2, PrefixOfConcat, Zenon
  <2>4. ASSUME work = "ended" PROVE Len(tested) + 1 >= Len(accepted)
    <3>1. policy = "offline" /\ buffers = <<>>
      BY <2>4 DEF RecordsInv
    <3>2. Waiting(buffers) = <<>>
      BY <3>1, WaitingEmpty, Zenon
    <3>3. (tested \o held.recs) \o <<>> = tested \o held.recs
      <4>1. tested \o held.recs \in Seq(Nat)
        BY <2>0
      <4> QED BY <4>1, ConcatEmpty
    <3>4. accepted = tested \o held.recs
      BY <2>0, <3>2, <3>3, Zenon
    <3>5. Len(held.recs) <= 1
      BY <3>1 DEF RecordsInv, Sound
    <3> QED BY <2>0, <3>4, <3>5, OneMore
  <2> QED BY <2>3, <2>4 DEF RecordsSurvive
<1> QED
  BY InitIInv, NextIInv, RecordsInit, RecordsNext, <1>1, PTL DEF Spec
=============================================================================
