------------------------ MODULE MCModuleSide_proofs ------------------------
(***************************************************************************)
(* What is proved about the components of a detection module as they are   *)
(* put side by side in MCModuleSide.  Every proof has the same frame: an   *)
(* invariant of one component holds because only that component's steps    *)
(* touch its variables.  The sets that bound the runs (Xmls, Files) enter  *)
(* only through the facts named below, which hold of every file.           *)
(***************************************************************************)
EXTENDS MCModuleSide, DetectionBase_proofs, FiniteSetTheorems, TLAPS

-----------------------------------------------------------------------------
(* The Snort module. *)

SnortStates == {"mknod", "fork", "open", "exec", "cleanup", "ended", "crashed"}
SnortProcesses == {"none", "alive", "interrupted", "zombie", "reaped"}

SnortTypes ==
  /\ pc \in [Instances -> SnortStates] /\ snort \in [Instances -> SnortProcesses]
  /\ fifofd \in [Instances -> Instances \cup {Nobody}]
  /\ reads \in [Instances -> Instances \cup {Nobody}]

\* A snort that has not opened the pipe yet keeps its module in fopen: until it
\* ends, nobody removes the name that it is about to open.
SnortAwaited == \A i \in Instances : snort[i] = "alive" /\ reads[i] = Nobody => pc[i] = "open"

SnortHolds == SnortTypes /\ Snort!OwnSnort /\ SnortAwaited

LEMMA SnortBegins == ASSUME Nobody \notin Instances PROVE Snort!Init => SnortHolds
BY DEF Snort!Init, SnortHolds, SnortTypes, Snort!OwnSnort, SnortAwaited, Snort!Running,
       Snort!Starting, SnortStates, SnortProcesses

\* A module that holds the name of the pipe is the only one that runs.
LEMMA OneSnortRuns ==
  ASSUME Snort!OwnSnort,
         NEW i \in Instances, NEW j \in Instances, Snort!Running(i), Snort!Running(j)
  PROVE  i = j
BY DEF Snort!OwnSnort

LEMMA SnortGoesOn ==
  ASSUME Nobody \notin Instances
  PROVE  SnortHolds /\ [Snort!Next]_(Snort!vars) => SnortHolds'
<1> SUFFICES ASSUME SnortHolds, [Snort!Next]_(Snort!vars) PROVE SnortHolds'
  OBVIOUS
<1> USE DEF SnortHolds
<1>1. CASE UNCHANGED Snort!vars
  BY <1>1 DEF Snort!vars, SnortTypes, Snort!OwnSnort, SnortAwaited, Snort!Running
<1>2. ASSUME NEW i \in Instances, Snort!CreateFifo(i) PROVE SnortHolds'
  BY <1>2 DEF Snort!CreateFifo, Snort!Leave, Snort!Go, SnortTypes, SnortStates,
              Snort!OwnSnort, SnortAwaited, Snort!Running, Snort!Starting
<1>3. ASSUME NEW i \in Instances, Snort!Fork(i) PROVE SnortHolds'
  BY <1>3 DEF Snort!Fork, Snort!Go, SnortTypes, SnortStates, SnortProcesses, Snort!OwnSnort,
              SnortAwaited, Snort!Running, Snort!Starting
<1>4. ASSUME NEW i \in Instances, Snort!SnortOpens(i) PROVE SnortHolds'
  <2>1. fifo = i
    BY <1>4 DEF Snort!SnortOpens, SnortAwaited, Snort!OwnSnort, Snort!Running, Snort!Starting
  <2> QED
    BY <1>4, <2>1 DEF Snort!SnortOpens, SnortTypes, Snort!OwnSnort, SnortAwaited, Snort!Running
<1>5. ASSUME NEW i \in Instances, Snort!OpenFifo(i) PROVE SnortHolds'
  <2>1. fifo = i /\ reads[i] = i
    BY <1>5 DEF Snort!OpenFifo, Snort!Go, Snort!OwnSnort, Snort!Running, Snort!Starting
  <2> QED
    BY <1>5, <2>1 DEF Snort!OpenFifo, Snort!Go, SnortTypes, SnortStates, Snort!OwnSnort,
                      SnortAwaited, Snort!Running, Snort!Starting
<1>6. ASSUME NEW i \in Instances, Snort!WritePacket(i) PROVE SnortHolds'
  BY <1>6 DEF Snort!WritePacket, SnortTypes, SnortStates, Snort!OwnSnort, SnortAwaited,
              Snort!Running, Snort!Starting
<1>7. ASSUME NEW i \in Instances, Snort!ExecReturns(i) PROVE SnortHolds'
  BY <1>7 DEF Snort!ExecReturns, Snort!Go, SnortTypes, SnortStates, Snort!OwnSnort,
              SnortAwaited, Snort!Running, Snort!Starting
<1>8. ASSUME NEW i \in Instances, Snort!CleanExit(i) PROVE SnortHolds'
  <2>1. Snort!Running(i)
    BY <1>8 DEF Snort!CleanExit, Snort!Go, Snort!Running
  <2>2. \A j \in Instances : Snort!Running(j) => j = i
    BY <2>1, OneSnortRuns
  <2> QED
    BY <1>8, <2>2 DEF Snort!CleanExit, Snort!Go, SnortTypes, SnortStates, SnortProcesses,
                      Snort!OwnSnort, SnortAwaited, Snort!Running, Snort!Starting
<1>9. ASSUME NEW i \in Instances, Snort!SnortEnds(i) \/ Snort!SigChild(i) \/ Snort!SigTerm(i)
      PROVE  SnortHolds'
  BY <1>9 DEF Snort!SnortEnds, Snort!SigChild, Snort!SigTerm, Snort!Stops, Snort!Alive,
              SnortTypes, SnortProcesses, Snort!OwnSnort, SnortAwaited,
              Snort!Running
<1> QED
  BY <1>1, <1>2, <1>3, <1>4, <1>5, <1>6, <1>7, <1>8, <1>9 DEF Snort!Next, Snort!Step, Snort!Idle

SnortInv == component = "snort" => SnortHolds

LEMMA SnortInit == ASSUME Nobody \notin Instances PROVE SideInit => SnortInv
BY SnortBegins DEF SideInit, SnortInv

LEMMA SnortNext ==
  ASSUME Nobody \notin Instances
  PROVE  SnortInv /\ [SideNext]_sideVars => SnortInv'
<1> SUFFICES ASSUME SnortInv, [SideNext]_sideVars, component' = "snort" PROVE SnortHolds'
  BY DEF SnortInv
<1>1. component = "snort" /\ SnortHolds
  BY DEF SnortInv, SideNext, sideVars
<1>2. [Snort!Next]_(Snort!vars)
  BY <1>1 DEF SideNext, sideVars, SnortVars, Snort!vars
<1> QED BY <1>1, <1>2, SnortGoesOn

\* OwnSnort: modules that share the name of a pipe never share a pipe, so a
\* module's packets reach its own snort (Snortmodule::init, ~Snortmodule),
\* however many instances there are and whenever they or their snorts end.
THEOREM PacketsReachOwnSnort ==
  ASSUME Nobody \notin Instances
  PROVE  SideSpec => []OwnSnort
<1>1. SnortInv => OwnSnort
  BY DEF SnortInv, OwnSnort, SnortHolds
<1> QED BY SnortInit, SnortNext, <1>1, PTL DEF SideSpec

-----------------------------------------------------------------------------
(* The writer of the packets. *)

\* f runs through the sums of the first elements of s, and the last is x.
SumsUp(f, s, x) ==
  /\ f \in [0 .. Len(s) -> Nat] /\ f[0] = 0 /\ f[Len(s)] = x
  /\ \A i \in 1 .. Len(s) : f[i] = f[i - 1] + s[i]
Summed(s, x) == s \in Seq(Nat) /\ x \in Nat /\ \E f : SumsUp(f, s, x)

\* Sum is what its recursive function comes to.
LEMMA SumOfSummed ==
  ASSUME NEW s, NEW x, Summed(s, x)
  PROVE  Writer!Sum(s) = x
<1>0. s \in Seq(Nat) /\ Len(s) \in Nat
  BY DEF Summed
<1>1. PICK f : SumsUp(f, s, x)
  BY DEF Summed
<1> DEFINE unrolled(g) == [n \in 0 .. Len(s) |-> IF n = 0 THEN 0 ELSE g[n - 1] + s[n]]
           sum == CHOOSE g : g = unrolled(g)
<1>2. Writer!Sum(s) = sum[Len(s)]
  BY DEF Writer!Sum
<1>3. f = unrolled(f)
  <2>1. \A n \in 0 .. Len(s) : f[n] = IF n = 0 THEN 0 ELSE f[n - 1] + s[n]
    <3> TAKE n \in 0 .. Len(s)
    <3>1. n # 0 => n \in 1 .. Len(s)
      OBVIOUS
    <3> QED BY <1>1, <3>1 DEF SumsUp
  <2> QED BY <1>1, <2>1 DEF SumsUp
<1>4. sum = unrolled(sum)
  BY <1>3
<1> HIDE DEF sum
<1>5. ASSUME NEW h, h = unrolled(h), NEW n \in 0 .. Len(s)
      PROVE  h[n] = IF n = 0 THEN 0 ELSE h[n - 1] + s[n]
  <2>1. h[n] = unrolled(h)[n]
    BY <1>5
  <2> QED BY <2>1
<1>6. \A n \in 0 .. Len(s) : sum[n] = IF n = 0 THEN 0 ELSE sum[n - 1] + s[n]
  <2> HIDE DEF unrolled
  <2> QED BY <1>4, <1>5
<1> DEFINE T == {n \in 0 .. Len(s) : f[n] # sum[n]}
<1>7. T = {}
  <2> SUFFICES ASSUME T # {} PROVE FALSE
    OBVIOUS
  <2>0. T \subseteq Nat
    OBVIOUS
  <2> HIDE DEF T
  <2>1. PICK n \in T : \A k \in T : n <= k
    BY <2>0, LeastNatural
  <2> USE DEF T
  <2>2. CASE n = 0
    BY <1>1, <1>6, <2>2 DEF SumsUp
  <2>3. CASE n # 0
    <3>1. n \in 1 .. Len(s) /\ n - 1 \in 0 .. Len(s) /\ n - 1 \notin T
      BY <2>1, <2>3
    <3>2. f[n - 1] = sum[n - 1]
      BY <3>1
    <3>3. f[n] = f[n - 1] + s[n] /\ sum[n] = sum[n - 1] + s[n]
      BY <1>1, <1>6, <2>3, <3>1 DEF SumsUp
    <3> QED BY <3>2, <3>3
  <2> QED BY <2>2, <2>3
<1>8. f[Len(s)] = sum[Len(s)]
  BY <1>0, <1>7
<1> QED BY <1>1, <1>2, <1>8 DEF SumsUp

LEMMA SummedNone == Summed(<<>>, 0)
<1> DEFINE f == [i \in 0 .. 0 |-> 0]
<1>1. <<>> \in Seq(Nat) /\ Len(<<>>) = 0
  OBVIOUS
<1>2. f \in [0 .. 0 -> Nat] /\ f[0] = 0
  OBVIOUS
<1> HIDE DEF f
<1>3. SumsUp(f, <<>>, 0)
  BY <1>1, <1>2 DEF SumsUp
<1> QED BY <1>1, <1>3 DEF Summed

LEMMA SummedOne == ASSUME NEW x \in Nat PROVE Summed(<<x>>, x)
<1> DEFINE f == [i \in 0 .. 1 |-> IF i = 0 THEN 0 ELSE x]
<1>1. <<x>> \in Seq(Nat) /\ Len(<<x>>) = 1 /\ <<x>>[1] = x
  OBVIOUS
<1>2. f \in [0 .. 1 -> Nat] /\ f[0] = 0 /\ f[1] = x
  OBVIOUS
<1> HIDE DEF f
<1>3. SumsUp(f, <<x>>, x)
  BY <1>1, <1>2 DEF SumsUp
<1> QED BY <1>1, <1>3 DEF Summed

LEMMA SummedConcat ==
  ASSUME NEW s, NEW x, NEW t, NEW y, Summed(s, x), Summed(t, y)
  PROVE  Summed(s \o t, x + y)
<1>0. /\ s \in Seq(Nat) /\ t \in Seq(Nat) /\ Len(s) \in Nat /\ Len(t) \in Nat
      /\ x \in Nat /\ y \in Nat
  BY DEF Summed
<1>1. PICK f : SumsUp(f, s, x)
  BY DEF Summed
<1>2. PICK g : SumsUp(g, t, y)
  BY DEF Summed
<1> DEFINE u == s \o t
           h == [i \in 0 .. Len(s) + Len(t) |->
                   IF i <= Len(s) THEN f[i] ELSE x + g[i - Len(s)]]
<1>3. /\ u \in Seq(Nat) /\ Len(u) = Len(s) + Len(t)
      /\ \A i \in 1 .. Len(s) + Len(t) : u[i] = IF i <= Len(s) THEN s[i] ELSE t[i - Len(s)]
  BY <1>0, ConcatProperties
<1> HIDE DEF u
<1>4. h \in [0 .. Len(s) + Len(t) -> Nat]
  <2>1. ASSUME NEW i \in 0 .. Len(s) + Len(t)
        PROVE  (IF i <= Len(s) THEN f[i] ELSE x + g[i - Len(s)]) \in Nat
    <3>1. CASE i <= Len(s)
      <4>1. i \in 0 .. Len(s)
        BY <1>0, <3>1
      <4> QED BY <1>1, <3>1, <4>1 DEF SumsUp
    <3>2. CASE ~(i <= Len(s))
      <4>1. i - Len(s) \in 0 .. Len(t)
        BY <1>0, <3>2
      <4>2. g[i - Len(s)] \in Nat
        BY <1>2, <4>1 DEF SumsUp
      <4> QED BY <1>0, <3>2, <4>2
    <3> QED BY <3>1, <3>2
  <2> QED BY <2>1
<1>5. h[0] = 0 /\ h[Len(s) + Len(t)] = x + y
  <2>1. CASE Len(t) = 0
    <3>1. Len(s) + Len(t) = Len(s)
      BY <1>0, <2>1
    <3> QED BY <1>0, <1>1, <1>2, <2>1, <3>1 DEF SumsUp
  <2>2. CASE Len(t) # 0
    <3>1. /\ ~(Len(s) + Len(t) <= Len(s)) /\ (Len(s) + Len(t)) - Len(s) = Len(t)
          /\ 0 <= Len(s) /\ Len(s) + Len(t) \in 0 .. Len(s) + Len(t)
          /\ 0 \in 0 .. Len(s) + Len(t)
      BY <1>0, <2>2
    <3>2. h[0] = f[0] /\ h[Len(s) + Len(t)] = x + g[Len(t)]
      BY <3>1
    <3> QED BY <1>1, <1>2, <3>2 DEF SumsUp
  <2> QED BY <2>1, <2>2
<1>9. \A k \in 0 .. Len(s) + Len(t) :
        h[k] = IF k <= Len(s) THEN f[k] ELSE x + g[k - Len(s)]
  OBVIOUS
<1> HIDE DEF h
<1>6. ASSUME NEW i \in 1 .. Len(s) + Len(t)
      PROVE  h[i] = h[i - 1] + u[i]
  <2>0. i \in 0 .. Len(s) + Len(t) /\ i - 1 \in 0 .. Len(s) + Len(t)
    BY <1>0
  <2>1. CASE i <= Len(s)
    <3>1. i \in 1 .. Len(s) /\ i - 1 <= Len(s)
      BY <1>0, <2>1
    <3>2. f[i] = f[i - 1] + s[i]
      BY <1>1, <3>1 DEF SumsUp
    <3>3. u[i] = s[i]
      BY <1>3, <2>1
    <3>4. h[i] = f[i] /\ h[i - 1] = f[i - 1]
      BY <1>9, <2>0, <2>1, <3>1
    <3> QED BY <3>2, <3>3, <3>4
  <2>2. CASE i = Len(s) + 1
    <3>1. /\ ~(i <= Len(s)) /\ i - Len(s) = 1 /\ i - 1 = Len(s) /\ i - 1 <= Len(s)
          /\ 1 \in 1 .. Len(t) /\ 1 - 1 = 0
      BY <1>0, <2>2
    <3>2. g[1] = g[0] + t[1] /\ g[0] = 0
      BY <1>2, <3>1 DEF SumsUp
    <3>3. f[i - 1] = x
      BY <1>1, <3>1 DEF SumsUp
    <3>4. u[i] = t[1]
      BY <1>3, <3>1
    <3>5. t[1] \in Nat
      BY <1>0, <3>1
    <3>6. h[i] = x + g[1] /\ h[i - 1] = x
      BY <1>9, <2>0, <3>1, <3>3
    <3>7. g[1] = t[1]
      BY <3>2, <3>5
    <3> QED BY <3>4, <3>6, <3>7
  <2>3. CASE i > Len(s) + 1
    <3>1. /\ ~(i <= Len(s)) /\ ~(i - 1 <= Len(s)) /\ i - Len(s) \in 1 .. Len(t)
          /\ (i - 1) - Len(s) = (i - Len(s)) - 1 /\ (i - Len(s)) - 1 \in 0 .. Len(t)
      BY <1>0, <2>3
    <3>2. g[i - Len(s)] = g[(i - Len(s)) - 1] + t[i - Len(s)]
      BY <1>2, <3>1 DEF SumsUp
    <3>3. u[i] = t[i - Len(s)]
      BY <1>3, <3>1
    <3>4. h[i] = x + g[i - Len(s)]
      BY <1>9, <2>0, <3>1
    <3>5. h[i - 1] = x + g[(i - Len(s)) - 1]
      <4>1. h[i - 1] = x + g[(i - 1) - Len(s)]
        BY <1>9, <2>0, <3>1
      <4> QED BY <3>1, <4>1
    <3>6. g[(i - Len(s)) - 1] \in Nat
      BY <1>2, <3>1 DEF SumsUp
    <3>7. t[i - Len(s)] \in Nat
      BY <1>0, <3>1
    <3>8. PICK a \in Nat, b \in Nat : a = g[(i - Len(s)) - 1] /\ b = t[i - Len(s)]
      BY <3>6, <3>7
    <3>9. h[i - 1] = x + a /\ h[i] = x + (a + b) /\ u[i] = b
      BY <3>2, <3>3, <3>4, <3>5, <3>8
    <3> QED BY <1>0, <3>9
  <2> QED BY <1>0, <2>1, <2>2, <2>3
<1>7. SumsUp(h, u, x + y)
  BY <1>3, <1>4, <1>5, <1>6 DEF SumsUp
<1>8. Summed(u, x + y)
  BY <1>0, <1>3, <1>7 DEF Summed
<1> QED BY <1>8 DEF u

LEMMA SummedTwo == ASSUME NEW x \in Nat, NEW y \in Nat PROVE Summed(<<x, y>>, x + y)
<1> DEFINE f == [i \in 0 .. 2 |-> IF i = 0 THEN 0 ELSE IF i = 1 THEN x ELSE x + y]
<1>1. <<x, y>> \in Seq(Nat) /\ Len(<<x, y>>) = 2 /\ <<x, y>>[1] = x /\ <<x, y>>[2] = y
  OBVIOUS
<1>2. f \in [0 .. 2 -> Nat] /\ f[0] = 0 /\ f[1] = x /\ f[2] = x + y
  OBVIOUS
<1> HIDE DEF f
<1>3. \A i \in 1 .. 2 : f[i] = f[i - 1] + <<x, y>>[i]
  <2>1. \A i \in 1 .. 2 : i = 1 \/ i = 2
    OBVIOUS
  <2> QED BY <1>1, <1>2, <2>1
<1> DEFINE s == <<x, y>>
<1>4. s \in Seq(Nat) /\ Len(s) = 2 /\ \A i \in 1 .. 2 : f[i] = f[i - 1] + s[i]
  BY <1>1, <1>3
<1> HIDE DEF s
<1>5. SumsUp(f, s, x + y)
  BY <1>2, <1>4 DEF SumsUp
<1>6. x + y \in Nat
  OBVIOUS
<1>7. Summed(s, x + y)
  BY <1>4, <1>5, <1>6 DEF Summed
<1> QED BY <1>7 DEF s

LEMMA Multiples ==
  ASSUME NEW i \in Nat, NEW b \in Nat
  PROVE  i * b \in Nat /\ (i + 1) * b = i * b + b
OBVIOUS

LEMMA MultiplesGrow ==
  ASSUME NEW i \in Nat, NEW j \in Nat, NEW b \in Nat, i <= j
  PROVE  i * b <= j * b
OBVIOUS

LEMMA Remainder ==
  ASSUME NEW n \in Nat, NEW b \in Nat \ {0}
  PROVE  n = (n \div b) * b + (n % b) /\ n % b \in 0 .. b - 1 /\ n \div b \in Nat
OBVIOUS

LEMMA DivisionUnique ==
  ASSUME NEW n \in Nat, NEW q \in Nat, NEW r \in Nat, NEW b \in Nat \ {0},
         n = q * b + r, r < b
  PROVE  n \div b = q /\ n % b = r
OBVIOUS

\* The number of pieces of padding: all but the last are a whole buffer.
LEMMA PaddingPieces ==
  ASSUME NEW n \in Nat \ {0}, NEW b \in Nat \ {0}
  PROVE  \E m \in Nat : /\ (n + b - 1) \div b = m + 1
                        /\ m * b < n /\ n <= (m + 1) * b
                        /\ n < (m + 1) * b => n % b = n - m * b
<1> DEFINE q == n \div b
           r == n % b
<1>1. n = q * b + r /\ r \in 0 .. b - 1 /\ q \in Nat
  BY Remainder
<1> HIDE DEF q, r
<1>2. CASE r = 0
  <2>1. q # 0
    BY <1>1, <1>2
  <2>2. n + b - 1 \in Nat /\ b - 1 \in Nat /\ n + b - 1 = q * b + (b - 1)
    BY <1>1, <1>2
  <2>3. (n + b - 1) \div b = q
    BY <1>1, <2>2, DivisionUnique
  <2>4. q - 1 \in Nat /\ q = (q - 1) + 1
    BY <1>1, <2>1
  <2>5. q * b = (q - 1) * b + b /\ (q - 1) * b \in Nat
    BY <2>4, Multiples
  <2>6. (q - 1) * b < n /\ n = q * b
    BY <1>1, <1>2, <2>5
  <2> QED BY <1>1, <2>1, <2>3, <2>4, <2>6, SMTT(30)
<1>3. CASE r # 0
  <2>1. r - 1 \in Nat /\ r - 1 < b /\ q + 1 \in Nat
    BY <1>1, <1>3
  <2>2. (q + 1) * b = q * b + b /\ q * b \in Nat
    BY <1>1, Multiples
  <2>3. n + b - 1 \in Nat /\ n + b - 1 = (q + 1) * b + (r - 1)
    BY <1>1, <2>2
  <2>4. (n + b - 1) \div b = q + 1
    BY <2>1, <2>3, DivisionUnique, SMTT(30)
  <2>5. q * b < n /\ n <= (q + 1) * b /\ r = n - q * b
    BY <1>1, <1>3, <2>2
  <2> QED BY <1>1, <2>4, <2>5 DEF r
<1> QED BY <1>2, <1>3

LEMMA SummedPadding ==
  ASSUME PaddingBuffer \in Nat \ {0}, NEW n \in Nat
  PROVE  Summed(Writer!Padding(n), n)
<1>1. CASE n = 0
  <2>1. Writer!Padding(n) = <<>>
    BY <1>1 DEF Writer!Padding
  <2> QED BY <1>1, <2>1, SummedNone
<1>2. CASE n # 0
  <2> DEFINE b == PaddingBuffer
             upto(i) == i * b
             s(k) == [i \in 1 .. k |-> IF upto(i) <= n THEN b ELSE n % b]
             f(k) == [i \in 0 .. k |-> IF upto(i) <= n THEN upto(i) ELSE n]
  <2>1. PICK m \in Nat : /\ (n + b - 1) \div b = m + 1
                         /\ upto(m) < n /\ n <= upto(m + 1)
                         /\ n < upto(m + 1) => n % b = n - upto(m)
    <3>1. n \in Nat \ {0} /\ b \in Nat \ {0}
      BY <1>2
    <3> HIDE DEF b
    <3> QED BY <3>1, PaddingPieces
  <2>2. Writer!Padding(n) = s((n + b - 1) \div b)
    <3>1. ~(n <= 0)
      BY <1>2
    <3> QED BY <3>1 DEF Writer!Padding
  <2> HIDE DEF b
  <2>3. b \in Nat \ {0} /\ n % b \in Nat
    BY Remainder DEF b
  <2>4. upto(0) = 0 /\ \A i \in Nat : upto(i) \in Nat /\ upto(i + 1) = upto(i) + b
    BY <2>3, Multiples
  <2>5. \A i, j \in Nat : i <= j => upto(i) <= upto(j)
    BY <2>3, MultiplesGrow
  <2> HIDE DEF upto
  <2> DEFINE k == m + 1
  <2>6. k \in Nat /\ Writer!Padding(n) = s(k)
    BY <2>1, <2>2
  <2>7. s(k) \in Seq(Nat) /\ Len(s(k)) = k
        /\ \A i \in 1 .. k : s(k)[i] = IF upto(i) <= n THEN b ELSE n % b
    <3>1. s(k) \in [1 .. k -> Nat]
      BY <2>3
    <3> QED BY <2>6, <3>1
  <2>8. f(k) \in [0 .. k -> Nat]
        /\ \A i \in 0 .. k : f(k)[i] = IF upto(i) <= n THEN upto(i) ELSE n
    BY <2>4
  <2>9. f(k)[0] = 0 /\ f(k)[k] = n
    <3>1. upto(0) <= n /\ 0 \in 0 .. k /\ k \in 0 .. k
      BY <2>4
    <3>2. upto(k) \in Nat /\ (upto(k) <= n => upto(k) = n)
      BY <2>1, <2>4
    <3> QED BY <2>4, <2>8, <3>1, <3>2
  <2> HIDE DEF s, f
  <2>10. ASSUME NEW i \in 1 .. k
         PROVE  f(k)[i] = f(k)[i - 1] + s(k)[i]
    <3>1. i - 1 \in Nat /\ i \in Nat /\ i \in 0 .. k /\ i - 1 \in 0 .. k /\ (i - 1) + 1 = i
          /\ i - 1 <= m
      OBVIOUS
    <3>2. upto(i) = upto(i - 1) + b /\ upto(i - 1) \in Nat
      <4>1. upto((i - 1) + 1) = upto(i - 1) + b
        BY <2>4, <3>1
      <4> QED BY <2>4, <3>1, <4>1
    <3>3. upto(i - 1) <= upto(m) /\ upto(m) \in Nat
      BY <2>4, <2>5, <3>1
    <3>4. upto(i - 1) <= n
      BY <2>1, <3>2, <3>3
    <3>5. f(k)[i - 1] = upto(i - 1)
      BY <2>8, <3>1, <3>4
    <3>6. CASE upto(i) <= n
      <4>1. f(k)[i] = upto(i) /\ s(k)[i] = b
        BY <2>7, <2>8, <3>1, <3>6
      <4> QED BY <3>2, <3>5, <4>1
    <3>7. CASE ~(upto(i) <= n)
      <4>1. i = k
        <5>1. ASSUME i # k PROVE FALSE
          <6>1. i <= m
            BY <5>1
          <6>2. upto(i) <= upto(m) /\ upto(i) \in Nat
            BY <2>4, <2>5, <3>1, <6>1
          <6> QED BY <2>1, <3>3, <3>7, <6>2
        <5> QED BY <5>1
      <4>2. upto(i) \in Nat /\ n < upto(k)
        BY <2>4, <3>1, <3>7, <4>1
      <4>3. n % b = n - upto(m) /\ i - 1 = m
        BY <2>1, <4>1, <4>2
      <4>4. f(k)[i] = n /\ s(k)[i] = n % b
        BY <2>7, <2>8, <3>1, <3>7
      <4> QED BY <3>3, <3>5, <4>3, <4>4
    <3> QED BY <3>6, <3>7
  <2>11. SumsUp(f(k), s(k), n)
    BY <2>7, <2>8, <2>9, <2>10 DEF SumsUp
  <2> QED BY <2>6, <2>7, <2>11 DEF Summed
<1> QED BY <1>1, <1>2

-----------------------------------------------------------------------------
\* Every packet there may be: the total length is not given, or that of a header
\* at least (see StreamStaysFramed).
AnyPacket ==
  [length : Nat, iphps : Nat, ippps : Nat,
   protocol : {0, 6, 17}, tcp : BOOLEAN, udp : BOOLEAN]

\* The pieces of a packet fit its length, unless that is less than a header.
LEMMA PiecesFit ==
  ASSUME NEW p \in AnyPacket, ~Writer!TooShort(p)
  PROVE  Writer!ip_length(p) \in Nat /\
         \E x \in Nat : Summed(Writer!Pieces(p), x) /\ x <= Writer!ip_length(p)
<1>0. p.length \in Nat /\ p.iphps \in Nat /\ p.ippps \in Nat
  BY DEF AnyPacket
<1> DEFINE length == Writer!ip_length(p)
           udp == Writer!Typed(p).udp
           tcp == Writer!Typed(p).tcp
<1>1. /\ p.length # 0 => length = p.length
      /\ p.length = 0 /\ p.iphps > 0 => length = p.iphps
      /\ p.length = 0 /\ ~(p.iphps > 0) /\ p.ippps > 0 => length = 20 + p.ippps
      /\ p.length = 0 /\ ~(p.iphps > 0) /\ ~(p.ippps > 0) =>
           length \in {20 + 20, 20 + 8, 20 + 0}
  BY <1>0 DEF Writer!ip_length, Writer!IpHeader, Writer!TcpHeader, Writer!UdpHeader
<1>2. length \in Nat /\ (p.iphps = 0 => length >= 20)
  <2>1. length \in Nat
    BY <1>0, <1>1
  <2>2. p.iphps = 0 => ~(length < 20)
    BY DEF Writer!TooShort, Writer!IpHeader
  <2> HIDE DEF length
  <2> QED BY <2>1, <2>2
<1>3. Writer!Pieces(p) =
        IF p.iphps # 0 THEN <<Writer!Cut(p.iphps, 0, p)>>
        ELSE IF p.ippps # 0 THEN <<20, Writer!Cut(p.ippps, 20, p)>>
        ELSE IF udp /\ length >= 20 + 8 THEN <<20, 8>>
        ELSE IF tcp /\ length >= 20 + 20 THEN <<20, 20>>
        ELSE <<20>>
  BY DEF Writer!Pieces, Writer!IpHeader, Writer!TcpHeader, Writer!UdpHeader
<1>4. \A size, before \in Nat :
        Writer!Cut(size, before, p) = IF size + before >= length THEN length - before ELSE size
  BY DEF Writer!Cut
<1> HIDE DEF length, udp, tcp
<1>5. ASSUME NEW y \in Nat
      PROVE  Summed(<<20, y>>, 20 + y)
  <2>1. 20 \in Nat
    OBVIOUS
  <2> QED BY <2>1, <1>5, SummedTwo
<1>6. CASE p.iphps # 0
  <2> DEFINE y == Writer!Cut(p.iphps, 0, p)
  <2>1. y \in Nat /\ y <= length
    BY <1>0, <1>2, <1>4
  <2>2. Writer!Pieces(p) = <<y>>
    BY <1>3, <1>6
  <2> HIDE DEF y
  <2>3. Summed(Writer!Pieces(p), y)
    BY <2>1, <2>2, SummedOne
  <2> QED BY <1>2, <2>1, <2>3 DEF length
<1>7. CASE p.iphps = 0 /\ p.ippps # 0
  <2> DEFINE y == Writer!Cut(p.ippps, 20, p)
  <2>1. y \in Nat /\ 20 + y <= length
    BY <1>0, <1>2, <1>4, <1>7
  <2>2. Writer!Pieces(p) = <<20, y>>
    BY <1>3, <1>7
  <2> HIDE DEF y
  <2>3. Summed(Writer!Pieces(p), 20 + y) /\ 20 + y \in Nat
    BY <1>5, <2>1, <2>2
  <2> QED BY <1>2, <2>1, <2>3 DEF length
<1>8. CASE p.iphps = 0 /\ p.ippps = 0
  <2>1. Summed(<<20, 8>>, 20 + 8) /\ Summed(<<20, 20>>, 20 + 20) /\ Summed(<<20>>, 20)
    BY <1>5, SummedOne
  <2>2. CASE udp /\ length >= 20 + 8
    BY <1>2, <1>3, <1>8, <2>1, <2>2 DEF length
  <2>3. CASE ~(udp /\ length >= 20 + 8) /\ tcp /\ length >= 20 + 20
    BY <1>2, <1>3, <1>8, <2>1, <2>3 DEF length
  <2>4. CASE ~(udp /\ length >= 20 + 8) /\ ~(tcp /\ length >= 20 + 20)
    BY <1>2, <1>3, <1>8, <2>1, <2>4 DEF length
  <2> QED BY <2>2, <2>3, <2>4
<1> QED BY <1>6, <1>7, <1>8

\* What is written of a packet is what its header announces.
LEMMA WrittenAsAnnounced ==
  ASSUME PaddingBuffer \in Nat \ {0}, NEW p \in AnyPacket, ~Writer!TooShort(p)
  PROVE  /\ Writer!ip_length(p) \in Nat
         /\ <<Writer!EthernetHeader>> \o Writer!Written(p) \in Seq(Nat)
         /\ Writer!Sum(<<Writer!EthernetHeader>> \o Writer!Written(p))
              = Writer!ip_length(p) + Writer!EthernetHeader
<1> DEFINE length == Writer!ip_length(p)
           front == Writer!Pieces(p)
<1>1. PICK x \in Nat : Summed(front, x) /\ x <= length /\ length \in Nat
  BY PiecesFit
<1>2. Writer!Sum(front) = x
  BY <1>1, SumOfSummed
<1> HIDE DEF length, front
<1>3. length - x \in Nat
  BY <1>1
<1> DEFINE back == Writer!Padding(length - x)
<1>4. Summed(back, length - x)
  BY <1>3, SummedPadding
<1>5. Writer!Written(p) = front \o back
  BY <1>2 DEF Writer!Written, length, front
<1> HIDE DEF back
<1>6. Summed(front \o back, length)
  <2>1. Summed(front \o back, x + (length - x))
    BY <1>1, <1>4, SummedConcat
  <2>2. x + (length - x) = length
    BY <1>1
  <2> QED BY <2>1, <2>2
<1>7. Summed(<<14>> \o (front \o back), 14 + length)
  BY <1>6, SummedOne, SummedConcat
<1>8. 14 + length = length + 14
  BY <1>1
<1>9. Writer!Sum(<<14>> \o (front \o back)) = length + 14
  BY <1>7, <1>8, SumOfSummed
<1>10. <<14>> \o (front \o back) \in Seq(Nat)
  BY <1>7 DEF Summed
<1> QED BY <1>1, <1>5, <1>9, <1>10 DEF Writer!EthernetHeader, length

WriterInv ==
  component = "writer" =>
    /\ store = Writer!NoPacket \/ store \in AnyPacket
    /\ short \in BOOLEAN
    /\ ~short => announced \in Nat /\ stream = announced /\ pieces \in Seq(Nat)

LEMMA WriterInit == SideInit => WriterInv
<1> SUFFICES ASSUME SideInit, component = "writer" PROVE WriterInv
  BY DEF WriterInv
<1>1. Writer!Init
  BY DEF SideInit
<1>2. store = Writer!NoPacket /\ short = FALSE
  BY <1>1 DEF Writer!Init
<1>3. announced \in Nat /\ stream = announced /\ pieces \in Seq(Nat)
  BY <1>1 DEF Writer!Init
<1> QED BY <1>2, <1>3 DEF WriterInv

LEMMA WriterNext ==
  ASSUME TotalLengths \subseteq Nat, SectionSizes \subseteq Nat,
         PaddingBuffer \in Nat \ {0}
  PROVE  WriterInv /\ [SideNext]_sideVars => WriterInv'
<1> SUFFICES ASSUME WriterInv, [SideNext]_sideVars, component' = "writer" PROVE WriterInv'
  BY DEF WriterInv
<1>1. component = "writer" /\ (Writer!Next \/ UNCHANGED WriterVars)
  BY DEF SideNext, sideVars
<1>2. /\ store = Writer!NoPacket \/ store \in AnyPacket
      /\ short \in BOOLEAN
      /\ ~short => announced \in Nat /\ stream = announced /\ pieces \in Seq(Nat)
  BY <1>1 DEF WriterInv
<1>3. Writer!EmptyPacket \in AnyPacket /\ [Writer!EmptyPacket EXCEPT !.tcp = TRUE] \in AnyPacket
  BY DEF Writer!EmptyPacket, AnyPacket
<1>4. CASE Writer!recordStart
  BY <1>2, <1>3, <1>4 DEF WriterInv, Writer!recordStart
<1>5. CASE Writer!addFieldData
  <2>1. store \in AnyPacket
    BY <1>2, <1>5 DEF Writer!addFieldData
  <2>2. store' \in AnyPacket
    BY <1>5, <2>1, ZenonT(40) DEF Writer!addFieldData, AnyPacket
  <2> QED BY <1>2, <1>5, <2>2 DEF WriterInv, Writer!addFieldData
<1>6. CASE Writer!writepacket
  <2>1. store \in AnyPacket
    BY <1>2, <1>6 DEF Writer!writepacket
  <2>2. /\ pieces' = <<Writer!EthernetHeader>> \o Writer!Written(store)
        /\ announced' = announced + Writer!ip_length(store) + Writer!EthernetHeader
        /\ \E junk \in 0..MaxJunk : stream' = stream + Writer!Put(junk)
        /\ short' = (short \/ Writer!TooShort(store))
        /\ store' = Writer!NoPacket
    BY <1>6 DEF Writer!writepacket
  <2>3. CASE short \/ Writer!TooShort(store)
    BY <2>2, <2>3 DEF WriterInv
  <2>4. CASE ~short /\ ~Writer!TooShort(store)
    <3>1. /\ pieces' \in Seq(Nat) /\ Writer!ip_length(store) \in Nat
          /\ Writer!Sum(pieces') = Writer!ip_length(store) + Writer!EthernetHeader
      BY <2>1, <2>2, <2>4, WrittenAsAnnounced
    <3>2. \A junk : [i \in DOMAIN pieces' |-> IF pieces'[i] < 0 THEN junk ELSE pieces'[i]]
                     = pieces'
      BY <3>1
    <3>3. stream' = stream + Writer!Sum(pieces')
      BY <2>2, <3>2, Zenon DEF Writer!Put
    <3>4. Writer!EthernetHeader \in Nat
      BY DEF Writer!EthernetHeader
    <3>5. short' = FALSE
      BY <2>2, <2>4
    <3> QED BY <1>2, <2>2, <2>4, <3>1, <3>3, <3>4, <3>5 DEF WriterInv
  <2> QED BY <2>3, <2>4
<1>7. CASE Writer!writedummypacket
  <2> DEFINE p == [Writer!EmptyPacket EXCEPT !.tcp = TRUE]
  <2>1. /\ pieces' = <<Writer!EthernetHeader>> \o Writer!Written(p)
        /\ announced' = Writer!ip_length(p) + Writer!EthernetHeader
        /\ stream' = Writer!Sum(pieces')
        /\ store' = store /\ short' = short
    BY <1>7 DEF Writer!writedummypacket
  <2>2. p \in AnyPacket /\ ~Writer!TooShort(p)
    <3>1. p.length = 0 /\ p.iphps = 0 /\ p.ippps = 0 /\ p.tcp
      BY DEF Writer!EmptyPacket
    <3>2. Writer!Typed(p).tcp
      BY <3>1 DEF Writer!Typed
    <3>3. Writer!ip_length(p) = 20 + 20
      BY <3>1, <3>2 DEF Writer!ip_length, Writer!IpHeader, Writer!TcpHeader
    <3> QED BY <1>3, <3>3 DEF Writer!TooShort, Writer!IpHeader
  <2> HIDE DEF p
  <2>3. /\ pieces' \in Seq(Nat) /\ Writer!ip_length(p) \in Nat
        /\ Writer!Sum(pieces') = Writer!ip_length(p) + Writer!EthernetHeader
    BY <2>1, <2>2, WrittenAsAnnounced
  <2>4. Writer!EthernetHeader \in Nat
    BY DEF Writer!EthernetHeader
  <2> QED BY <1>2, <2>1, <2>3, <2>4 DEF WriterInv
<1>8. CASE UNCHANGED WriterVars \/ Writer!Full
  BY <1>2, <1>8 DEF WriterInv, WriterVars, Writer!Full, Writer!vars
<1> QED BY <1>1, <1>4, <1>5, <1>6, <1>7, <1>8 DEF Writer!Next

\* StreamStaysFramed: whatever fields a record carries and in whatever order
\* (SnortStore, PcapWriter::writePacket), for all total lengths, section lengths
\* and sizes of the array of zeros, the octets written are those announced and no
\* piece has a negative size, until a record that has no header section announces
\* less than the 20 octets of the header written for it (pcapwriter.cpp:232-239).
THEOREM StreamIsFramed ==
  ASSUME TotalLengths \subseteq Nat, SectionSizes \subseteq Nat,
         PaddingBuffer \in Nat \ {0}
  PROVE  SideSpec => []StreamStaysFramed
<1>1. WriterInv => StreamStaysFramed
  <2> SUFFICES ASSUME WriterInv, component = "writer" PROVE Writer!StreamStaysFramed
    BY DEF StreamStaysFramed
  <2>1. short \/ (stream = announced /\ pieces \in Seq(Nat))
    BY DEF WriterInv
  <2> QED BY <2>1 DEF Writer!StreamStaysFramed
<1> QED BY WriterInit, WriterNext, <1>1, PTL DEF SideSpec

-----------------------------------------------------------------------------
(* The metrics of the statistics module. *)

Counters == [{"packets", "bytes", "records"} -> [in : Nat, out : Nat]]

\* A counter of a direction is a number, and a silent one is no metric.
LEMMA CountersAreNumbers ==
  ASSUME NEW i \in Counters, NEW u \in Metrics!Units
  PROVE  i[u]["in"] \in Nat /\ i[u]["out"] \in Nat
<1>1. i[u] \in [in : Nat, out : Nat]
  BY DEF Counters, Metrics!Units
<1> QED BY <1>1

\* The two differences of a unit are opposite in each interval.
LEMMA DifferencesAreOpposite ==
  ASSUME NEW i \in Counters, NEW m \in Metrics!Metrics, m.kind = "minus"
  PROVE  /\ Metrics!get_metric(i, m) \in Int
         /\ Metrics!get_metric(i, [m EXCEPT !.dir = Metrics!Reverse(m.dir)])
              = -Metrics!get_metric(i, m)
<1>1. m \in [kind : {"minus"}, unit : Metrics!Units, dir : {"in", "out"}]
  BY DEF Metrics!Metrics
<1> DEFINE n == [m EXCEPT !.dir = Metrics!Reverse(m.dir)]
<1>2. /\ n.kind = "minus" /\ n.unit = m.unit /\ n.dir = Metrics!Reverse(m.dir)
      /\ Metrics!Reverse(n.dir) = m.dir /\ m.dir \in {"in", "out"} /\ n.dir \in {"in", "out"}
  BY <1>1 DEF Metrics!Reverse
<1>3. i[m.unit][m.dir] \in Nat /\ i[m.unit][n.dir] \in Nat
  BY <1>1, <1>2, CountersAreNumbers
<1> HIDE DEF n
<1>4. Metrics!get_metric(i, m) =
        IF Metrics!Loud(i, m.unit, m.dir) \/ Metrics!Loud(i, m.unit, n.dir)
          THEN i[m.unit][m.dir] - i[m.unit][n.dir] ELSE 0
  BY <1>2 DEF Metrics!get_metric
<1>5. Metrics!get_metric(i, n) =
        IF Metrics!Loud(i, m.unit, n.dir) \/ Metrics!Loud(i, m.unit, m.dir)
          THEN i[m.unit][n.dir] - i[m.unit][m.dir] ELSE 0
  BY <1>2 DEF Metrics!get_metric
<1>6. Metrics!get_metric(i, m) \in Int /\ Metrics!get_metric(i, n) = -Metrics!get_metric(i, m)
  BY <1>3, <1>4, <1>5
<1> QED BY <1>6 DEF n

\* Noise in packets and bytes is 0 in every metric of them.
LEMMA NoiseIsZero ==
  ASSUME NEW i \in Counters, NEW m \in Metrics!Metrics, m.unit # "records", Metrics!Silent(i)
  PROVE  Metrics!get_metric(i, m) = 0
<1>1. /\ m.unit \in {"packets", "bytes"} /\ m.dir \in {"in", "out"}
      /\ Metrics!Reverse(m.dir) \in {"in", "out"}
  BY DEF Metrics!Metrics, Metrics!Units, Metrics!Reverse
<1>2. ~Metrics!Loud(i, m.unit, m.dir) /\ ~Metrics!Loud(i, m.unit, Metrics!Reverse(m.dir))
      /\ ~Metrics!Loud(i, "packets", m.dir)
  BY <1>1 DEF Metrics!Silent
<1> QED BY <1>2 DEF Metrics!get_metric

\* A metric needs no counters but those it makes the module subscribe to.
LEMMA SubscribedIsEnough ==
  ASSUME NEW i \in Counters, NEW m \in Metrics!Metrics
  PROVE  Metrics!get_metric(Metrics!Received(i, m), m) = Metrics!get_metric(i, m)
<1> DEFINE r == Metrics!Received(i, m)
<1>1. m.unit \in Metrics!Units /\ (m.kind = "ratio" => m.per \in Metrics!Units)
  BY DEF Metrics!Metrics, Metrics!Units
<1>2. r[m.unit] = i[m.unit] /\ (m.kind = "ratio" => r[m.per] = i[m.per])
  <2> DEFINE wanted == Metrics!Requires(m) \cup {"records"}
  <2>1. m.unit \in wanted
    <3>1. CASE m.kind # "ratio"
      BY <1>1, <3>1 DEF Metrics!Units, Metrics!Requires
    <3>2. CASE m.kind = "ratio"
      BY <3>2 DEF Metrics!Metrics, Metrics!Requires
    <3> QED BY <3>1, <3>2
  <2>2. m.kind = "ratio" => m.per \in wanted
    BY DEF Metrics!Metrics, Metrics!Requires
  <2>3. r = [u \in Metrics!Units |-> IF u \in wanted THEN i[u] ELSE Metrics!Zero[u]]
    BY DEF Metrics!Received
  <2> HIDE DEF r, wanted
  <2> QED BY <1>1, <2>1, <2>2, <2>3
<1> HIDE DEF r
<1>3. \A d : Metrics!Loud(r, m.unit, d) <=> Metrics!Loud(i, m.unit, d)
  BY <1>2 DEF Metrics!Loud
<1>4. m.kind = "ratio" => \A d : Metrics!Loud(r, m.per, d) <=> Metrics!Loud(i, m.per, d)
  BY <1>2 DEF Metrics!Loud
<1>5. CASE m.kind = "count"
  BY <1>2, <1>3, <1>5 DEF Metrics!get_metric, r
<1>6. CASE m.kind = "ratio"
  BY <1>2, <1>3, <1>4, <1>6 DEF Metrics!get_metric, r
<1>7. CASE m.kind = "minus"
  BY <1>2, <1>3, <1>7 DEF Metrics!get_metric, r
<1> QED BY <1>5, <1>6, <1>7 DEF Metrics!Metrics

MetricsInv == component = "metrics" => info \in Counters /\ prev \in Counters

LEMMA MetricsInit == SideInit => MetricsInv
BY DEF SideInit, MetricsInv, Counters, Metrics!Init, Metrics!Zero, Metrics!Units

LEMMA MetricsNext ==
  ASSUME MaxCount \in Nat
  PROVE  MetricsInv /\ [SideNext]_sideVars => MetricsInv'
<1> SUFFICES ASSUME MetricsInv, [SideNext]_sideVars, component' = "metrics"
             PROVE  info' \in Counters /\ prev' \in Counters
  BY DEF MetricsInv
<1>1. component = "metrics" /\ (Metrics!Next \/ UNCHANGED MetricsVars)
  BY DEF SideNext, sideVars
<1>2. info \in Counters /\ prev \in Counters
  BY <1>1 DEF MetricsInv
<1>3. CASE Metrics!Next
  <2>1. 0 .. MaxCount \subseteq Nat
    OBVIOUS
  <2>2. info' \in Counters
    BY <1>3, <2>1 DEF Metrics!Next, Metrics!Info, Metrics!Units, Counters
  <2> QED BY <1>2, <1>3, <2>2 DEF Metrics!Next
<1>4. CASE UNCHANGED MetricsVars
  BY <1>2, <1>4 DEF MetricsVars
<1> QED BY <1>1, <1>3, <1>4

LEMMA ProductOfOpposite ==
  ASSUME NEW f \in Int, NEW b \in Int
  PROVE  f * b \in Int /\ f * (-b) = -(f * b)
OBVIOUS

\* MetricsConsistent: the two differences of a unit are opposite whichever
\* direction is noise, noise shows in no metric of packets or bytes, and a metric
\* needs only the counters it subscribes to (Stat::get_metric, extract_data), for
\* all counters, thresholds and quasi-difference factors.
THEOREM MetricsAgree ==
  ASSUME MaxCount \in Nat, Factor \in Int
  PROVE  SideSpec => []MetricsConsistent
<1>1. MetricsInv => MetricsConsistent
  <2> SUFFICES ASSUME info \in Counters, prev \in Counters
               PROVE  Metrics!MetricsConsistent
    BY DEF MetricsInv, MetricsConsistent
  <2>1. ASSUME NEW m \in Metrics!Metrics, m.kind = "minus"
        PROVE  Metrics!extract_data(m, TRUE, FALSE, FALSE)
                 = Metrics!extract_data([m EXCEPT !.dir = Metrics!Reverse(m.dir)],
                                        TRUE, FALSE, TRUE)
    <3> DEFINE n == [m EXCEPT !.dir = Metrics!Reverse(m.dir)]
               a == Metrics!get_metric(info, m)
               b == Metrics!get_metric(prev, m)
    <3>1. a \in Int /\ Metrics!get_metric(info, n) = -a
      BY <2>1, DifferencesAreOpposite
    <3>2. b \in Int /\ Metrics!get_metric(prev, n) = -b
      BY <2>1, DifferencesAreOpposite
    <3>3. Metrics!extract_data(m, TRUE, FALSE, FALSE) = a - Factor * b
      BY DEF Metrics!extract_data
    <3>4. Metrics!extract_data(n, TRUE, FALSE, TRUE) = -((-a) - Factor * (-b))
      <4> HIDE DEF n, a, b
      <4> QED BY <3>1, <3>2 DEF Metrics!extract_data
    <3> HIDE DEF a, b, n
    <3>5. Factor * b \in Int /\ Factor * (-b) = -(Factor * b)
      BY <3>2, ProductOfOpposite
    <3>6. a - Factor * b = -((-a) - Factor * (-b))
      BY <3>1, <3>5
    <3> QED BY <3>3, <3>4, <3>6 DEF n
  <2>2. ASSUME Metrics!Silent(info), Metrics!Silent(prev),
               NEW m \in Metrics!Metrics, m.unit # "records"
        PROVE  Metrics!extract_data(m, TRUE, TRUE, FALSE) = 0
    <3>1. Metrics!get_metric(info, m) = 0 /\ Metrics!get_metric(prev, m) = 0
      BY <2>2, NoiseIsZero
    <3> QED BY <3>1 DEF Metrics!extract_data
  <2> QED BY <2>1, <2>2, SubscribedIsEnough DEF Metrics!MetricsConsistent
<1> QED BY MetricsInit, MetricsNext, <1>1, PTL DEF SideSpec


-----------------------------------------------------------------------------
(* The tests of an endpoint: its samples. *)

\* s is the end of q, by its positions.
EndOf(s, q) ==
  /\ s \in Seq(Nat) /\ q \in Seq(Nat) /\ Len(s) <= Len(q)
  /\ \A i \in 1 .. Len(s) : s[i] = q[Len(q) - Len(s) + i]

LEMMA EndOfIsSuffix ==
  ASSUME NEW s, NEW q, EndOf(s, q)
  PROVE  Tests!IsSuffix(s, q)
<1>1. s \in Seq(Nat) /\ q \in Seq(Nat) /\ Len(s) \in Nat /\ Len(q) \in Nat /\ Len(s) <= Len(q)
  BY DEF EndOf
<1> DEFINE rs == [i \in 1 .. Len(s) |-> s[(Len(s) - i) + 1]]
           rq == [i \in 1 .. Len(q) |-> q[(Len(q) - i) + 1]]
<1>2. rs \in Seq(Nat) /\ Len(rs) = Len(s) /\ \A i \in 1 .. Len(s) : rs[i] = s[(Len(s) - i) + 1]
  BY <1>1
<1>3. rq \in Seq(Nat) /\ Len(rq) = Len(q) /\ \A i \in 1 .. Len(q) : rq[i] = q[(Len(q) - i) + 1]
  BY <1>1
<1> HIDE DEF rs, rq
<1>4. ASSUME NEW i \in 1 .. Len(s) PROVE rs[i] = rq[i]
  <2>1. Len(s) - i + 1 \in 1 .. Len(s) /\ i \in 1 .. Len(q)
    BY <1>1
  <2>2. s[Len(s) - i + 1] = q[Len(q) - Len(s) + (Len(s) - i + 1)]
    BY <2>1 DEF EndOf
  <2>3. Len(q) - Len(s) + (Len(s) - i + 1) = Len(q) - i + 1
    BY <1>1, <2>1
  <2> QED BY <1>2, <1>3, <2>1, <2>2, <2>3
<1>5. SubSeq(rs, 1, Len(rs)) = SubSeq(rq, 1, Len(rs))
  BY <1>1, <1>2, <1>3, <1>4
<1>6. Tests!IsPrefix(rs, rq)
  BY <1>1, <1>2, <1>3, <1>5 DEF Tests!IsPrefix
<1> QED BY <1>6 DEF Tests!IsSuffix, Tests!Reverse, rs, rq

LEMMA EndOfNone == ASSUME NEW q \in Seq(Nat) PROVE EndOf(<<>>, q)
  BY DEF EndOf

LEMMA EndOfAppend ==
  ASSUME NEW s, NEW q, NEW v \in Nat, EndOf(s, q)
  PROVE  EndOf(Append(s, v), Append(q, v))
<1> DEFINE t == Append(s, v)
           r == Append(q, v)
<1>1. s \in Seq(Nat) /\ q \in Seq(Nat) /\ Len(s) <= Len(q)
  BY DEF EndOf
<1>2. t \in Seq(Nat) /\ Len(t) = Len(s) + 1 /\ t[Len(s) + 1] = v
      /\ \A i \in 1 .. Len(s) : t[i] = s[i]
  BY <1>1
<1>3. r \in Seq(Nat) /\ Len(r) = Len(q) + 1 /\ r[Len(q) + 1] = v
      /\ \A i \in 1 .. Len(q) : r[i] = q[i]
  BY <1>1
<1> HIDE DEF t, r
<1>4. ASSUME NEW i \in 1 .. Len(t) PROVE t[i] = r[Len(r) - Len(t) + i]
  <2>1. CASE i = Len(s) + 1
    BY <1>1, <1>2, <1>3, <2>1
  <2>2. CASE i \in 1 .. Len(s)
    <3>1. Len(q) - Len(s) + i \in 1 .. Len(q) /\ Len(r) - Len(t) + i = Len(q) - Len(s) + i
      BY <1>1, <1>2, <1>3, <2>2
    <3>2. s[i] = q[Len(q) - Len(s) + i]
      BY <2>2 DEF EndOf
    <3> QED BY <1>2, <1>3, <2>2, <3>1, <3>2
  <2> QED BY <1>1, <1>2, <2>1, <2>2
<1>5. EndOf(t, r)
  BY <1>1, <1>2, <1>3, <1>4 DEF EndOf
<1> QED BY <1>5 DEF t, r

LEMMA EndOfTail ==
  ASSUME NEW s, NEW q, EndOf(s, q), s # <<>>
  PROVE  EndOf(Tail(s), q)
<1> DEFINE t == Tail(s)
<1>1. s \in Seq(Nat) /\ q \in Seq(Nat) /\ Len(s) <= Len(q)
  BY DEF EndOf
<1>2. t \in Seq(Nat) /\ Len(t) = Len(s) - 1 /\ Len(s) > 0
      /\ \A i \in 1 .. Len(t) : t[i] = s[i + 1]
  BY <1>1
<1> HIDE DEF t
<1>3. ASSUME NEW i \in 1 .. Len(t) PROVE t[i] = q[Len(q) - Len(t) + i]
  <2>1. i + 1 \in 1 .. Len(s) /\ Len(q) - Len(s) + (i + 1) = Len(q) - Len(t) + i
    BY <1>1, <1>2
  <2>2. s[i + 1] = q[Len(q) - Len(s) + (i + 1)]
    BY <2>1 DEF EndOf
  <2> QED BY <1>2, <2>1, <2>2
<1>4. EndOf(t, q)
  BY <1>1, <1>2, <1>3 DEF EndOf
<1> QED BY <1>4 DEF t

LEMMA TailAppend ==
  ASSUME NEW s \in Seq(Nat), s # <<>>, NEW v \in Nat
  PROVE  /\ Append(Tail(s), v) \in Seq(Nat)
         /\ Len(Append(Tail(s), v)) = Len(s)
         /\ Append(Tail(s), v)[Len(s)] = v
         /\ \A i \in 1 .. (Len(s) - 1) : Append(Tail(s), v)[i] = s[i + 1]
<1>1. Len(s) \in Nat \ {0}
  OBVIOUS
<1>2. Tail(s) \in Seq(Nat) /\ Len(Tail(s)) = Len(s) - 1
      /\ \A i \in 1 .. (Len(s) - 1) : Tail(s)[i] = s[i + 1]
  BY <1>1
<1> DEFINE t == Tail(s)
<1>3. t \in Seq(Nat) /\ Len(t) = Len(s) - 1
      /\ \A i \in 1 .. (Len(s) - 1) : t[i] = s[i + 1]
  BY <1>2
<1> HIDE DEF t
<1> DEFINE u == Append(t, v)
<1>4. u \in Seq(Nat) /\ Len(u) = Len(s) /\ u[Len(s)] = v
      /\ \A i \in 1 .. (Len(s) - 1) : u[i] = t[i]
  BY <1>1, <1>3
<1> HIDE DEF u
<1>5. \A i \in 1 .. (Len(s) - 1) : u[i] = s[i + 1]
  BY <1>3, <1>4
<1>6. u \in Seq(Nat) /\ Len(u) = Len(s) /\ u[Len(s)] = v
      /\ \A i \in 1 .. (Len(s) - 1) : u[i] = s[i + 1]
  BY <1>4, <1>5
<1> QED BY <1>6 DEF u, t

LEMMA ConcatAt ==
  ASSUME NEW s \in Seq(Nat), NEW t \in Seq(Nat)
  PROVE  /\ s \o t \in Seq(Nat) /\ Len(s \o t) = Len(s) + Len(t)
         /\ \A i \in 1 .. Len(s) : (s \o t)[i] = s[i]
         /\ \A i \in 1 .. Len(t) : (s \o t)[Len(s) + i] = t[i]
  OBVIOUS

LEMMA Shifted ==
  ASSUME NEW o \in Seq(Nat), NEW n \in Seq(Nat), NEW v \in Nat, o # <<>>, n # <<>>
  PROVE  Append(Tail(o), Head(n)) \o Append(Tail(n), v) = Append(Tail(o \o n), v)
<1> DEFINE a == Len(o)
           b == Len(n)
           h == Head(n)
           s == Append(Tail(o), h)
           t == Append(Tail(n), v)
           u == o \o n
           w == Append(Tail(u), v)
           x == s \o t
<1>1. a \in Nat \ {0} /\ b \in Nat \ {0} /\ h \in Nat /\ h = n[1]
  OBVIOUS
<1>2. u \in Seq(Nat) /\ Len(u) = a + b
      /\ (\A i \in 1 .. a : u[i] = o[i]) /\ (\A i \in 1 .. b : u[a + i] = n[i])
  BY ConcatAt
<1>3. u # <<>>
  BY <1>1, <1>2
<1> HIDE DEF u, h
<1>4. s \in Seq(Nat) /\ Len(s) = a /\ s[a] = h /\ \A i \in 1 .. (a - 1) : s[i] = o[i + 1]
  BY <1>1, TailAppend
<1>5. t \in Seq(Nat) /\ Len(t) = b /\ t[b] = v /\ \A i \in 1 .. (b - 1) : t[i] = n[i + 1]
  BY <1>1, TailAppend
<1>6. w \in Seq(Nat) /\ Len(w) = a + b /\ w[a + b] = v
      /\ \A i \in 1 .. (a + b - 1) : w[i] = u[i + 1]
  BY <1>2, <1>3, TailAppend
<1> HIDE DEF s, t, w
<1>7. x \in Seq(Nat) /\ Len(x) = a + b
      /\ (\A i \in 1 .. a : x[i] = s[i]) /\ (\A i \in 1 .. b : x[a + i] = t[i])
  <2>1. s \in Seq(Nat) /\ t \in Seq(Nat)
    BY <1>4, <1>5
  <2>2. x \in Seq(Nat) /\ Len(x) = Len(s) + Len(t)
        /\ (\A i \in 1 .. Len(s) : x[i] = s[i]) /\ (\A i \in 1 .. Len(t) : x[Len(s) + i] = t[i])
    BY <2>1, ConcatAt
  <2> HIDE DEF x, a, b
  <2> QED BY <1>4, <1>5, <2>2
<1> HIDE DEF x, a, b
<1>8. ASSUME NEW i \in 1 .. (a + b) PROVE x[i] = w[i]
  <2>1. CASE i < a
    <3>1. i \in 1 .. a /\ i \in 1 .. (a - 1) /\ i + 1 \in 1 .. a /\ i \in 1 .. (a + b - 1)
      BY <1>1, <2>1
    <3> QED BY <1>2, <1>4, <1>6, <1>7, <3>1, ZenonT(40)
  <2>2. CASE i = a
    <3>1. a \in 1 .. a /\ 1 \in 1 .. b /\ a \in 1 .. (a + b - 1)
      BY <1>1
    <3>2. x[a] = n[1]
      BY <1>1, <1>4, <1>7, <3>1
    <3>3. w[a] = u[a + 1] /\ u[a + 1] = n[1]
      BY <1>2, <1>6, <3>1
    <3> QED BY <2>2, <3>2, <3>3
  <2>3. CASE i > a /\ i < a + b
    <3> DEFINE k == i - a
    <3>1. k \in 1 .. b /\ k \in 1 .. (b - 1) /\ k + 1 \in 1 .. b /\ i \in 1 .. (a + b - 1) /\ i = a + k
          /\ i + 1 = a + (k + 1)
      BY <1>1, <2>3
    <3> HIDE DEF k
    <3>2. x[i] = n[k + 1]
      BY <1>5, <1>7, <3>1
    <3>3. w[i] = u[i + 1] /\ u[a + (k + 1)] = n[k + 1]
      BY <1>2, <1>6, <3>1
    <3> QED BY <3>1, <3>2, <3>3
  <2>4. CASE i = a + b
    <3>1. b \in 1 .. b
      BY <1>1
    <3> QED BY <1>5, <1>6, <1>7, <2>4, <3>1
  <2> QED BY <1>1, <2>1, <2>2, <2>3, <2>4
<1>9. x = w
  BY <1>6, <1>7, <1>8
<1> QED BY <1>9 DEF x, w, s, t, u, h

\* The values handed over are the numbers of earlier calls, in their order.
Calls(q, c) ==
  /\ q \in Seq(Nat)
  /\ \A i \in 1 .. Len(q) : q[i] < c
  /\ \A i, j \in 1 .. Len(q) : i < j => q[i] < q[j]

LEMMA CallsLater == ASSUME NEW q, NEW c \in Nat, Calls(q, c) PROVE Calls(q, c + 1)
  BY DEF Calls

LEMMA CallsAppend == ASSUME NEW q, NEW c \in Nat, Calls(q, c) PROVE Calls(Append(q, c), c + 1)
<1> DEFINE r == Append(q, c)
<1>1. r \in Seq(Nat) /\ Len(r) = Len(q) + 1 /\ r[Len(q) + 1] = c
      /\ \A i \in 1 .. Len(q) : r[i] = q[i] /\ q[i] \in Nat
  BY DEF Calls
<1>2. Len(q) \in Nat /\ \A i \in 1 .. Len(r) : i \in 1 .. Len(q) \/ i = Len(q) + 1
  BY <1>1 DEF Calls
<1> HIDE DEF r
<1>3. \A i \in 1 .. Len(r) : r[i] < c + 1
  BY <1>1, <1>2, SMTT(30) DEF Calls
<1>4. \A i, j \in 1 .. Len(r) : i < j => r[i] < r[j]
  <2> TAKE i, j \in 1 .. Len(r)
  <2> HAVE i < j
  <2>1. i \in 1 .. Len(q)
    BY <1>1, <1>2
  <2>2. CASE j \in 1 .. Len(q)
    BY <1>1, <2>1, <2>2 DEF Calls
  <2>3. CASE j = Len(q) + 1
    BY <1>1, <2>1, <2>3 DEF Calls
  <2> QED BY <1>2, <2>2, <2>3
<1>5. Calls(r, c + 1)
  BY <1>1, <1>3, <1>4 DEF Calls
<1> QED BY <1>5 DEF r

\* o and n are samples of the values q, taken before call c; steady: no update
\* has been paused.
SamplesOf(o, n, q, c, steady) ==
  /\ o \in Seq(Nat) /\ n \in Seq(Nat)
  /\ Len(o) <= sample_old_size /\ Len(n) <= sample_new_size
  /\ n # <<>> => Len(o) = sample_old_size
  /\ EndOf(n, q)
  /\ \A i \in 1 .. Len(o) : o[i] < c
  /\ \A i \in 1 .. Len(o) : \A j \in 1 .. Len(n) : o[i] < n[j]
  /\ n = <<>> => EndOf(o, q)
  /\ steady => EndOf(o \o n, q)

SizesAssumption == sample_old_size \in Nat \ {0} /\ sample_new_size \in Nat \ {0}

LEMMA SamplesLater ==
  ASSUME NEW o, NEW n, NEW q, NEW c \in Nat, NEW steady, SamplesOf(o, n, q, c, steady)
  PROVE  SamplesOf(o, n, q, c + 1, steady)
  BY DEF SamplesOf

LEMMA SamplesNone ==
  ASSUME SizesAssumption, NEW q \in Seq(Nat), NEW c \in Nat, NEW steady
  PROVE  SamplesOf(<<>>, <<>>, q, c, steady)
<1>1. <<>> \o <<>> = <<>> /\ <<>> \in Seq(Nat) /\ Len(<<>>) = 0
  OBVIOUS
<1>2. EndOf(<<>>, q)
  BY EndOfNone
<1>3. EndOf(<<>> \o <<>>, q)
  BY <1>1, <1>2
<1> QED BY <1>1, <1>2, <1>3 DEF SamplesOf, SizesAssumption

\* The first samples: the old one fills up.
LEMMA SamplesOld ==
  ASSUME SizesAssumption, NEW o, NEW n, NEW q, NEW c \in Nat, NEW steady, Calls(q, c),
         SamplesOf(o, n, q, c, steady), Len(o) # sample_old_size
  PROVE  SamplesOf(Append(o, c), n, Append(q, c), c + 1, steady)
<1> DEFINE t == Append(o, c)
           r == Append(q, c)
<1>1. n = <<>> /\ o \in Seq(Nat) /\ q \in Seq(Nat)
  BY DEF SamplesOf, Calls
<1>2. EndOf(t, r)
  BY <1>1, EndOfAppend DEF SamplesOf
<1>3. t \in Seq(Nat) /\ Len(t) = Len(o) + 1 /\ Len(o) \in Nat /\ r \in Seq(Nat)
      /\ \A i \in 1 .. Len(t) : (i \in 1 .. Len(o) /\ t[i] = o[i]) \/ t[i] = c
  BY <1>1
<1> HIDE DEF t, r
<1>4. EndOf(n, r)
  BY <1>1, <1>3, EndOfNone
<1>5. t \o n = t
  BY <1>1, <1>3
<1>6. EndOf(t \o n, r)
  BY <1>2, <1>5
<1>7. \A i \in 1 .. Len(t) : t[i] < c + 1
  <2>1. \A i \in 1 .. Len(o) : o[i] \in Nat /\ o[i] < c
    BY <1>1 DEF SamplesOf
  <2>2. \A i \in 1 .. Len(o) : o[i] < c + 1
    BY <2>1
  <2>3. c < c + 1
    OBVIOUS
  <2> QED BY <1>3, <2>2, <2>3
<1>8. Len(t) <= sample_old_size
  BY <1>1, <1>3 DEF SamplesOf, SizesAssumption
<1>9. n \in Seq(Nat) /\ Len(n) = 0
  BY <1>1
<1>10. SamplesOf(t, n, r, c + 1, steady)
  BY <1>1, <1>2, <1>3, <1>4, <1>6, <1>7, <1>8, <1>9 DEF SamplesOf, SizesAssumption
<1> QED BY <1>10 DEF t, r

\* Then the new one fills up.
LEMMA SamplesNew ==
  ASSUME SizesAssumption, NEW o, NEW n, NEW q, NEW c \in Nat, NEW steady, Calls(q, c),
         SamplesOf(o, n, q, c, steady), Len(o) = sample_old_size, Len(n) # sample_new_size
  PROVE  SamplesOf(o, Append(n, c), Append(q, c), c + 1, steady)
<1> DEFINE t == Append(n, c)
           r == Append(q, c)
<1>1. n \in Seq(Nat) /\ o \in Seq(Nat) /\ q \in Seq(Nat) /\ o \o n \in Seq(Nat)
  BY DEF SamplesOf, Calls
<1>2. EndOf(t, r)
  BY EndOfAppend DEF SamplesOf
<1>3. t \in Seq(Nat) /\ Len(t) = Len(n) + 1 /\ Len(n) \in Nat
      /\ \A i \in 1 .. Len(t) : (i \in 1 .. Len(n) /\ t[i] = n[i]) \/ t[i] = c
  BY <1>1
<1>4. o \o t = Append(o \o n, c)
  BY <1>1, SMTT(30)
<1>5. steady => EndOf(o \o t, r)
  <2> HAVE steady
  <2>1. EndOf(Append(o \o n, c), r)
    BY EndOfAppend DEF SamplesOf
  <2> QED BY <1>4, <2>1
<1> HIDE DEF t, r
<1>6. \A i \in 1 .. Len(o) : \A j \in 1 .. Len(t) : o[i] < t[j]
  BY <1>1, <1>3 DEF SamplesOf
<1>7. \A i \in 1 .. Len(o) : o[i] < c + 1
  BY <1>1 DEF SamplesOf
<1>8. Len(t) <= sample_new_size /\ Len(o) <= sample_old_size
  BY <1>1, <1>3 DEF SamplesOf, SizesAssumption
<1>9. SamplesOf(o, t, r, c + 1, steady)
  BY <1>1, <1>2, <1>3, <1>5, <1>6, <1>7, <1>8 DEF SamplesOf
<1> QED BY <1>9 DEF t, r

\* Then both move on, or only the new one, if the update of the old is paused.
LEMMA SamplesMove ==
  ASSUME SizesAssumption, NEW o, NEW n, NEW q, NEW c \in Nat, NEW steady, Calls(q, c),
         SamplesOf(o, n, q, c, steady), Len(o) = sample_old_size, Len(n) = sample_new_size
  PROVE  /\ SamplesOf(Append(Tail(o), Head(n)), Append(Tail(n), c), Append(q, c), c + 1, steady)
         /\ SamplesOf(o, Append(Tail(n), c), Append(q, c), c + 1, FALSE)
<1> DEFINE s == Append(Tail(o), Head(n))
           t == Append(Tail(n), c)
           r == Append(q, c)
<1>1. /\ n \in Seq(Nat) /\ o \in Seq(Nat) /\ q \in Seq(Nat) /\ o \o n \in Seq(Nat)
      /\ Len(o) \in Nat \ {0} /\ Len(n) \in Nat \ {0}
  BY DEF SamplesOf, Calls, SizesAssumption
<1>2. n # <<>> /\ o # <<>> /\ o \o n # <<>>
  BY <1>1
<1>3. EndOf(t, r)
  <2>1. EndOf(Tail(n), q)
    BY <1>2, EndOfTail DEF SamplesOf
  <2> QED BY <2>1, EndOfAppend
<1>4. s \o t = Append(Tail(o \o n), c)
  BY <1>1, <1>2, Shifted
<1>5. steady => EndOf(s \o t, r)
  <2> HAVE steady
  <2>1. EndOf(Tail(o \o n), q)
    BY <1>2, EndOfTail DEF SamplesOf
  <2>2. EndOf(Append(Tail(o \o n), c), r)
    BY <2>1, EndOfAppend
  <2> QED BY <1>4, <2>2
<1>6. t \in Seq(Nat) /\ Len(t) = Len(n)
      /\ \A j \in 1 .. Len(t) : (j + 1 \in 1 .. Len(n) /\ t[j] = n[j + 1]) \/ t[j] = c
  <2>1. Tail(n) \in Seq(Nat) /\ Len(Tail(n)) = Len(n) - 1
        /\ \A j \in 1 .. (Len(n) - 1) : Tail(n)[j] = n[j + 1]
    BY <1>1, <1>2
  <2> DEFINE m == Tail(n)
  <2> HIDE DEF m
  <2>2. m \in Seq(Nat) /\ Len(m) = Len(n) - 1
        /\ \A j \in 1 .. (Len(n) - 1) : m[j] = n[j + 1]
    BY <2>1 DEF m
  <2>3. t = Append(m, c)
    BY DEF m
  <2>4. t \in Seq(Nat) /\ Len(t) = Len(n) /\ t[Len(n)] = c
        /\ \A j \in 1 .. (Len(n) - 1) : t[j] = m[j]
    BY <1>1, <2>2, <2>3
  <2>5. \A j \in 1 .. Len(n) : j = Len(n) \/ (j \in 1 .. (Len(n) - 1) /\ j + 1 \in 1 .. Len(n))
    BY <1>1
  <2> HIDE DEF t
  <2> QED BY <2>2, <2>4, <2>5
<1>7. s \in Seq(Nat) /\ Len(s) = Len(o) /\ n[1] \in Nat /\ 1 \in 1 .. Len(n)
      /\ \A i \in 1 .. Len(s) : (i + 1 \in 1 .. Len(o) /\ s[i] = o[i + 1]) \/ s[i] = n[1]
  BY <1>1, <1>2
<1> HIDE DEF s, t, r
\* The values of the new sample are in order, and earlier calls.
<1>8. \A j \in 1 .. Len(n) : n[j] < c /\ (j > 1 => n[1] < n[j])
  <2> TAKE j \in 1 .. Len(n)
  <2>1. /\ EndOf(n, q) /\ Len(n) <= Len(q)
        /\ n[j] = q[Len(q) - Len(n) + j] /\ n[1] = q[Len(q) - Len(n) + 1]
    BY <1>1, <1>7 DEF SamplesOf, EndOf
  <2>2. Len(q) - Len(n) + j \in 1 .. Len(q) /\ Len(q) - Len(n) + 1 \in 1 .. Len(q)
    BY <1>1, <2>1, SMTT(30)
  <2>3. j > 1 => Len(q) - Len(n) + 1 < Len(q) - Len(n) + j
    BY <1>1, <2>1
  <2> QED BY <2>1, <2>2, <2>3 DEF Calls
<1>9. \A i \in 1 .. Len(o) : o[i] \in Nat /\ o[i] < c /\ \A j \in 1 .. Len(n) : o[i] < n[j]
  BY <1>1 DEF SamplesOf
<1>10. \A j \in 1 .. Len(n) : n[j] \in Nat
  BY <1>1
<1>11. \A i \in 1 .. Len(s) : s[i] < c + 1 /\ \A j \in 1 .. Len(t) : s[i] < t[j]
  <2> TAKE i \in 1 .. Len(s)
  <2>1. s[i] < c + 1
    <3>1. CASE s[i] = n[1]
      BY <1>7, <1>8, <1>10, <3>1
    <3>2. CASE i + 1 \in 1 .. Len(o) /\ s[i] = o[i + 1]
      <4>1. o[i + 1] \in Nat /\ o[i + 1] < c
        BY <1>9, <3>2
      <4> QED BY <3>2, <4>1
    <3> QED BY <1>7, <3>1, <3>2
  <2>2. ASSUME NEW j \in 1 .. Len(t) PROVE s[i] < t[j]
    <3>1. CASE t[j] = c
      <4>1. CASE s[i] = n[1]
        BY <1>7, <1>8, <3>1, <4>1
      <4>2. CASE i + 1 \in 1 .. Len(o) /\ s[i] = o[i + 1]
        BY <1>9, <3>1, <4>2
      <4> QED BY <1>7, <4>1, <4>2
    <3>2. CASE j + 1 \in 1 .. Len(n) /\ t[j] = n[j + 1]
      <4>1. j + 1 > 1
        OBVIOUS
      <4>2. n[1] < n[j + 1]
        BY <1>8, <3>2, <4>1
      <4> QED BY <1>7, <1>9, <3>2, <4>2
    <3> QED BY <1>6, <3>1, <3>2
  <2> QED BY <2>1, <2>2
<1>12. \A i \in 1 .. Len(o) : o[i] < c + 1 /\ \A j \in 1 .. Len(t) : o[i] < t[j]
  <2> TAKE i \in 1 .. Len(o)
  <2>1. o[i] \in Nat /\ o[i] < c
    BY <1>9
  <2>2. ASSUME NEW j \in 1 .. Len(t) PROVE o[i] < t[j]
    <3>1. CASE t[j] = c
      BY <2>1, <3>1
    <3>2. CASE j + 1 \in 1 .. Len(n) /\ t[j] = n[j + 1]
      BY <1>9, <3>2
    <3> QED BY <1>6, <3>1, <3>2
  <2> QED BY <2>1, <2>2
<1>13. SamplesOf(s, t, r, c + 1, steady)
  BY <1>1, <1>3, <1>5, <1>6, <1>7, <1>11 DEF SamplesOf, SizesAssumption
<1>14. SamplesOf(o, t, r, c + 1, FALSE)
  BY <1>1, <1>3, <1>6, <1>12 DEF SamplesOf, SizesAssumption
<1> QED BY <1>13, <1>14 DEF s, t, r

\* The fields of the Params of an endpoint.
ParamsFields ==
  {"known", "Old", "New", "wkp_updated", "attack", "alarms", "mean", "learning",
   "ready_to_test", "X_curr", "cusum_updated", "pca_learning", "pca_ready"}

SameSamples(p, q) ==
  DOMAIN q = DOMAIN p /\ q.known = p.known /\ q.Old = p.Old /\ q.New = p.New

LEMMA TestsKeepSamples ==
  ASSUME NEW p, DOMAIN p = ParamsFields, NEW wkp, NEW cusum
  PROVE  SameSamples(p, Tests!Tested(p, wkp, cusum))
<1>1. ASSUME NEW r, DOMAIN r = ParamsFields, NEW found
      PROVE  SameSamples(r, Tests!wkp_test(r, found)) /\ SameSamples(r, Tests!cusum_test(r, found))
  BY <1>1 DEF Tests!wkp_test, Tests!cusum_test, Tests!Recorded, SameSamples, ParamsFields
<1> DEFINE q == IF Tests!WkpTested(p) THEN Tests!wkp_test(p, wkp) ELSE p
<1>2. SameSamples(p, q)
  BY <1>1 DEF SameSamples
<1> HIDE DEF q
<1>3. DOMAIN q = ParamsFields
  BY <1>2 DEF SameSamples
<1>4. SameSamples(q, IF Tests!CusumTested(p) THEN Tests!cusum_test(q, cusum) ELSE q)
  BY <1>1, <1>3 DEF SameSamples
<1>5. Tests!Tested(p, wkp, cusum) = IF Tests!CusumTested(p) THEN Tests!cusum_test(q, cusum) ELSE q
  BY DEF Tests!Tested, q
<1> QED BY <1>2, <1>4, <1>5 DEF SameSamples

LEMMA LearningKeepsSamples ==
  ASSUME NEW p, DOMAIN p = ParamsFields, NEW v
  PROVE  SameSamples(p, Tests!cusum_update(p, v)) /\ SameSamples(p, Tests!ExtractPca(p))
  BY DEF Tests!cusum_update, Tests!ExtractPca, SameSamples, ParamsFields

\* What the samples are after the update with the value of call c.
LEMMA UpdateMovesSamples ==
  ASSUME SizesAssumption, NEW p, DOMAIN p = ParamsFields, NEW q, NEW c \in Nat, Calls(q, c),
         config.wkp,
         SamplesOf(p.Old, p.New, q, c, config.pause \in {0, 3})
  PROVE  LET r == Tests!wkp_update(p, c)
         IN /\ DOMAIN r = ParamsFields /\ r.known = p.known
            /\ SamplesOf(r.Old, r.New, Append(q, c), c + 1, config.pause \in {0, 3})
<1> DEFINE r == Tests!wkp_update(p, c)
           steady == config.pause \in {0, 3}
           o == p.Old
           n == p.New
<1>1. CASE Len(o) # sample_old_size
  <2>1. DOMAIN r = ParamsFields /\ r.known = p.known /\ r.Old = Append(o, c) /\ r.New = n
    BY <1>1 DEF Tests!wkp_update, ParamsFields
  <2> HIDE DEF r, o, n, steady
  <2>2. SamplesOf(Append(o, c), n, Append(q, c), c + 1, steady)
    BY <1>1, SamplesOld DEF o, n, steady
  <2> QED BY <2>1, <2>2 DEF r, steady
<1>2. CASE Len(o) = sample_old_size /\ Len(n) # sample_new_size
  <2>1. DOMAIN r = ParamsFields /\ r.known = p.known /\ r.Old = o /\ r.New = Append(n, c)
    BY <1>2 DEF Tests!wkp_update, ParamsFields
  <2> HIDE DEF r, o, n, steady
  <2>2. SamplesOf(o, Append(n, c), Append(q, c), c + 1, steady)
    BY <1>2, SamplesNew DEF o, n, steady
  <2> QED BY <2>1, <2>2 DEF r, steady
<1>3. CASE Len(o) = sample_old_size /\ Len(n) = sample_new_size
  <2>1. /\ DOMAIN r = ParamsFields /\ r.known = p.known /\ r.New = Append(Tail(n), c)
        /\ r.Old = IF Tests!WkpPaused(p) THEN o ELSE Append(Tail(o), Head(n))
    BY <1>3 DEF Tests!wkp_update, ParamsFields
  <2>2. Tests!WkpPaused(p) => ~steady
    BY DEF Tests!WkpPaused
  <2> HIDE DEF r, o, n, steady
  <2>3. /\ SamplesOf(Append(Tail(o), Head(n)), Append(Tail(n), c), Append(q, c), c + 1, steady)
        /\ SamplesOf(o, Append(Tail(n), c), Append(q, c), c + 1, FALSE)
    BY <1>3, SamplesMove DEF o, n, steady
  <2>4. ~steady => SamplesOf(o, Append(Tail(n), c), Append(q, c), c + 1, steady)
    BY <2>3 DEF SamplesOf
  <2>5. CASE Tests!WkpPaused(p)
    BY <2>1, <2>2, <2>4, <2>5 DEF r, steady
  <2>6. CASE ~Tests!WkpPaused(p)
    BY <2>1, <2>3, <2>6 DEF r, steady
  <2> QED BY <2>5, <2>6
<1> QED BY <1>1, <1>2, <1>3

SamplesInv ==
  component = "tests" =>
    /\ test_counter \in Nat /\ Calls(got, test_counter)
    /\ P.known \in BOOLEAN
    /\ P.known => DOMAIN P = ParamsFields
    /\ P.known /\ config.wkp =>
         SamplesOf(P.Old, P.New, got, test_counter, config.pause \in {0, 3})

LEMMA SamplesInit == SideInit => SamplesInv
<1> SUFFICES ASSUME SideInit, component = "tests" PROVE SamplesInv
  BY DEF SamplesInv
<1>1. test_counter = 0 /\ got = <<>> /\ P.known = FALSE
  BY DEF SideInit, Tests!Init, Tests!NoParams
<1>2. Calls(<<>>, 0)
  BY DEF Calls
<1> QED BY <1>1, <1>2 DEF SamplesInv

\* One step of the tests.
LEMMA SamplesStep ==
  ASSUME SizesAssumption, component = "tests", component' = "tests", SamplesInv, Tests!Next
  PROVE  SamplesInv'
<1>1. /\ test_counter \in Nat /\ Calls(got, test_counter) /\ P.known \in BOOLEAN
      /\ P.known => DOMAIN P = ParamsFields
      /\ P.known /\ config.wkp =>
           SamplesOf(P.Old, P.New, got, test_counter, config.pause \in {0, 3})
  BY DEF SamplesInv
<1> DEFINE c == test_counter
           steady == config.pause \in {0, 3}
<1>2. CASE Tests!TestEmpty
  <2>1. c' = c + 1 /\ UNCHANGED <<config, P, got>>
    BY <1>2 DEF Tests!TestEmpty
  <2>2. Calls(got, c + 1)
    BY <1>1, CallsLater
  <2>3. P.known /\ config.wkp => SamplesOf(P.Old, P.New, got, c + 1, steady)
    BY <1>1, SamplesLater
  <2> QED BY <1>1, <2>1, <2>2, <2>3 DEF SamplesInv
<1>3. CASE Tests!Stopped
  BY <1>1, <1>3 DEF Tests!Stopped, Tests!vars, SamplesInv
<1>4. CASE Tests!Test
  <2>1. PICK present \in BOOLEAN :
          LET learns == present /\ (Tests!HasData(P) \/ (~P.known /\ ~config.pca))
              p == IF present THEN Tests!Update(P, test_counter) ELSE P
          IN IF ~p.known THEN UNCHANGED <<P, got, trace>>
             ELSE \E wkp, cusum :
                    /\ P' = Tests!Tested(p, wkp, cusum)
                    /\ got' = IF learns THEN Append(got, test_counter) ELSE got
    BY <1>4 DEF Tests!Test
  <2>2. c' = c + 1 /\ config' = config
    BY <1>4 DEF Tests!Test
  <2> DEFINE learns == present /\ (Tests!HasData(P) \/ (~P.known /\ ~config.pca))
             p == IF present THEN Tests!Update(P, c) ELSE P
             next == IF learns THEN Append(got, c) ELSE got
  <2>3. Calls(next, c + 1)
    BY <1>1, CallsLater, CallsAppend
  \* The samples after the update.
  <2>4. /\ p.known \in BOOLEAN
        /\ p.known => /\ DOMAIN p = ParamsFields
                      /\ config.wkp => SamplesOf(p.Old, p.New, next, c + 1, steady)
    <3>1. CASE ~present
      BY <1>1, <3>1, SamplesLater
    <3>2. CASE present /\ ~P.known
      <4>1. p = Tests!NewParams(c)
        BY <3>2 DEF Tests!Update
      <4>2. p.known = TRUE /\ DOMAIN p = ParamsFields
        BY <4>1 DEF Tests!NewParams, ParamsFields
      <4>3. CASE config.wkp /\ config.pca
        <5>1. p.Old = <<>> /\ p.New = <<>>
          BY <4>1, <4>3 DEF Tests!NewParams
        <5>2. next = got
          BY <3>2, <4>3 DEF Tests!HasData
        <5>3. SamplesOf(<<>>, <<>>, got, c + 1, steady)
          BY <1>1, SamplesNone DEF Calls
        <5> QED BY <4>2, <5>1, <5>2, <5>3
      <4>4. CASE config.wkp /\ ~config.pca
        <5>1. p.Old = <<c>> /\ p.New = <<>>
          BY <4>1, <4>4 DEF Tests!NewParams
        <5>2. next = Append(got, c)
          BY <3>2, <4>4
        <5>3. SamplesOf(<<>>, <<>>, got, c, steady)
          BY <1>1, SamplesNone DEF Calls
        <5>4. Len(<<>>) # sample_old_size /\ Append(<<>>, c) = <<c>>
          BY <1>1 DEF SizesAssumption
        <5>5. SamplesOf(Append(<<>>, c), <<>>, Append(got, c), c + 1, steady)
          BY <1>1, <5>3, <5>4, SamplesOld
        <5> QED BY <4>2, <5>1, <5>2, <5>4, <5>5
      <4> QED BY <4>2, <4>3, <4>4
    <3>3. CASE present /\ P.known /\ ~Tests!HasData(P)
      <4>1. p = Tests!ExtractPca(P)
        BY <3>3 DEF Tests!Update
      <4>2. SameSamples(P, p)
        BY <1>1, <3>3, <4>1, LearningKeepsSamples
      <4>3. next = got
        BY <3>3
      <4>4. config.wkp => SamplesOf(P.Old, P.New, got, c + 1, steady)
        BY <1>1, <3>3, SamplesLater
      <4> HIDE DEF p, next
      <4> QED BY <1>1, <3>3, <4>2, <4>3, <4>4 DEF SameSamples
    <3>4. CASE present /\ P.known /\ Tests!HasData(P)
      <4> DEFINE r == Tests!wkp_update(P, c)
      <4>1. p = Tests!cusum_update(r, c)
        BY <3>4 DEF Tests!Update
      <4>2. next = Append(got, c)
        BY <3>4
      <4>3. DOMAIN r = ParamsFields /\ r.known = P.known
            /\ (config.wkp => SamplesOf(r.Old, r.New, Append(got, c), c + 1, steady))
        <5>1. CASE ~config.wkp
          BY <1>1, <3>4, <5>1 DEF Tests!wkp_update
        <5>2. CASE config.wkp
          BY <1>1, <3>4, <5>2, UpdateMovesSamples
        <5> QED BY <5>1, <5>2
      <4> HIDE DEF r
      <4>4. SameSamples(r, p)
        BY <4>1, <4>3, LearningKeepsSamples
      <4> HIDE DEF p, next
      <4> QED BY <1>1, <4>2, <4>3, <4>4 DEF SameSamples
    <3> QED BY <1>1, <3>1, <3>2, <3>3, <3>4
  <2>5. CASE ~p.known
    <3>1. UNCHANGED <<P, got>>
      BY <2>1, <2>5
    <3>2. ~P.known
      <4>1. present /\ P.known => p.known
        <5>1. ASSUME present, P.known PROVE p.known
          <6>1. CASE ~Tests!HasData(P)
            <7>1. p = Tests!ExtractPca(P)
              BY <5>1, <6>1 DEF Tests!Update
            <7> HIDE DEF p
            <7> QED BY <1>1, <5>1, <7>1, LearningKeepsSamples DEF SameSamples
          <6>2. CASE Tests!HasData(P)
            <7> DEFINE r == Tests!wkp_update(P, c)
            <7>1. p = Tests!cusum_update(r, c)
              BY <5>1, <6>2 DEF Tests!Update
            <7>2. DOMAIN r = ParamsFields /\ r.known = P.known
              BY <1>1, <5>1 DEF Tests!wkp_update, ParamsFields
            <7> HIDE DEF p, r
            <7> QED BY <1>1, <5>1, <7>1, <7>2, LearningKeepsSamples DEF SameSamples
          <6> QED BY <6>1, <6>2
        <5> QED BY <5>1
      <4> QED BY <2>5, <4>1
    <3>3. Calls(got, c + 1)
      BY <1>1, CallsLater
    <3> QED BY <1>1, <2>2, <3>1, <3>2, <3>3 DEF SamplesInv
  <2>6. CASE p.known
    <3> HIDE DEF p
    <3>1. PICK wkp, cusum : P' = Tests!Tested(p, wkp, cusum) /\ got' = next
      BY <2>1, <2>6 DEF p
    <3>2. SameSamples(p, P')
      BY <2>4, <2>6, <3>1, TestsKeepSamples
    <3> HIDE DEF next
    <3>3. /\ P.known' = p.known /\ DOMAIN P' = DOMAIN p /\ P.Old' = p.Old /\ P.New' = p.New
      BY <3>2 DEF SameSamples
    <3> QED BY <1>1, <2>2, <2>3, <2>4, <2>6, <3>1, <3>3 DEF SamplesInv
  <2> QED BY <2>4, <2>5, <2>6
<1> QED BY <1>2, <1>3, <1>4 DEF Tests!Next

LEMMA SamplesNext ==
  ASSUME SizesAssumption PROVE SamplesInv /\ [SideNext]_sideVars => SamplesInv'
<1> SUFFICES ASSUME SamplesInv, [SideNext]_sideVars, component' = "tests" PROVE SamplesInv'
  BY DEF SamplesInv
<1>1. component = "tests" /\ (Tests!Next \/ UNCHANGED TestsVars)
  BY DEF SideNext, sideVars
<1>2. CASE Tests!Next
  BY <1>1, <1>2, SamplesStep
<1>3. CASE UNCHANGED TestsVars
  BY <1>1, <1>3 DEF SamplesInv, TestsVars
<1> QED BY <1>1, <1>2, <1>3

\* SamplesAreRecent: the new sample is the latest values and the old one comes
\* before it, without a gap where no update is paused (Stat::wkp_update).
THEOREM SamplesStayRecent ==
  ASSUME SizesAssumption
  PROVE  SideSpec => []SamplesAreRecent
<1>1. SamplesInv => SamplesAreRecent
  <2> SUFFICES ASSUME SamplesInv, component = "tests", P.known, config.wkp
               PROVE  Tests!SamplesAreRecent
    BY DEF SamplesAreRecent, Tests!SamplesAreRecent
  <2>1. SamplesOf(P.Old, P.New, got, test_counter, config.pause \in {0, 3})
    BY DEF SamplesInv
  <2>2. P.New # <<>> => Tests!IsSuffix(P.New, got)
    BY <2>1, EndOfIsSuffix DEF SamplesOf
  <2>3. config.pause \in {0, 3} => Tests!IsSuffix(P.Old \o P.New, got)
    BY <2>1, EndOfIsSuffix DEF SamplesOf
  <2>4. DOMAIN P.Old = 1 .. Len(P.Old) /\ DOMAIN P.New = 1 .. Len(P.New)
    BY <2>1 DEF SamplesOf
  <2> QED BY <2>1, <2>2, <2>3, <2>4 DEF SamplesOf, Tests!SamplesAreRecent
<1> QED BY SamplesInit, SamplesNext, <1>1, PTL DEF SideSpec

-----------------------------------------------------------------------------
(* The tests of an endpoint: its alarms. *)

\* The tests that are counted for an alarm: those that found it, of each run
\* of them only the first if only that is to be reported.
Counting(s, a, once) == {i \in DOMAIN s : a \in s[i] /\ (once /\ i > 1 => a \notin s[i - 1])}

\* The last test found it.
FoundLast(s, a) == Len(s) > 0 /\ a \in s[Len(s)]

LEMMA CountingAppend ==
  ASSUME NEW S, NEW s \in Seq(SUBSET S), NEW found \in SUBSET S, NEW a, NEW once
  PROVE  /\ Cardinality(Counting(Append(s, found), a, once))
              = IF a \in found /\ (~once \/ ~FoundLast(s, a))
                  THEN Cardinality(Counting(s, a, once)) + 1
                  ELSE Cardinality(Counting(s, a, once))
         /\ FoundLast(Append(s, found), a) <=> a \in found
<1> DEFINE t == Append(s, found)
           n == Len(s) + 1
           C == Counting(s, a, once)
           D1 == Counting(t, a, once)
<1>1. /\ t \in Seq(SUBSET S) /\ Len(t) = n /\ n \in Nat /\ n > 0 /\ t[n] = found
      /\ \A i \in 1 .. Len(s) : t[i] = s[i]
      /\ DOMAIN t = 1 .. n /\ DOMAIN s = 1 .. Len(s) /\ Len(s) \in Nat
  OBVIOUS
<1> HIDE DEF t
<1>2. C \subseteq 1 .. Len(s) /\ IsFiniteSet(C) /\ Cardinality(C) \in Nat /\ n \notin C
  <2>1. C \subseteq 1 .. Len(s)
    BY <1>1 DEF Counting
  <2>2. IsFiniteSet(1 .. Len(s))
    BY <1>1, FS_Interval
  <2>3. IsFiniteSet(C)
    BY <2>1, <2>2, FS_Subset
  <2> QED BY <1>1, <2>1, <2>3, FS_CardinalityType
<1>3. ASSUME NEW i \in 1 .. Len(s) PROVE i \in D1 <=> i \in C
  <2>1. t[i] = s[i] /\ i \in 1 .. n /\ (i > 1 => t[i - 1] = s[i - 1])
    BY <1>1
  <2> QED BY <1>1, <2>1 DEF Counting
<1>4. D1 \subseteq 1 .. n
  BY <1>1 DEF Counting
<1>5. n \in D1 <=> a \in found /\ (~once \/ ~FoundLast(s, a))
  <2>1. n > 1 <=> Len(s) > 0
    BY <1>1
  <2>2. n > 1 => t[n - 1] = s[Len(s)]
    BY <1>1
  <2>3. n \in D1 <=> a \in found /\ (once /\ n > 1 => a \notin t[n - 1])
    BY <1>1 DEF Counting
  <2> QED BY <2>1, <2>2, <2>3 DEF FoundLast
<1>6. \A i \in 1 .. n : i = n \/ i \in 1 .. Len(s)
  BY <1>1
<1>7. FoundLast(t, a) <=> a \in found
  BY <1>1 DEF FoundLast
<1> HIDE DEF C, D1, n
<1>8. CASE n \in D1
  <2>1. D1 = C \cup {n}
    BY <1>2, <1>3, <1>4, <1>6, <1>8
  <2>2. Cardinality(C \cup {n}) = Cardinality(C) + 1
    BY <1>2, FS_AddElement
  <2>3. Cardinality(D1) = Cardinality(C) + 1
    BY <2>1, <2>2
  <2> QED BY <1>5, <1>7, <1>8, <2>3 DEF C, D1, t
<1>9. CASE n \notin D1
  <2>1. D1 = C
    BY <1>2, <1>3, <1>4, <1>6, <1>9
  <2> QED BY <1>5, <1>7, <1>9, <2>1 DEF C, D1, t
<1> QED BY <1>8, <1>9

LEMMA CountingNone ==
  ASSUME NEW a, NEW once
  PROVE  Cardinality(Counting(<<>>, a, once)) = 0 /\ ~FoundLast(<<>>, a)
<1>1. Counting(<<>>, a, once) = {}
  BY DEF Counting
<1> QED BY <1>1, FS_EmptySet DEF FoundLast

\* What each test of the means found.
Founds(t) == [i \in DOMAIN t |-> t[i].found]

FoundIn(R, S) == \A x \in R : x.found \in SUBSET S

LEMMA FoundsType ==
  ASSUME NEW S, NEW R, FoundIn(R, S), NEW t \in Seq(R)
  PROVE  Founds(t) \in Seq(SUBSET S)
<1>1. DOMAIN t = 1 .. Len(t) /\ Len(t) \in Nat /\ \A i \in 1 .. Len(t) : t[i].found \in SUBSET S
  BY DEF FoundIn
<1> QED BY <1>1 DEF Founds

LEMMA FoundsAppend ==
  ASSUME NEW R, NEW t \in Seq(R), NEW r \in R
  PROVE  Founds(Append(t, r)) = Append(Founds(t), r.found)
<1> DEFINE F == {x.found : x \in R}
           u == Append(t, r)
           f == Founds(t)
           g == Founds(u)
<1>1. /\ DOMAIN t = 1 .. Len(t) /\ Len(t) \in Nat /\ \A i \in 1 .. Len(t) : t[i].found \in F
      /\ r.found \in F
  OBVIOUS
<1>2. /\ DOMAIN u = 1 .. (Len(t) + 1) /\ u[Len(t) + 1] = r
      /\ \A i \in 1 .. Len(t) : u[i] = t[i]
  OBVIOUS
<1> HIDE DEF u, F
<1>3. f \in Seq(F) /\ Len(f) = Len(t) /\ \A i \in 1 .. Len(t) : f[i] = t[i].found
  BY <1>1 DEF Founds
<1>4. g \in Seq(F) /\ Len(g) = Len(t) + 1 /\ g[Len(t) + 1] = r.found
      /\ \A i \in 1 .. Len(t) : g[i] = t[i].found
  <2>1. \A i \in 1 .. (Len(t) + 1) : i \in 1 .. Len(t) \/ i = Len(t) + 1
    BY <1>1
  <2>2. \A i \in 1 .. (Len(t) + 1) : u[i].found \in F
    BY <1>1, <1>2, <2>1
  <2>3. g = [i \in 1 .. (Len(t) + 1) |-> u[i].found]
    BY <1>2 DEF Founds
  <2>4. g \in Seq(F) /\ Len(g) = Len(t) + 1
    BY <1>1, <2>2, <2>3
  <2> QED BY <1>1, <1>2, <2>3, <2>4
<1> HIDE DEF f, g
<1> DEFINE h == Append(f, r.found)
<1>5. h \in Seq(F) /\ Len(h) = Len(t) + 1 /\ h[Len(t) + 1] = r.found
      /\ \A i \in 1 .. Len(t) : h[i] = t[i].found
  BY <1>1, <1>3
<1> HIDE DEF h
<1>6. \A i \in 1 .. (Len(t) + 1) : g[i] = h[i]
  BY <1>1, <1>4, <1>5
<1>7. g = h
  BY <1>1, <1>4, <1>5, <1>6
<1> QED BY <1>7 DEF f, g, h, u

\* The kinds of an alarm: a test of the samples, or of the means, and a metric.
Alarms == (Tests!WkpTests \cup {"cusum"}) \X config.metrics
KindOf(a, w, f) == IF a[1] = "cusum" THEN f ELSE w

\* The counters and the flags of the last attack are those of what the tests found.
AlarmsOf(attack, alarms, w, f, once) ==
  /\ DOMAIN alarms = Alarms
  /\ \A a \in Alarms :
       /\ alarms[a] = Cardinality(Counting(KindOf(a, w, f), a, once))
       /\ a \in attack <=> FoundLast(KindOf(a, w, f), a)

\* A test of the samples, and one of the means.
LEMMA WkpCounts ==
  ASSUME NEW p, DOMAIN p = ParamsFields, NEW found \in SUBSET (Tests!WkpTests \X config.metrics),
         NEW w \in Seq(SUBSET Alarms), NEW f,
         AlarmsOf(p.attack, p.alarms, w, f, config.onlyFirst)
  PROVE  LET q == Tests!wkp_test(p, found)
         IN AlarmsOf(q.attack, q.alarms, Append(w, found), f, config.onlyFirst)
<1> DEFINE q == Tests!wkp_test(p, found)
           t == Append(w, found)
           once == config.onlyFirst
<1>1. /\ q.attack = {a \in p.attack : a[1] \notin Tests!WkpTests} \cup found
      /\ q.alarms = [a \in DOMAIN p.alarms |->
                       IF a \in found /\ (~once \/ a \notin p.attack)
                         THEN p.alarms[a] + 1 ELSE p.alarms[a]]
  BY DEF Tests!wkp_test, Tests!Recorded, ParamsFields
<1>2. found \in SUBSET Alarms
  BY DEF Alarms
<1> HIDE DEF q, t, once
<1>3. DOMAIN q.alarms = Alarms
  BY <1>1 DEF AlarmsOf
<1>4. ASSUME NEW a \in Alarms
      PROVE  /\ q.alarms[a] = Cardinality(Counting(KindOf(a, t, f), a, once))
             /\ a \in q.attack <=> FoundLast(KindOf(a, t, f), a)
  <2>1. /\ p.alarms[a] = Cardinality(Counting(KindOf(a, w, f), a, once))
        /\ a \in p.attack <=> FoundLast(KindOf(a, w, f), a)
        /\ q.alarms[a] = IF a \in found /\ (~once \/ a \notin p.attack)
                           THEN p.alarms[a] + 1 ELSE p.alarms[a]
    BY <1>1 DEF AlarmsOf, once
  <2>2. CASE a[1] = "cusum"
    <3>1. a \notin found /\ a[1] \notin Tests!WkpTests
      BY <2>2 DEF Tests!WkpTests
    <3> QED BY <1>1, <2>1, <2>2, <3>1 DEF KindOf
  <2>3. CASE a[1] # "cusum"
    <3>1. a[1] \in Tests!WkpTests
      BY <2>3 DEF Alarms
    <3>2. /\ Cardinality(Counting(t, a, once)) = IF a \in found /\ (~once \/ ~FoundLast(w, a))
                                                   THEN Cardinality(Counting(w, a, once)) + 1
                                                   ELSE Cardinality(Counting(w, a, once))
          /\ FoundLast(t, a) <=> a \in found
      BY <1>2, CountingAppend DEF t
    <3> QED BY <1>1, <2>1, <2>3, <3>1, <3>2 DEF KindOf
  <2> QED BY <2>2, <2>3
<1>5. AlarmsOf(q.attack, q.alarms, t, f, once)
  BY <1>3, <1>4 DEF AlarmsOf
<1> QED BY <1>5 DEF q, t, once

LEMMA CusumCounts ==
  ASSUME NEW p, DOMAIN p = ParamsFields, NEW found \in SUBSET ({"cusum"} \X config.metrics),
         NEW w, NEW f \in Seq(SUBSET Alarms),
         AlarmsOf(p.attack, p.alarms, w, f, config.onlyFirst)
  PROVE  LET q == Tests!cusum_test(p, found)
         IN AlarmsOf(q.attack, q.alarms, w, Append(f, found), config.onlyFirst)
<1> DEFINE q == Tests!cusum_test(p, found)
           t == Append(f, found)
           once == config.onlyFirst
<1>1. /\ q.attack = {a \in p.attack : a[1] \notin {"cusum"}} \cup found
      /\ q.alarms = [a \in DOMAIN p.alarms |->
                       IF a \in found /\ (~once \/ a \notin p.attack)
                         THEN p.alarms[a] + 1 ELSE p.alarms[a]]
  BY DEF Tests!cusum_test, Tests!Recorded, ParamsFields
<1>2. found \in SUBSET Alarms
  BY DEF Alarms
<1> HIDE DEF q, t, once
<1>3. DOMAIN q.alarms = Alarms
  BY <1>1 DEF AlarmsOf
<1>4. ASSUME NEW a \in Alarms
      PROVE  /\ q.alarms[a] = Cardinality(Counting(KindOf(a, w, t), a, once))
             /\ a \in q.attack <=> FoundLast(KindOf(a, w, t), a)
  <2>1. /\ p.alarms[a] = Cardinality(Counting(KindOf(a, w, f), a, once))
        /\ a \in p.attack <=> FoundLast(KindOf(a, w, f), a)
        /\ q.alarms[a] = IF a \in found /\ (~once \/ a \notin p.attack)
                           THEN p.alarms[a] + 1 ELSE p.alarms[a]
    BY <1>1 DEF AlarmsOf, once
  <2>2. CASE a[1] # "cusum"
    <3>1. a \notin found
      BY <2>2
    <3> QED BY <1>1, <2>1, <2>2, <3>1 DEF KindOf
  <2>3. CASE a[1] = "cusum"
    <3>1. /\ Cardinality(Counting(t, a, once)) = IF a \in found /\ (~once \/ ~FoundLast(f, a))
                                                   THEN Cardinality(Counting(f, a, once)) + 1
                                                   ELSE Cardinality(Counting(f, a, once))
          /\ FoundLast(t, a) <=> a \in found
      BY <1>2, CountingAppend DEF t
    <3> QED BY <1>1, <2>1, <2>3, <3>1 DEF KindOf
  <2> QED BY <2>2, <2>3
<1>5. AlarmsOf(q.attack, q.alarms, w, t, once)
  BY <1>3, <1>4 DEF AlarmsOf
<1> QED BY <1>5 DEF q, t, once

\* An update leaves the alarms alone.
SameAlarms(p, q) ==
  /\ DOMAIN q = DOMAIN p /\ q.known = p.known
  /\ q.attack = p.attack /\ q.alarms = p.alarms /\ q.X_curr \in Int

LEMMA UpdateKeepsAlarms ==
  ASSUME NEW p, DOMAIN p = ParamsFields, p.known, p.X_curr \in Int, NEW c \in Nat
  PROVE  SameAlarms(p, Tests!Update(p, c))
<1> DEFINE r == Tests!wkp_update(p, c)
           q == Tests!cusum_update(r, c)
<1>1. SameAlarms(p, r)
  BY DEF Tests!wkp_update, SameAlarms, ParamsFields
<1> HIDE DEF r
<1>2. SameAlarms(r, q)
  <2>1. DOMAIN r = ParamsFields /\ r.X_curr \in Int
    BY <1>1 DEF SameAlarms
  <2>2. DOMAIN q = DOMAIN r /\ q.known = r.known /\ q.attack = r.attack /\ q.alarms = r.alarms
    BY <2>1 DEF Tests!cusum_update, ParamsFields
  <2>3. q.X_curr \in {r.X_curr, c}
    BY <2>1 DEF Tests!cusum_update, ParamsFields
  <2> QED BY <2>1, <2>2, <2>3 DEF SameAlarms
<1> HIDE DEF q
<1>3. SameAlarms(p, Tests!ExtractPca(p))
  BY DEF Tests!ExtractPca, SameAlarms, ParamsFields
<1>4. Tests!Update(p, c) = IF ~Tests!HasData(p) THEN Tests!ExtractPca(p) ELSE q
  BY DEF Tests!Update, q, r
<1> QED BY <1>1, <1>2, <1>3, <1>4 DEF SameAlarms

\* What a test of the means leaves in the history.
CusumTrace == Seq([X : Int, found : SUBSET Alarms])

AlarmsInv ==
  component = "tests" =>
    /\ test_counter \in Nat /\ config.tests \subseteq Tests!WkpTests
    /\ P.known \in BOOLEAN
    /\ P.known => DOMAIN P = ParamsFields /\ P.X_curr \in Int
    /\ trace.wkp \in Seq(SUBSET Alarms) /\ trace.cusum \in CusumTrace
    /\ ~P.known => trace.wkp = <<>> /\ trace.cusum = <<>>
    /\ P.known => AlarmsOf(P.attack, P.alarms, trace.wkp, Founds(trace.cusum), config.onlyFirst)

LEMMA SameCardinality == \A S : Tests!Cardinality(S) = Cardinality(S)
  BY DEF Tests!Cardinality, Cardinality

LEMMA XmlsNameTests == \A xml \in Xmls : xml.tests \subseteq Tests!WkpTests
<1>2. {} \subseteq Tests!WkpTests /\ {"wmw", "ks", "pcs"} \subseteq Tests!WkpTests
      /\ {"ks"} \subseteq Tests!WkpTests /\ {"wmw"} \subseteq Tests!WkpTests
  BY DEF Tests!WkpTests
<1>3. ASSUME NEW xml \in Xmls PROVE xml.tests \subseteq Tests!WkpTests
  <2>1. CASE xml \in {[Xml("absent", p, FALSE, "true", {}, TRUE) EXCEPT !.metrics = {1, 2}] : p \in 0..4}
    <3>1. PICK p \in 0 .. 4 : xml = [Xml("absent", p, FALSE, "true", {}, TRUE) EXCEPT !.metrics = {1, 2}]
      BY <2>1
    <3> QED BY <1>2, <3>1 DEF Xml
  <2>2. CASE xml \in {Xml("absent", p, FALSE, "false", {"wmw", "ks", "pcs"}, TRUE) : p \in 0..3}
    <3>1. PICK p \in 0 .. 3 : xml = Xml("absent", p, FALSE, "false", {"wmw", "ks", "pcs"}, TRUE)
      BY <2>2
    <3> QED BY <1>2, <3>1 DEF Xml
  <2>3. CASE xml \in {Xml("2", 1, FALSE, "true", {"ks"}, TRUE), Xml("false", 1, FALSE, "true", {"ks"}, TRUE),
                      Xml("absent", 1, TRUE, "true", {"wmw"}, TRUE), Xml("absent", 1, FALSE, "no section", {}, FALSE)}
    <3>1. /\ Xml("2", 1, FALSE, "true", {"ks"}, TRUE).tests = {"ks"}
          /\ Xml("false", 1, FALSE, "true", {"ks"}, TRUE).tests = {"ks"}
          /\ Xml("absent", 1, TRUE, "true", {"wmw"}, TRUE).tests = {"wmw"}
          /\ Xml("absent", 1, FALSE, "no section", {}, FALSE).tests = {}
      BY DEF Xml
    <3> QED BY <1>2, <2>3, <3>1
  <2> QED BY <2>1, <2>2, <2>3 DEF Xmls
<1> QED BY <1>3

LEMMA AlarmsInit == SideInit => AlarmsInv
<1> SUFFICES ASSUME SideInit, component = "tests" PROVE AlarmsInv
  BY DEF AlarmsInv
<1>1. PICK xml \in Xmls : config \in Tests!Configured(xml)
  BY DEF SideInit, Tests!Init
<1>2. config.tests \subseteq Tests!WkpTests
  <2>1. config.tests = IF xml.wkp_section THEN xml.tests ELSE {}
    BY <1>1 DEF Tests!Configured
  <2> QED BY <2>1, XmlsNameTests
<1>3. test_counter = 0 /\ P.known = FALSE /\ trace.wkp = <<>> /\ trace.cusum = <<>>
  BY DEF SideInit, Tests!Init, Tests!NoParams
<1>4. <<>> \in Seq(SUBSET Alarms) /\ <<>> \in CusumTrace
  BY DEF CusumTrace
<1> QED BY <1>2, <1>3, <1>4 DEF AlarmsInv

\* Both tests of one call, and what they leave in the history.
WkpTraced(p, w, wkp) == IF Tests!WkpTested(p) THEN Append(w, wkp) ELSE w
CusumTraced(p, t, cusum) ==
  IF Tests!CusumTested(p) THEN Append(t, [X |-> p.X_curr, found |-> cusum]) ELSE t

LEMMA TestsCount ==
  ASSUME NEW p, DOMAIN p = ParamsFields, p.X_curr \in Int,
         NEW w \in Seq(SUBSET Alarms), NEW t \in CusumTrace,
         AlarmsOf(p.attack, p.alarms, w, Founds(t), config.onlyFirst),
         NEW wkp \in SUBSET (Tests!WkpTests \X config.metrics),
         NEW cusum \in SUBSET ({"cusum"} \X config.metrics)
  PROVE  LET r == Tests!Tested(p, wkp, cusum)
             w2 == WkpTraced(p, w, wkp)
             t2 == CusumTraced(p, t, cusum)
         IN /\ DOMAIN r = ParamsFields /\ r.known = p.known /\ r.X_curr = p.X_curr
            /\ w2 \in Seq(SUBSET Alarms) /\ t2 \in CusumTrace
            /\ AlarmsOf(r.attack, r.alarms, w2, Founds(t2), config.onlyFirst)
<1> DEFINE r == Tests!Tested(p, wkp, cusum)
           w2 == WkpTraced(p, w, wkp)
           t2 == CusumTraced(p, t, cusum)
<1>1. w2 = IF Tests!WkpTested(p) THEN Append(w, wkp) ELSE w
  BY DEF WkpTraced
<1>2. t2 = IF Tests!CusumTested(p) THEN Append(t, [X |-> p.X_curr, found |-> cusum]) ELSE t
  BY DEF CusumTraced
<1>3. wkp \in SUBSET Alarms /\ cusum \in SUBSET Alarms
  BY DEF Alarms
<1> DEFINE q == IF Tests!WkpTested(p) THEN Tests!wkp_test(p, wkp) ELSE p
           found == [X |-> p.X_curr, found |-> cusum]
<1>4. DOMAIN q = ParamsFields /\ q.known = p.known /\ q.X_curr = p.X_curr
  BY DEF Tests!wkp_test, Tests!Recorded, ParamsFields
<1>5. r = IF Tests!CusumTested(p) THEN Tests!cusum_test(q, cusum) ELSE q
  BY DEF Tests!Tested
<1> HIDE DEF r, w2, t2
<1>6. AlarmsOf(q.attack, q.alarms, w2, Founds(t), config.onlyFirst)
  <2>1. CASE Tests!WkpTested(p)
    BY <1>1, <2>1, WkpCounts
  <2>2. CASE ~Tests!WkpTested(p)
    BY <1>1, <2>2
  <2> QED BY <2>1, <2>2
<1>7. w2 \in Seq(SUBSET Alarms)
  BY <1>1, <1>3
<1> HIDE DEF q
<1>8. CASE ~Tests!CusumTested(p)
  BY <1>2, <1>4, <1>5, <1>6, <1>7, <1>8 DEF r, w2, t2
<1>9. CASE Tests!CusumTested(p)
  <2>1. found \in [X : Int, found : SUBSET Alarms]
    BY <1>3
  <2>2. found.found = cusum /\ t2 = Append(t, found)
    BY <1>2, <1>9
  <2> HIDE DEF found
  <2>3. Founds(t) \in Seq(SUBSET Alarms) /\ Founds(Append(t, found)) = Append(Founds(t), found.found)
    <3> DEFINE R == [X : Int, found : SUBSET Alarms]
    <3>1. t \in Seq(R) /\ found \in R /\ FoundIn(R, Alarms)
      BY <2>1 DEF CusumTrace, FoundIn
    <3> HIDE DEF R
    <3>2. Founds(t) \in Seq(SUBSET Alarms)
      BY <3>1, FoundsType
    <3>3. Founds(Append(t, found)) = Append(Founds(t), found.found)
      BY <3>1, FoundsAppend
    <3> QED BY <3>2, <3>3
  <2>4. t2 \in CusumTrace
    <3> DEFINE R == [X : Int, found : SUBSET Alarms]
    <3>1. t \in Seq(R) /\ found \in R /\ CusumTrace = Seq(R)
      BY <2>1 DEF CusumTrace
    <3> HIDE DEF R
    <3>2. Append(t, found) \in Seq(R)
      BY <3>1
    <3> QED BY <2>2, <3>1, <3>2
  <2>5. r = Tests!cusum_test(q, cusum)
    BY <1>5, <1>9
  <2>6. AlarmsOf(r.attack, r.alarms, w2, Append(Founds(t), cusum), config.onlyFirst)
    BY <1>4, <1>6, <2>3, <2>5, CusumCounts
  <2>7. DOMAIN r = ParamsFields /\ r.known = q.known /\ r.X_curr = q.X_curr
    BY <1>4, <2>5 DEF Tests!cusum_test, Tests!Recorded, ParamsFields
  <2> QED BY <1>4, <1>7, <2>2, <2>3, <2>4, <2>6, <2>7 DEF r, w2, t2
<1> QED BY <1>8, <1>9

LEMMA AlarmsStep ==
  ASSUME SizesAssumption, component = "tests", component' = "tests", AlarmsInv, Tests!Next
  PROVE  AlarmsInv'
<1>1. /\ test_counter \in Nat /\ config.tests \subseteq Tests!WkpTests
      /\ P.known \in BOOLEAN
      /\ P.known => DOMAIN P = ParamsFields /\ P.X_curr \in Int
      /\ trace.wkp \in Seq(SUBSET Alarms) /\ trace.cusum \in CusumTrace
      /\ ~P.known => trace.wkp = <<>> /\ trace.cusum = <<>>
      /\ P.known => AlarmsOf(P.attack, P.alarms, trace.wkp, Founds(trace.cusum), config.onlyFirst)
  BY DEF AlarmsInv
<1>2. CASE UNCHANGED <<config, P, trace>> /\ test_counter' \in Nat
  <2>1. CusumTrace' = CusumTrace /\ Alarms' = Alarms
    BY <1>2 DEF CusumTrace, Alarms
  <2>2. P.known => AlarmsOf(P.attack, P.alarms, trace.wkp, Founds(trace.cusum), config.onlyFirst)'
    BY <1>1, <1>2, <2>1 DEF AlarmsOf
  <2> QED BY <1>1, <1>2, <2>1, <2>2 DEF AlarmsInv
<1>3. CASE Tests!TestEmpty
  <2>1. UNCHANGED <<config, P, trace>> /\ test_counter' \in Nat
    BY <1>1, <1>3 DEF Tests!TestEmpty
  <2> QED BY <1>2, <2>1
<1>4. CASE Tests!Stopped
  <2>1. UNCHANGED <<config, P, trace>> /\ test_counter' \in Nat
    BY <1>1, <1>4 DEF Tests!Stopped, Tests!vars
  <2> QED BY <1>2, <2>1
<1>5. CASE Tests!Test
  <2>1. config' = config /\ test_counter' \in Nat
    BY <1>1, <1>5 DEF Tests!Test
  <2>2. PICK present \in BOOLEAN :
          LET p == IF present THEN Tests!Update(P, test_counter) ELSE P
          IN IF ~p.known THEN UNCHANGED <<P, got, trace>>
             ELSE \E wkp \in IF Tests!WkpTested(p) THEN Tests!WkpFindings(p) ELSE {{}},
                     cusum \in IF Tests!CusumTested(p) THEN Tests!CusumFindings(p) ELSE {{}} :
                    /\ P' = Tests!Tested(p, wkp, cusum)
                    /\ trace' = [wkp |-> IF Tests!WkpTested(p) THEN Append(trace.wkp, wkp)
                                                               ELSE trace.wkp,
                                 cusum |-> IF Tests!CusumTested(p)
                                   THEN Append(trace.cusum, [X |-> p.X_curr, found |-> cusum])
                                   ELSE trace.cusum]
    BY <1>5, ZenonT(40) DEF Tests!Test
  <2> DEFINE p == IF present THEN Tests!Update(P, test_counter) ELSE P
  <2>3. CASE ~p.known
    <3>1. UNCHANGED <<P, trace>>
      BY <2>2, <2>3
    <3> QED BY <1>2, <2>1, <3>1
  <2>4. CASE p.known
    <3>1. /\ DOMAIN p = ParamsFields /\ p.X_curr \in Int /\ p.known \in BOOLEAN
          /\ AlarmsOf(p.attack, p.alarms, trace.wkp, Founds(trace.cusum), config.onlyFirst)
      <4>1. CASE ~present
        BY <1>1, <2>4, <4>1
      <4>2. CASE present /\ P.known
        <5>1. SameAlarms(P, p)
          BY <1>1, <4>2, UpdateKeepsAlarms
        <5> HIDE DEF p
        <5> QED BY <1>1, <4>2, <5>1 DEF SameAlarms
      <4>3. CASE present /\ ~P.known
        <5>1. p = Tests!NewParams(test_counter)
          BY <4>3 DEF Tests!Update
        <5> HIDE DEF p
        <5>2. p.attack = {} /\ p.alarms = [t \in Alarms |-> 0]
          BY <5>1 DEF Tests!NewParams, Alarms
        <5>3. trace.wkp = <<>> /\ Founds(trace.cusum) = <<>>
          BY <1>1, <4>3 DEF Founds
        <5> DEFINE z == [t \in Alarms |-> 0]
        <5>4. ASSUME NEW a \in Alarms
              PROVE  /\ 0 = Cardinality(Counting(<<>>, a, config.onlyFirst))
                     /\ ~FoundLast(<<>>, a) /\ KindOf(a, <<>>, <<>>) = <<>>
          BY CountingNone DEF KindOf
        <5>5. DOMAIN z = Alarms /\ \A a \in Alarms : z[a] = 0
          OBVIOUS
        <5>6. p.alarms = z
          BY <5>2
        <5> HIDE DEF z
        <5>7. AlarmsOf({}, z, <<>>, <<>>, config.onlyFirst)
          BY <5>4, <5>5 DEF AlarmsOf
        <5>8. AlarmsOf(p.attack, p.alarms, trace.wkp, Founds(trace.cusum), config.onlyFirst)
          BY <5>2, <5>3, <5>6, <5>7, Zenon
        <5>9. DOMAIN p = ParamsFields /\ p.X_curr \in Int /\ p.known \in BOOLEAN
          BY <5>1 DEF Tests!NewParams, ParamsFields
        <5> QED BY <5>8, <5>9
      <4> QED BY <4>1, <4>2, <4>3
    <3> HIDE DEF p
    <3>2. PICK wkp \in IF Tests!WkpTested(p) THEN Tests!WkpFindings(p) ELSE {{}},
               cusum \in IF Tests!CusumTested(p) THEN Tests!CusumFindings(p) ELSE {{}} :
            /\ P' = Tests!Tested(p, wkp, cusum)
            /\ trace' = [wkp |-> IF Tests!WkpTested(p) THEN Append(trace.wkp, wkp)
                                                       ELSE trace.wkp,
                         cusum |-> IF Tests!CusumTested(p)
                           THEN Append(trace.cusum, [X |-> p.X_curr, found |-> cusum])
                           ELSE trace.cusum]
      BY <2>2, <2>4 DEF p
    <3>3. /\ trace.wkp' = IF Tests!WkpTested(p) THEN Append(trace.wkp, wkp) ELSE trace.wkp
          /\ trace.cusum' = IF Tests!CusumTested(p)
                              THEN Append(trace.cusum, [X |-> p.X_curr, found |-> cusum])
                              ELSE trace.cusum
      BY <3>2
    <3>4. /\ DOMAIN P' = ParamsFields /\ P.known' = p.known /\ P.X_curr' = p.X_curr
          /\ trace.wkp' \in Seq(SUBSET Alarms) /\ trace.cusum' \in CusumTrace
          /\ AlarmsOf(P'.attack, P'.alarms, trace.wkp', Founds(trace.cusum'), config.onlyFirst)
      <4>1. /\ trace.wkp' = WkpTraced(p, trace.wkp, wkp)
            /\ trace.cusum' = CusumTraced(p, trace.cusum, cusum)
        BY <3>3 DEF WkpTraced, CusumTraced
      <4>2. wkp \in SUBSET (Tests!WkpTests \X config.metrics)
        BY <1>1 DEF Tests!WkpFindings
      <4>3. cusum \in SUBSET ({"cusum"} \X config.metrics)
        BY DEF Tests!CusumFindings
      <4> DEFINE w == trace.wkp
                 t == trace.cusum
                 r == Tests!Tested(p, wkp, cusum)
                 w2 == WkpTraced(p, w, wkp)
                 t2 == CusumTraced(p, t, cusum)
      <4>4. w \in Seq(SUBSET Alarms) /\ t \in CusumTrace
            /\ AlarmsOf(p.attack, p.alarms, w, Founds(t), config.onlyFirst)
        BY <1>1, <3>1
      <4>5. /\ DOMAIN r = ParamsFields /\ r.known = p.known /\ r.X_curr = p.X_curr
            /\ w2 \in Seq(SUBSET Alarms) /\ t2 \in CusumTrace
            /\ AlarmsOf(r.attack, r.alarms, w2, Founds(t2), config.onlyFirst)
        <5> HIDE DEF w, t
        <5> QED BY <3>1, <4>2, <4>3, <4>4, TestsCount
      <4> HIDE DEF r, w2, t2
      <4>6. P' = r /\ trace.wkp' = w2 /\ trace.cusum' = t2
        BY <3>2, <4>1 DEF r, w2, t2
      <4> QED BY <4>5, <4>6
    <3>5. CusumTrace' = CusumTrace /\ Alarms' = Alarms
      BY <2>1 DEF CusumTrace, Alarms
    <3>6. AlarmsOf(P.attack, P.alarms, trace.wkp, Founds(trace.cusum), config.onlyFirst)'
      BY <2>1, <3>4, <3>5 DEF AlarmsOf
    <3> QED BY <1>1, <2>1, <2>4, <3>1, <3>4, <3>5, <3>6 DEF AlarmsInv
  <2> QED BY <2>3, <2>4
<1> QED BY <1>3, <1>4, <1>5 DEF Tests!Next

LEMMA AlarmsNext ==
  ASSUME SizesAssumption PROVE AlarmsInv /\ [SideNext]_sideVars => AlarmsInv'
<1> SUFFICES ASSUME AlarmsInv, [SideNext]_sideVars, component' = "tests" PROVE AlarmsInv'
  BY DEF AlarmsInv
<1>1. component = "tests" /\ (Tests!Next \/ UNCHANGED TestsVars)
  BY DEF SideNext, sideVars
<1>2. CASE Tests!Next
  BY <1>1, <1>2, AlarmsStep
<1>3. CASE UNCHANGED TestsVars
  <2>1. UNCHANGED <<config, test_counter, P, trace>> /\ CusumTrace' = CusumTrace /\ Alarms' = Alarms
    BY <1>3 DEF TestsVars, CusumTrace, Alarms
  <2> QED BY <1>1, <2>1 DEF AlarmsInv, AlarmsOf
<1> QED BY <1>1, <1>2, <1>3

\* AlarmsCountRuns: an alarm counts the tests that found it, or the runs of
\* them if only the first is reported (Stat::wkp_test, cusum_test).
THEOREM AlarmsAreCounted ==
  ASSUME SizesAssumption
  PROVE  SideSpec => []AlarmsCountRuns
<1>1. AlarmsInv => AlarmsCountRuns
  <2> SUFFICES ASSUME AlarmsInv, component = "tests", P.known PROVE Tests!AlarmsCountRuns
    BY DEF AlarmsCountRuns, Tests!AlarmsCountRuns
  <2>1. AlarmsOf(P.attack, P.alarms, trace.wkp, Founds(trace.cusum), config.onlyFirst)
    BY DEF AlarmsInv
  <2> DEFINE f == Founds(trace.cusum)
             once == config.onlyFirst
             C(a) == LET k == KindOf(a, trace.wkp, f)
                     IN {i \in DOMAIN k : a \in k[i] /\ (once /\ i > 1 => a \notin k[i - 1])}
  <2>2. ASSUME NEW a \in DOMAIN P.alarms
        PROVE  P.alarms[a] = Tests!Cardinality(C(a))
    <3>1. P.alarms[a] = Cardinality(Counting(KindOf(a, trace.wkp, f), a, once))
      BY <2>1 DEF AlarmsOf
    <3>2. Counting(KindOf(a, trace.wkp, f), a, once) = C(a)
      BY DEF Counting
    <3> HIDE DEF C
    <3> QED BY <3>1, <3>2, SameCardinality
  <2> QED BY <2>2 DEF KindOf, Founds, Tests!AlarmsCountRuns
<1> QED BY AlarmsInit, AlarmsNext, <1>1, PTL DEF SideSpec

-----------------------------------------------------------------------------
(* The tests of an endpoint: what goes into the mean. *)

\* Whether the update of a metric's mean is paused by what a test found.
AlarmedAs(found, m) ==
  CASE config.pause = 1 -> found # {}
    [] config.pause = 2 -> found = {"cusum"} \X config.metrics
    [] config.pause = 3 -> <<"cusum", m>> \in found
    [] OTHER -> FALSE

\* The values whose last test alarmed.
Decides(t, i) == i < Len(t) => t[i + 1].X # t[i].X
PausedBy(t, m) ==
  {t[i].X : i \in {j \in DOMAIN t : Decides(t, j) /\ AlarmedAs(t[j].found, m)}}

InOrder(t) == \A i, j \in 1 .. Len(t) : i <= j => t[i].X <= t[j].X

\* A further test changes nothing for the values but its own.
LEMMA PausedAppend ==
  ASSUME NEW R, NEW t \in Seq(R), NEW r \in R, NEW m
  PROVE  PausedBy(Append(t, r), m) \ {r.X} = PausedBy(t, m) \ {r.X}
<1> DEFINE u == Append(t, r)
           n == Len(t)
<1>1. /\ DOMAIN t = 1 .. n /\ n \in Nat /\ DOMAIN u = 1 .. (n + 1) /\ Len(u) = n + 1
      /\ u[n + 1] = r /\ \A i \in 1 .. n : u[i] = t[i]
  OBVIOUS
<1> HIDE DEF u, n
<1>2. ASSUME NEW i \in 1 .. n, t[i].X # r.X
      PROVE  Decides(u, i) <=> Decides(t, i)
  <2>1. CASE i = n
    BY <1>1, <1>2, <2>1 DEF Decides, n
  <2>2. CASE i < n
    <3>1. u[i] = t[i] /\ u[i + 1] = t[i + 1] /\ i < Len(u) /\ i < Len(t)
      BY <1>1, <2>2 DEF n
    <3> QED BY <3>1 DEF Decides
  <2> QED BY <1>1, <2>1, <2>2
<1>3. ASSUME NEW x, x # r.X PROVE x \in PausedBy(u, m) <=> x \in PausedBy(t, m)
  <2>1. ASSUME x \in PausedBy(u, m) PROVE x \in PausedBy(t, m)
    <3>1. PICK i \in 1 .. (n + 1) : Decides(u, i) /\ AlarmedAs(u[i].found, m) /\ u[i].X = x
      BY <1>1, <2>1 DEF PausedBy
    <3>2. i \in 1 .. n
      BY <1>1, <1>3, <3>1
    <3>3. Decides(t, i) /\ AlarmedAs(t[i].found, m) /\ t[i].X = x
      BY <1>1, <1>2, <1>3, <3>1, <3>2
    <3> QED BY <1>1, <3>2, <3>3 DEF PausedBy
  <2>2. ASSUME x \in PausedBy(t, m) PROVE x \in PausedBy(u, m)
    <3>1. PICK i \in 1 .. n : Decides(t, i) /\ AlarmedAs(t[i].found, m) /\ t[i].X = x
      BY <1>1, <2>2 DEF PausedBy
    <3>2. Decides(u, i) /\ AlarmedAs(u[i].found, m) /\ u[i].X = x /\ i \in 1 .. (n + 1)
      BY <1>1, <1>2, <1>3, <3>1
    <3> QED BY <1>1, <3>2 DEF PausedBy
  <2> QED BY <2>1, <2>2
<1>4. PausedBy(u, m) \ {r.X} = PausedBy(t, m) \ {r.X}
  BY <1>3
<1> QED BY <1>4 DEF u

\* Of the value that was tested last, the last test decides.
LEMMA LastDecides ==
  ASSUME NEW R, NEW t \in Seq(R), Len(t) > 0, \A i \in 1 .. Len(t) : t[i].X \in Int, InOrder(t), NEW m
  PROVE  t[Len(t)].X \in PausedBy(t, m) <=> AlarmedAs(t[Len(t)].found, m)
<1> DEFINE n == Len(t)
<1>1. DOMAIN t = 1 .. n /\ n \in Nat /\ n \in 1 .. n
  OBVIOUS
<1>2. Decides(t, n)
  BY DEF Decides
<1>3. ASSUME t[n].X \in PausedBy(t, m) PROVE AlarmedAs(t[n].found, m)
  <2>1. PICK i \in 1 .. n : Decides(t, i) /\ AlarmedAs(t[i].found, m) /\ t[i].X = t[n].X
    BY <1>1, <1>3 DEF PausedBy
  <2>2. ~(i < n)
    <3> SUFFICES ASSUME i < n PROVE FALSE
      OBVIOUS
    <3>1. i + 1 \in 1 .. n /\ i <= i + 1 /\ i + 1 <= n
      BY <1>1
    <3>2. t[i].X <= t[i + 1].X /\ t[i + 1].X <= t[n].X /\ t[i + 1].X # t[i].X
      BY <1>1, <2>1, <3>1 DEF InOrder, Decides
    <3>3. t[i].X \in Int /\ t[i + 1].X \in Int
      BY <3>1
    <3> QED BY <2>1, <3>2, <3>3
  <2>3. i = n
    BY <1>1, <2>2
  <2>4. t[i].found = t[n].found
    BY <2>3
  <2> QED BY <2>1, <2>4
<1>4. ASSUME AlarmedAs(t[n].found, m) PROVE t[n].X \in PausedBy(t, m)
  BY <1>1, <1>2, <1>4 DEF PausedBy
<1> QED BY <1>3, <1>4

\* The mean is the values without the current one and the paused ones.
CusumFound == SUBSET ({"cusum"} \X config.metrics)
CusumRecord == [X : Int, found : CusumFound]
MeanOf(mean, ready, x, t, q) ==
  /\ t \in Seq(CusumRecord) /\ InOrder(t) /\ ready \in BOOLEAN
  /\ ready => Len(t) > 0 /\ t[Len(t)].X = x /\ x \in Tests!ToSet(q)
  /\ ~ready => t = <<>> /\ x = -1
  /\ \A m \in config.metrics : mean[m] = Tests!ToSet(q) \ (PausedBy(t, m) \cup {x})

LEMMA ToSetAppend ==
  ASSUME NEW q, NEW c \in Nat, Calls(q, c)
  PROVE  /\ Tests!ToSet(Append(q, c)) = Tests!ToSet(q) \cup {c}
         /\ c \notin Tests!ToSet(q)
         /\ \A x \in Tests!ToSet(q) : x \in Nat /\ x < c
<1> DEFINE r == Append(q, c)
<1>1. /\ q \in Seq(Nat) /\ DOMAIN q = 1 .. Len(q) /\ Len(q) \in Nat
      /\ \A i \in 1 .. Len(q) : q[i] \in Nat /\ q[i] < c
  BY DEF Calls
<1>2. DOMAIN r = 1 .. (Len(q) + 1) /\ r[Len(q) + 1] = c /\ \A i \in 1 .. Len(q) : r[i] = q[i]
  BY <1>1
<1> HIDE DEF r
<1>3. \A x \in Tests!ToSet(q) : x \in Nat /\ x < c
  BY <1>1 DEF Tests!ToSet
<1>4. Tests!ToSet(r) = Tests!ToSet(q) \cup {c}
  <2>1. ASSUME NEW x \in Tests!ToSet(r) PROVE x \in Tests!ToSet(q) \cup {c}
    <3>1. PICK i \in 1 .. (Len(q) + 1) : r[i] = x
      BY <1>2, <2>1 DEF Tests!ToSet
    <3>2. CASE i \in 1 .. Len(q)
      BY <1>1, <1>2, <3>1, <3>2 DEF Tests!ToSet
    <3>3. CASE i = Len(q) + 1
      BY <1>2, <3>1, <3>3
    <3> QED BY <1>1, <3>2, <3>3
  <2>2. ASSUME NEW x \in Tests!ToSet(q) \cup {c} PROVE x \in Tests!ToSet(r)
    <3>1. CASE x = c
      <4>1. Len(q) + 1 \in 1 .. (Len(q) + 1)
        BY <1>1
      <4> QED BY <1>2, <3>1, <4>1 DEF Tests!ToSet
    <3>2. CASE x \in Tests!ToSet(q)
      <4>1. PICK i \in 1 .. Len(q) : q[i] = x
        BY <1>1, <3>2 DEF Tests!ToSet
      <4>2. i \in 1 .. (Len(q) + 1) /\ r[i] = x
        BY <1>1, <1>2, <4>1
      <4> QED BY <1>2, <4>2 DEF Tests!ToSet
    <3> QED BY <2>2, <3>1, <3>2
  <2> QED BY <2>1, <2>2
<1>5. c \notin Tests!ToSet(q)
  BY <1>3
<1> QED BY <1>3, <1>4, <1>5 DEF r

LEMMA InOrderAppend ==
  ASSUME NEW t \in Seq(CusumRecord), InOrder(t), NEW r \in CusumRecord,
         Len(t) > 0 => t[Len(t)].X <= r.X
  PROVE  InOrder(Append(t, r)) /\ Append(t, r) \in Seq(CusumRecord)
         /\ Len(Append(t, r)) > 0 /\ Append(t, r)[Len(Append(t, r))] = r
<1> DEFINE u == Append(t, r)
           n == Len(t)
<1>1. /\ u \in Seq(CusumRecord) /\ Len(u) = n + 1 /\ n \in Nat /\ u[n + 1] = r
      /\ \A i \in 1 .. n : u[i] = t[i] /\ t[i] \in CusumRecord
  OBVIOUS
<1>2. \A x \in CusumRecord : x.X \in Int
  BY DEF CusumRecord
<1> HIDE DEF u, n
<1>3. ASSUME NEW i \in 1 .. (n + 1), NEW j \in 1 .. (n + 1), i <= j PROVE u[i].X <= u[j].X
  <2>1. CASE j \in 1 .. n
    <3>1. i \in 1 .. n
      BY <1>1, <1>3, <2>1
    <3> QED BY <1>1, <1>3, <2>1, <3>1 DEF InOrder, n
  <2>2. CASE j = n + 1 /\ i = n + 1
    BY <1>1, <1>2, <2>2
  <2>3. CASE j = n + 1 /\ i \in 1 .. n
    <3>1. n \in 1 .. n /\ i <= n /\ n > 0
      BY <1>1, <2>3
    <3>2. t[i].X <= t[n].X /\ t[n].X <= r.X
      BY <1>1, <3>1, <2>3 DEF InOrder, n
    <3>3. t[i].X \in Int /\ t[n].X \in Int /\ r.X \in Int
      BY <1>1, <1>2, <2>3, <3>1
    <3>4. t[i].X <= r.X
      BY <3>2, <3>3
    <3> QED BY <1>1, <2>3, <3>4
  <2> QED BY <1>1, <2>1, <2>2, <2>3
<1>4. InOrder(u)
  BY <1>1, <1>3 DEF InOrder
<1>5. Len(u) > 0 /\ u[Len(u)] = r
  BY <1>1
<1> QED BY <1>1, <1>4, <1>5 DEF u

\* One call: without a new value, while it learns, when it gets ready, and after.
LEMMA MeanTestedAgain ==
  ASSUME NEW mean, NEW x \in Int, NEW t, NEW q, MeanOf(mean, TRUE, x, t, q),
         NEW found \in CusumFound, NEW r, r = [X |-> x, found |-> found]
  PROVE  MeanOf(mean, TRUE, x, Append(t, r), q)
<1>1. r \in CusumRecord /\ r.X = x
  BY DEF CusumRecord
<1>2. t \in Seq(CusumRecord) /\ InOrder(t) /\ Len(t) > 0 /\ t[Len(t)].X = x
  BY DEF MeanOf
<1> DEFINE u == Append(t, r)
<1>3. InOrder(u) /\ u \in Seq(CusumRecord) /\ Len(u) > 0 /\ u[Len(u)] = r
  BY <1>1, <1>2, InOrderAppend
<1>4. \A m \in config.metrics : PausedBy(u, m) \ {x} = PausedBy(t, m) \ {x}
  BY <1>1, <1>2, PausedAppend
<1> HIDE DEF u
<1>5. MeanOf(mean, TRUE, x, u, q)
  BY <1>1, <1>3, <1>4 DEF MeanOf
<1> QED BY <1>5 DEF u

LEMMA PausedNone == ASSUME NEW t, t = <<>>, NEW m PROVE PausedBy(t, m) = {}
<1>1. DOMAIN t = {}
  OBVIOUS
<1> QED BY <1>1 DEF PausedBy

LEMMA MeanLearns ==
  ASSUME NEW mean, NEW next, NEW x, NEW t, NEW q, NEW c \in Nat, Calls(q, c),
         MeanOf(mean, FALSE, x, t, q),
         \A m \in config.metrics : next[m] = mean[m] \cup {c}
  PROVE  MeanOf(next, FALSE, x, t, Append(q, c))
<1>1. t = <<>> /\ x = -1
  BY DEF MeanOf
<1>2. Tests!ToSet(Append(q, c)) = Tests!ToSet(q) \cup {c} /\ x # c
  BY <1>1, ToSetAppend
<1>3. \A m \in config.metrics : PausedBy(t, m) = {}
  BY <1>1, PausedNone
<1> QED BY <1>2, <1>3 DEF MeanOf

LEMMA MeanGetsReady ==
  ASSUME NEW mean, NEW x, NEW t, NEW q, NEW c \in Nat, Calls(q, c),
         MeanOf(mean, FALSE, x, t, q),
         NEW found \in CusumFound, NEW r, r = [X |-> c, found |-> found]
  PROVE  MeanOf(mean, TRUE, c, Append(t, r), Append(q, c))
<1>1. r \in CusumRecord /\ r.X = c
  BY DEF CusumRecord
<1>2. t \in Seq(CusumRecord) /\ InOrder(t) /\ t = <<>> /\ x = -1
  BY DEF MeanOf
<1> DEFINE u == Append(t, r)
           p == Append(q, c)
<1>3. /\ Tests!ToSet(p) = Tests!ToSet(q) \cup {c} /\ c \notin Tests!ToSet(q)
      /\ \A y \in Tests!ToSet(q) : y \in Nat
  BY ToSetAppend
<1>4. Len(t) > 0 => t[Len(t)].X <= r.X
  <2>1. Len(<<>>) = 0
    OBVIOUS
  <2>2. Len(t) = 0
    BY <1>2, <2>1, Zenon
  <2> QED BY <2>2
<1>5. InOrder(u) /\ u \in Seq(CusumRecord) /\ Len(u) > 0 /\ u[Len(u)] = r
  BY <1>1, <1>2, <1>4, InOrderAppend
<1>6. \A m \in config.metrics : PausedBy(u, m) \ {c} = PausedBy(t, m) \ {c} /\ PausedBy(t, m) = {}
  <2>1. t = <<>>
    BY <1>2
  <2>2. \A m \in config.metrics : PausedBy(t, m) = {}
    BY <2>1, PausedNone
  <2>3. \A m \in config.metrics : PausedBy(u, m) \ {c} = PausedBy(t, m) \ {c}
    <3>1. t \in Seq(CusumRecord)
      BY <1>2
    <3> QED BY ONLY <1>1, <3>1, PausedAppend
  <2> QED BY <2>2, <2>3
<1> HIDE DEF u, p
<1>7. \A m \in config.metrics : mean[m] = Tests!ToSet(p) \ (PausedBy(u, m) \cup {c})
  <2> TAKE m \in config.metrics
  <2>1. mean[m] = Tests!ToSet(q) \ {x}
    BY <1>6 DEF MeanOf
  <2>2. x \notin Tests!ToSet(q)
    BY <1>2, <1>3
  <2>3. Tests!ToSet(p) \ (PausedBy(u, m) \cup {c}) = Tests!ToSet(q)
    BY <1>3, <1>6
  <2> QED BY <2>1, <2>2, <2>3
<1>8. MeanOf(mean, TRUE, c, u, p)
  BY <1>1, <1>3, <1>5, <1>7 DEF MeanOf
<1> QED BY <1>8 DEF u, p

Follows(next, mean, found, x) ==
  \A m \in config.metrics : next[m] = IF AlarmedAs(found, m) THEN mean[m] ELSE mean[m] \cup {x}

LEMMA MeanFollows ==
  ASSUME NEW mean, NEW next, NEW x \in Int, NEW t, NEW q, NEW c \in Nat, Calls(q, c),
         MeanOf(mean, TRUE, x, t, q),
         Follows(next, mean, t[Len(t)].found, x),
         NEW found \in CusumFound, NEW r, r = [X |-> c, found |-> found]
  PROVE  MeanOf(next, TRUE, c, Append(t, r), Append(q, c))
<1>1. r \in CusumRecord /\ r.X = c
  BY DEF CusumRecord
<1>2. t \in Seq(CusumRecord) /\ InOrder(t) /\ Len(t) > 0 /\ t[Len(t)].X = x /\ x \in Tests!ToSet(q)
  BY DEF MeanOf
<1> DEFINE u == Append(t, r)
           p == Append(q, c)
<1>3. /\ Tests!ToSet(p) = Tests!ToSet(q) \cup {c} /\ c \notin Tests!ToSet(q)
      /\ \A y \in Tests!ToSet(q) : y \in Nat /\ y < c
  BY ToSetAppend
<1>4. x <= c /\ x # c
  BY <1>2, <1>3
<1>5. InOrder(u) /\ u \in Seq(CusumRecord) /\ Len(u) > 0 /\ u[Len(u)] = r
  BY <1>1, <1>2, <1>4, InOrderAppend
<1>6. \A m \in config.metrics : PausedBy(u, m) \ {c} = PausedBy(t, m) \ {c}
  BY <1>1, <1>2, PausedAppend
<1>7. ASSUME NEW m \in config.metrics PROVE x \in PausedBy(t, m) <=> AlarmedAs(t[Len(t)].found, m)
  <2>1. \A i \in 1 .. Len(t) : t[i].X \in Int
    <3>1. \A i \in 1 .. Len(t) : t[i] \in CusumRecord
      BY <1>2
    <3>2. \A y \in CusumRecord : y.X \in Int
      BY DEF CusumRecord
    <3> QED BY <3>1, <3>2
  <2> QED BY <1>2, <2>1, LastDecides
<1> HIDE DEF u, p
<1>8. \A m \in config.metrics : next[m] = Tests!ToSet(p) \ (PausedBy(u, m) \cup {c})
  <2> TAKE m \in config.metrics
  <2>1. mean[m] = Tests!ToSet(q) \ (PausedBy(t, m) \cup {x})
    BY DEF MeanOf
  <2>2. Tests!ToSet(p) \ (PausedBy(u, m) \cup {c}) = Tests!ToSet(q) \ PausedBy(t, m)
    BY <1>3, <1>6
  <2> USE DEF Follows
  <2>3. CASE AlarmedAs(t[Len(t)].found, m)
    BY <1>7, <2>1, <2>2, <2>3
  <2>4. CASE ~AlarmedAs(t[Len(t)].found, m)
    <3>1. x \notin PausedBy(t, m) /\ next[m] = mean[m] \cup {x}
      BY <1>7, <2>4
    <3>2. (Tests!ToSet(q) \ (PausedBy(t, m) \cup {x})) \cup {x} = Tests!ToSet(q) \ PausedBy(t, m)
      BY <1>2, <3>1
    <3> QED BY <2>1, <2>2, <3>1, <3>2
  <2> QED BY <2>3, <2>4
<1>9. MeanOf(next, TRUE, c, u, p)
  BY <1>1, <1>3, <1>5, <1>8 DEF MeanOf
<1> QED BY <1>9 DEF u, p

\* Only the test of the means looks at the mean, and none changes it.
SameMean(p, q) ==
  /\ DOMAIN q = DOMAIN p /\ q.known = p.known /\ q.mean = p.mean
  /\ q.ready_to_test = p.ready_to_test /\ q.X_curr = p.X_curr

LEMMA TestsKeepMean ==
  ASSUME NEW p, DOMAIN p = ParamsFields, NEW wkp, NEW cusum
  PROVE  SameMean(p, Tests!Tested(p, wkp, cusum))
<1>1. ASSUME NEW r, DOMAIN r = ParamsFields, NEW found
      PROVE  SameMean(r, Tests!wkp_test(r, found)) /\ SameMean(r, Tests!cusum_test(r, found))
  BY <1>1 DEF Tests!wkp_test, Tests!cusum_test, Tests!Recorded, SameMean, ParamsFields
<1> DEFINE q == IF Tests!WkpTested(p) THEN Tests!wkp_test(p, wkp) ELSE p
<1>2. SameMean(p, q)
  BY <1>1 DEF SameMean
<1> HIDE DEF q
<1>3. DOMAIN q = ParamsFields
  BY <1>2 DEF SameMean
<1>4. SameMean(q, IF Tests!CusumTested(p) THEN Tests!cusum_test(q, cusum) ELSE q)
  BY <1>1, <1>3 DEF SameMean
<1>5. Tests!Tested(p, wkp, cusum) = IF Tests!CusumTested(p) THEN Tests!cusum_test(q, cusum) ELSE q
  BY DEF Tests!Tested, q
<1> QED BY <1>2, <1>4, <1>5 DEF SameMean

\* The flags of the last attack say which means are paused.
LEMMA PausedIsAlarmed ==
  ASSUME NEW p, NEW found \in CusumFound, NEW m \in config.metrics,
         \A k \in config.metrics : <<"cusum", k>> \in p.attack <=> <<"cusum", k>> \in found
  PROVE  m \in Tests!CusumPaused(p) <=> AlarmedAs(found, m)
<1> DEFINE alarming == {k \in config.metrics : <<"cusum", k>> \in p.attack}
<1>1. \A k \in config.metrics : k \in alarming <=> <<"cusum", k>> \in found
  OBVIOUS
<1>2. \A a \in found : \E k \in config.metrics : a = <<"cusum", k>>
  BY DEF CusumFound
<1>3. alarming # {} <=> found # {}
  BY <1>1, <1>2
<1>4. alarming = config.metrics <=> found = {"cusum"} \X config.metrics
  <2>1. ASSUME alarming = config.metrics PROVE found = {"cusum"} \X config.metrics
    BY <1>1, <2>1 DEF CusumFound
  <2>2. ASSUME found = {"cusum"} \X config.metrics PROVE alarming = config.metrics
    BY <1>1, <2>2
  <2> QED BY <2>1, <2>2
<1>5. Tests!CusumPaused(p) = IF \/ config.pause = 1 /\ alarming # {}
                                \/ config.pause = 2 /\ alarming = config.metrics
                               THEN config.metrics
                               ELSE IF config.pause = 3 THEN alarming ELSE {}
  BY DEF Tests!CusumPaused
<1> HIDE DEF alarming
<1>6. CASE config.pause = 1
  BY <1>3, <1>5, <1>6 DEF AlarmedAs
<1>7. CASE config.pause = 2
  BY <1>4, <1>5, <1>7 DEF AlarmedAs
<1>8. CASE config.pause = 3
  BY <1>1, <1>5, <1>8 DEF AlarmedAs
<1>9. CASE config.pause \notin {1, 2, 3}
  BY <1>5, <1>9 DEF AlarmedAs
<1> QED BY <1>6, <1>7, <1>8, <1>9

\* The update of the mean with the value of call c.
Updated(p, r, c) ==
  /\ DOMAIN r = ParamsFields /\ r.known = p.known
  /\ \/ /\ ~p.ready_to_test /\ ~r.ready_to_test /\ r.X_curr = p.X_curr
        /\ \A m \in config.metrics : r.mean[m] = p.mean[m] \cup {c}
     \/ /\ ~p.ready_to_test /\ r.ready_to_test = TRUE /\ r.X_curr = c /\ r.mean = p.mean
     \/ /\ p.ready_to_test /\ r.ready_to_test = TRUE /\ r.X_curr = c
        /\ \A m \in config.metrics :
             r.mean[m] = IF m \in Tests!CusumPaused(p) THEN p.mean[m]
                         ELSE p.mean[m] \cup {p.X_curr}
  /\ r.ready_to_test \in BOOLEAN

LEMMA UpdateMovesMean ==
  ASSUME NEW p, DOMAIN p = ParamsFields, NEW c, config.cusum, p.ready_to_test \in BOOLEAN,
         NEW r, r = Tests!cusum_update(Tests!wkp_update(p, c), c)
  PROVE  Updated(p, r, c)
<1> DEFINE q == Tests!wkp_update(p, c)
<1>1. /\ DOMAIN q = ParamsFields /\ q.known = p.known /\ q.mean = p.mean /\ q.X_curr = p.X_curr
      /\ q.ready_to_test = p.ready_to_test /\ q.attack = p.attack /\ q.learning = p.learning
  BY DEF Tests!wkp_update, ParamsFields
<1> HIDE DEF q
<1>2. Tests!CusumPaused(q) = Tests!CusumPaused(p)
  BY <1>1 DEF Tests!CusumPaused
<1>3. r = Tests!cusum_update(q, c)
  BY DEF q
<1>4. DOMAIN r = ParamsFields /\ r.known = q.known
  BY <1>1, <1>3, ZenonT(40) DEF Tests!cusum_update, ParamsFields
<1>5. CASE ~q.ready_to_test /\ q.learning < cusum_learning_phase
  <2> DEFINE s == [q EXCEPT !.cusum_updated = TRUE]
             next == [m \in config.metrics |-> q.mean[m] \cup {c}]
  <2>1. r = [s EXCEPT !.learning = @ + 1, !.mean = [m \in config.metrics |-> @[m] \cup {c}]]
    BY <1>1, <1>3, <1>5 DEF Tests!cusum_update
  <2>2. DOMAIN s = ParamsFields /\ s.mean = q.mean /\ s.ready_to_test = q.ready_to_test
        /\ s.X_curr = q.X_curr
    BY <1>1 DEF ParamsFields
  <2> HIDE DEF s
  <2>3. r.mean = next /\ r.ready_to_test = s.ready_to_test /\ r.X_curr = s.X_curr
    BY <2>1, <2>2 DEF ParamsFields
  <2>4. \A m \in config.metrics : next[m] = q.mean[m] \cup {c}
    OBVIOUS
  <2> HIDE DEF next
  <2> QED BY <1>1, <1>4, <1>5, <2>2, <2>3, <2>4 DEF Updated
<1>6. CASE ~q.ready_to_test /\ ~(q.learning < cusum_learning_phase)
  <2>1. r.ready_to_test = TRUE /\ r.X_curr = c /\ r.mean = q.mean
    BY <1>1, <1>3, <1>6, ZenonT(40) DEF Tests!cusum_update, ParamsFields
  <2> QED BY <1>1, <1>4, <1>6, <2>1 DEF Updated
<1>7. CASE q.ready_to_test
  <2> DEFINE s == [q EXCEPT !.cusum_updated = TRUE]
             next == [m \in config.metrics |->
                        IF m \in Tests!CusumPaused(q) THEN q.mean[m] ELSE q.mean[m] \cup {q.X_curr}]
  <2>1. r = [s EXCEPT !.X_curr = c,
                      !.mean = [m \in config.metrics |->
                                  IF m \in Tests!CusumPaused(q) THEN @[m] ELSE @[m] \cup {q.X_curr}]]
    BY <1>1, <1>3, <1>7 DEF Tests!cusum_update
  <2>2. DOMAIN s = ParamsFields /\ s.mean = q.mean /\ s.ready_to_test = q.ready_to_test
    BY <1>1 DEF ParamsFields
  <2> HIDE DEF s
  <2>3. r.mean = next /\ r.ready_to_test = s.ready_to_test /\ r.X_curr = c
    BY <2>1, <2>2 DEF ParamsFields
  <2>4. \A m \in config.metrics :
          next[m] = IF m \in Tests!CusumPaused(q) THEN q.mean[m] ELSE q.mean[m] \cup {q.X_curr}
    OBVIOUS
  <2> HIDE DEF next
  <2> QED BY <1>1, <1>2, <1>4, <1>7, <2>2, <2>3, <2>4 DEF Updated
<1> QED BY <1>5, <1>6, <1>7

\* The endpoint's mean with every call tested.
LearnedInv ==
  component = "tests" =>
    /\ ~P.known => got = <<>>
    /\ P.known /\ config.cusum /\ config.freq = 1 =>
         MeanOf(P.mean, P.ready_to_test, P.X_curr, trace.cusum, got)

MeanInv == SamplesInv /\ AlarmsInv /\ LearnedInv

LEMMA LearnedInit == SideInit => LearnedInv
<1> SUFFICES ASSUME SideInit, component = "tests" PROVE LearnedInv
  BY DEF LearnedInv
<1> QED BY DEF SideInit, Tests!Init, Tests!NoParams, LearnedInv

\* The last test of the means found what the flags say.
LEMMA FlagsAreFound ==
  ASSUME AlarmsInv, component = "tests", P.known,
         NEW t, t = trace.cusum, t \in Seq(CusumRecord), Len(t) > 0
  PROVE  /\ t[Len(t)].found \in CusumFound
         /\ \A k \in config.metrics : <<"cusum", k>> \in P.attack <=> <<"cusum", k>> \in t[Len(t)].found
<1>1. t[Len(t)] \in CusumRecord
  OBVIOUS
<1>2. \A r \in CusumRecord : r.found \in CusumFound
  BY DEF CusumRecord
<1>3. ASSUME NEW k \in config.metrics
      PROVE  <<"cusum", k>> \in P.attack <=> <<"cusum", k>> \in t[Len(t)].found
  <2> DEFINE a == <<"cusum", k>>
             f == Founds(t)
  <2>1. a \in Alarms /\ a[1] = "cusum"
    BY DEF Alarms
  <2>2. f = [i \in 1 .. Len(t) |-> t[i].found] /\ Len(t) \in Nat
    BY DEF Founds
  <2>3. Len(f) = Len(t) /\ f[Len(t)] = t[Len(t)].found
    BY <2>2
  <2> HIDE DEF a, f
  <2>4. a \in P.attack <=> FoundLast(f, a)
    <3>1. AlarmsOf(P.attack, P.alarms, trace.wkp, f, config.onlyFirst)
      BY DEF AlarmsInv, f
    <3>2. a \in P.attack <=> FoundLast(KindOf(a, trace.wkp, f), a)
      BY <2>1, <3>1 DEF AlarmsOf
    <3>3. KindOf(a, trace.wkp, f) = f
      BY <2>1 DEF KindOf
    <3> QED BY <3>2, <3>3
  <2>5. a \in P.attack <=> a \in t[Len(t)].found
    BY <2>3, <2>4 DEF FoundLast
  <2> QED BY <2>5 DEF a
<1> QED BY <1>1, <1>2, <1>3

LEMMA LearnedKept ==
  ASSUME component = "tests", LearnedInv, UNCHANGED <<config, P, got, trace>>
  PROVE  LearnedInv'
<1>1. ~P.known => got = <<>>
  BY DEF LearnedInv
<1>2. P.known /\ config.cusum /\ config.freq = 1 =>
        MeanOf(P'.mean, P'.ready_to_test, P'.X_curr, trace'.cusum, got')
  BY DEF LearnedInv
<1>3. P.known /\ config.cusum /\ config.freq = 1 =>
        MeanOf(P.mean, P.ready_to_test, P.X_curr, trace.cusum, got)'
  BY <1>2, SMTT(30) DEF MeanOf, InOrder, CusumRecord, CusumFound, PausedBy, AlarmedAs, Decides
<1> QED BY <1>1, <1>3 DEF LearnedInv

LEMMA LearnedStep ==
  ASSUME component = "tests", component' = "tests", MeanInv, Tests!Next
  PROVE  LearnedInv'
<1>1. /\ test_counter \in Nat /\ Calls(got, test_counter) /\ P.known \in BOOLEAN
      /\ P.known => DOMAIN P = ParamsFields /\ P.X_curr \in Int
      /\ ~P.known => got = <<>> /\ trace.cusum = <<>>
      /\ P.known /\ config.cusum /\ config.freq = 1 =>
           MeanOf(P.mean, P.ready_to_test, P.X_curr, trace.cusum, got)
  BY DEF MeanInv, SamplesInv, AlarmsInv, LearnedInv
<1>2. CASE UNCHANGED <<config, P, got, trace>>
  BY <1>2, LearnedKept DEF MeanInv
<1>3. CASE Tests!TestEmpty
  BY <1>2, <1>3 DEF Tests!TestEmpty
<1>4. CASE Tests!Stopped
  BY <1>2, <1>4 DEF Tests!Stopped, Tests!vars
<1>5. CASE Tests!Test
  <2> DEFINE c == test_counter
             t == trace.cusum
  <2>1. config' = config
    BY <1>5 DEF Tests!Test
  <2>2. PICK present \in BOOLEAN :
          LET learns == present /\ (Tests!HasData(P) \/ (~P.known /\ ~config.pca))
              p == IF present THEN Tests!Update(P, test_counter) ELSE P
          IN IF ~p.known THEN UNCHANGED <<P, got, trace>>
             ELSE \E wkp \in IF Tests!WkpTested(p) THEN Tests!WkpFindings(p) ELSE {{}},
                     cusum \in IF Tests!CusumTested(p) THEN Tests!CusumFindings(p) ELSE {{}} :
                    /\ P' = Tests!Tested(p, wkp, cusum)
                    /\ got' = IF learns THEN Append(got, test_counter) ELSE got
                    /\ trace' = [wkp |-> IF Tests!WkpTested(p) THEN Append(trace.wkp, wkp)
                                                               ELSE trace.wkp,
                                 cusum |-> IF Tests!CusumTested(p)
                                   THEN Append(trace.cusum, [X |-> p.X_curr, found |-> cusum])
                                   ELSE trace.cusum]
    BY <1>5 DEF Tests!Test
  <2> DEFINE learns == present /\ (Tests!HasData(P) \/ (~P.known /\ ~config.pca))
             p == IF present THEN Tests!Update(P, test_counter) ELSE P
             next == IF learns THEN Append(got, c) ELSE got
  <2>3. CASE ~p.known
    <3>1. UNCHANGED <<P, got, trace>>
      BY <2>2, <2>3
    <3> QED BY <1>2, <2>1, <3>1
  <2>4. CASE p.known
    <3>0. PICK wkp \in IF Tests!WkpTested(p) THEN Tests!WkpFindings(p) ELSE {{}},
               cusum \in IF Tests!CusumTested(p) THEN Tests!CusumFindings(p) ELSE {{}} :
            /\ P' = Tests!Tested(p, wkp, cusum)
            /\ got' = next
            /\ trace' = [wkp |-> IF Tests!WkpTested(p) THEN Append(trace.wkp, wkp)
                                                       ELSE trace.wkp,
                         cusum |-> IF Tests!CusumTested(p)
                           THEN Append(t, [X |-> p.X_curr, found |-> cusum]) ELSE t]
      BY <2>2, <2>4
    <3>1. /\ P' = Tests!Tested(p, wkp, cusum)
          /\ got' = next
          /\ trace'.cusum = IF Tests!CusumTested(p)
               THEN Append(t, [X |-> p.X_curr, found |-> cusum]) ELSE t
      <4> HIDE DEF p, next, t
      <4> QED BY <3>0
    <3>2. cusum \in CusumFound
      BY DEF Tests!CusumFindings, CusumFound
    <3> DEFINE r == [X |-> p.X_curr, found |-> cusum]
               t2 == IF p.ready_to_test THEN Append(t, r) ELSE t
    \* The mean after the call.
    <3>3. /\ DOMAIN p = ParamsFields
          /\ config.cusum /\ config.freq = 1 => MeanOf(p.mean, p.ready_to_test, p.X_curr, t2, next)
      <4>1. CASE ~present \/ (P.known /\ ~Tests!HasData(P))
        <5>1. P.known /\ next = got /\ SameMean(P, p)
          <6>1. CASE ~present
            BY <2>4, <6>1 DEF SameMean
          <6>2. CASE present
            <7>1. p = Tests!ExtractPca(P) /\ P.known
              BY <4>1, <6>2 DEF Tests!Update
            <7> HIDE DEF p
            <7> QED BY <1>1, <4>1, <6>2, <7>1 DEF Tests!ExtractPca, SameMean, ParamsFields
          <6> QED BY <6>1, <6>2
        <5> HIDE DEF p, next
        <5>2. DOMAIN p = ParamsFields /\ p.X_curr \in Int
          BY <1>1, <5>1 DEF SameMean
        <5>3. ASSUME config.cusum, config.freq = 1
              PROVE  MeanOf(p.mean, p.ready_to_test, p.X_curr, t2, next)
          <6>1. MeanOf(p.mean, p.ready_to_test, p.X_curr, t, got)
            BY <1>1, <5>1, <5>3 DEF SameMean
          <6>2. p.ready_to_test = TRUE \/ p.ready_to_test = FALSE
            BY <6>1 DEF MeanOf
          <6>3. CASE p.ready_to_test = FALSE
            BY <5>1, <6>1, <6>3
          <6>4. CASE p.ready_to_test = TRUE
            <7>1. MeanOf(p.mean, TRUE, p.X_curr, t, got)
              BY <6>1, <6>4
            <7> HIDE DEF r, t
            <7>2. MeanOf(p.mean, TRUE, p.X_curr, Append(t, r), got)
              BY <3>2, <5>2, <7>1, MeanTestedAgain DEF r
            <7> QED BY <5>1, <6>4, <7>2
          <6> QED BY <6>2, <6>3, <6>4
        <5> QED BY <5>2, <5>3
      <4>2. CASE present /\ ~P.known
        <5>1. p = Tests!NewParams(c)
          BY <4>2 DEF Tests!Update
        <5>2. next = IF config.pca THEN got ELSE Append(got, c)
          BY <1>1, <4>2 DEF Tests!HasData
        <5>3. got = <<>> /\ t = <<>>
          BY <1>1, <4>2
        <5> HIDE DEF p, next
        <5>4. DOMAIN p = ParamsFields
          BY <5>1 DEF Tests!NewParams, ParamsFields
        <5>5. ASSUME config.cusum, config.freq = 1
              PROVE  MeanOf(p.mean, p.ready_to_test, p.X_curr, t2, next)
          <6>1. /\ p.ready_to_test = FALSE /\ p.X_curr = -1
                /\ p.mean = [m \in config.metrics |-> IF config.cusum /\ ~config.pca THEN {c} ELSE {}]
            BY <5>1 DEF Tests!NewParams
          <6>2. \A m \in config.metrics : p.mean[m] = IF config.pca THEN {} ELSE {c}
            BY <5>5, <6>1
          <6>3. Tests!ToSet(got) = {} /\ PausedBy(t, 0) = {} /\ \A m \in config.metrics : PausedBy(t, m) = {}
            <7>1. Tests!ToSet(got) = {}
              BY <5>3 DEF Tests!ToSet
            <7> QED BY <5>3, <7>1, PausedNone
          <6>4. Tests!ToSet(Append(got, c)) = Tests!ToSet(got) \cup {c}
            BY <1>1, ToSetAppend
          <6>5. t \in Seq(CusumRecord) /\ InOrder(t)
            BY <5>3 DEF InOrder
          <6>6. \A m \in config.metrics : p.mean[m] = Tests!ToSet(next) \ (PausedBy(t, m) \cup {-1})
            <7>1. c # -1
              BY <1>1
            <7> QED BY <5>2, <6>2, <6>3, <6>4, <7>1
          <6>7. t2 = t
            BY <6>1
          <6>8. MeanOf(p.mean, FALSE, -1, t, next)
            BY <5>3, <6>5, <6>6 DEF MeanOf
          <6> HIDE DEF t, t2
          <6> QED BY <6>1, <6>7, <6>8
        <5> QED BY <5>4, <5>5
      <4>3. CASE present /\ P.known /\ Tests!HasData(P)
        <5>1. p = Tests!cusum_update(Tests!wkp_update(P, c), c) /\ next = Append(got, c)
          BY <4>3 DEF Tests!Update
        <5> HIDE DEF p, next
        <5>2. DOMAIN p = ParamsFields
          BY <1>1, <4>3, <5>1 DEF Tests!cusum_update, Tests!wkp_update, ParamsFields
        <5>3. ASSUME config.cusum, config.freq = 1
              PROVE  MeanOf(p.mean, p.ready_to_test, p.X_curr, t2, next)
          <6>1. MeanOf(P.mean, P.ready_to_test, P.X_curr, t, got) /\ P.ready_to_test \in BOOLEAN
            BY <1>1, <4>3, <5>3 DEF MeanOf
          <6>7. Updated(P, p, c)
            BY <1>1, <4>3, <5>1, <5>3, <6>1, UpdateMovesMean
          <6>2. \/ /\ ~P.ready_to_test /\ ~p.ready_to_test /\ p.X_curr = P.X_curr
                   /\ \A m \in config.metrics : p.mean[m] = P.mean[m] \cup {c}
                \/ /\ ~P.ready_to_test /\ p.ready_to_test = TRUE /\ p.X_curr = c /\ p.mean = P.mean
                \/ /\ P.ready_to_test /\ p.ready_to_test = TRUE /\ p.X_curr = c
                   /\ \A m \in config.metrics :
                        p.mean[m] = IF m \in Tests!CusumPaused(P) THEN P.mean[m]
                                    ELSE P.mean[m] \cup {P.X_curr}
            BY <6>7 DEF Updated
          <6>3. p.ready_to_test \in BOOLEAN
            BY <6>7 DEF Updated
          <6>4. CASE ~P.ready_to_test /\ ~p.ready_to_test /\ p.X_curr = P.X_curr
                     /\ \A m \in config.metrics : p.mean[m] = P.mean[m] \cup {c}
            <7>1. P.ready_to_test = FALSE /\ p.ready_to_test = FALSE /\ t2 = t
              BY <6>1, <6>3, <6>4
            <7>2. MeanOf(P.mean, FALSE, P.X_curr, t, got)
              BY <6>1, <7>1
            <7> HIDE DEF t, t2
            <7>3. MeanOf(p.mean, FALSE, P.X_curr, t, Append(got, c))
              BY <1>1, <6>4, <7>2, MeanLearns
            <7> QED BY <5>1, <6>4, <7>1, <7>3
          <6>5. CASE ~P.ready_to_test /\ p.ready_to_test = TRUE /\ p.X_curr = c /\ p.mean = P.mean
            <7>1. P.ready_to_test = FALSE /\ t2 = Append(t, r) /\ r = [X |-> c, found |-> cusum]
              BY <6>1, <6>5
            <7>2. MeanOf(P.mean, FALSE, P.X_curr, t, got)
              BY <6>1, <7>1
            <7> HIDE DEF t, t2, r
            <7>3. MeanOf(P.mean, TRUE, c, Append(t, r), Append(got, c))
              BY <1>1, <3>2, <7>1, <7>2, MeanGetsReady
            <7> QED BY <5>1, <6>5, <7>1, <7>3
          <6>6. CASE P.ready_to_test /\ p.ready_to_test = TRUE /\ p.X_curr = c
                     /\ \A m \in config.metrics :
                          p.mean[m] = IF m \in Tests!CusumPaused(P) THEN P.mean[m]
                                      ELSE P.mean[m] \cup {P.X_curr}
            <7>1. P.ready_to_test = TRUE /\ t2 = Append(t, r) /\ r = [X |-> c, found |-> cusum]
              BY <6>1, <6>6
            <7>2. MeanOf(P.mean, TRUE, P.X_curr, t, got)
              BY <6>1, <7>1
            <7>3. t \in Seq(CusumRecord) /\ Len(t) > 0
              BY <7>2 DEF MeanOf
            <7>4. /\ t[Len(t)].found \in CusumFound
                  /\ \A k \in config.metrics :
                       <<"cusum", k>> \in P.attack <=> <<"cusum", k>> \in t[Len(t)].found
              BY <4>3, <7>3, FlagsAreFound DEF MeanInv
            <7> DEFINE found == t[Len(t)].found
            <7>5. \A m \in config.metrics : m \in Tests!CusumPaused(P) <=> AlarmedAs(found, m)
              <8> HIDE DEF found
              <8> QED BY <7>4, PausedIsAlarmed DEF found
            <7>6. Follows(p.mean, P.mean, t[Len(t)].found, P.X_curr)
              BY <6>6, <7>5 DEF Follows
            <7>7. P.X_curr \in Int
              BY <1>1, <4>3
            <7> HIDE DEF t, t2, r, found
            <7>8. MeanOf(p.mean, TRUE, c, Append(t, r), Append(got, c))
              BY <1>1, <3>2, <7>1, <7>2, <7>6, <7>7, MeanFollows
            <7> QED BY <5>1, <6>6, <7>1, <7>8
          <6> QED BY <6>2, <6>4, <6>5, <6>6
        <5> QED BY <5>2, <5>3
      <4> QED BY <1>1, <4>1, <4>2, <4>3
    <3>4. SameMean(p, P')
      <4> HIDE DEF p
      <4> QED BY <3>1, <3>3, TestsKeepMean
    <3>5. config.cusum /\ config.freq = 1 => trace'.cusum = t2
      <4>1. config.cusum /\ config.freq = 1 => (Tests!CusumTested(p) <=> p.ready_to_test)
        <5>1. test_counter % 1 = 0
          BY <1>1
        <5> HIDE DEF p
        <5> QED BY <5>1 DEF Tests!CusumTested, Tests!MakeStatTest
      <4> HIDE DEF p
      <4> QED BY <3>1, <4>1
    <3> HIDE DEF p, t2, next
    <3>6. config.cusum /\ config.freq = 1 =>
            MeanOf(P'.mean, P'.ready_to_test, P'.X_curr, trace'.cusum, got')
      BY <3>1, <3>3, <3>4, <3>5 DEF SameMean
    <3>7. config.cusum /\ config.freq = 1 =>
            MeanOf(P.mean, P.ready_to_test, P.X_curr, trace.cusum, got)'
      BY <2>1, <3>6, SMTT(30) DEF MeanOf, InOrder, CusumRecord, CusumFound, PausedBy, AlarmedAs, Decides
    <3>8. P.known' = p.known
      BY <3>4 DEF SameMean
    <3> QED BY <2>1, <2>4, <3>7, <3>8 DEF LearnedInv
  <2> QED BY <2>3, <2>4
<1> QED BY <1>3, <1>4, <1>5 DEF Tests!Next

LEMMA MeanNext ==
  ASSUME SizesAssumption PROVE MeanInv /\ [SideNext]_sideVars => MeanInv'
<1> SUFFICES ASSUME MeanInv, [SideNext]_sideVars PROVE MeanInv'
  OBVIOUS
<1>1. SamplesInv' /\ AlarmsInv'
  BY SamplesNext, AlarmsNext DEF MeanInv
<1>2. LearnedInv'
  <2> SUFFICES ASSUME component' = "tests" PROVE LearnedInv'
    BY DEF LearnedInv
  <2>1. component = "tests" /\ (Tests!Next \/ UNCHANGED TestsVars)
    BY DEF SideNext, sideVars
  <2>2. CASE Tests!Next
    BY <2>1, <2>2, LearnedStep
  <2>3. CASE UNCHANGED TestsVars
    BY <2>1, <2>3, LearnedKept DEF MeanInv, TestsVars
  <2> QED BY <2>1, <2>2, <2>3
<1> QED BY <1>1, <1>2 DEF MeanInv

\* AttacksAreNotLearned: with every call tested, the mean is the values without
\* the current one and those whose last test paused it (Stat::cusum_update).
THEOREM MeanSkipsAttacks ==
  ASSUME SizesAssumption
  PROVE  SideSpec => []AttacksAreNotLearned
<1>1. MeanInv => AttacksAreNotLearned
  <2> SUFFICES ASSUME MeanInv, component = "tests", P.known, config.cusum, config.freq = 1,
                      NEW m \in config.metrics
               PROVE  P.mean[m] = Tests!ToSet(got) \ (PausedBy(trace.cusum, m) \cup {P.X_curr})
    BY DEF AttacksAreNotLearned, Tests!AttacksAreNotLearned, PausedBy, Decides, AlarmedAs
  <2> QED BY DEF MeanInv, LearnedInv, MeanOf
<1>2. SideInit => MeanInv
  BY SamplesInit, AlarmsInit, LearnedInit DEF MeanInv
<1> QED BY <1>1, <1>2, MeanNext, PTL DEF SideSpec

-----------------------------------------------------------------------------
(* The start of a module. *)

\* The preferences that init has behind it.
Done == {Beginning!Order[module][i] : i \in 1 .. step - 1}

\* What the preferences behind init have left, unless one has been refused.
AsRead(done) ==
  /\ module = "statistics" =>
       /\ \A e \in {"warning_verbosity", "logfile", "logfile_output_verbosity", "netmask",
                    "output_dir"} : e \in done => e \notin file.bad
       /\ "endpoints" \in done =>
            (file.offline /\ file.frequent) \/ "endpoints_to_monitor" \notin file.bad
       /\ "cusum" \in done /\ file.cusum = "enabled" =>
            "amplitude_percentage" \notin file.bad /\ "smoothing_constant" \notin file.bad
       /\ "wkp" \in done /\ file.wkp = "enabled" => "significance_level" \notin file.bad
       /\ "offline data" \in done /\ file.offline =>
            "offline_file" \notin file.bad /\ "offline data" \notin file.bad
       /\ "begin" \in done => monitors = TRUE
       /\ "metrics" \in done /\ ~file.offline => UNION Beginning!Known \subseteq idList
       /\ "endpoint_key" \in done /\ ~file.offline =>
            Beginning!KeyFields(file.key) \subseteq idList
  /\ module = "count" =>
       /\ "output_file" \in done /\ file.preferences => "output_file" \notin file.bad
       /\ "fields" \in done /\ ~file.offline => Beginning!CountFields \subseteq idList
  /\ module = "snort" =>
       ("fields" \in done /\ ~file.offline => Beginning!SnortFields \subseteq idList)

\* A module without a list of sources has no subscription in any step; when all
\* preferences are behind a module that has not been stopped, it runs as the file
\* says.
BeginningInv ==
  component = "init" =>
    /\ file \in Files /\ module = file.module
    /\ phase \in {"init", "running", "returned", "undefined"}
    /\ step \in 1 .. Len(Beginning!Order[module])
    /\ Beginning!Unlisted => sourceIdList = <<>>
    /\ flag = "EXIT" \/ AsRead(Done)
    /\ phase = "init" => packet = Beginning!NoPacket
    /\ phase = "running" => flag # "EXIT" /\ Beginning!Order[module][step] = "exec"
    /\ Beginning!RunsAsConfigured

LEMMA FilesOfModules == \A f \in Files : f.module \in {"statistics", "count", "snort"}
<1>1. {"module", "preferences", "bad"} \subseteq DOMAIN StatisticsFile
      /\ StatisticsFile.module = "statistics"
  BY DEF StatisticsFile
<1>2. ASSUME NEW f \in OtherFiles
      PROVE  f.module \in {"count", "snort"} /\ "module" \in DOMAIN f
  <2>1. PICK m \in {"count", "snort"}, p \in BOOLEAN, b \in {{}, {"output_file"}} :
          f = OtherFile(m, p, b)
    BY DEF OtherFiles
  <2> QED BY <1>1, <2>1 DEF OtherFile
<1>3. \A f \in OtherFiles \cup {StatisticsFile} : \A a, s : WithSources(f, a, s).module = f.module
  BY <1>1, <1>2 DEF WithSources
<1>4. \A o, x, b, c, w : With(o, x, b, c, w).module = "statistics"
  BY <1>1 DEF With
<1>5. \A m, k, p : WithFields(m, k, p).module = "statistics"
  BY <1>1 DEF WithFields
<1> QED BY <1>1, <1>2, <1>3, <1>4, <1>5 DEF Files

LEMMA PacketsHaveFields == \A p \in Packets : "rejected" \notin p.fields \cup p.fixed
<1> SUFFICES ASSUME NEW p \in Packets PROVE "rejected" \notin p.fields \cup p.fixed
  OBVIOUS
<1>1. /\ p.fields = {"bytes", "packets", "section", "source address", "destination address",
                     "source port"}
      /\ p.fixed = {"protocol", "destination port"}
  <2>1. PICK s \in {<<0, 0, 4, 210>>, <<4, 210, 0, 0>>} :
          p = [source |-> s,
               fields |-> {"bytes", "packets", "section", "source address",
                           "destination address", "source port"},
               fixed |-> {"protocol", "destination port"}]
    BY Zenon DEF Packets
  <2> QED BY <2>1
<1> QED BY <1>1

LEMMA OrderLength ==
  /\ Len(Beginning!Order["statistics"]) = 17
  /\ Len(Beginning!Order["count"]) = 6
  /\ Len(Beginning!Order["snort"]) = 3
BY DEF Beginning!Order

LEMMA OrderItems ==
  /\ LET order == Beginning!Order["statistics"]
     IN  order[1] = "preferences" /\ order[2] = "warning_verbosity"
         /\ order[3] = "logfile" /\ order[4] = "logfile_output_verbosity"
         /\ order[5] = "source ids" /\ order[6] = "alarm_time"
         /\ order[7] = "offline_file" /\ order[8] = "netmask"
         /\ order[9] = "metrics" /\ order[10] = "output_dir"
         /\ order[11] = "endpoint_key" /\ order[12] = "endpoints"
         /\ order[13] = "cusum" /\ order[14] = "wkp" /\ order[15] = "begin"
         /\ order[16] = "offline data" /\ order[17] = "exec"
  /\ LET order == Beginning!Order["count"]
     IN  order[1] = "preferences" /\ order[2] = "output_file"
         /\ order[3] = "alarm_time" /\ order[4] = "source ids"
         /\ order[5] = "fields" /\ order[6] = "exec"
  /\ LET order == Beginning!Order["snort"]
     IN  order[1] = "fields" /\ order[2] = "source ids" /\ order[3] = "exec"
BY DEF Beginning!Order

\* Done with one more step, and at the end.
LEMMA DoneProceeds ==
  ASSUME NEW s, step \in Nat \ {0}, Beginning!Order[module][step] = s, step' = step + 1,
         module' = module
  PROVE  Done' = Done \cup {s}
<1>1. 1 .. (step + 1) - 1 = (1 .. step - 1) \cup {step}
  OBVIOUS
<1> QED BY <1>1 DEF Done

LEMMA ExecIsLast ==
  ASSUME module \in {"statistics", "count", "snort"},
         step \in 1 .. Len(Beginning!Order[module])
  PROVE  /\ Beginning!Order[module][step] = "exec" <=> step = Len(Beginning!Order[module])
         /\ step = Len(Beginning!Order[module]) =>
              /\ module = "statistics" =>
                   {"warning_verbosity", "logfile", "logfile_output_verbosity", "netmask",
                    "output_dir", "endpoints", "cusum", "wkp", "offline data", "begin", "metrics",
                    "endpoint_key"} \subseteq Done
              /\ module = "count" => {"output_file", "fields"} \subseteq Done
              /\ module = "snort" => "fields" \in Done
<1>1. CASE module = "statistics"
  <2> DEFINE order == Beginning!Order["statistics"]
  <2>1. step \in 1 .. 17 /\ Len(order) = 17
    BY <1>1, OrderLength
  <2>2. /\ order[1] = "preferences" /\ order[2] = "warning_verbosity"
         /\ order[3] = "logfile" /\ order[4] = "logfile_output_verbosity"
         /\ order[5] = "source ids" /\ order[6] = "alarm_time"
         /\ order[7] = "offline_file" /\ order[8] = "netmask"
         /\ order[9] = "metrics" /\ order[10] = "output_dir"
         /\ order[11] = "endpoint_key" /\ order[12] = "endpoints"
         /\ order[13] = "cusum" /\ order[14] = "wkp" /\ order[15] = "begin"
         /\ order[16] = "offline data" /\ order[17] = "exec"
    BY OrderItems
  <2>3. \A i \in 1 .. 17 :
            i = 1 \/ i = 2 \/ i = 3 \/ i = 4 \/ i = 5 \/ i = 6 \/ i = 7
            \/ i = 8 \/ i = 9 \/ i = 10 \/ i = 11 \/ i = 12 \/ i = 13
            \/ i = 14 \/ i = 15 \/ i = 16 \/ i = 17
    OBVIOUS
  <2>4. Beginning!Order[module] = order
    BY <1>1
  <2> HIDE DEF order
  <2>5. order[step] = "exec" <=> step = 17
    BY <2>1, <2>2, <2>3
  <2>6. \A i \in 1 .. step - 1 : order[i] \in Done
    BY <2>4 DEF Done
  <2>7. step = 17 =>
          {order[2], order[3], order[4], order[8], order[9], order[10], order[11], order[12],
           order[13], order[14], order[15], order[16]} \subseteq Done
    BY <2>6
  <2>8. step = 17 =>
          {"warning_verbosity", "logfile", "logfile_output_verbosity", "netmask",
                       "output_dir", "endpoints", "cusum", "wkp", "offline data", "begin", "metrics",
                       "endpoint_key"} \subseteq Done
    BY <2>2, <2>7, ZenonT(40)
  <2>9. module # "count" /\ module # "snort"
    BY <1>1
  <2> QED BY <2>1, <2>4, <2>5, <2>8, <2>9
<1>2. CASE module = "count"
  <2> DEFINE order == Beginning!Order["count"]
  <2>1. step \in 1 .. 6 /\ Len(order) = 6
    BY <1>2, OrderLength
  <2>2. /\ order[1] = "preferences" /\ order[2] = "output_file"
         /\ order[3] = "alarm_time" /\ order[4] = "source ids"
         /\ order[5] = "fields" /\ order[6] = "exec"
    BY OrderItems
  <2>3. \A i \in 1 .. 6 :
            i = 1 \/ i = 2 \/ i = 3 \/ i = 4 \/ i = 5 \/ i = 6
    OBVIOUS
  <2>4. Beginning!Order[module] = order
    BY <1>2
  <2> HIDE DEF order
  <2>5. order[step] = "exec" <=> step = 6
    BY <2>1, <2>2, <2>3
  <2>6. \A i \in 1 .. step - 1 : order[i] \in Done
    BY <2>4 DEF Done
  <2>7. step = 6 => order[2] \in Done /\ order[5] \in Done
    BY <2>6
  <2> QED BY <1>2, <2>1, <2>2, <2>4, <2>5, <2>7
<1>3. CASE module = "snort"
  <2> DEFINE order == Beginning!Order["snort"]
  <2>1. step \in 1 .. 3 /\ Len(order) = 3
    BY <1>3, OrderLength
  <2>2. /\ order[1] = "fields" /\ order[2] = "source ids" /\ order[3] = "exec"
    BY OrderItems
  <2>3. \A i \in 1 .. 3 :
            i = 1 \/ i = 2 \/ i = 3
    OBVIOUS
  <2>4. Beginning!Order[module] = order
    BY <1>3
  <2> HIDE DEF order
  <2>5. order[step] = "exec" <=> step = 3
    BY <2>1, <2>2, <2>3
  <2>6. \A i \in 1 .. step - 1 : order[i] \in Done
    BY <2>4 DEF Done
  <2>7. step = 3 => order[1] \in Done
    BY <2>6
  <2> QED BY <1>3, <2>1, <2>2, <2>4, <2>5, <2>7
<1> QED BY <1>1, <1>2, <1>3

LEMMA GotoOrder ==
  ASSUME NEW s, Beginning!Goto(s), NEW i \in 1 .. Len(Beginning!Order[module]),
         Beginning!Order[module][i] = s, Len(Beginning!Order[module]) \in Nat
  PROVE  step' \in 1 .. Len(Beginning!Order[module]) /\ Beginning!Order[module][step'] = s
<1> DEFINE I == {j \in 1 .. Len(Beginning!Order[module]) : Beginning!Order[module][j] = s}
<1>1. step' = CHOOSE x \in I : \A y \in I : x <= y
  BY DEF Beginning!Goto, Beginning!SelectInSeq, Beginning!Min
<1>2. \E x \in I : \A y \in I : x <= y
  <2>1. I \subseteq Nat /\ i \in I
    OBVIOUS
  <2> HIDE DEF I
  <2> QED BY <2>1, LeastNatural
<1>3. step' \in I
  <2> HIDE DEF I
  <2> QED BY <1>1, <1>2
<1> QED BY <1>3

LEMMA BeginningInit == SideInit => BeginningInv
<1> SUFFICES ASSUME SideInit, component = "init" PROVE BeginningInv
  BY DEF BeginningInv
<1>1. Beginning!Init
  BY DEF SideInit
<1>2. file \in Files /\ module = file.module /\ step = 1 /\ phase = "init" /\ flag = "RUN"
      /\ sourceIdList = <<>> /\ packet = Beginning!NoPacket
  BY <1>1 DEF Beginning!Init
<1>3. step \in 1 .. Len(Beginning!Order[module])
  <2>1. module \in {"statistics", "count", "snort"}
    BY <1>2, FilesOfModules
  <2>2. Len(Beginning!Order[module]) \in {17, 6, 3}
    BY <2>1, OrderLength
  <2>3. \A n \in {17, 6, 3} : 1 \in 1 .. n
    OBVIOUS
  <2>4. step = 1
    BY <1>2
  <2> QED BY <2>2, <2>3, <2>4
<1>4. Done = {}
  BY <1>2 DEF Done
<1>5. AsRead(Done)
  BY <1>4 DEF AsRead
<1> QED BY <1>2, <1>3, <1>5 DEF BeginningInv, Beginning!RunsAsConfigured

\* A step of init to the next preference.
LEMMA StepRead ==
  ASSUME BeginningInv, component = "init", component' = "init",
         NEW s, s # "exec", Beginning!At(s), Beginning!Proceed,
         UNCHANGED <<module, file, phase, packet, given>>,
         sourceIdList' = sourceIdList \/ (Beginning!Unlisted => sourceIdList' = <<>>),
         Done' = Done \cup {s} => flag' = "EXIT" \/ AsRead(Done)'
  PROVE  BeginningInv'
<1>1. /\ file \in Files /\ module = file.module /\ phase = "init"
      /\ Beginning!Order[module][step] = s /\ packet = Beginning!NoPacket
      /\ step \in 1 .. Len(Beginning!Order[module])
      /\ Beginning!Unlisted => sourceIdList = <<>>
  BY DEF BeginningInv, Beginning!At
<1>2. Len(Beginning!Order[module]) \in Nat
  BY <1>1, FilesOfModules, OrderLength
<1>3. step # Len(Beginning!Order[module])
  BY <1>1, ExecIsLast, FilesOfModules
<1>4. step' = step + 1 /\ step' \in 1 .. Len(Beginning!Order[module])
  BY <1>1, <1>2, <1>3 DEF Beginning!Proceed
<1>5. Done' = Done \cup {s}
  BY <1>1, <1>4, DoneProceeds
<1>6. Beginning!Unlisted' => sourceIdList' = <<>>
  BY <1>1 DEF Beginning!Unlisted
<1> QED BY <1>1, <1>4, <1>5, <1>6 DEF BeginningInv, Beginning!RunsAsConfigured

\* The step of a preference that may be refused.
LEMMA CheckRead ==
  ASSUME BeginningInv, component = "init", component' = "init",
         NEW s, s # "exec", NEW refused \in BOOLEAN, Beginning!Check(s, refused),
         AsRead(Done) /\ ~refused => AsRead(Done \cup {s})
  PROVE  BeginningInv'
<1>1. /\ Beginning!At(s) /\ Beginning!Proceed
      /\ UNCHANGED <<module, file, phase, packet, given>> /\ sourceIdList' = sourceIdList
      /\ idList' = idList /\ monitors' = monitors
      /\ IF refused THEN flag' = "EXIT" ELSE flag' = flag
  BY DEF Beginning!Check, Beginning!reading, Beginning!stop
<1>2. flag = "EXIT" \/ AsRead(Done)
  BY DEF BeginningInv
<1>3. ASSUME Done' = Done \cup {s}, ~refused, AsRead(Done \cup {s})
      PROVE  AsRead(Done)'
  BY <1>1, <1>3, ZenonT(40) DEF AsRead, Beginning!Known
<1>4. Done' = Done \cup {s} => flag' = "EXIT" \/ AsRead(Done)'
  BY <1>1, <1>2, <1>3
<1> QED BY <1>1, <1>4, StepRead

\* The step of a preference that subscribes to fields.
LEMMA SubscribeRead ==
  ASSUME BeginningInv, component = "init", component' = "init",
         NEW s, s # "exec", NEW fields, Beginning!Subscribe(s, fields),
         s \in {"metrics", "endpoint_key", "fields"},
         s = "metrics" => fields = UNION Beginning!Known,
         s = "endpoint_key" => fields = Beginning!KeyFields(file.key),
         s = "fields" => fields = IF module = "count" THEN Beginning!CountFields
                                  ELSE Beginning!SnortFields
  PROVE  BeginningInv'
<1>1. /\ Beginning!At(s) /\ Beginning!Proceed
      /\ UNCHANGED <<module, file, phase, packet, given>> /\ sourceIdList' = sourceIdList
      /\ idList' = (IF file.offline THEN idList ELSE idList \cup fields)
      /\ monitors' = monitors /\ flag' = flag
  BY DEF Beginning!Subscribe, Beginning!reading
<1>2. flag = "EXIT" \/ AsRead(Done)
  BY DEF BeginningInv
<1>3. ASSUME Done' = Done \cup {s}, AsRead(Done)
      PROVE  AsRead(Done)'
  <2>1. Beginning!KeyFields(file.key)' = Beginning!KeyFields(file.key)
    BY <1>1 DEF Beginning!KeyFields
  <2>2. /\ module' = module /\ file' = file /\ monitors' = monitors
        /\ idList \subseteq idList'
        /\ ~file.offline => fields \subseteq idList'
    BY <1>1
  <2>3. \A e : e \in Done' <=> e \in Done \/ e = s
    BY <1>3
  <2>4. \A e \in {"warning_verbosity", "logfile", "logfile_output_verbosity", "netmask",
                  "output_dir", "endpoints", "cusum", "wkp", "offline data", "begin",
                  "output_file"} : e # s
    OBVIOUS
  <2>5. CASE module = "statistics"
    BY <1>3, <2>1, <2>2, <2>3, <2>4, <2>5, ZenonT(40) DEF AsRead, Beginning!Known
  <2>6. CASE module = "count"
    BY <1>3, <2>2, <2>3, <2>4, <2>6
    DEF AsRead, Beginning!CountFields, Beginning!AddressFields, Beginning!PortFields
  <2>7. CASE module = "snort"
    BY <1>3, <2>2, <2>3, <2>4, <2>7
    DEF AsRead, Beginning!SnortFields, Beginning!AddressFields, Beginning!PortFields
  <2>8. CASE module \notin {"statistics", "count", "snort"}
    BY <2>2, <2>8 DEF AsRead, Beginning!Known
  <2> QED BY <2>5, <2>6, <2>7, <2>8
<1>4. Done' = Done \cup {s} => flag' = "EXIT" \/ AsRead(Done)'
  BY <1>1, <1>2, <1>3
<1> QED BY <1>1, <1>4, StepRead

\* The step of a preference that none of the properties depends on, or that
\* begins the monitoring.
LEMMA OtherRead ==
  ASSUME BeginningInv, component = "init", component' = "init",
         NEW s, s \in {"preferences", "alarm_time", "source ids", "begin"},
         Beginning!At(s), Beginning!Proceed,
         UNCHANGED <<module, file, phase, flag, idList, packet, given>>,
         IF s = "begin" THEN monitors' = TRUE ELSE monitors' = monitors,
         sourceIdList' = sourceIdList \/ (Beginning!Unlisted => sourceIdList' = <<>>)
  PROVE  BeginningInv'
<1>2. flag = "EXIT" \/ AsRead(Done)
  BY DEF BeginningInv
<1>3. ASSUME Done' = Done \cup {s}, AsRead(Done)
      PROVE  AsRead(Done)'
  <2>1. Beginning!KeyFields(file.key)' = Beginning!KeyFields(file.key)
    BY DEF Beginning!KeyFields
  <2>2. \A e : e \in Done' <=> e \in Done \/ e = s
    BY <1>3
  <2>3. /\ module' = module /\ file' = file /\ idList' = idList
        /\ s = "begin" => monitors' = TRUE
        /\ s # "begin" => monitors' = monitors
    OBVIOUS
  <2>4. \A e \in {"warning_verbosity", "logfile", "logfile_output_verbosity", "netmask",
                  "output_dir", "endpoints", "cusum", "wkp", "offline data", "metrics",
                  "endpoint_key", "output_file", "fields"} : e # s
    OBVIOUS
  <2>5. CASE module = "statistics"
    BY <1>3, <2>1, <2>2, <2>3, <2>4, <2>5, ZenonT(40) DEF AsRead, Beginning!Known
  <2>6. CASE module = "count"
    BY <1>3, <2>2, <2>3, <2>4, <2>6
    DEF AsRead, Beginning!CountFields, Beginning!AddressFields, Beginning!PortFields
  <2>7. CASE module = "snort"
    BY <1>3, <2>2, <2>3, <2>4, <2>7
    DEF AsRead, Beginning!SnortFields, Beginning!AddressFields, Beginning!PortFields
  <2>8. CASE module \notin {"statistics", "count", "snort"}
    BY <2>3, <2>8 DEF AsRead, Beginning!Known
  <2> QED BY <2>5, <2>6, <2>7, <2>8
<1>4. Done' = Done \cup {s} => flag' = "EXIT" \/ AsRead(Done)'
  BY <1>2, <1>3
<1>5. s # "exec"
  OBVIOUS
<1> QED BY <1>4, <1>5, StepRead

\* A step that leaves the preference, and what has been read, as they are.
LEMMA StayRead ==
  ASSUME BeginningInv, component = "init", component' = "init",
         UNCHANGED <<module, file, step, idList, sourceIdList, monitors, packet, given>>,
         \/ flag' = flag /\ phase' = phase
         \/ phase = "init" /\ flag' = "EXIT" /\ phase' \in {"init", "undefined"}
  PROVE  BeginningInv'
<1>1. Done' = Done
  BY DEF Done
<1>2. flag' = "EXIT" \/ AsRead(Done)'
  BY <1>1 DEF BeginningInv, AsRead, Beginning!Known
<1>3. Beginning!Unlisted' => sourceIdList' = <<>>
  BY DEF BeginningInv, Beginning!Unlisted
<1>4. Beginning!RunsAsConfigured'
  BY DEF BeginningInv, Beginning!RunsAsConfigured, Beginning!Used, Beginning!Needed, Beginning!Known,
         Beginning!Unlisted, Beginning!KeyFields
<1> QED BY <1>2, <1>3, <1>4 DEF BeginningInv

\* Some indices of the orders.
LEMMA Indices ==
  /\ \A i \in 1 .. 3 : i = 1 \/ i = 2 \/ i = 3
  /\ \A i \in 1 .. 6 : i = 1 \/ i = 2 \/ i = 3 \/ i = 4 \/ i = 5 \/ i = 6
  /\ 16 \in 1 .. 17 /\ 17 \in Nat
OBVIOUS

\* A step of init that passes over preferences.
LEMMA OutputDirGoto ==
  ASSUME step \in 1 .. Len(Beginning!Order[module]), module \in {"statistics", "count", "snort"},
         Beginning!Order[module][step] = "output_dir",
         NEW s, s = "offline data", Beginning!Goto(s)
  PROVE  step' \in 1 .. Len(Beginning!Order[module])
<1>1. module = "statistics"
  <2>1. CASE module = "count"
    <3>1. step \in 1 .. 6
      BY <2>1, OrderLength
    <3>2. step = 1 \/ step = 2 \/ step = 3 \/ step = 4 \/ step = 5 \/ step = 6
      BY <3>1, Indices, Zenon
    <3> QED BY <2>1, <3>2, OrderItems, Zenon
  <2>2. CASE module = "snort"
    <3>1. step \in 1 .. 3
      BY <2>2, OrderLength
    <3>2. step = 1 \/ step = 2 \/ step = 3
      BY <3>1, Indices, Zenon
    <3> QED BY <2>2, <3>2, OrderItems, Zenon
  <2> QED BY <2>1, <2>2
<1>2. Beginning!Order[module][16] = "offline data"
  BY <1>1, OrderItems
<1>3. Len(Beginning!Order[module]) = 17
  BY <1>1, OrderLength
<1>4. 16 \in 1 .. Len(Beginning!Order[module]) /\ Len(Beginning!Order[module]) \in Nat
  BY <1>3, Indices, Zenon
<1> QED BY <1>2, <1>4, GotoOrder, Zenon

LEMMA FieldsGoto ==
  ASSUME module = "count", module' = module, NEW s, s = "fields", Beginning!Goto(s)
  PROVE  step' \in 1 .. Len(Beginning!Order[module]) /\ "fields" \notin Done'
<1>1. Beginning!Order[module][5] = "fields"
  BY OrderItems
<1>2. Len(Beginning!Order[module]) = 6
  BY OrderLength
<1>3. 5 \in 1 .. Len(Beginning!Order[module]) /\ Len(Beginning!Order[module]) \in Nat
  BY <1>2
<1>4. step' \in 1 .. Len(Beginning!Order[module])
      /\ Beginning!Order[module][step'] = "fields"
  BY <1>1, <1>3, GotoOrder
<1>5. step' \in 1 .. 6
  BY <1>2, <1>4
<1>6. step' = 1 \/ step' = 2 \/ step' = 3 \/ step' = 4 \/ step' = 5 \/ step' = 6
  BY <1>5
<1>7. step' = 5
  BY <1>4, <1>6, OrderItems
<1>8. Done' = {Beginning!Order[module][i] : i \in 1 .. 4}
  <2>1. 1 .. step' - 1 = 1 .. 4
    BY <1>7
  <2> QED BY <2>1 DEF Done
<1>9. \A i \in 1 .. 4 : Beginning!Order[module][i] # "fields"
  <2>1. \A i \in 1 .. 4 : i = 1 \/ i = 2 \/ i = 3 \/ i = 4
    OBVIOUS
  <2> QED BY <2>1, OrderItems
<1> QED BY <1>4, <1>8, <1>9

LEMMA GotoRead ==
  ASSUME BeginningInv, component = "init", component' = "init", phase = "init",
         UNCHANGED <<module, file, phase, idList, sourceIdList, monitors, packet, given>>,
         step' \in 1 .. Len(Beginning!Order[module]),
         \/ flag' = "EXIT"
         \/ module = "count" /\ ~file.preferences /\ "fields" \notin Done'
  PROVE  BeginningInv'
<1>1. /\ file \in Files /\ module = file.module /\ packet = Beginning!NoPacket
      /\ Beginning!Unlisted => sourceIdList = <<>>
  BY DEF BeginningInv
<1>2. flag' = "EXIT" \/ AsRead(Done)'
  BY DEF AsRead, Beginning!Known
<1>3. Beginning!Unlisted' => sourceIdList' = <<>>
  BY <1>1 DEF Beginning!Unlisted
<1> QED BY <1>1, <1>2, <1>3 DEF BeginningInv, Beginning!RunsAsConfigured

\* exec() runs the module that has not been stopped.
LEMMA ExecRead ==
  ASSUME BeginningInv, component = "init", component' = "init", Beginning!Exec
  PROVE  BeginningInv'
<1>1. /\ UNCHANGED <<module, file, step, flag, idList, sourceIdList, monitors, packet, given>>
      /\ phase = "init" /\ Beginning!Order[module][step] = "exec"
      /\ phase' \in {"returned", "running"}
      /\ phase' = "running" => flag # "EXIT"
  BY DEF Beginning!Exec, Beginning!At, Beginning!reading
<1>2. /\ file \in Files /\ module = file.module /\ packet = Beginning!NoPacket
      /\ step \in 1 .. Len(Beginning!Order[module]) /\ module \in {"statistics", "count", "snort"}
      /\ Beginning!Unlisted => sourceIdList = <<>>
      /\ flag = "EXIT" \/ AsRead(Done)
  BY <1>1, FilesOfModules DEF BeginningInv
<1>3. phase' = "running" => file.bad \cap Beginning!Used = {}
  <2> SUFFICES ASSUME phase' = "running", NEW e \in file.bad, e \in Beginning!Used PROVE FALSE
    OBVIOUS
  <2>1. AsRead(Done)
    BY <1>1, <1>2
  <2>2. CASE module = "statistics"
    <3>1. {"warning_verbosity", "logfile", "logfile_output_verbosity", "netmask",
           "output_dir", "endpoints", "cusum", "wkp", "offline data"} \subseteq Done
      BY <1>1, <1>2, <2>2, ExecIsLast
    <3> QED BY <2>1, <2>2, <3>1 DEF AsRead, Beginning!Used
  <2>3. CASE module = "count"
    <3>1. "output_file" \in Done
      BY <1>1, <1>2, <2>3, ExecIsLast
    <3> QED BY <2>1, <2>3, <3>1 DEF AsRead, Beginning!Used
  <2>4. CASE module = "snort"
    BY <2>4 DEF Beginning!Used
  <2> QED BY <1>2, <2>2, <2>3, <2>4
<1>4. Beginning!Used' = Beginning!Used /\ Beginning!Unlisted' = Beginning!Unlisted
  BY <1>1 DEF Beginning!Used, Beginning!Unlisted
<1>5. Done' = Done /\ (flag' = "EXIT" \/ AsRead(Done)')
  <2>1. Done' = Done
    BY <1>1 DEF Done
  <2> QED BY <1>1, <1>2, <2>1, ZenonT(40) DEF AsRead, Beginning!Known
<1>6. Beginning!RunsAsConfigured'
  BY <1>1, <1>2, <1>3, <1>4 DEF Beginning!RunsAsConfigured
<1>7. sourceIdList' = sourceIdList /\ (Beginning!Unlisted' => sourceIdList' = <<>>)
  BY <1>1, <1>2, <1>4
<1>9. file' = file /\ module' = module /\ step' = step /\ flag' = flag
  BY <1>1
<1>8. /\ file' \in Files /\ module' = file'.module /\ phase' # "init"
      /\ step' \in 1 .. Len(Beginning!Order[module'])
      /\ phase' = "running" => flag' # "EXIT" /\ Beginning!Order[module'][step'] = "exec"
  <2>1. phase' # "init"
    BY <1>1
  <2> QED BY <1>1, <1>2, <1>9, <2>1, Zenon
<1>10. phase' \in {"init", "running", "returned", "undefined"}
  BY <1>1
<1> QED BY <1>5, <1>6, <1>7, <1>8, <1>10, Zenon DEF BeginningInv

\* The reader hands a running module what it has subscribed to.
LEMMA ImportRead ==
  ASSUME BeginningInv, component = "init", component' = "init",
         NEW p \in Packets, Beginning!Import(p)
  PROVE  BeginningInv'
<1>1. /\ UNCHANGED <<module, file, phase, step, flag, idList, sourceIdList, monitors>>
      /\ phase = "running" /\ ~file.offline /\ packet' = p
      /\ given' = IF Beginning!isSourceIdInList(Beginning!SourceField(p))
                  THEN Beginning!Passed(p) ELSE Beginning!Rejected
  BY DEF Beginning!Import
<1>2. /\ file \in Files /\ module = file.module
      /\ step \in 1 .. Len(Beginning!Order[module]) /\ module \in {"statistics", "count", "snort"}
      /\ Beginning!Unlisted => sourceIdList = <<>>
      /\ AsRead(Done) /\ flag # "EXIT" /\ Beginning!Order[module][step] = "exec"
      /\ file.bad \cap Beginning!Used = {}
  BY <1>1, FilesOfModules DEF BeginningInv, Beginning!RunsAsConfigured
<1>3. Beginning!Needed \subseteq idList
  <2>1. CASE module = "statistics"
    <3>1. {"metrics", "endpoint_key"} \subseteq Done
      BY <1>2, <2>1, ExecIsLast
    <3>2. UNION Beginning!Known \subseteq idList /\ Beginning!KeyFields(file.key) \subseteq idList
      BY <1>1, <1>2, <2>1, <3>1 DEF AsRead, Beginning!Known
    <3>3. Beginning!Needed = (UNION Beginning!Known) \cup Beginning!KeyFields(file.key)
      BY <2>1 DEF Beginning!Needed
    <3> QED BY <3>2, <3>3
  <2>2. CASE module = "count"
    <3>1. "fields" \in Done
      BY <1>2, <2>2, ExecIsLast
    <3> QED BY <1>1, <1>2, <2>2, <3>1 DEF AsRead, Beginning!Needed
  <2>3. CASE module = "snort"
    <3>1. "fields" \in Done
      BY <1>2, <2>3, ExecIsLast
    <3> QED BY <1>1, <1>2, <2>3, <3>1 DEF AsRead, Beginning!Needed
  <2> QED BY <1>2, <2>1, <2>2, <2>3
<1>4. module = "statistics" => monitors = TRUE
  <2> SUFFICES ASSUME module = "statistics" PROVE monitors = TRUE
    OBVIOUS
  <2>1. "begin" \in Done
    BY <1>2, ExecIsLast
  <2> QED BY <1>2, <2>1 DEF AsRead, Beginning!Known
<1>5. Beginning!Passed(p) = {f \in p.fields \cup p.fixed : Beginning!isIdInList(f)}
  BY <1>4 DEF Beginning!Passed
<1>6. Beginning!Passed(p) # Beginning!Rejected
  BY <1>5, PacketsHaveFields DEF Beginning!Rejected
<1>7. (p.fields \cup p.fixed) \cap Beginning!Needed \subseteq Beginning!Passed(p)
  BY <1>3, <1>5 DEF Beginning!isIdInList
<1>8. Beginning!Unlisted => given' # Beginning!Rejected
  BY <1>1, <1>2, <1>6 DEF Beginning!isSourceIdInList
<1>9. given' # Beginning!Rejected => (p.fields \cup p.fixed) \cap Beginning!Needed \subseteq given'
  BY <1>1, <1>7
<1>10. /\ Beginning!Used' = Beginning!Used /\ Beginning!Unlisted' = Beginning!Unlisted
       /\ Beginning!Needed' = Beginning!Needed
  BY <1>1 DEF Beginning!Used, Beginning!Unlisted, Beginning!Needed, Beginning!Known, Beginning!KeyFields
<1>11. AsRead(Done)'
  <2>1. Done' = Done
    BY <1>1 DEF Done
  <2> QED BY <1>1, <1>2, <2>1 DEF AsRead, Beginning!Known
<1>12. Beginning!RunsAsConfigured'
  BY <1>1, <1>2, <1>8, <1>9, <1>10 DEF Beginning!RunsAsConfigured
<1>13. sourceIdList' = sourceIdList /\ (Beginning!Unlisted' => sourceIdList' = <<>>)
  BY <1>1, <1>2, <1>10
<1> QED BY <1>1, <1>2, <1>11, <1>12, <1>13 DEF BeginningInv

LEMMA BeginningNext == BeginningInv /\ [SideNext]_sideVars => BeginningInv'
<1> SUFFICES ASSUME BeginningInv, [SideNext]_sideVars, component' = "init"
             PROVE  BeginningInv'
  BY DEF BeginningInv
<1>1. component = "init" /\ (Beginning!Next \/ UNCHANGED BeginningVars)
  BY DEF SideNext, sideVars
<1>2. ASSUME UNCHANGED <<module, file, phase, step, flag, idList, sourceIdList, monitors,
                         packet, given>>
      PROVE  BeginningInv'
  BY <1>1, <1>2, StayRead
<1>3. CASE Beginning!Next
  <2>1. CASE Beginning!Preferences
    <3>1. /\ phase = "init" /\ Beginning!At("preferences")
          /\ UNCHANGED <<module, file, idList, sourceIdList, monitors, packet, given>>
          /\ \/ Beginning!Proceed /\ UNCHANGED <<phase, flag>>
             \/ /\ ~file.preferences /\ module = "count" /\ Beginning!Goto("fields")
                /\ UNCHANGED <<phase, flag>>
             \/ flag' = "EXIT" /\ phase' = "undefined" /\ step' = step
      BY <2>1 DEF Beginning!Preferences, Beginning!At, Beginning!stop, Beginning!reading
    <3>2. CASE Beginning!Proceed /\ UNCHANGED <<phase, flag>>
      BY <1>1, <3>1, <3>2, OtherRead
    <3>3. CASE /\ ~file.preferences /\ module = "count" /\ Beginning!Goto("fields")
               /\ UNCHANGED <<phase, flag>>
      BY <1>1, <3>1, <3>3, FieldsGoto, GotoRead
    <3>4. CASE flag' = "EXIT" /\ phase' = "undefined" /\ step' = step
      BY <1>1, <3>1, <3>4, StayRead
    <3> QED BY <3>1, <3>2, <3>3, <3>4
  <2>2. CASE Beginning!OutputVerbosity
    <3> DEFINE refused == "warning_verbosity" \in file.bad
    <3>1. AsRead(Done) /\ ~refused => AsRead(Done \cup {"warning_verbosity"})
      BY ZenonT(40) DEF AsRead
    <3>2. Beginning!Check("warning_verbosity", refused) /\ refused \in BOOLEAN
      BY <2>2 DEF Beginning!OutputVerbosity
    <3> HIDE DEF refused
    <3> QED BY <1>1, <3>1, <3>2, CheckRead
  <2>3. CASE Beginning!LogFile
    <3> DEFINE refused == "logfile" \in file.bad
    <3>1. AsRead(Done) /\ ~refused => AsRead(Done \cup {"logfile"})
      BY ZenonT(40) DEF AsRead
    <3>2. Beginning!Check("logfile", refused) /\ refused \in BOOLEAN
      BY <2>3 DEF Beginning!LogFile
    <3> HIDE DEF refused
    <3> QED BY <1>1, <3>1, <3>2, CheckRead
  <2>4. CASE Beginning!LogVerbosity
    <3> DEFINE refused == "logfile_output_verbosity" \in file.bad
    <3>1. AsRead(Done) /\ ~refused => AsRead(Done \cup {"logfile_output_verbosity"})
      BY ZenonT(40) DEF AsRead
    <3>2. Beginning!Check("logfile_output_verbosity", refused) /\ refused \in BOOLEAN
      BY <2>4 DEF Beginning!LogVerbosity
    <3> HIDE DEF refused
    <3> QED BY <1>1, <3>1, <3>2, CheckRead
  <2>5. CASE Beginning!OutputFile
    <3> DEFINE refused == "output_file" \in file.bad
    <3>1. AsRead(Done) /\ ~refused => AsRead(Done \cup {"output_file"})
      BY ZenonT(40) DEF AsRead
    <3>2. Beginning!Check("output_file", refused) /\ refused \in BOOLEAN
      BY <2>5 DEF Beginning!OutputFile
    <3> HIDE DEF refused
    <3> QED BY <1>1, <3>1, <3>2, CheckRead
  <2>6. CASE Beginning!Netmask
    <3> DEFINE refused == "netmask" \in file.bad
    <3>1. AsRead(Done) /\ ~refused => AsRead(Done \cup {"netmask"})
      BY ZenonT(40) DEF AsRead
    <3>2. Beginning!Check("netmask", refused) /\ refused \in BOOLEAN
      BY <2>6 DEF Beginning!Netmask
    <3> HIDE DEF refused
    <3> QED BY <1>1, <3>1, <3>2, CheckRead
  <2>7. CASE Beginning!OfflineFile
    <3>1. AsRead(Done) => AsRead(Done \cup {"offline_file"})
      BY ZenonT(40) DEF AsRead
    <3> QED BY <1>1, <2>7, <3>1, CheckRead DEF Beginning!OfflineFile
  <2>8. CASE Beginning!Endpoints
    <3> DEFINE refused == IF file.offline /\ file.frequent THEN Beginning!Unopenable
                          ELSE "endpoints_to_monitor" \in file.bad
    <3>1. AsRead(Done) /\ ~refused => AsRead(Done \cup {"endpoints"})
      BY ZenonT(40) DEF AsRead
    <3>2. refused \in BOOLEAN
      <4>1. Beginning!Unopenable \in BOOLEAN /\ ("endpoints_to_monitor" \in file.bad) \in BOOLEAN
        BY DEF Beginning!Unopenable
      <4> QED BY <4>1, Zenon
    <3>3. Beginning!Check("endpoints", refused)
      BY <2>8 DEF Beginning!Endpoints
    <3> HIDE DEF refused
    <3> QED BY <1>1, <3>1, <3>2, <3>3, CheckRead
  <2>9. CASE Beginning!CusumTest
    <3> DEFINE refused == file.cusum = "enabled"
                          /\ {"amplitude_percentage", "smoothing_constant"} \cap file.bad # {}
    <3>1. AsRead(Done) /\ ~refused => AsRead(Done \cup {"cusum"})
      BY ZenonT(40) DEF AsRead
    <3>2. Beginning!Check("cusum", refused) /\ refused \in BOOLEAN
      BY <2>9 DEF Beginning!CusumTest
    <3> HIDE DEF refused
    <3> QED BY <1>1, <3>1, <3>2, CheckRead
  <2>10. CASE Beginning!WkpTest
    <3> DEFINE refused == file.wkp = "enabled" /\ "significance_level" \in file.bad
    <3>1. AsRead(Done) /\ ~refused => AsRead(Done \cup {"wkp"})
      BY ZenonT(40) DEF AsRead
    <3>2. Beginning!Check("wkp", refused) /\ refused \in BOOLEAN
      BY <2>10 DEF Beginning!WkpTest
    <3> HIDE DEF refused
    <3> QED BY <1>1, <3>1, <3>2, CheckRead
  <2>11. CASE Beginning!OpenOffline
    <3> DEFINE refused == file.offline /\ Beginning!Unopenable
    <3>1. AsRead(Done) /\ ~refused => AsRead(Done \cup {"offline data"})
      BY ZenonT(40) DEF AsRead, Beginning!Unopenable
    <3>2. Beginning!Check("offline data", refused) /\ refused \in BOOLEAN
      BY <2>11 DEF Beginning!OpenOffline
    <3> HIDE DEF refused
    <3> QED BY <1>1, <3>1, <3>2, CheckRead
  <2>12. CASE Beginning!SourceIds
    <3>1. Beginning!Subscribed(<<>>) = <<>>
      <4> DEFINE none == [i \in 1 .. 0 |-> <<>>[1]]
      <4>1. none \in Seq({}) /\ Len(none) = 0
        OBVIOUS
      <4>2. none = <<>>
        <5> HIDE DEF none
        <5> QED BY <4>1, EmptySeq
      <4>3. DOMAIN <<>> = 1 .. 0
        OBVIOUS
      <4> QED BY <4>2, <4>3 DEF Beginning!Subscribed
    <3>2. Beginning!Unlisted => sourceIdList' = <<>>
      BY <2>12, <3>1 DEF Beginning!SourceIds, Beginning!Unlisted, Beginning!ListedSources
    <3> QED BY <1>1, <2>12, <3>2, OtherRead DEF Beginning!SourceIds, Beginning!reading
  <2>13. CASE Beginning!AlarmTime
    BY <1>1, <2>13, OtherRead DEF Beginning!AlarmTime, Beginning!reading
  <2>14. CASE Beginning!BeginMonitoring
    BY <1>1, <2>14, OtherRead DEF Beginning!BeginMonitoring, Beginning!reading
  <2>15. CASE Beginning!Metrics
    BY <1>1, <2>15, SubscribeRead DEF Beginning!Metrics
  <2>16. CASE Beginning!EndpointKey
    BY <1>1, <2>16, SubscribeRead DEF Beginning!EndpointKey
  <2>17. CASE Beginning!Fields
    BY <1>1, <2>17, SubscribeRead DEF Beginning!Fields
  <2>18. CASE Beginning!OutputDir
    <3>1. CASE Beginning!NotMade \cap file.bad # {}
      <4>1. /\ phase = "init" /\ Beginning!Order[module][step] = "output_dir"
            /\ Beginning!Goto("offline data") /\ flag' = "EXIT"
            /\ UNCHANGED <<module, file, phase, idList, sourceIdList, monitors, packet, given>>
        BY <2>18, <3>1 DEF Beginning!OutputDir, Beginning!At, Beginning!LeaveStopped,
                           Beginning!stop, Beginning!reading
      <4>2. step \in 1 .. Len(Beginning!Order[module]) /\ module \in {"statistics", "count", "snort"}
        BY <1>1, FilesOfModules DEF BeginningInv
      <4>3. step' \in 1 .. Len(Beginning!Order[module])
        BY <4>1, <4>2, OutputDirGoto
      <4> QED BY <1>1, <4>1, <4>3, GotoRead
    <3>2. CASE Beginning!NotMade \cap file.bad = {}
      <4>1. Beginning!Check("output_dir", FALSE)
        BY <2>18, <3>2 DEF Beginning!OutputDir, Beginning!Check
      <4>2. "output_dir" \notin file.bad
        BY <3>2 DEF Beginning!NotMade
      <4>3. AsRead(Done) => AsRead(Done \cup {"output_dir"})
        BY <4>2, ZenonT(40) DEF AsRead
      <4> QED BY <1>1, <4>1, <4>3, CheckRead
    <3> QED BY <3>1, <3>2
  <2>19. CASE Beginning!SigTerm
    <3>1. /\ phase = "init" /\ flag' = "EXIT"
          /\ UNCHANGED <<module, file, phase, step, idList, sourceIdList, monitors, packet, given>>
      BY <2>19 DEF Beginning!SigTerm, Beginning!stop, Beginning!reading
    <3> QED BY <1>1, <3>1, StayRead
  <2>20. CASE Beginning!Exec
    BY <1>1, <2>20, ExecRead
  <2>21. CASE Beginning!Over
    BY <1>2, <2>21 DEF Beginning!Over, Beginning!vars
  <2>22. CASE \E p \in Packets : Beginning!Import(p)
    BY <1>1, <2>22, ImportRead
  <2> QED BY <1>3, <2>1, <2>2, <2>3, <2>4, <2>5, <2>6, <2>7, <2>8, <2>9, <2>10, <2>11, <2>12,
             <2>13, <2>14, <2>15, <2>16, <2>17, <2>18, <2>19, <2>20, <2>21, <2>22
          DEF Beginning!Next
<1>4. CASE UNCHANGED BeginningVars
  BY <1>2, <1>4 DEF BeginningVars
<1> QED BY <1>1, <1>3, <1>4

\* RunsAsConfigured: whenever init of the statistics, the count or the Snort
\* module lets exec() run, no element that the run depends on was refused, and
\* the packet reader then withholds no packet of an unlisted source and no field
\* that the module computes with (filepolicy.h), whatever else the file says and
\* whenever a SIGTERM arrives.
THEOREM ModulesRunAsConfigured == SideSpec => []RunsAsConfigured
<1>1. BeginningInv => RunsAsConfigured
  BY DEF BeginningInv, RunsAsConfigured
<1> QED BY BeginningInit, BeginningNext, <1>1, PTL DEF SideSpec

=============================================================================
