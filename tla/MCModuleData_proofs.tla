------------------------- MODULE MCModuleData_proofs -------------------------
(***************************************************************************)
(* What is proved about the components of a detection module that hold and *)
(* compute data: the stores of the statistics and the count module, and    *)
(* the tests that compare two samples.                                     *)
(***************************************************************************)
EXTENDS MCModuleSide, DetectionBase_proofs, Functions, FiniteSetTheorems, TLAPS

-----------------------------------------------------------------------------
(* Sums over finite sets. *)

\* g gives each subset of S the sum of f over it, in whatever order.
Adds(g, f, S) ==
  /\ g \in [SUBSET S -> Int] /\ g[{}] = 0
  /\ \A T \in SUBSET S : \A x \in T : g[T] = f[x] + g[T \ {x}]

\* SumFunctionOnSet is what its recursive function comes to.
LEMMA SumOfAdds ==
  ASSUME NEW f, NEW S, IsFiniteSet(S), NEW g, Adds(g, f, S)
  PROVE  SumFunctionOnSet(f, S) = g[S]
<1> DEFINE unrolled(h) == [T \in SUBSET S |->
                             IF T = {} THEN 0
                             ELSE f[CHOOSE x \in T : TRUE] + h[T \ {CHOOSE x \in T : TRUE}]]
           sum == CHOOSE h : h = unrolled(h)
<1>2. SumFunctionOnSet(f, S) = sum[S]
  BY DEF SumFunctionOnSet, FoldFunctionOnSet, MapThenFoldSet
<1>3. g = unrolled(g)
  <2>1. \A T \in SUBSET S : g[T] = IF T = {} THEN 0
                             ELSE f[CHOOSE x \in T : TRUE] + g[T \ {CHOOSE x \in T : TRUE}]
    BY DEF Adds
  <2> QED BY <2>1 DEF Adds
<1>4. sum = unrolled(sum)
  BY <1>3
<1> HIDE DEF sum
<1>5. \A T \in SUBSET S : sum[T] = IF T = {} THEN 0
                             ELSE f[CHOOSE x \in T : TRUE] + sum[T \ {CHOOSE x \in T : TRUE}]
  BY <1>4
<1> HIDE DEF unrolled
<1> DEFINE Sizes == {n \in Nat : \E T \in SUBSET S : Cardinality(T) = n /\ sum[T] # g[T]}
<1>6. Sizes = {}
  <2> SUFFICES ASSUME Sizes # {} PROVE FALSE
    OBVIOUS
  <2>1. PICK n \in Sizes : \A k \in Sizes : n <= k
    BY LeastNatural
  <2>2. PICK T \in SUBSET S : Cardinality(T) = n /\ sum[T] # g[T]
    OBVIOUS
  <2>3. T # {}
    BY <2>2, <1>5 DEF Adds
  <2> DEFINE x == CHOOSE y \in T : TRUE
  <2>4. x \in T
    BY <2>3
  <2>5. IsFiniteSet(T) /\ Cardinality(T \ {x}) = n - 1 /\ n - 1 \in Nat
    <3>1. IsFiniteSet(T)
      BY FS_Subset
    <3>2. Cardinality(T) \in Nat /\ Cardinality(T \ {x}) = Cardinality(T) - 1
          /\ Cardinality(T \ {x}) \in Nat
      BY <2>4, <3>1, FS_RemoveElement, FS_CardinalityType
    <3> QED BY <2>2, <3>1, <3>2
  <2>6. sum[T \ {x}] = g[T \ {x}]
    BY <2>1, <2>5
  <2>7. g[T] = f[x] + g[T \ {x}]
    BY <2>4 DEF Adds
  <2>8. sum[T] = f[x] + sum[T \ {x}]
    BY <1>5, <2>3
  <2> QED BY <2>2, <2>6, <2>7, <2>8
<1>7. Cardinality(S) \in Nat
  BY FS_CardinalityType
<1> QED BY <1>2, <1>6, <1>7

\* The sums over the subsets of S \cup {e} from those over the subsets of S.
LEMMA AddsOne ==
  ASSUME NEW f, NEW S, NEW g, Adds(g, f, S), NEW e, e \notin S, f[e] \in Int,
         \A x \in S : f[x] \in Int
  PROVE  \E h : Adds(h, f, S \cup {e}) /\ h[S \cup {e}] = f[e] + g[S]
<1> DEFINE h == [T \in SUBSET (S \cup {e}) |-> IF e \in T THEN f[e] + g[T \ {e}] ELSE g[T]]
<1>1. h[S \cup {e}] = f[e] + g[S]
  <2>1. (S \cup {e}) \ {e} = S
    OBVIOUS
  <2> QED BY <2>1
<1>2. h \in [SUBSET (S \cup {e}) -> Int]
  <2>1. ASSUME NEW T \in SUBSET (S \cup {e})
        PROVE  (IF e \in T THEN f[e] + g[T \ {e}] ELSE g[T]) \in Int
    <3>1. T \ {e} \in SUBSET S /\ (e \notin T => T \in SUBSET S)
      OBVIOUS
    <3> QED BY <3>1 DEF Adds
  <2> QED BY <2>1
<1>3. h[{}] = 0
  BY DEF Adds
<1>4. ASSUME NEW T \in SUBSET (S \cup {e}), NEW x \in T
      PROVE  h[T] = f[x] + h[T \ {x}]
  <2>1. CASE x = e
    <3>1. T \ {e} \in SUBSET S
      OBVIOUS
    <3> QED BY <2>1, <3>1
  <2>2. CASE x # e /\ e \in T
    <3> DEFINE R == T \ {e}
    <3>1. R \in SUBSET S /\ x \in R /\ R \ {x} = (T \ {x}) \ {e} /\ R \ {x} \in SUBSET S
      BY <2>2
    <3>2. g[R] = f[x] + g[R \ {x}] /\ g[R] \in Int /\ g[R \ {x}] \in Int
      BY <3>1 DEF Adds
    <3>3. h[T] = f[e] + g[R] /\ h[T \ {x}] = f[e] + g[R \ {x}]
      BY <2>2, <3>1
    <3>4. f[x] + g[R \ {x}] \in Int
      BY <3>2
    <3> QED BY <3>2, <3>3
  <2>3. CASE e \notin T
    BY <2>3 DEF Adds
  <2> QED BY <2>1, <2>2, <2>3
<1> HIDE DEF h
<1> QED BY <1>1, <1>2, <1>3, <1>4 DEF Adds

\* Every finite set has its sums.
LEMMA AddsExists ==
  ASSUME NEW f, NEW S, IsFiniteSet(S), \A x \in S : f[x] \in Int
  PROVE  \E g : Adds(g, f, S)
<1> DEFINE Sizes == {n \in Nat : \A T \in SUBSET S : Cardinality(T) = n => \E g : Adds(g, f, T)}
<1>1. 0 \in Sizes
  <2> SUFFICES ASSUME NEW T \in SUBSET S, Cardinality(T) = 0 PROVE \E g : Adds(g, f, T)
    OBVIOUS
  <2>1. T = {}
    BY FS_Subset, FS_EmptySet
  <2> DEFINE g == [R \in SUBSET {} |-> 0]
  <2>2. Adds(g, f, {})
    BY DEF Adds
  <2> QED BY <2>1, <2>2
<1>2. ASSUME NEW n \in Nat, n \in Sizes PROVE n + 1 \in Sizes
  <2> SUFFICES ASSUME NEW T \in SUBSET S, Cardinality(T) = n + 1 PROVE \E g : Adds(g, f, T)
    OBVIOUS
  <2>1. IsFiniteSet(T)
    BY FS_Subset
  <2>2. PICK e \in T : TRUE
    BY FS_EmptySet
  <2>3. Cardinality(T \ {e}) = n
    <3>1. Cardinality(T \ {e}) = Cardinality(T) - 1
      BY <2>1, FS_RemoveElement
    <3> QED BY <3>1
  <2>4. PICK g : Adds(g, f, T \ {e})
    BY <1>2, <2>3
  <2>5. (T \ {e}) \cup {e} = T
    OBVIOUS
  <2> QED BY <2>4, <2>5, AddsOne
<1> HIDE DEF Sizes
<1>3. Cardinality(S) \in Sizes
  BY <1>1, <1>2, SetInduction, FS_CardinalityType
<1> QED BY <1>3 DEF Sizes

LEMMA SumOfNothing == ASSUME NEW f PROVE SumFunctionOnSet(f, {}) = 0
<1>1. IsFiniteSet({})
  BY FS_EmptySet
<1>2. PICK g : Adds(g, f, {})
  BY <1>1, AddsExists
<1> QED BY <1>1, <1>2, SumOfAdds DEF Adds

LEMMA SumAdd ==
  ASSUME NEW f, NEW S, IsFiniteSet(S), NEW e, e \notin S,
         \A x \in S \cup {e} : f[x] \in Int
  PROVE  /\ SumFunctionOnSet(f, S) \in Int
         /\ SumFunctionOnSet(f, S \cup {e}) = f[e] + SumFunctionOnSet(f, S)
<1>1. PICK g : Adds(g, f, S)
  BY AddsExists
<1>2. PICK h : Adds(h, f, S \cup {e}) /\ h[S \cup {e}] = f[e] + g[S]
  <2>1. f[e] \in Int /\ \A x \in S : f[x] \in Int
    OBVIOUS
  <2> QED BY <1>1, <2>1, AddsOne
<1>3. IsFiniteSet(S \cup {e})
  BY FS_AddElement
<1>4. SumFunctionOnSet(f, S) = g[S] /\ SumFunctionOnSet(f, S \cup {e}) = h[S \cup {e}]
  BY <1>1, <1>2, <1>3, SumOfAdds
<1> QED BY <1>1, <1>2, <1>4 DEF Adds

LEMMA SumTakeOne ==
  ASSUME NEW f, NEW S, IsFiniteSet(S), NEW e \in S, \A x \in S : f[x] \in Int
  PROVE  /\ SumFunctionOnSet(f, S \ {e}) \in Int
         /\ SumFunctionOnSet(f, S) = f[e] + SumFunctionOnSet(f, S \ {e})
<1>1. IsFiniteSet(S \ {e}) /\ S = (S \ {e}) \cup {e}
  BY FS_RemoveElement
<1> QED BY <1>1, SumAdd

LEMMA SumType ==
  ASSUME NEW f, NEW S, IsFiniteSet(S), \A x \in S : f[x] \in Int
  PROVE  SumFunctionOnSet(f, S) \in Int
<1>1. PICK g : Adds(g, f, S)
  BY AddsExists
<1>2. SumFunctionOnSet(f, S) = g[S]
  BY <1>1, SumOfAdds
<1> QED BY <1>1, <1>2 DEF Adds

\* The sum depends on the values in the set only.
LEMMA SumEqual ==
  ASSUME NEW f, NEW h, NEW S, IsFiniteSet(S), \A x \in S : f[x] = h[x] /\ f[x] \in Int
  PROVE  SumFunctionOnSet(f, S) = SumFunctionOnSet(h, S)
<1>1. PICK g : Adds(g, f, S)
  BY AddsExists
<1>2. Adds(g, h, S)
  BY <1>1 DEF Adds
<1> QED BY <1>1, <1>2, SumOfAdds
-----------------------------------------------------------------------------
(* The store of the statistics module: counting. *)

LEMMA StoreCardinality == \A S : Store!Cardinality(S) = Cardinality(S)
BY DEF Store!Cardinality, Cardinality

Infos == [in : Nat, out : Nat]

\* A map of endpoints.
EndPointMap(data) == data \in [DOMAIN data -> Infos]

StoreType(list, data) ==
  /\ IsFiniteSet(list) /\ Cardinality(list) <= endPointListMaxSize
  /\ EndPointMap(data) /\ DOMAIN data \subseteq list

\* An endpoint of the list has been counted out and in as often as given; one
\* that the list has room for has not been met.
Tally(list, data, e, out, in) ==
  /\ e \in list => Store!InfoOf(data, e) = [in |-> in, out |-> out]
  /\ e \notin list /\ Store!monitorEndPoint(e) /\ Cardinality(list) < endPointListMaxSize
       => out = 0 /\ in = 0

LEMMA InfoOfType ==
  ASSUME NEW data, EndPointMap(data), NEW e
  PROVE  Store!InfoOf(data, e) \in Infos
BY DEF EndPointMap, Store!InfoOf, Store!NoInfo, Infos

LEMMA EmptyMap == EndPointMap(Store!Empty) /\ DOMAIN Store!Empty = {}
BY DEF EndPointMap, Store!Empty

\* What one end of a record or one line of a file does to the store.
LEMMA CountOne ==
  ASSUME endPointListMaxSize \in Nat, NEW list, NEW data, StoreType(list, data),
         NEW ep, NEW v \in Infos,
         NEW r, r = Store!Count([list |-> list, data |-> data], ep, v)
  PROVE  /\ r = [list |-> r.list, data |-> r.data]
         /\ StoreType(r.list, r.data)
         /\ r.list = list \/ (r.list = list \cup {ep} /\ Store!monitorEndPoint(ep))
         /\ \A e : e # ep => Store!InfoOf(r.data, e) = Store!InfoOf(data, e)
         /\ ep \in r.list => Store!InfoOf(r.data, ep) =
              IF Store!monitorEndPoint(ep)
                THEN [in |-> Store!InfoOf(data, ep).in + v.in,
                      out |-> Store!InfoOf(data, ep).out + v.out]
                ELSE Store!InfoOf(data, ep)
         /\ ep \in r.list /\ ep \notin list => Cardinality(list) < endPointListMaxSize
         /\ ep \notin r.list =>
              /\ r.data = data
              /\ Store!monitorEndPoint(ep) => Cardinality(list) >= endPointListMaxSize
<1> DEFINE old == Store!InfoOf(data, ep)
           new == [in |-> old.in + v.in, out |-> old.out + v.out]
           map == Store!Added(data, ep, v)
<1>1. old \in Infos /\ new \in Infos
  BY InfoOfType DEF StoreType, Infos
<1>2. CASE ~(/\ Store!monitorEndPoint(ep)
             /\ ep \in list \/ Cardinality(list) < endPointListMaxSize)
  <2>1. r = [list |-> list, data |-> data]
    BY <1>2, StoreCardinality DEF Store!Count
  <2>2. Cardinality(list) \in Nat
    BY FS_CardinalityType DEF StoreType
  <2> QED BY <1>2, <2>1, <2>2
<1>3. CASE /\ Store!monitorEndPoint(ep)
           /\ ep \in list \/ Cardinality(list) < endPointListMaxSize
  <2>1. r = [list |-> list \cup {ep}, data |-> map]
    BY <1>3, StoreCardinality DEF Store!Count
  <2>2. /\ DOMAIN map = {ep} \cup DOMAIN data /\ map[ep] = new
        /\ \A e \in DOMAIN data : e # ep => map[e] = data[e]
        /\ map = [e \in DOMAIN map |-> map[e]]
    BY DEF Store!Added
  <2> HIDE DEF map, new
  <2>3. EndPointMap(map)
    BY <1>1, <2>2 DEF EndPointMap, StoreType
  <2>4. IsFiniteSet(list \cup {ep}) /\ Cardinality(list \cup {ep}) <= endPointListMaxSize
    <3>1. /\ IsFiniteSet(list) /\ Cardinality(list) \in Nat
          /\ Cardinality(list) <= endPointListMaxSize
      BY FS_CardinalityType DEF StoreType
    <3>2. /\ IsFiniteSet(list \cup {ep})
          /\ Cardinality(list \cup {ep}) =
               IF ep \in list THEN Cardinality(list) ELSE Cardinality(list) + 1
      BY <3>1, FS_AddElement
    <3> QED BY <1>3, <3>1, <3>2
  <2>5. StoreType(r.list, r.data)
    BY <2>1, <2>2, <2>3, <2>4 DEF StoreType
  <2>6. \A e : e # ep => Store!InfoOf(map, e) = Store!InfoOf(data, e)
    BY <2>2 DEF Store!InfoOf
  <2>7. Store!InfoOf(map, ep) = new
    BY <2>2 DEF Store!InfoOf
  <2> QED BY <1>3, <2>1, <2>5, <2>6, <2>7 DEF new
<1> QED BY <1>2, <1>3

Listed(list) == \A x \in list : Store!monitorEndPoint(x)

Counted(list, data, e, out, in) ==
  StoreType(list, data) /\ Listed(list) /\ Tally(list, data, e, out, in)

\* One end of a record: v is added to what e has been counted if ep is e.
Counts(r, list, data, ep, v) == r = Store!Count([list |-> list, data |-> data], ep, v)
AddsUp(ep, e, v, out, in, o, i) ==
  IF ep = e THEN o = out + v.out /\ i = in + v.in ELSE o = out /\ i = in

LEMMA CountTally ==
  ASSUME endPointListMaxSize \in Nat, NEW list, NEW data,
         NEW ep, NEW v \in Infos, NEW e, NEW out \in Nat, NEW in \in Nat,
         Counted(list, data, e, out, in),
         NEW r, Counts(r, list, data, ep, v), NEW o, NEW i, AddsUp(ep, e, v, out, in, o, i)
  PROVE  /\ Counted(r.list, r.data, e, o, i)
         /\ r = [list |-> r.list, data |-> r.data] /\ list \subseteq r.list
<1> USE DEF Counted, Counts, AddsUp
<1>1. /\ r = [list |-> r.list, data |-> r.data]
      /\ StoreType(r.list, r.data)
      /\ r.list = list \/ (r.list = list \cup {ep} /\ Store!monitorEndPoint(ep))
      /\ \A x : x # ep => Store!InfoOf(r.data, x) = Store!InfoOf(data, x)
      /\ ep \in r.list => Store!InfoOf(r.data, ep) =
           IF Store!monitorEndPoint(ep)
             THEN [in |-> Store!InfoOf(data, ep).in + v.in,
                   out |-> Store!InfoOf(data, ep).out + v.out]
             ELSE Store!InfoOf(data, ep)
      /\ ep \in r.list /\ ep \notin list => Cardinality(list) < endPointListMaxSize
      /\ ep \notin r.list =>
           /\ r.data = data
           /\ Store!monitorEndPoint(ep) => Cardinality(list) >= endPointListMaxSize
  BY CountOne
<1>2. Listed(r.list) /\ list \subseteq r.list
  BY <1>1 DEF Listed
<1>3. Cardinality(list) \in Nat /\ Cardinality(r.list) \in Nat /\ Cardinality(list) <= Cardinality(r.list)
  <2>1. IsFiniteSet(list) /\ IsFiniteSet(r.list) /\ list \subseteq r.list
    BY <1>1 DEF StoreType
  <2> QED BY <2>1, FS_Subset, FS_CardinalityType
<1>4. v.in \in Nat /\ v.out \in Nat
  BY DEF Infos
<1>5. CASE ep # e
  <2>1. e \in r.list <=> e \in list
    BY <1>1, <1>5
  <2> QED BY <1>1, <1>2, <1>3, <1>5, <2>1 DEF Tally
<1>6. CASE ep = e
  <2>1. e \in list => Tally(r.list, r.data, e, o, i)
    <3> SUFFICES ASSUME e \in list
                 PROVE  e \in r.list /\ Store!InfoOf(r.data, e) = [in |-> in + v.in, out |-> out + v.out]
      BY <1>6 DEF Tally
    <3>1. Store!InfoOf(data, e) = [in |-> in, out |-> out] /\ Store!monitorEndPoint(e)
      BY DEF Tally, Listed
    <3> QED BY <1>1, <1>6, <3>1
  <2>2. e \notin list /\ e \in r.list => Tally(r.list, r.data, e, o, i)
    <3> SUFFICES ASSUME e \notin list, e \in r.list
                 PROVE  Store!InfoOf(r.data, e) = [in |-> in + v.in, out |-> out + v.out]
      BY <1>6 DEF Tally
    <3>1. Store!monitorEndPoint(e) /\ out = 0 /\ in = 0
      BY <1>1, <1>6 DEF Tally, Listed
    <3>2. Store!InfoOf(data, e) = [in |-> 0, out |-> 0]
      BY DEF StoreType, Store!InfoOf, Store!NoInfo
    <3> QED BY <1>1, <1>4, <1>6, <3>1, <3>2
  <2>3. e \notin r.list => Tally(r.list, r.data, e, o, i)
    BY <1>1, <1>3, <1>6 DEF Tally
  <2> QED BY <1>1, <1>2, <1>6, <2>1, <2>2, <2>3
<1> QED BY <1>5, <1>6

-----------------------------------------------------------------------------
(* The store of the statistics module: reading a file. *)

\* ReadLines is what its fold comes to: the lines one after the other, in some
\* order.
OneByOne(g, lines, list) ==
  /\ g[{}] = [list |-> list, data |-> Store!Empty]
  /\ \A T \in SUBSET lines : T # {} =>
       \E x \in T : g[T] = Store!Count(g[T \ {x}], Store!Key(x.ep), x.info)

LEMMA ReadLinesUnrolled ==
  ASSUME NEW lines, IsFiniteSet(lines), NEW list
  PROVE  \E g : Store!ReadLines(lines, list) = g[lines] /\ OneByOne(g, lines, list)
<1> DEFINE first == [list |-> list, data |-> Store!Empty]
           any(T) == CHOOSE x \in T : TRUE
           Step(g, T) == IF T = {} THEN first
                         ELSE Store!Count(g[T \ {any(T)}], Store!Key(any(T).ep), any(T).info)
           unrolled(g) == [T \in SUBSET lines |-> Step(g, T)]
           read == CHOOSE g : g = unrolled(g)
<1>1. Store!ReadLines(lines, list) = read[lines]
  BY DEF Store!ReadLines, Store!FoldSet, Store!MapThenFoldSet
<1> DEFINE UpTo(g, n) == /\ DOMAIN g = SUBSET lines /\ g = [T \in DOMAIN g |-> g[T]]
                         /\ \A T \in SUBSET lines : Cardinality(T) <= n => g[T] = Step(g, T)
           Good == {n \in Nat : \E g : UpTo(g, n)}
<1>2. \A T \in SUBSET lines : IsFiniteSet(T) /\ Cardinality(T) \in Nat
  BY FS_Subset, FS_CardinalityType
<1>3. \A T \in SUBSET lines : T # {} =>
        any(T) \in T /\ T \ {any(T)} \in SUBSET lines /\ Cardinality(T \ {any(T)}) = Cardinality(T) - 1
  BY <1>2, FS_RemoveElement
<1>4. 0 \in Good
  <2> DEFINE g == [T \in SUBSET lines |-> first]
  <2>1. UpTo(g, 0)
    <3> SUFFICES ASSUME NEW T \in SUBSET lines, Cardinality(T) <= 0 PROVE T = {}
      OBVIOUS
    <3> QED BY <1>2, FS_EmptySet
  <2> QED BY <2>1
<1>5. ASSUME NEW n \in Nat, n \in Good PROVE n + 1 \in Good
  <2>1. PICK g : UpTo(g, n)
    BY <1>5
  <2> DEFINE h == [T \in SUBSET lines |-> IF Cardinality(T) <= n THEN g[T] ELSE Step(g, T)]
  <2> HIDE DEF first
  <2>2. ASSUME NEW T \in SUBSET lines, Cardinality(T) <= n + 1 PROVE h[T] = Step(h, T)
    <3>1. h[T] = Step(g, T)
      BY <2>1
    <3>2. CASE T = {}
      BY <3>1, <3>2
    <3>3. CASE T # {}
      <4>1. h[T \ {any(T)}] = g[T \ {any(T)}]
        BY <1>2, <1>3, <2>2, <3>3
      <4> QED BY <3>1, <3>3, <4>1
    <3> QED BY <3>2, <3>3
  <2> HIDE DEF Step
  <2>3. DOMAIN h = SUBSET lines /\ h = [T \in DOMAIN h |-> h[T]]
    OBVIOUS
  <2> HIDE DEF h
  <2>4. UpTo(h, n + 1)
    BY <2>2, <2>3
  <2> QED BY <2>4
<1> HIDE DEF Good
<1>6. Cardinality(lines) \in Good
  BY <1>2, <1>4, <1>5, SetInduction
<1>7. PICK g : UpTo(g, Cardinality(lines))
  BY <1>6 DEF Good
<1>8. \A T \in SUBSET lines : Cardinality(T) <= Cardinality(lines)
  BY FS_Subset
<1> HIDE DEF Step
<1>9. g = unrolled(g)
  BY <1>7, <1>8
<1>10. read = unrolled(read)
  BY <1>9
<1> HIDE DEF read
<1>11. \A T \in SUBSET lines : read[T] = Step(read, T)
  BY <1>10
<1> USE DEF Step
<1> HIDE DEF unrolled, UpTo
<1>12. read[{}] = first
  BY <1>11
<1>13. ASSUME NEW T \in SUBSET lines, T # {}
       PROVE  \E x \in T : read[T] = Store!Count(read[T \ {x}], Store!Key(x.ep), x.info)
  <2>1. read[T] = Store!Count(read[T \ {any(T)}], Store!Key(any(T).ep), any(T).info)
    BY <1>11, <1>13
  <2> HIDE DEF any
  <2> QED BY <1>3, <1>13, <2>1
<1>14. OneByOne(read, lines, list)
  BY <1>12, <1>13 DEF OneByOne
<1> QED BY <1>1, <1>14

Lined(lines) == IsFiniteSet(lines) /\ \A line \in lines : line.info \in Infos

LEMMA StoreSum == \A f, S : Store!SumFunctionOnSet(f, S) = SumFunctionOnSet(f, S)
BY DEF Store!SumFunctionOnSet, SumFunctionOnSet, Store!FoldFunctionOnSet, FoldFunctionOnSet,
       Store!MapThenFoldSet, MapThenFoldSet

\* What the lines of an endpoint come to, with one line more.
LEMMA SumOverOne ==
  ASSUME NEW T, Lined(T), NEW x \in T, NEW e, NEW side \in {"in", "out"}
  PROVE  /\ Store!SumOver(T \ {x}, e, side) \in Int
         /\ Store!SumOver(T, e, side) =
              Store!SumOver(T \ {x}, e, side) + IF Store!Key(x.ep) = e THEN x.info[side] ELSE 0
<1> DEFINE f(U) == [line \in U |-> line.info[side]]
           of(U) == {line \in U : Store!Key(line.ep) = e}
           R == T \ {x}
<1>1. /\ Store!SumOver(T, e, side) = SumFunctionOnSet(f(T), of(T))
      /\ Store!SumOver(R, e, side) = SumFunctionOnSet(f(R), of(R))
  BY StoreSum DEF Store!SumOver
<1>2. \A line \in T : line.info[side] \in Int
  BY DEF Lined, Infos
<1>3. IsFiniteSet(of(T)) /\ IsFiniteSet(of(R))
  <2>1. IsFiniteSet(T) /\ of(T) \subseteq T /\ of(R) \subseteq T
    BY DEF Lined
  <2> QED BY <2>1, FS_Subset
<1>4. \A line \in of(R) : f(R)[line] = f(T)[line] /\ f(R)[line] \in Int
  BY <1>2
<1>5. x \notin of(R) /\ \A line \in of(T) : f(T)[line] \in Int /\ f(T)[line] = line.info[side]
  BY <1>2
<1>6. of(T) = IF Store!Key(x.ep) = e THEN of(R) \cup {x} ELSE of(R)
  OBVIOUS
<1>7. of(R) \subseteq of(T)
  OBVIOUS
<1>8. x \in of(T) => f(T)[x] = x.info[side]
  OBVIOUS
<1> HIDE DEF f, of, R
<1>9. SumFunctionOnSet(f(R), of(R)) = SumFunctionOnSet(f(T), of(R))
  BY <1>3, <1>4, SumEqual
<1>10. SumFunctionOnSet(f(R), of(R)) \in Int
  BY <1>3, <1>4, SumType
<1>11. CASE Store!Key(x.ep) = e
  <2>1. of(T) = of(R) \cup {x}
    BY <1>6, <1>11
  <2>2. \A line \in of(R) \cup {x} : f(T)[line] \in Int
    BY <1>5, <2>1
  <2>3. SumFunctionOnSet(f(T), of(R) \cup {x}) = f(T)[x] + SumFunctionOnSet(f(T), of(R))
    BY <1>3, <1>5, <2>2, SumAdd
  <2>4. f(T)[x] = x.info[side] /\ f(T)[x] \in Int
    BY <1>8, <2>1, <2>2
  <2> QED BY <1>1, <1>9, <1>10, <1>11, <2>1, <2>3, <2>4 DEF R
<1>12. CASE Store!Key(x.ep) # e
  BY <1>1, <1>6, <1>9, <1>10, <1>12 DEF R
<1> QED BY <1>11, <1>12

LEMMA SumOverNothing == \A e, side : Store!SumOver({}, e, side) = 0
<1> TAKE e, side
<1>1. {line \in {} : Store!Key(line.ep) = e} = {}
  OBVIOUS
<1> QED BY <1>1, StoreSum, SumOfNothing DEF Store!SumOver

KeysOf(L) == {Store!Key(x) : x \in L}

\* After the lines of T, an endpoint that is monitored has their sum.
ReadAs(T, r, L) ==
  /\ r = [list |-> r.list, data |-> r.data]
  /\ StoreType(r.list, r.data) /\ r.list \subseteq KeysOf(L)
  /\ \A e : Store!InfoOf(r.data, e) =
       IF Store!monitorEndPoint(e)
         THEN [in |-> Store!SumOver(T, e, "in"), out |-> Store!SumOver(T, e, "out")]
         ELSE Store!NoInfo

\* The keys of a set of endpoints are no more than the endpoints.
LEMMA KeysOfFew ==
  ASSUME NEW L, IsFiniteSet(L), NEW K, K \subseteq KeysOf(L)
  PROVE  /\ IsFiniteSet(K) /\ Cardinality(K) \in Nat /\ Cardinality(L) \in Nat
         /\ Cardinality(K) <= Cardinality(L)
<1>1. IsFiniteSet(KeysOf(L)) /\ Cardinality(KeysOf(L)) <= Cardinality(L)
  <2> DEFINE f == [x \in L |-> Store!Key(x)]
  <2>1. f \in Surjection(L, KeysOf(L))
    BY DEF Surjection, KeysOf
  <2> QED BY <2>1, FS_Surjection
<1>2. IsFiniteSet(K) /\ Cardinality(K) <= Cardinality(KeysOf(L))
  BY <1>1, FS_Subset
<1>3. Cardinality(K) \in Nat /\ Cardinality(KeysOf(L)) \in Nat /\ Cardinality(L) \in Nat
  BY <1>1, <1>2, FS_CardinalityType
<1> QED BY <1>1, <1>2, <1>3

LEMMA ReadOneMore ==
  ASSUME endPointListMaxSize \in Nat,
         NEW L, IsFiniteSet(L), Cardinality(L) <= endPointListMaxSize,
         NEW T, Lined(T), NEW x \in T, x.ep \in L,
         NEW r, ReadAs(T \ {x}, r, L),
         NEW s, s = Store!Count(r, Store!Key(x.ep), x.info)
  PROVE  ReadAs(T, s, L)
<1> DEFINE ep == Store!Key(x.ep)
           v == x.info
<1>1. v \in Infos /\ ep \in KeysOf(L)
  BY DEF Lined, KeysOf
<1>2. /\ s = [list |-> s.list, data |-> s.data]
      /\ StoreType(s.list, s.data)
      /\ s.list = r.list \/ s.list = r.list \cup {ep}
      /\ \A e : e # ep => Store!InfoOf(s.data, e) = Store!InfoOf(r.data, e)
      /\ ep \in s.list => Store!InfoOf(s.data, ep) =
           IF Store!monitorEndPoint(ep)
             THEN [in |-> Store!InfoOf(r.data, ep).in + v.in,
                   out |-> Store!InfoOf(r.data, ep).out + v.out]
             ELSE Store!InfoOf(r.data, ep)
      /\ ep \notin s.list =>
           /\ s.data = r.data
           /\ Store!monitorEndPoint(ep) => Cardinality(r.list) >= endPointListMaxSize
  <2> HIDE DEF ep, v
  <2>1. StoreType(r.list, r.data) /\ r = [list |-> r.list, data |-> r.data]
    BY DEF ReadAs
  <2>2. s = Store!Count([list |-> r.list, data |-> r.data], ep, v)
    BY <2>1 DEF ep, v
  <2> QED BY <1>1, <2>1, <2>2, CountOne
<1>3. s.list \subseteq KeysOf(L) /\ r.list \subseteq KeysOf(L)
  BY <1>1, <1>2 DEF ReadAs
<1>4. Store!monitorEndPoint(ep) => ep \in s.list
  <2> SUFFICES ASSUME Store!monitorEndPoint(ep), ep \notin s.list PROVE FALSE
    OBVIOUS
  <2>1. Cardinality(r.list) >= endPointListMaxSize
    BY <1>2
  <2>2. ep \notin r.list
    BY <1>2
  <2>3. r.list \cup {ep} \subseteq KeysOf(L) /\ IsFiniteSet(r.list)
    BY <1>1, <1>3 DEF ReadAs, StoreType
  <2>4. /\ Cardinality(r.list \cup {ep}) \in Nat /\ Cardinality(L) \in Nat
        /\ Cardinality(r.list \cup {ep}) <= Cardinality(L)
    BY <2>3, KeysOfFew
  <2>5. Cardinality(r.list \cup {ep}) = Cardinality(r.list) + 1 /\ Cardinality(r.list) \in Nat
    BY <2>2, <2>3, FS_AddElement, FS_CardinalityType
  <2> QED BY <2>1, <2>4, <2>5
<1>5. ASSUME NEW e
      PROVE  Store!InfoOf(s.data, e) =
               IF Store!monitorEndPoint(e)
                 THEN [in |-> Store!SumOver(T, e, "in"), out |-> Store!SumOver(T, e, "out")]
                 ELSE Store!NoInfo
  <2>1. Store!InfoOf(r.data, e) =
          IF Store!monitorEndPoint(e)
            THEN [in |-> Store!SumOver(T \ {x}, e, "in"), out |-> Store!SumOver(T \ {x}, e, "out")]
            ELSE Store!NoInfo
    BY DEF ReadAs
  <2>2. /\ Store!SumOver(T \ {x}, e, "in") \in Int /\ Store!SumOver(T \ {x}, e, "out") \in Int
        /\ Store!SumOver(T, e, "in") = Store!SumOver(T \ {x}, e, "in") + IF ep = e THEN v.in ELSE 0
        /\ Store!SumOver(T, e, "out") = Store!SumOver(T \ {x}, e, "out") + IF ep = e THEN v.out ELSE 0
    BY SumOverOne
  <2> HIDE DEF ep, v
  <2>3. CASE ep # e
    BY <1>2, <2>1, <2>2, <2>3
  <2>4. CASE ep = e /\ Store!monitorEndPoint(e)
    <3>1. Store!InfoOf(s.data, ep) =
            [in |-> Store!InfoOf(r.data, ep).in + v.in, out |-> Store!InfoOf(r.data, ep).out + v.out]
      BY <1>2, <1>4, <2>4
    <3>2. /\ Store!InfoOf(r.data, ep).in = Store!SumOver(T \ {x}, e, "in")
          /\ Store!InfoOf(r.data, ep).out = Store!SumOver(T \ {x}, e, "out")
      BY <2>1, <2>4
    <3>3. /\ Store!InfoOf(r.data, ep).in + v.in = Store!SumOver(T, e, "in")
          /\ Store!InfoOf(r.data, ep).out + v.out = Store!SumOver(T, e, "out")
      BY <2>2, <2>4, <3>2
    <3> QED BY <2>4, <3>1, <3>3
  <2>5. CASE ep = e /\ ~Store!monitorEndPoint(e)
    BY <1>2, <2>1, <2>5
  <2> QED BY <2>3, <2>4, <2>5
<1> QED BY <1>2, <1>3, <1>5 DEF ReadAs

\* An interval of the file, read with a list that never overflows.
LEMMA ReadLinesExact ==
  ASSUME endPointListMaxSize \in Nat,
         NEW L, IsFiniteSet(L), Cardinality(L) <= endPointListMaxSize,
         NEW lines, Lined(lines), \A line \in lines : line.ep \in L,
         NEW list, list \subseteq KeysOf(L)
  PROVE  ReadAs(lines, Store!ReadLines(lines, list), L)
<1>1. PICK g : Store!ReadLines(lines, list) = g[lines] /\ OneByOne(g, lines, list)
  <2>1. IsFiniteSet(lines)
    BY DEF Lined
  <2> QED BY <2>1, ReadLinesUnrolled
<1> DEFINE Good == {n \in Nat : \A T \in SUBSET lines : Cardinality(T) = n => ReadAs(T, g[T], L)}
<1>2. \A T \in SUBSET lines : Lined(T) /\ IsFiniteSet(T) /\ Cardinality(T) \in Nat
  BY FS_Subset, FS_CardinalityType DEF Lined
<1>3. 0 \in Good
  <2> SUFFICES ASSUME NEW T \in SUBSET lines, Cardinality(T) = 0 PROVE ReadAs(T, g[T], L)
    OBVIOUS
  <2>1. T = {}
    BY <1>2, FS_EmptySet
  <2>2. IsFiniteSet(list) /\ Cardinality(list) <= endPointListMaxSize
    BY KeysOfFew
  <2>3. StoreType(list, Store!Empty)
    BY <2>2, EmptyMap DEF StoreType
  <2>4. \A e : Store!InfoOf(Store!Empty, e) = Store!NoInfo
    BY EmptyMap DEF Store!InfoOf
  <2> QED BY <1>1, <2>1, <2>3, <2>4, SumOverNothing DEF ReadAs, Store!NoInfo, OneByOne
<1>4. ASSUME NEW n \in Nat, n \in Good PROVE n + 1 \in Good
  <2> SUFFICES ASSUME NEW T \in SUBSET lines, Cardinality(T) = n + 1 PROVE ReadAs(T, g[T], L)
    OBVIOUS
  <2>1. T # {}
    <3>1. Cardinality({}) = 0 /\ n + 1 # 0
      BY FS_EmptySet
    <3> QED BY <3>1
  <2>2. PICK x \in T : g[T] = Store!Count(g[T \ {x}], Store!Key(x.ep), x.info)
    BY <1>1, <2>1 DEF OneByOne
  <2>3. T \ {x} \in SUBSET lines /\ Cardinality(T \ {x}) = n
    <3>1. Cardinality(T \ {x}) = Cardinality(T) - 1
      BY <1>2, FS_RemoveElement
    <3> QED BY <3>1
  <2>4. ReadAs(T \ {x}, g[T \ {x}], L)
    BY <1>4, <2>3
  <2> QED BY <1>2, <2>2, <2>4, ReadOneMore
<1> HIDE DEF Good
<1>5. Cardinality(lines) \in Good
  BY <1>2, <1>3, <1>4, SetInduction
<1> QED BY <1>1, <1>5 DEF Good

-----------------------------------------------------------------------------
(* The store of the statistics module: its invariant. *)

\* How often an endpoint is the source (side 1) or the destination of a record.
Met(iv, e, side) == Cardinality({i \in DOMAIN iv : Store!Key(iv[i][side]) = e})

Counting(list, data, iv) ==
  /\ StoreType(list, data)
  /\ Listed(list)
  /\ \A e : Tally(list, data, e, Met(iv, e, 1), Met(iv, e, 2))

\* last is the last of the intervals in the file that had any data.
LastOf(lines, last) ==
  LET nonEmpty == {i \in DOMAIN lines : lines[i] # {}}
  IN Store!Lines(last) = IF nonEmpty = {} THEN {} ELSE lines[Store!Max(nonEmpty)]

FileType(lines) ==
  /\ \E W : lines \in Seq(W)
  /\ \A i \in 1 .. Len(lines) : Lined(lines[i])

Online ==
  /\ interval \in Seq(Ends \X Ends) /\ replayed = 0
  /\ Counting(endPointList, Data, interval)
  /\ \A i \in 1 .. Len(storefile) : \A line \in storefile[i] : line.ep \in endPointList
  /\ LastOf(storefile, PreviousData)

\* The offline list stays among the keys of the online list, so it never fills.
Offline ==
  /\ replayed \in 0 .. Len(storefile)
  /\ \E L : /\ IsFiniteSet(L) /\ Cardinality(L) <= endPointListMaxSize
            /\ \A i \in 1 .. Len(storefile) : \A line \in storefile[i] : line.ep \in L
            /\ endPointList \subseteq KeysOf(L)
            /\ replayed > 0 => ReadAs(storefile[replayed], [list |-> endPointList, data |-> Data], L)

StoreHolds ==
  /\ offline \in BOOLEAN
  /\ StoreType(endPointList, Data)
  /\ FileType(storefile)
  /\ ~offline => Online
  /\ offline => Offline

StoreInv == component = "store" => StoreHolds

\* One record more.
LEMMA MetAppend ==
  ASSUME NEW iv, iv \in Seq(Ends \X Ends), NEW rec \in Ends \X Ends, NEW e,
         NEW side \in {1, 2}
  PROVE  /\ Met(iv, e, side) \in Nat /\ Met(Append(iv, rec), e, side) \in Nat
         /\ Store!Key(rec[side]) = e => Met(Append(iv, rec), e, side) = Met(iv, e, side) + 1
         /\ Store!Key(rec[side]) # e => Met(Append(iv, rec), e, side) = Met(iv, e, side)
<1> DEFINE next == Append(iv, rec)
           of(s) == {i \in DOMAIN s : Store!Key(s[i][side]) = e}
           new == Len(iv) + 1
<1>1. DOMAIN iv = 1 .. Len(iv) /\ Len(iv) \in Nat
  OBVIOUS
<1>2. /\ DOMAIN next = DOMAIN iv \cup {new} /\ next[new] = rec
      /\ \A i \in DOMAIN iv : next[i] = iv[i]
  BY <1>1
<1>3. IsFiniteSet(of(iv)) /\ Cardinality(of(iv)) \in Nat
  <2>1. IsFiniteSet(DOMAIN iv) /\ of(iv) \subseteq DOMAIN iv
    BY <1>1, FS_Interval
  <2> HIDE DEF of
  <2> QED BY <2>1, FS_Subset, FS_CardinalityType
<1>4. new \notin of(iv)
  BY <1>1
<1>5. of(next) = IF Store!Key(rec[side]) = e THEN of(iv) \cup {new} ELSE of(iv)
  <2> HIDE DEF next
  <2>1. \A i : i \in of(next) <=> i \in of(iv) \/ (i = new /\ Store!Key(rec[side]) = e)
    BY <1>1, <1>2
  <2> HIDE DEF of
  <2>2. CASE Store!Key(rec[side]) = e
    BY <2>1, <2>2
  <2>3. CASE Store!Key(rec[side]) # e
    BY <2>1, <2>3
  <2> QED BY <2>2, <2>3
<1>6. Met(iv, e, side) = Cardinality(of(iv)) /\ Met(next, e, side) = Cardinality(of(next))
  BY DEF Met
<1> HIDE DEF of, next, new
<1>7. Cardinality(of(iv) \cup {new}) = Cardinality(of(iv)) + 1
  BY <1>3, <1>4, FS_AddElement
<1> QED BY <1>3, <1>5, <1>6, <1>7 DEF next

\* Record: the source end, then the destination end.
LEMMA CountRecord ==
  ASSUME endPointListMaxSize \in Nat,
         NEW list, NEW data, NEW iv, iv \in Seq(Ends \X Ends), Counting(list, data, iv),
         NEW src \in Ends, NEW dst \in Ends,
         NEW first, first = Store!Count([list |-> list, data |-> data], Store!Key(src),
                                        [in |-> 0, out |-> 1]),
         NEW second, second = Store!Count(first, Store!Key(dst), [in |-> 1, out |-> 0])
  PROVE  /\ Counting(second.list, second.data, Append(iv, <<src, dst>>))
         /\ list \subseteq second.list
<1> DEFINE a == [in |-> 0, out |-> 1]
           b == [in |-> 1, out |-> 0]
           next == Append(iv, <<src, dst>>)
           s == Store!Key(src)
           d == Store!Key(dst)
<1>1. a \in Infos /\ b \in Infos /\ a.in = 0 /\ a.out = 1 /\ b.in = 1 /\ b.out = 0
  BY DEF Infos
<1>2. ASSUME NEW e
      PROVE  /\ Met(iv, e, 1) \in Nat /\ Met(iv, e, 2) \in Nat
             /\ Met(next, e, 1) \in Nat
             /\ s = e => Met(next, e, 1) = Met(iv, e, 1) + 1
             /\ s # e => Met(next, e, 1) = Met(iv, e, 1)
             /\ d = e => Met(next, e, 2) = Met(iv, e, 2) + 1
             /\ d # e => Met(next, e, 2) = Met(iv, e, 2)
  <2>1. <<src, dst>>[1] = src /\ <<src, dst>>[2] = dst /\ <<src, dst>> \in Ends \X Ends
    OBVIOUS
  <2>2. /\ Met(iv, e, 1) \in Nat /\ Met(next, e, 1) \in Nat
        /\ Store!Key(<<src, dst>>[1]) = e => Met(next, e, 1) = Met(iv, e, 1) + 1
        /\ Store!Key(<<src, dst>>[1]) # e => Met(next, e, 1) = Met(iv, e, 1)
    BY <2>1, MetAppend
  <2>3. /\ Met(iv, e, 2) \in Nat
        /\ Store!Key(<<src, dst>>[2]) = e => Met(next, e, 2) = Met(iv, e, 2) + 1
        /\ Store!Key(<<src, dst>>[2]) # e => Met(next, e, 2) = Met(iv, e, 2)
    BY <2>1, MetAppend
  <2> HIDE DEF next
  <2> QED BY <2>1, <2>2, <2>3
<1>3. Counts(first, list, data, s, a) /\ second = Store!Count(first, d, b)
  BY DEF Counts
<1> HIDE DEF a, b, next, s, d
<1>4. ASSUME NEW e
      PROVE  Counted(list, data, e, Met(iv, e, 1), Met(iv, e, 2))
  BY DEF Counting, Counted
<1>5. ASSUME NEW e
      PROVE  /\ Counted(first.list, first.data, e, Met(next, e, 1), Met(iv, e, 2))
             /\ first = [list |-> first.list, data |-> first.data] /\ list \subseteq first.list
  <2>1. /\ Met(iv, e, 1) \in Nat /\ Met(iv, e, 2) \in Nat
        /\ AddsUp(s, e, a, Met(iv, e, 1), Met(iv, e, 2), Met(next, e, 1), Met(iv, e, 2))
    BY <1>1, <1>2 DEF AddsUp
  <2> QED BY <1>1, <1>3, <1>4, <2>1, CountTally
<1>6. ASSUME NEW e
      PROVE  /\ Counted(second.list, second.data, e, Met(next, e, 1), Met(next, e, 2))
             /\ first.list \subseteq second.list
  <2>1. /\ Met(next, e, 1) \in Nat /\ Met(iv, e, 2) \in Nat
        /\ AddsUp(d, e, b, Met(next, e, 1), Met(iv, e, 2), Met(next, e, 1), Met(next, e, 2))
    BY <1>1, <1>2 DEF AddsUp
  <2>2. Counts(second, first.list, first.data, d, b)
    BY <1>3, <1>5 DEF Counts
  <2>3. Counted(first.list, first.data, e, Met(next, e, 1), Met(iv, e, 2))
    BY <1>5
  <2>4. /\ Counted(second.list, second.data, e, Met(next, e, 1), Met(next, e, 2))
        /\ second = [list |-> second.list, data |-> second.data] /\ first.list \subseteq second.list
    BY <1>1, <2>1, <2>2, <2>3, CountTally
  <2> QED BY <2>4
<1>7. Counting(second.list, second.data, next)
  BY <1>6 DEF Counting, Counted
<1> QED BY <1>5, <1>6, <1>7 DEF next

-----------------------------------------------------------------------------
(* The store of the statistics module: its actions. *)

LEMMA SameSetup ==
  ASSUME setup' = setup
  PROVE  \A e : Store!Key(e)' = Store!Key(e) /\ Store!monitorEndPoint(e)' = Store!monitorEndPoint(e)
BY DEF Store!Key, Store!monitorEndPoint, Store!matchesWithEndPoint

LEMMA SameCounting ==
  ASSUME setup' = setup, NEW list, list = endPointList', NEW data, data = Data',
         NEW iv, iv = interval', Counting(list, data, iv)
  PROVE  Counting(endPointList, Data, interval)'
<1>1. ASSUME NEW e, NEW side \in {1, 2} PROVE Met(interval, e, side)' = Met(iv, e, side)
  <2>1. {i \in DOMAIN iv : Store!Key(iv[i][side]) = e}
          = {i \in DOMAIN interval : Store!Key(interval[i][side]) = e}'
    BY DEF Store!Key
  <2> QED BY <2>1 DEF Met
<1>2. \A e : Tally(endPointList, Data, e, Met(interval, e, 1), Met(interval, e, 2))'
  <2> SUFFICES ASSUME NEW e PROVE Tally(endPointList, Data, e, Met(interval, e, 1), Met(interval, e, 2))'
    OBVIOUS
  <2>1. Tally(list, data, e, Met(iv, e, 1), Met(iv, e, 2))
    BY DEF Counting
  <2>2. Met(interval, e, 1)' = Met(iv, e, 1) /\ Met(interval, e, 2)' = Met(iv, e, 2)
    BY <1>1
  <2> QED BY <2>1, <2>2, SameSetup DEF Tally, Store!InfoOf
<1>3. StoreType(endPointList, Data)' /\ Listed(endPointList)'
  BY SameSetup DEF Counting, StoreType, Listed, EndPointMap
<1> QED BY <1>2, <1>3 DEF Counting

LEMMA StoreInit ==
  ASSUME endPointListMaxSize \in Nat
  PROVE  SideInit => StoreInv
<1> SUFFICES ASSUME SideInit, component = "store" PROVE StoreHolds
  BY DEF StoreInv
<1>1. Store!Init
  BY DEF SideInit
<1>2. /\ offline = FALSE /\ endPointList = {} /\ Data = Store!Empty /\ PreviousData = Store!Empty
      /\ interval = <<>> /\ storefile = <<>> /\ replayed = 0
  BY <1>1 DEF Store!Init
<1>3. StoreType({}, Store!Empty)
  BY EmptyMap, FS_EmptySet DEF StoreType
<1>4. ASSUME NEW e, NEW side PROVE Met(<<>>, e, side) = 0
  <2>1. {i \in DOMAIN <<>> : Store!Key(<<>>[i][side]) = e} = {}
    OBVIOUS
  <2> QED BY <2>1, FS_EmptySet DEF Met
<1>5. Counting({}, Store!Empty, <<>>)
  BY <1>3, <1>4 DEF Counting, Tally, Listed
<1>6. FileType(<<>>)
  BY DEF FileType
<1>7. LastOf(<<>>, Store!Empty)
  <2>1. {i \in DOMAIN <<>> : <<>>[i] # {}} = {} /\ Store!Lines(Store!Empty) = {}
    BY EmptyMap DEF Store!Lines
  <2> QED BY <2>1 DEF LastOf
<1>8. Online
  BY <1>2, <1>5, <1>7 DEF Online
<1> QED BY <1>2, <1>3, <1>6, <1>8 DEF StoreHolds

LEMMA StoreRecord ==
  ASSUME endPointListMaxSize \in Nat, StoreHolds, Store!Record
  PROVE  StoreHolds'
<1>1. PICK src \in Ends, dst \in Ends :
        LET first  == Store!Count([list |-> endPointList, data |-> Data], Store!Key(src),
                                  [in |-> 0, out |-> 1])
            second == Store!Count(first, Store!Key(dst), [in |-> 1, out |-> 0])
        IN /\ endPointList' = second.list /\ Data' = second.data
           /\ interval' = Append(interval, <<src, dst>>)
  BY DEF Store!Record
<1>2. ~offline /\ UNCHANGED <<setup, offline, PreviousData, storefile, replayed>>
  BY DEF Store!Record
<1>3. Online
  BY <1>2 DEF StoreHolds
<1>4. Counting(endPointList', Data', interval') /\ endPointList \subseteq endPointList'
  <2> DEFINE first == Store!Count([list |-> endPointList, data |-> Data], Store!Key(src),
                                  [in |-> 0, out |-> 1])
             second == Store!Count(first, Store!Key(dst), [in |-> 1, out |-> 0])
  <2>1. endPointList' = second.list /\ Data' = second.data
        /\ interval' = Append(interval, <<src, dst>>)
    BY <1>1
  <2>2. interval \in Seq(Ends \X Ends) /\ Counting(endPointList, Data, interval)
    BY <1>3 DEF Online
  <2>3. /\ Counting(second.list, second.data, Append(interval, <<src, dst>>))
        /\ endPointList \subseteq second.list
    <3> HIDE DEF Counting
    <3> QED BY <2>2, CountRecord
  <2> QED BY <2>1, <2>3
<1>5. Counting(endPointList, Data, interval)'
  BY <1>2, <1>4, SameCounting
<1>6. StoreType(endPointList, Data)'
  BY <1>5 DEF Counting
<1>7. interval' \in Seq(Ends \X Ends)
  BY <1>1, <1>3 DEF Online
<1>8. Online'
  <2>1. LastOf(storefile, PreviousData)'
    BY <1>2, <1>3 DEF Online, LastOf
  <2>2. \A i \in 1 .. Len(storefile') : \A line \in storefile'[i] : line.ep \in endPointList'
    BY <1>2, <1>3, <1>4 DEF Online
  <2> QED BY <1>2, <1>3, <1>5, <1>7, <2>1, <2>2 DEF Online
<1> QED BY <1>2, <1>6, <1>8 DEF StoreHolds, FileType, Lined

LEMMA LinesOfMap ==
  ASSUME NEW data, NEW list, StoreType(list, data)
  PROVE  /\ Lined(Store!Lines(data)) /\ \A line \in Store!Lines(data) : line.ep \in list
         /\ data = Store!Empty <=> Store!Lines(data) = {}
<1>1. IsFiniteSet(DOMAIN data) /\ DOMAIN data \subseteq list /\ EndPointMap(data)
  BY FS_Subset DEF StoreType
<1>2. IsFiniteSet(Store!Lines(data))
  <2> DEFINE f == [ep \in DOMAIN data |-> [ep |-> ep, info |-> data[ep]]]
  <2>1. f \in Surjection(DOMAIN data, Store!Lines(data))
    BY DEF Surjection, Store!Lines
  <2> QED BY <1>1, <2>1, FS_Surjection
<1>3. \A line \in Store!Lines(data) : line.info \in Infos /\ line.ep \in list
  BY <1>1 DEF Store!Lines, EndPointMap
<1>4. Store!Lines(data) = {} => data = Store!Empty
  <2> SUFFICES ASSUME Store!Lines(data) = {} PROVE data = Store!Empty
    OBVIOUS
  <2>1. DOMAIN data = {}
    BY DEF Store!Lines
  <2>2. data = [x \in {} |-> data[x]]
    BY <1>1, <2>1 DEF EndPointMap
  <2> QED BY <2>2 DEF Store!Empty
<1>5. Store!Lines(Store!Empty) = {}
  BY EmptyMap DEF Store!Lines
<1> QED BY <1>2, <1>3, <1>4, <1>5 DEF Lined

\* One interval more in the file.
LEMMA FileAppend ==
  ASSUME NEW lines, FileType(lines), NEW new, Lined(new)
  PROVE  /\ FileType(Append(lines, new))
         /\ Len(Append(lines, new)) = Len(lines) + 1 /\ Len(lines) \in Nat
         /\ Append(lines, new)[Len(lines) + 1] = new
         /\ \A i \in 1 .. Len(lines) : Append(lines, new)[i] = lines[i]
         /\ DOMAIN lines = 1 .. Len(lines) /\ DOMAIN Append(lines, new) = 1 .. Len(lines) + 1
<1>1. PICK W : lines \in Seq(W)
  BY DEF FileType
<1>2. Append(lines, new) \in Seq(W \cup {new})
  <2>1. lines \in Seq(W \cup {new})
    BY <1>1
  <2> QED BY <2>1
<1>3. /\ Len(Append(lines, new)) = Len(lines) + 1 /\ Len(lines) \in Nat
      /\ Append(lines, new)[Len(lines) + 1] = new
      /\ \A i \in 1 .. Len(lines) : Append(lines, new)[i] = lines[i]
      /\ DOMAIN lines = 1 .. Len(lines) /\ DOMAIN Append(lines, new) = 1 .. Len(lines) + 1
  BY <1>1
<1>4. \A i \in 1 .. Len(Append(lines, new)) : Lined(Append(lines, new)[i])
  <2> TAKE i \in 1 .. Len(Append(lines, new))
  <2>1. CASE i = Len(lines) + 1
    BY <1>3, <2>1
  <2>2. CASE i \in 1 .. Len(lines)
    BY <1>3, <2>2 DEF FileType
  <2> QED BY <1>3, <2>1, <2>2
<1> QED BY <1>2, <1>3, <1>4 DEF FileType

\* test() forgets an empty interval and remembers any other.
LEMMA LastAppend ==
  ASSUME NEW lines, FileType(lines), NEW last, LastOf(lines, last), NEW data,
         NEW new, new = Store!Lines(data), Lined(new),
         NEW next, next = IF new = {} THEN last ELSE data
  PROVE  LastOf(Append(lines, new), next)
<1> DEFINE some(s) == {i \in DOMAIN s : s[i] # {}}
           more == Append(lines, new)
           n == Len(lines) + 1
<1>1. /\ Len(lines) \in Nat /\ more[n] = new /\ \A i \in 1 .. Len(lines) : more[i] = lines[i]
      /\ DOMAIN lines = 1 .. Len(lines) /\ DOMAIN more = 1 .. n
  BY FileAppend
<1>2. Store!Lines(last) = IF some(lines) = {} THEN {} ELSE lines[Store!Max(some(lines))]
  BY DEF LastOf
<1> HIDE DEF more
<1>3. CASE new = {}
  <2>1. some(more) = some(lines)
    BY <1>1, <1>3
  <2>2. some(lines) # {} => Store!Max(some(lines)) \in 1 .. Len(lines)
    <3> SUFFICES ASSUME some(lines) # {} PROVE Store!Max(some(lines)) \in some(lines)
      BY <1>1
    <3> DEFINE downTo == {Len(lines) - i : i \in some(lines)}
    <3>1. downTo \subseteq Nat /\ downTo # {}
      BY <1>1
    <3>2. PICK k \in downTo : \A j \in downTo : k <= j
      BY <3>1, LeastNatural
    <3>3. PICK m \in some(lines) : k = Len(lines) - m
      BY <3>2
    <3>4. \A i \in some(lines) : m >= i
      <4> TAKE i \in some(lines)
      <4>1. Len(lines) - m <= Len(lines) - i /\ i \in Nat /\ m \in Nat
        BY <1>1, <3>2, <3>3
      <4> QED BY <1>1, <4>1
    <3> HIDE DEF some
    <3> QED BY <3>4 DEF Store!Max
  <2>3. Store!Lines(last) = IF some(more) = {} THEN {} ELSE more[Store!Max(some(more))]
    BY <1>1, <1>2, <2>1, <2>2
  <2> QED BY <1>3, <2>3 DEF LastOf, more
<1>4. CASE new # {}
  <2>1. n \in some(more) /\ \A i \in some(more) : i \in Int /\ n >= i
    BY <1>1, <1>4
  <2>2. Store!Max(some(more)) = n
    <3> HIDE DEF some, n
    <3>1. \E x \in some(more) : \A y \in some(more) : x >= y
      BY <2>1
    <3> DEFINE m == Store!Max(some(more))
    <3>2. m \in some(more) /\ \A y \in some(more) : m >= y
      BY <3>1 DEF Store!Max
    <3>3. m \in Int /\ n \in Int /\ m >= n /\ n >= m
      BY <2>1, <3>2
    <3> HIDE DEF m
    <3>4. m = n
      BY <3>3
    <3> QED BY <3>4 DEF m
  <2>3. some(more) # {} /\ more[Store!Max(some(more))] = new
    BY <1>1, <2>1, <2>2
  <2> QED BY <1>4, <2>3 DEF LastOf, more
<1> QED BY <1>3, <1>4

LEMMA StoreTest ==
  ASSUME endPointListMaxSize \in Nat, StoreHolds, Store!Test
  PROVE  StoreHolds'
<1> DEFINE new == Store!Lines(Data)
<1>1. /\ ~offline /\ UNCHANGED <<setup, offline, endPointList, replayed>>
      /\ storefile' = Append(storefile, new)
      /\ PreviousData' = IF Data = Store!Empty THEN PreviousData ELSE Data
      /\ Data' = Store!Empty /\ interval' = <<>>
  BY DEF Store!Test, Store!Stored
<1>2. Online /\ StoreType(endPointList, Data) /\ FileType(storefile)
  BY <1>1 DEF StoreHolds
<1>3. /\ Lined(new) /\ \A line \in new : line.ep \in endPointList
      /\ Data = Store!Empty <=> new = {}
  BY <1>2, LinesOfMap
<1>4. FileType(storefile)' /\ LastOf(storefile, PreviousData)'
  <2>1. LastOf(storefile, PreviousData)
    BY <1>2 DEF Online
  <2>2. PreviousData' = IF new = {} THEN PreviousData ELSE Data
    BY <1>1, <1>3
  <2>3. FileType(Append(storefile, new))
    BY <1>2, <1>3, FileAppend
  <2>4. LastOf(Append(storefile, new), PreviousData')
    BY <1>2, <1>3, <2>1, <2>2, LastAppend
  <2> QED BY <1>1, <2>3, <2>4 DEF FileType, LastOf, Lined
<1>5. \A i \in 1 .. Len(storefile') : \A line \in storefile'[i] : line.ep \in endPointList'
  <2>1. /\ Len(storefile') = Len(storefile) + 1 /\ Len(storefile) \in Nat
        /\ storefile'[Len(storefile) + 1] = new
        /\ \A i \in 1 .. Len(storefile) : storefile'[i] = storefile[i]
    BY <1>1, <1>2, <1>3, FileAppend
  <2> TAKE i \in 1 .. Len(storefile')
  <2>2. CASE i = Len(storefile) + 1
    BY <1>1, <1>3, <2>1, <2>2
  <2>3. CASE i \in 1 .. Len(storefile)
    BY <1>1, <1>2, <2>1, <2>3 DEF Online
  <2> QED BY <2>1, <2>2, <2>3
<1>6. StoreType(endPointList, Store!Empty)
  BY <1>2, EmptyMap DEF StoreType
<1>7. Counting(endPointList, Store!Empty, <<>>)
  <2>1. ASSUME NEW e, NEW side PROVE Met(<<>>, e, side) = 0
    <3>1. {i \in DOMAIN <<>> : Store!Key(<<>>[i][side]) = e} = {}
      OBVIOUS
    <3> QED BY <3>1, FS_EmptySet DEF Met
  <2>2. \A e : Store!InfoOf(Store!Empty, e) = [in |-> 0, out |-> 0]
    BY EmptyMap DEF Store!InfoOf, Store!NoInfo
  <2> QED BY <1>2, <1>6, <2>1, <2>2 DEF Online, Counting, Tally
<1>8. Counting(endPointList, Data, interval)'
  BY <1>1, <1>7, SameCounting
<1>9. interval' \in Seq(Ends \X Ends)
  BY <1>1
<1>10. Online'
  BY <1>1, <1>2, <1>4, <1>5, <1>8, <1>9 DEF Online
<1> QED BY <1>1, <1>4, <1>8, <1>10 DEF StoreHolds, Counting

LEMMA StoreStart ==
  ASSUME endPointListMaxSize \in Nat, StoreHolds, Store!StartOffline
  PROVE  StoreHolds'
<1>1. /\ ~offline /\ offline' = TRUE /\ endPointList' = {} /\ Data' = Store!Empty
      /\ storefile' = storefile /\ replayed' = replayed
  BY DEF Store!StartOffline
<1>2. Online /\ StoreType(endPointList, Data) /\ FileType(storefile)
  BY <1>1 DEF StoreHolds
<1>3. StoreType({}, Store!Empty)
  BY EmptyMap, FS_EmptySet DEF StoreType
<1>4. Len(storefile) \in Nat /\ replayed = 0
  BY <1>2 DEF FileType, Online
<1>5. /\ IsFiniteSet(endPointList) /\ Cardinality(endPointList) <= endPointListMaxSize
      /\ \A i \in 1 .. Len(storefile) : \A line \in storefile[i] : line.ep \in endPointList
  BY <1>2 DEF StoreType, Online
<1>6. Offline'
  BY <1>1, <1>4, <1>5 DEF Offline
<1>7. StoreType(endPointList, Data)' /\ FileType(storefile)'
  BY <1>1, <1>2, <1>3 DEF StoreType, EndPointMap, FileType, Lined
<1> QED BY <1>1, <1>6, <1>7 DEF StoreHolds

LEMMA SameReadAs ==
  ASSUME setup' = setup, NEW L
  PROVE  /\ KeysOf(L)' = KeysOf(L)
         /\ \A lines, r : /\ lines = storefile'[replayed']
                          /\ r = [list |-> endPointList', data |-> Data']
                          /\ ReadAs(lines, r, L)
              => ReadAs(storefile[replayed], [list |-> endPointList, data |-> Data], L)'
<1>1. KeysOf(L)' = KeysOf(L)
  <2>1. \A x \in L : Store!Key(x)' = Store!Key(x)
    BY SameSetup
  <2> QED BY <2>1 DEF KeysOf
<1> SUFFICES ASSUME NEW lines, lines = storefile'[replayed'],
                    NEW r, r = [list |-> endPointList', data |-> Data'], ReadAs(lines, r, L)
             PROVE  ReadAs(storefile[replayed], [list |-> endPointList, data |-> Data], L)'
  BY <1>1
<1>2. ASSUME NEW e, NEW side
      PROVE  Store!SumOver(storefile[replayed], e, side)' = Store!SumOver(lines, e, side)
  <2>1. {line \in storefile[replayed] : Store!Key(line.ep) = e}' = {line \in lines : Store!Key(line.ep) = e}
    BY DEF Store!Key
  <2> QED BY <2>1 DEF Store!SumOver
<1>3. /\ StoreType(endPointList, Data)' /\ endPointList' \subseteq KeysOf(L)'
  BY <1>1 DEF ReadAs, StoreType, EndPointMap
<1>4. ASSUME NEW e
      PROVE  (Store!InfoOf(Data, e) =
               IF Store!monitorEndPoint(e)
                 THEN [in |-> Store!SumOver(storefile[replayed], e, "in"),
                       out |-> Store!SumOver(storefile[replayed], e, "out")]
                 ELSE Store!NoInfo)'
  <2>1. Store!InfoOf(r.data, e) =
          IF Store!monitorEndPoint(e)
            THEN [in |-> Store!SumOver(lines, e, "in"), out |-> Store!SumOver(lines, e, "out")]
            ELSE Store!NoInfo
    BY DEF ReadAs
  <2>2. /\ Store!SumOver(storefile[replayed], e, "in")' = Store!SumOver(lines, e, "in")
        /\ Store!SumOver(storefile[replayed], e, "out")' = Store!SumOver(lines, e, "out")
        /\ Store!monitorEndPoint(e)' = Store!monitorEndPoint(e)
    BY <1>2, SameSetup
  <2> QED BY <2>1, <2>2 DEF Store!InfoOf, Store!NoInfo
<1> QED BY <1>3, <1>4 DEF ReadAs

LEMMA StoreRead ==
  ASSUME endPointListMaxSize \in Nat, StoreHolds, Store!ReadInterval
  PROVE  StoreHolds'
<1> DEFINE lines == storefile[replayed + 1]
           r == Store!ReadLines(lines, endPointList)
<1>1. /\ offline /\ replayed < Len(storefile) /\ Data' = r.data /\ endPointList' = r.list
      /\ replayed' = replayed + 1 /\ UNCHANGED <<setup, offline, interval, storefile>>
  BY DEF Store!ReadInterval
<1>2. Offline /\ FileType(storefile)
  BY <1>1 DEF StoreHolds
<1>3. PICK L : /\ IsFiniteSet(L) /\ Cardinality(L) <= endPointListMaxSize
               /\ \A i \in 1 .. Len(storefile) : \A line \in storefile[i] : line.ep \in L
               /\ endPointList \subseteq KeysOf(L)
  BY <1>2 DEF Offline
<1>4. replayed + 1 \in 1 .. Len(storefile) /\ replayed' \in 0 .. Len(storefile) /\ replayed' > 0
  BY <1>1, <1>2 DEF FileType, Offline
<1>5. Lined(lines) /\ \A line \in lines : line.ep \in L
  BY <1>2, <1>3, <1>4 DEF FileType
<1> HIDE DEF lines
<1>6. ReadAs(lines, r, L)
  BY <1>3, <1>5, ReadLinesExact
<1> HIDE DEF r
<1>7. /\ r = [list |-> endPointList', data |-> Data']
      /\ StoreType(endPointList', Data') /\ endPointList' \subseteq KeysOf(L)
  BY <1>1, <1>6 DEF ReadAs
<1>8. lines = storefile'[replayed']
  BY <1>1 DEF lines
<1>9. ReadAs(storefile[replayed], [list |-> endPointList, data |-> Data], L)'
  BY <1>1, <1>6, <1>7, <1>8, SameReadAs
<1>10. endPointList' \subseteq KeysOf(L)'
  BY <1>1, <1>7, SameReadAs
<1>11. Offline'
  BY <1>1, <1>3, <1>4, <1>9, <1>10 DEF Offline
<1>12. StoreType(endPointList, Data)' /\ FileType(storefile)'
  BY <1>1, <1>2, <1>7 DEF StoreType, EndPointMap, FileType, Lined
<1> QED BY <1>1, <1>11, <1>12 DEF StoreHolds

LEMMA StoreNext ==
  ASSUME endPointListMaxSize \in Nat
  PROVE  StoreInv /\ [SideNext]_sideVars => StoreInv'
<1> SUFFICES ASSUME StoreInv, [SideNext]_sideVars, component' = "store" PROVE StoreHolds'
  BY DEF StoreInv
<1>1. component = "store" /\ StoreHolds
  BY DEF StoreInv, SideNext, sideVars
<1>2. Store!Next \/ UNCHANGED StoreVars
  BY <1>1 DEF SideNext, sideVars
<1>3. CASE UNCHANGED StoreVars
  <2>1. /\ setup' = setup /\ endPointList' = endPointList /\ Data' = Data /\ interval' = interval
        /\ UNCHANGED <<offline, PreviousData, storefile, replayed>>
    BY <1>3 DEF StoreVars
  <2>2. StoreType(endPointList, Data)' /\ FileType(storefile)'
    BY <1>1, <2>1 DEF StoreHolds, StoreType, EndPointMap, FileType, Lined
  <2>3. ~offline => Online'
    <3> SUFFICES ASSUME ~offline PROVE Online'
      OBVIOUS
    <3>1. Online
      BY <1>1 DEF StoreHolds
    <3>2. Counting(endPointList, Data, interval)'
      <4>1. Counting(endPointList, Data, interval)
        BY <3>1 DEF Online
      <4> HIDE DEF Counting
      <4> QED BY <2>1, <4>1, SameCounting
    <3>3. LastOf(storefile, PreviousData)'
      BY <2>1, <3>1 DEF Online, LastOf
    <3> QED BY <2>1, <3>1, <3>2, <3>3 DEF Online
  <2>4. offline => Offline'
    <3> SUFFICES ASSUME offline PROVE Offline'
      OBVIOUS
    <3>1. PICK L : /\ IsFiniteSet(L) /\ Cardinality(L) <= endPointListMaxSize
                   /\ \A i \in 1 .. Len(storefile) : \A line \in storefile[i] : line.ep \in L
                   /\ endPointList \subseteq KeysOf(L)
                   /\ replayed > 0 => ReadAs(storefile[replayed],
                                             [list |-> endPointList, data |-> Data], L)
      BY <1>1 DEF StoreHolds, Offline
    <3>2. replayed \in 0 .. Len(storefile)
      BY <1>1 DEF StoreHolds, Offline
    <3>3. (replayed > 0 => ReadAs(storefile[replayed], [list |-> endPointList, data |-> Data], L))'
      <4>1. /\ storefile[replayed] = storefile'[replayed']
            /\ [list |-> endPointList, data |-> Data] = [list |-> endPointList', data |-> Data']
            /\ replayed' = replayed
        BY <2>1
      <4> HIDE DEF ReadAs
      <4>2. replayed' > 0 => ReadAs(storefile[replayed], [list |-> endPointList, data |-> Data], L)'
        BY <2>1, <3>1, <4>1, SameReadAs
      <4> QED BY <4>2
    <3>4. endPointList' \subseteq KeysOf(L)'
      BY <2>1, <3>1, SameReadAs
    <3> QED BY <2>1, <3>1, <3>2, <3>3, <3>4 DEF Offline
  <2> QED BY <1>1, <2>1, <2>2, <2>3, <2>4 DEF StoreHolds
<1>4. CASE Store!EndOfFile
  <2>1. UNCHANGED StoreVars
    BY <1>4 DEF Store!EndOfFile, Store!vars, StoreVars
  <2> QED BY <1>3, <2>1
<1>5. CASE Store!Record
  BY <1>1, <1>5, StoreRecord
<1>6. CASE Store!Test
  BY <1>1, <1>6, StoreTest
<1>7. CASE Store!StartOffline
  BY <1>1, <1>7, StoreStart
<1>8. CASE Store!ReadInterval
  BY <1>1, <1>8, StoreRead
<1> QED BY <1>2, <1>3, <1>4, <1>5, <1>6, <1>7, <1>8 DEF Store!Next

\* PreviousIsLastNonEmpty: whatever records and tests come in whatever order,
\* the tests compare with the last interval that had any data: test() deletes
\* and keeps a storage that is not empty, and no other.
THEOREM PreviousIsTheLastTested ==
  ASSUME endPointListMaxSize \in Nat
  PROVE  SideSpec => []PreviousIsLastNonEmpty
<1>1. StoreInv => PreviousIsLastNonEmpty
  BY DEF StoreInv, StoreHolds, Online, LastOf, PreviousIsLastNonEmpty, Store!PreviousIsLastNonEmpty
<1> QED BY StoreInit, StoreNext, <1>1, PTL DEF SideSpec

\* ReplayIsExact: operator>> gives back each interval of the file as the online
\* run stored it, summed over the endpoints that share a key of the offline run,
\* however many intervals the file has: the list that the offline run fills
\* (endPointListMaxSize) has room for every endpoint that the online one had.
THEOREM ReplaysExactly ==
  ASSUME endPointListMaxSize \in Nat
  PROVE  SideSpec => []ReplayIsExact
<1>1. StoreInv => ReplayIsExact
  <2> SUFFICES ASSUME StoreInv, component = "store", replayed > 0,
                      NEW e \in {Store!Key(line.ep) : line \in storefile[replayed]}
               PROVE  Store!InfoOf(Data, e) =
                        IF Store!monitorEndPoint(e)
                          THEN [in |-> Store!SumOver(storefile[replayed], e, "in"),
                                out |-> Store!SumOver(storefile[replayed], e, "out")]
                          ELSE Store!NoInfo
    BY DEF ReplayIsExact, Store!ReplayIsExact
  <2>1. offline /\ Offline
    BY DEF StoreInv, StoreHolds, Online
  <2>2. PICK L : ReadAs(storefile[replayed], [list |-> endPointList, data |-> Data], L)
    BY <2>1 DEF Offline
  <2> QED BY <2>2 DEF ReadAs
<1> QED BY StoreInit, StoreNext, <1>1, PTL DEF SideSpec

-----------------------------------------------------------------------------
(* The store of the statistics module: what its filters select. *)

LEMMA ModUnique ==
  ASSUME NEW m \in Nat, m > 0, NEW q \in Int, NEW r \in 0 .. m - 1
  PROVE  (m * q + r) % m = r
<1> DEFINE k == (m * q + r) \div m
           s == (m * q + r) % m
           d == q - k
<1>1. k \in Int /\ s \in 0 .. m - 1 /\ m * q + r = m * k + s
  OBVIOUS
<1> HIDE DEF k, s
<1>2. d \in Int /\ m * d = s - r
  BY <1>1
<1> HIDE DEF d
<1>3. CASE d >= 1
  <2>1. m * d >= m
    BY <1>2, <1>3
  <2> QED BY <1>1, <1>2, <2>1
<1>4. CASE d <= -1
  <2>1. m * d <= -m
    BY <1>2, <1>4
  <2> QED BY <1>1, <1>2, <2>1
<1>5. CASE d = 0
  BY <1>1, <1>2, <1>5 DEF s
<1> QED BY <1>2, <1>3, <1>4, <1>5

\* The two netmasks of the set-ups, for every width of an address up to 32 bits.
LEMMA Doubles ==
  ASSUME AddressBits \in 2 .. 32
  PROVE  /\ 2 ^ (AddressBits - 1) = 2 * 2 ^ (AddressBits - 2)
         /\ 2 ^ (AddressBits - 2) \in Nat /\ 2 ^ (AddressBits - 2) > 0
<1> DEFINE Ok(n) == 2 ^ (n - 1) = 2 * 2 ^ (n - 2) /\ 2 ^ (n - 2) \in Nat /\ 2 ^ (n - 2) > 0
<1>1. /\ Ok(2) /\ Ok(3) /\ Ok(4) /\ Ok(5) /\ Ok(6) /\ Ok(7) /\ Ok(8) /\ Ok(9) /\ Ok(10)
      /\ Ok(11) /\ Ok(12) /\ Ok(13) /\ Ok(14) /\ Ok(15) /\ Ok(16) /\ Ok(17) /\ Ok(18)
      /\ Ok(19) /\ Ok(20) /\ Ok(21) /\ Ok(22) /\ Ok(23) /\ Ok(24) /\ Ok(25) /\ Ok(26)
      /\ Ok(27) /\ Ok(28) /\ Ok(29) /\ Ok(30) /\ Ok(31) /\ Ok(32)
  OBVIOUS
<1> HIDE DEF Ok
<1>2. Ok(AddressBits)
  BY <1>1
<1> QED BY <1>2 DEF Ok

\* Masking an address again, with the same netmask or a shorter one.
LEMMA MaskedTwice ==
  ASSUME AddressBits \in 2 .. 32, NEW ip \in Nat, NEW n \in {1, 2}
  PROVE  Store!Masked(Store!Masked(ip, n), 1) = Store!Masked(ip, 1)
<1> DEFINE h == 2 ^ (AddressBits - 2)
           m == 2 * h
<1>1. h \in Nat /\ h > 0 /\ 2 ^ (AddressBits - 1) = m /\ m = 2 * h /\ m \in Nat /\ m > 0
  BY Doubles
<1> HIDE DEF h, m
<1>2. ASSUME NEW x \in Nat, NEW k \in {1, 2}
      PROVE  Store!Masked(x, k) = x - (x % (IF k = 1 THEN m ELSE h))
  BY <1>1 DEF Store!Masked, h
<1>3. PICK q \in Nat, r \in 0 .. m - 1 : ip = m * q + r
  <2>1. ip = m * (ip \div m) + (ip % m) /\ ip \div m \in Int /\ ip % m \in 0 .. m - 1
    BY <1>1
  <2>2. ip \div m >= 0
    BY <1>1
  <2> QED BY <2>1, <2>2
<1>4. ip % m = r
  BY <1>1, <1>3, ModUnique
<1>5. Store!Masked(ip, 1) = m * q /\ m * q \in Nat
  BY <1>1, <1>2, <1>3, <1>4
<1>6. (m * q) % m = 0 /\ (m * q + h) % m = h
  <2>1. 0 \in 0 .. m - 1 /\ h \in 0 .. m - 1 /\ q \in Int
    BY <1>1, <1>3
  <2>2. (m * q + 0) % m = 0 /\ (m * q + h) % m = h
    BY <1>1, <2>1, ModUnique
  <2>3. m * q + 0 = m * q
    BY <1>5
  <2> QED BY <2>2, <2>3
<1>7. CASE n = 1
  <2>1. Store!Masked(m * q, 1) = m * q - ((m * q) % m)
    BY <1>2, <1>5
  <2> QED BY <1>1, <1>3, <1>5, <1>6, <1>7, <2>1
<1>8. CASE n = 2 /\ r < h
  <2>1. h * (2 * q) = m * q
    BY <1>1, <1>3
  <2>2. (h * (2 * q) + r) % h = r
    BY <1>1, <1>3, <1>8, ModUnique
  <2>3. ip % h = r
    BY <1>3, <2>1, <2>2
  <2>4. Store!Masked(ip, 2) = m * q
    BY <1>1, <1>2, <1>3, <1>5, <2>3
  <2>5. Store!Masked(m * q, 1) = m * q - ((m * q) % m)
    BY <1>2, <1>5
  <2> QED BY <1>1, <1>3, <1>5, <1>6, <1>8, <2>4, <2>5
<1>9. CASE n = 2 /\ r >= h
  <2>1. h * (2 * q + 1) = m * q + h
    BY <1>1, <1>3
  <2>2. r - h \in 0 .. h - 1 /\ 2 * q + 1 \in Int
    BY <1>1, <1>3, <1>9
  <2>3. (h * (2 * q + 1) + (r - h)) % h = r - h
    BY <1>1, <2>2, ModUnique
  <2>4. ip = h * (2 * q + 1) + (r - h)
    BY <1>1, <1>3, <2>1
  <2>5. ip % h = r - h
    BY <2>3, <2>4
  <2> DEFINE y == m * q + h
  <2>6. Store!Masked(ip, 2) = ip - (r - h) /\ y \in Nat /\ y = ip - (r - h) /\ y % m = h /\ y - h = m * q
    BY <1>1, <1>2, <1>3, <1>5, <1>6, <2>5
  <2> HIDE DEF y
  <2>7. Store!Masked(y, 1) = y - (y % m)
    BY <1>2, <2>6
  <2> QED BY <1>5, <1>9, <2>6, <2>7
<1> QED BY <1>1, <1>3, <1>7, <1>8, <1>9

\* A rule of a subnet without a port is the first of the set-ups' rules.
FilterInv ==
  component = "store" =>
    \A f \in setup.filter :
      f.port = -1 /\ "address" \in setup.key =>
        f.nmask = 1 /\ f.ip = Store!Masked(1, 1) /\ setup.netmask \in {1, 2}

LEMMA RulesOfSetups ==
  ASSUME AddressBits \in 2 .. 32, NEW xml \in Setups
  PROVE  LET s == Store!init_endpoints(xml)
         IN \A f \in s.filter : f.port = -1 =>
              f.nmask = 1 /\ f.ip = Store!Masked(1, 1) /\ s.netmask \in {1, 2}
<1>1. xml.netmask \in {1, 2} /\ xml.rules \subseteq {Rule(1, 1, -1), Rule(3, 0, 2)}
  BY DEF Setups
<1>2. /\ Store!FilterEndPoint(Rule(1, 1, -1)) = [ip |-> Store!Masked(1, 1), nmask |-> 1, port |-> -1]
      /\ Store!FilterEndPoint(Rule(3, 0, 2)) = [ip |-> 3, nmask |-> 0, port |-> 2]
  BY DEF Store!FilterEndPoint, Rule
<1> QED BY <1>1, <1>2 DEF Store!init_endpoints

LEMMA FrequentFilters ==
  ASSUME NEW xml \in Setups, xml.frequent # Store!Absent, NEW lines
  PROVE  \A f \in Store!MostFrequent(xml, lines).filter : f.port # -1
<1>1. xml.key = {"address"}
  BY DEF Setups, Store!Absent
<1>2. \A x : Store!KeyUnder(xml, x).port = 0
  BY <1>1 DEF Store!KeyUnder
<1>3. ASSUME NEW f \in Store!MostFrequent(xml, lines).filter
      PROVE  \E x : f.port = Store!KeyUnder(xml, x).port
  <2> DEFINE all == UNION {{<<i, line.ep>> : line \in lines[i]} : i \in DOMAIN lines}
             feps == {Store!KeyUnder(xml, line[2]) : line \in all}
             count == [g \in feps |-> Store!Cardinality({line \in all : Store!KeyUnder(xml, line[2]) = g})]
             Before(g, h) == \/ count[g] > count[h]
                             \/ count[g] = count[h] /\ g.ip < h.ip
                             \/ count[g] = count[h] /\ g.ip = h.ip /\ g.port < h.port
             most == {g \in feps : Store!Cardinality({h \in feps : Before(h, g)}) < xml.frequent}
  <2>1. Store!MostFrequent(xml, lines).filter =
          IF Store!Cardinality(feps) < xml.frequent THEN {}
          ELSE {[ip |-> g.ip, nmask |-> AddressBits, port |-> g.port] : g \in most}
    BY DEF Store!MostFrequent
  <2>2. most \subseteq feps
    OBVIOUS
  <2> HIDE DEF most
  <2>3. \A g \in feps : \E x : g = Store!KeyUnder(xml, x)
    OBVIOUS
  <2> HIDE DEF feps
  <2> QED BY <2>1, <2>2, <2>3
<1> QED BY <1>2, <1>3

LEMMA FilterInit == ASSUME AddressBits \in 2 .. 32 PROVE SideInit => FilterInv
<1> SUFFICES ASSUME SideInit, component = "store",
                    NEW f \in setup.filter, f.port = -1
             PROVE  f.nmask = 1 /\ f.ip = Store!Masked(1, 1) /\ setup.netmask \in {1, 2}
  BY DEF FilterInv
<1>1. PICK xml \in Setups : setup = Store!init_endpoints(xml)
  BY DEF SideInit, Store!Init
<1> QED BY <1>1, RulesOfSetups

LEMMA FilterNext ==
  ASSUME AddressBits \in 2 .. 32
  PROVE  FilterInv /\ [SideNext]_sideVars => FilterInv'
<1> SUFFICES ASSUME FilterInv, [SideNext]_sideVars, component' = "store",
                    NEW f \in setup'.filter, f.port = -1, "address" \in setup'.key
             PROVE  f.nmask = 1 /\ f.ip = Store!Masked(1, 1) /\ setup'.netmask \in {1, 2}
  BY DEF FilterInv
<1>1. component = "store" /\ (Store!Next \/ UNCHANGED StoreVars)
  BY DEF SideNext, sideVars
<1>2. CASE setup' = setup
  BY <1>1, <1>2 DEF FilterInv
<1>3. CASE Store!StartOffline
  <2>1. PICK xml \in Setups :
          setup' = IF xml.frequent # Store!Absent THEN Store!MostFrequent(xml, storefile)
                   ELSE Store!init_endpoints(xml)
    BY <1>3 DEF Store!StartOffline
  <2>2. CASE xml.frequent # Store!Absent
    <3>1. setup' = Store!MostFrequent(xml, storefile)
      BY <2>1, <2>2
    <3> QED BY <2>2, <3>1, FrequentFilters
  <2>3. CASE xml.frequent = Store!Absent
    <3>1. setup' = Store!init_endpoints(xml)
      BY <2>1, <2>3
    <3> QED BY <3>1, RulesOfSetups
  <2> QED BY <2>2, <2>3
<1>4. Store!StartOffline \/ setup' = setup
  BY <1>1 DEF Store!Next, Store!Record, Store!Test, Store!ReadInterval, Store!EndOfFile,
              Store!vars, StoreVars
<1> QED BY <1>2, <1>3, <1>4

\* CountsExact: an endpoint in the list has been counted once for each record of
\* the interval that it is the source or the destination of, the list never
\* exceeds endPointListMaxSize whatever was refused because of it, and a filter
\* with a netmask lets in the addresses of its subnet and no others, whichever
\* mask was applied to the endpoint before (StatStore::recordEnd, monitorEndPoint).
THEOREM CountsAreExactInStore ==
  ASSUME endPointListMaxSize \in Nat, AddressBits \in 2 .. 32
  PROVE  SideSpec => []CountsExact
<1>1. StoreInv /\ FilterInv => CountsExact
  <2> SUFFICES ASSUME StoreInv, FilterInv, component = "store" PROVE Store!CountsExact
    BY DEF CountsExact
  <2>1. StoreType(endPointList, Data) /\ (~offline => Counting(endPointList, Data, interval))
    BY DEF StoreInv, StoreHolds, Online
  <2>2. Store!Cardinality(endPointList) <= endPointListMaxSize /\ DOMAIN Data \subseteq endPointList
    BY <2>1, StoreCardinality DEF StoreType
  <2>3. ASSUME ~offline, NEW e \in endPointList
        PROVE  Store!InfoOf(Data, e) = [out |-> Store!Occurrences(e, 1), in |-> Store!Occurrences(e, 2)]
    <3>1. Store!InfoOf(Data, e) = [in |-> Met(interval, e, 2), out |-> Met(interval, e, 1)]
      BY <2>1, <2>3 DEF Counting, Tally
    <3>2. Met(interval, e, 1) = Store!Occurrences(e, 1) /\ Met(interval, e, 2) = Store!Occurrences(e, 2)
      BY StoreCardinality DEF Met, Store!Occurrences
    <3> QED BY <3>1, <3>2
  <2>4. Store!FiltersSelectSubnets
    <3> SUFFICES ASSUME NEW f \in setup.filter, NEW end \in Ends, f.nmask <= setup.netmask,
                        "address" \in setup.key, f.port = -1
                 PROVE  Store!matchesWithEndPoint(f, Store!Key(end))
                          <=> Store!Masked(end.ip, f.nmask) = Store!Masked(f.ip, f.nmask)
      BY DEF Store!FiltersSelectSubnets
    <3>1. f.nmask = 1 /\ f.ip = Store!Masked(1, 1) /\ setup.netmask \in {1, 2}
      BY DEF FilterInv
    <3>2. Store!Key(end).ip = Store!Masked(end.ip, setup.netmask)
      BY DEF Store!Key, Store!KeyUnder
    <3>3. end.ip \in Nat
      BY DEF Ends, EndPoint
    <3>4. Store!Masked(f.ip, 1) = f.ip
      BY <3>1, MaskedTwice
    <3>5. Store!Masked(Store!Key(end).ip, 1) = Store!Masked(end.ip, 1)
      BY <3>1, <3>2, <3>3, MaskedTwice
    <3>6. 1 \in 1 .. AddressBits - 1
      OBVIOUS
    <3> QED BY <3>1, <3>2, <3>4, <3>5, <3>6 DEF Store!matchesWithEndPoint
  <2> QED BY <2>2, <2>3, <2>4 DEF Store!CountsExact
<1> QED BY StoreInit, StoreNext, FilterInit, FilterNext, <1>1, PTL DEF SideSpec

-----------------------------------------------------------------------------
(* The storage of the count module. *)

LEMMA CountCardinality == \A S : Count!Cardinality(S) = Cardinality(S)
BY DEF Count!Cardinality, Cardinality

LEMMA CountSum ==
  ASSUME NEW f
  PROVE  Count!SumFunction(f) = SumFunctionOnSet(f, DOMAIN f)
BY DEF Count!SumFunction, Count!SumFunctionOnSet, SumFunctionOnSet, Count!FoldFunctionOnSet,
       FoldFunctionOnSet, Count!MapThenFoldSet, MapThenFoldSet

Counters == [packets : Nat, flows : Nat]
CounterMap(m) == IsFiniteSet(DOMAIN m) /\ m \in [DOMAIN m -> Counters]
PacketsOf(m) == SumFunctionOnSet([k \in DOMAIN m |-> m[k].packets], DOMAIN m)

\* The entry at has a packet more, and a flow more if the flow is new.
Takes(m, r, at, isNew) ==
  /\ CounterMap(r) /\ DOMAIN r = DOMAIN m \cup {at}
  /\ \A k \in DOMAIN m : k # at => r[k] = m[k]
  /\ at \notin DOMAIN m => r[at] = [packets |-> 1, flows |-> 1]
  /\ at \in DOMAIN m => r[at] = [packets |-> m[at].packets + 1,
                                 flows |-> m[at].flows + IF isNew THEN 1 ELSE 0]

\* What one packet does to a table.
LEMMA UpdateMap ==
  ASSUME NEW m, CounterMap(m), NEW key, NEW default, NEW isNew \in BOOLEAN,
         NEW r, r = Count!UpdateCountMap(m, key, default, isNew)
  PROVE  \E at : /\ Takes(m, r, at, isNew)
                 /\ at = key \/ ~(key \in DOMAIN m \/ Cardinality(DOMAIN m) < max_size - 1)
<1> DEFINE roomy == key \in DOMAIN m \/ Cardinality(DOMAIN m) < max_size - 1
           at == IF roomy THEN key ELSE default
           flow == IF isNew THEN 1 ELSE 0
           changed == [m EXCEPT ![at] = [packets |-> m[at].packets + 1, flows |-> m[at].flows + flow]]
           added == [k \in DOMAIN m \cup {at} |->
                       IF k = at THEN [packets |-> 1, flows |-> 1] ELSE m[k]]
<1>1. r = IF at \in DOMAIN m THEN changed ELSE added
  BY CountCardinality DEF Count!UpdateCountMap
<1>2. at = key \/ ~(key \in DOMAIN m \/ Cardinality(DOMAIN m) < max_size - 1)
  OBVIOUS
<1> HIDE DEF at
<1>3. IsFiniteSet(DOMAIN m) /\ m \in [DOMAIN m -> Counters]
  BY DEF CounterMap
<1>4. CASE at \in DOMAIN m
  <2>1. m[at].packets \in Nat /\ m[at].flows \in Nat
    BY <1>3, <1>4 DEF Counters
  <2>2. r = changed /\ DOMAIN r = DOMAIN m /\ DOMAIN m = DOMAIN m \cup {at}
    BY <1>1, <1>4
  <2>3. r[at] = [packets |-> m[at].packets + 1, flows |-> m[at].flows + flow]
    BY <1>4, <2>2
  <2>4. \A k \in DOMAIN m : k # at => r[k] = m[k]
    BY <2>2
  <2>5. r[at] \in Counters
    BY <2>1, <2>3 DEF Counters
  <2>6. r \in [DOMAIN r -> Counters]
    <3>1. \A k \in DOMAIN m : r[k] \in Counters
      BY <1>3, <2>4, <2>5
    <3>2. r = [k \in DOMAIN m |-> r[k]]
      BY <2>2
    <3> QED BY <2>2, <3>1, <3>2
  <2>7. CounterMap(r)
    BY <1>3, <2>2, <2>6 DEF CounterMap
  <2>8. Takes(m, r, at, isNew)
    BY <1>4, <2>2, <2>3, <2>4, <2>7 DEF Takes
  <2> QED BY <1>2, <2>8
<1>5. CASE at \notin DOMAIN m
  <2>1. r = added /\ DOMAIN r = DOMAIN m \cup {at} /\ r[at] = [packets |-> 1, flows |-> 1]
    BY <1>1, <1>5
  <2>2. \A k \in DOMAIN m : k # at => r[k] = m[k]
    BY <1>5, <2>1
  <2>3. r \in [DOMAIN r -> Counters]
    <3>1. \A k \in DOMAIN r : r[k] \in Counters
      BY <1>3, <1>5, <2>1 DEF Counters
    <3>2. r = [k \in DOMAIN r |-> r[k]]
      BY <2>1
    <3> QED BY <3>1, <3>2
  <2>4. IsFiniteSet(DOMAIN r)
    BY <1>3, <2>1, FS_AddElement
  <2>5. CounterMap(r)
    BY <2>3, <2>4 DEF CounterMap
  <2>6. Takes(m, r, at, isNew)
    BY <1>5, <2>1, <2>2, <2>5 DEF Takes
  <2> QED BY <1>2, <2>6
<1> QED BY <1>4, <1>5

\* No packet is lost, whichever entry has taken it.
LEMMA UpdateSum ==
  ASSUME NEW m, CounterMap(m), NEW key, NEW default, NEW isNew \in BOOLEAN,
         NEW r, r = Count!UpdateCountMap(m, key, default, isNew)
  PROVE  CounterMap(r) /\ PacketsOf(m) \in Int /\ PacketsOf(r) = PacketsOf(m) + 1
<1>0. PICK at : Takes(m, r, at, isNew)
  BY UpdateMap
<1>1. /\ CounterMap(r) /\ DOMAIN r = DOMAIN m \cup {at}
      /\ \A k \in DOMAIN m : k # at => r[k] = m[k]
      /\ at \notin DOMAIN m => r[at].packets = 1
      /\ at \in DOMAIN m => r[at].packets = m[at].packets + 1
  BY <1>0 DEF Takes
<1> DEFINE f(x) == [k \in DOMAIN x |-> x[k].packets]
           rest == DOMAIN m \ {at}
<1>2. /\ \A k \in DOMAIN m : f(m)[k] = m[k].packets /\ f(m)[k] \in Int
      /\ \A k \in DOMAIN r : f(r)[k] = r[k].packets /\ f(r)[k] \in Int
  BY <1>1 DEF CounterMap, Counters
<1>3. at \in DOMAIN r /\ rest \subseteq DOMAIN m /\ rest = DOMAIN r \ {at}
  BY <1>1
<1>4. IsFiniteSet(DOMAIN m) /\ IsFiniteSet(rest) /\ IsFiniteSet(DOMAIN r)
  BY <1>1, FS_Subset DEF CounterMap
<1>5. \A k \in rest : f(r)[k] = f(m)[k] /\ f(r)[k] \in Int
  BY <1>1, <1>2, <1>3
<1>6. PacketsOf(m) = SumFunctionOnSet(f(m), DOMAIN m) /\ PacketsOf(r) = SumFunctionOnSet(f(r), DOMAIN r)
  BY DEF PacketsOf
<1>7. f(r)[at] = IF at \in DOMAIN m THEN f(m)[at] + 1 ELSE 1
  BY <1>1, <1>2, <1>3
<1> HIDE DEF f, rest
<1>8. SumFunctionOnSet(f(r), rest) = SumFunctionOnSet(f(m), rest)
  BY <1>4, <1>5, SumEqual
<1>9. /\ SumFunctionOnSet(f(r), rest) \in Int
      /\ SumFunctionOnSet(f(r), DOMAIN r) = f(r)[at] + SumFunctionOnSet(f(r), rest)
  BY <1>2, <1>3, <1>4, SumTakeOne
<1>10. CASE at \in DOMAIN m
  <2>1. SumFunctionOnSet(f(m), DOMAIN m) = f(m)[at] + SumFunctionOnSet(f(m), rest)
    BY <1>2, <1>4, <1>10, SumTakeOne DEF rest
  <2>2. f(m)[at] \in Int
    BY <1>2, <1>10
  <2> QED BY <1>1, <1>6, <1>7, <1>8, <1>9, <1>10, <2>1, <2>2
<1>11. CASE at \notin DOMAIN m
  <2>1. rest = DOMAIN m
    BY <1>11 DEF rest
  <2> QED BY <1>1, <1>6, <1>7, <1>8, <1>9, <1>11, <2>1
<1> QED BY <1>10, <1>11

\* The records of a key, the flows among them, and the bits of the other flows.
PacketsIn(s, t, k) == Cardinality({i \in DOMAIN s : Count!KeyOf(s[i], t) = k})
FlowsIn(s, t, k)   == {f \in {s[i] : i \in DOMAIN s} : Count!KeyOf(f, t) = k}
BitsOf(s, h)       == UNION {h[s[i]] : i \in DOMAIN s}
BitsBut(s, h, f)   == UNION {h[s[i]] : i \in {j \in DOMAIN s : s[j] # f}}

\* An entry has all packets of its key and no flow twice; if one is missing, its
\* bits are those of others.
ExactEntry(m, t, s, h, k) ==
  /\ k \in DOMAIN m <=> FlowsIn(s, t, k) # {}
  /\ k \in DOMAIN m =>
       /\ m[k].packets = PacketsIn(s, t, k) /\ m[k].flows <= Cardinality(FlowsIn(s, t, k))
       /\ \/ m[k].flows = Cardinality(FlowsIn(s, t, k))
          \/ \E f \in FlowsIn(s, t, k) : h[f] \subseteq BitsBut(s, h, f)

LEMMA PacketsOne ==
  ASSUME NEW s \in Seq(Flows), NEW f \in Flows, NEW t, NEW k
  PROVE  /\ PacketsIn(s, t, k) \in Nat
         /\ PacketsIn(s, t, k) = 0 <=> FlowsIn(s, t, k) = {}
         /\ Count!KeyOf(f, t) = k => PacketsIn(Append(s, f), t, k) = PacketsIn(s, t, k) + 1
         /\ Count!KeyOf(f, t) # k => PacketsIn(Append(s, f), t, k) = PacketsIn(s, t, k)
<1> DEFINE of(x) == {i \in DOMAIN x : Count!KeyOf(x[i], t) = k}
           more == Append(s, f)
           new == Len(s) + 1
<1>1. /\ DOMAIN s = 1 .. Len(s) /\ Len(s) \in Nat /\ DOMAIN more = DOMAIN s \cup {new}
      /\ more[new] = f /\ \A i \in DOMAIN s : more[i] = s[i]
  OBVIOUS
<1> HIDE DEF more
<1>2. IsFiniteSet(of(s)) /\ new \notin of(s)
  <2>1. IsFiniteSet(DOMAIN s) /\ of(s) \subseteq DOMAIN s /\ new \notin DOMAIN s
    BY <1>1, FS_Interval, SMTT(40)
  <2> HIDE DEF of
  <2> QED BY <2>1, FS_Subset
<1>3. \A i : i \in of(more) <=> i \in of(s) \/ (i = new /\ Count!KeyOf(f, t) = k)
  BY <1>1
<1>4. of(s) = {} <=> FlowsIn(s, t, k) = {}
  BY DEF FlowsIn
<1>5. PacketsIn(s, t, k) = Cardinality(of(s)) /\ PacketsIn(more, t, k) = Cardinality(of(more))
  BY DEF PacketsIn
<1> HIDE DEF of
<1>6. Cardinality(of(s)) \in Nat /\ (Cardinality(of(s)) = 0 <=> of(s) = {})
      /\ Cardinality(of(s) \cup {new}) = Cardinality(of(s)) + 1
  BY <1>2, FS_CardinalityType, FS_EmptySet, FS_AddElement
<1>7. CASE Count!KeyOf(f, t) = k
  <2>1. of(more) = of(s) \cup {new}
    BY <1>3, <1>7
  <2> QED BY <1>4, <1>5, <1>6, <1>7, <2>1 DEF more
<1>8. CASE Count!KeyOf(f, t) # k
  <2>1. of(more) = of(s)
    BY <1>3, <1>8
  <2> QED BY <1>4, <1>5, <1>6, <1>8, <2>1 DEF more
<1> QED BY <1>7, <1>8

LEMMA FlowsOne ==
  ASSUME NEW s \in Seq(Flows), NEW f \in Flows, NEW t, NEW k
  PROVE  /\ IsFiniteSet(FlowsIn(s, t, k)) /\ Cardinality(FlowsIn(s, t, k)) \in Nat
         /\ Count!KeyOf(f, t) = k => FlowsIn(Append(s, f), t, k) = FlowsIn(s, t, k) \cup {f}
         /\ Count!KeyOf(f, t) # k => FlowsIn(Append(s, f), t, k) = FlowsIn(s, t, k)
<1> DEFINE more == Append(s, f)
           new == Len(s) + 1
<1>1. /\ DOMAIN s = 1 .. Len(s) /\ Len(s) \in Nat /\ DOMAIN more = DOMAIN s \cup {new}
      /\ more[new] = f /\ \A i \in DOMAIN s : more[i] = s[i]
  OBVIOUS
<1> HIDE DEF more
<1>2. IsFiniteSet({s[i] : i \in DOMAIN s})
  <2> DEFINE g == [i \in DOMAIN s |-> s[i]]
  <2>1. IsFiniteSet(DOMAIN s) /\ g \in Surjection(DOMAIN s, {s[i] : i \in DOMAIN s})
    BY <1>1, FS_Interval, SMTT(40) DEF Surjection
  <2> QED BY <2>1, FS_Surjection
<1>3. IsFiniteSet(FlowsIn(s, t, k)) /\ Cardinality(FlowsIn(s, t, k)) \in Nat
  BY <1>2, FS_Subset, FS_CardinalityType DEF FlowsIn
<1>4. {more[i] : i \in DOMAIN more} = {s[i] : i \in DOMAIN s} \cup {f}
  BY <1>1
<1>5. \A x : x \in FlowsIn(more, t, k) <=> x \in FlowsIn(s, t, k) \/ (x = f /\ Count!KeyOf(f, t) = k)
  BY <1>4 DEF FlowsIn
<1> HIDE DEF FlowsIn
<1>6. /\ Count!KeyOf(f, t) = k => FlowsIn(more, t, k) = FlowsIn(s, t, k) \cup {f}
      /\ Count!KeyOf(f, t) # k => FlowsIn(more, t, k) = FlowsIn(s, t, k)
  BY <1>5
<1> QED BY <1>3, <1>6 DEF more

LEMMA BitsGrow ==
  ASSUME NEW s \in Seq(Flows), NEW f \in Flows, NEW h
  PROVE  /\ \A x : BitsBut(s, h, x) \subseteq BitsBut(Append(s, f), h, x)
         /\ BitsOf(Append(s, f), h) = BitsOf(s, h) \cup h[f]
         /\ (\A i \in DOMAIN s : s[i] # f) => BitsOf(s, h) \subseteq BitsBut(Append(s, f), h, f)
<1> DEFINE more == Append(s, f)
           new == Len(s) + 1
<1>1. /\ DOMAIN s = 1 .. Len(s) /\ Len(s) \in Nat /\ DOMAIN more = DOMAIN s \cup {new}
      /\ more[new] = f /\ \A i \in DOMAIN s : more[i] = s[i]
  OBVIOUS
<1> HIDE DEF more
<1>2. \A x : BitsBut(s, h, x) \subseteq BitsBut(more, h, x)
  BY <1>1 DEF BitsBut
<1>3. BitsOf(more, h) = BitsOf(s, h) \cup h[f]
  BY <1>1 DEF BitsOf
<1>4. (\A i \in DOMAIN s : s[i] # f) => BitsOf(s, h) \subseteq BitsBut(more, h, f)
  BY <1>1 DEF BitsBut, BitsOf
<1> QED BY <1>2, <1>3, <1>4 DEF more

\* One record more: its flow is counted if it was not met in the interval,
\* unless the bits of others pretend so.
LEMMA EntryStaysExact ==
  ASSUME NEW s \in Seq(Flows), NEW f \in Flows, NEW h, NEW t, NEW isNew \in BOOLEAN,
         NEW m, CounterMap(m), NEW r, Takes(m, r, Count!KeyOf(f, t), isNew),
         NEW k, ExactEntry(m, t, s, h, k),
         isNew => \A i \in DOMAIN s : s[i] # f,
         ~isNew => h[f] \subseteq BitsOf(s, h)
  PROVE  ExactEntry(r, t, Append(s, f), h, k)
<1> DEFINE more == Append(s, f)
           key == Count!KeyOf(f, t)
           old == FlowsIn(s, t, k)
           flows == FlowsIn(more, t, k)
<1>1. /\ PacketsIn(s, t, k) \in Nat
      /\ key = k => PacketsIn(more, t, k) = PacketsIn(s, t, k) + 1
      /\ key # k => PacketsIn(more, t, k) = PacketsIn(s, t, k)
  BY PacketsOne
<1>2. /\ IsFiniteSet(old) /\ Cardinality(old) \in Nat
      /\ key = k => flows = old \cup {f}
      /\ key # k => flows = old
  BY FlowsOne
<1>3. /\ \A x : BitsBut(s, h, x) \subseteq BitsBut(more, h, x)
      /\ (\A i \in DOMAIN s : s[i] # f) => BitsOf(s, h) \subseteq BitsBut(more, h, f)
  BY BitsGrow
<1>4. f \in old <=> key = k /\ \E i \in DOMAIN s : s[i] = f
  BY DEF FlowsIn
<1>5. PacketsIn(s, t, k) = 0 <=> old = {}
  BY PacketsOne
<1>6. m \in [DOMAIN m -> Counters]
  BY DEF CounterMap
<1> HIDE DEF more, old, flows
<1>7. /\ k \in DOMAIN m <=> old # {}
      /\ k \in DOMAIN m =>
           /\ m[k].packets = PacketsIn(s, t, k) /\ m[k].flows <= Cardinality(old)
           /\ \/ m[k].flows = Cardinality(old)
              \/ \E x \in old : h[x] \subseteq BitsBut(s, h, x)
  BY DEF ExactEntry, old
<1>8. CASE key # k
  <2>1. k \in DOMAIN m <=> k \in DOMAIN r
    BY <1>8 DEF Takes
  <2>2. k \in DOMAIN m => r[k] = m[k]
    BY <1>8 DEF Takes
  <2>3. flows = old /\ PacketsIn(more, t, k) = PacketsIn(s, t, k)
    BY <1>1, <1>2, <1>8
  <2>4. (\E x \in old : h[x] \subseteq BitsBut(s, h, x)) => \E x \in flows : h[x] \subseteq BitsBut(more, h, x)
    BY <1>3, <2>3
  <2> QED BY <1>7, <2>1, <2>2, <2>3, <2>4 DEF ExactEntry, more, flows
<1>9. CASE key = k /\ k \notin DOMAIN m
  <2>1. r[k] = [packets |-> 1, flows |-> 1] /\ k \in DOMAIN r
    BY <1>9 DEF Takes
  <2>2. old = {} /\ flows = {f} /\ PacketsIn(more, t, k) = 1
    BY <1>1, <1>2, <1>5, <1>7, <1>9
  <2>3. Cardinality(flows) = 1
    BY <2>2, FS_Singleton
  <2>4. r[k].packets = 1 /\ r[k].flows = 1
    BY <2>1
  <2> QED BY <2>1, <2>2, <2>3, <2>4 DEF ExactEntry, more, flows
<1>10. CASE key = k /\ k \in DOMAIN m
  <2>1. k \in DOMAIN r /\ r[k].packets = m[k].packets + 1
        /\ r[k].flows = m[k].flows + IF isNew THEN 1 ELSE 0
    BY <1>10 DEF Takes
  <2>2. flows = old \cup {f} /\ flows # {} /\ PacketsIn(more, t, k) = PacketsIn(s, t, k) + 1
    BY <1>1, <1>2, <1>10
  <2>3. Cardinality(flows) = IF f \in old THEN Cardinality(old) ELSE Cardinality(old) + 1
    BY <1>2, <2>2, FS_AddElement
  <2>4. isNew => f \notin old
    BY <1>4, <1>10
  <2>5. m[k].flows \in Nat
    BY <1>6, <1>10 DEF Counters
  <2>6. r[k].flows <= Cardinality(flows)
    BY <1>2, <1>7, <1>10, <2>1, <2>3, <2>4, <2>5
  <2>7. (\E x \in old : h[x] \subseteq BitsBut(s, h, x)) => \E x \in flows : h[x] \subseteq BitsBut(more, h, x)
    BY <1>3, <2>2
  <2>8. m[k].flows = Cardinality(old) =>
          r[k].flows = Cardinality(flows) \/ \E x \in flows : h[x] \subseteq BitsBut(more, h, x)
    <3>1. CASE isNew
      BY <1>2, <2>1, <2>3, <2>4, <3>1
    <3>2. CASE ~isNew /\ f \in old
      BY <1>2, <2>1, <2>3, <3>2
    <3>3. CASE ~isNew /\ f \notin old
      <4>1. \A i \in DOMAIN s : s[i] # f
        BY <1>4, <1>10, <3>3
      <4>2. h[f] \subseteq BitsBut(more, h, f) /\ f \in flows
        BY <1>3, <2>2, <3>3, <4>1
      <4> QED BY <4>2
    <3> QED BY <3>1, <3>2, <3>3
  <2>9. r[k].packets = PacketsIn(more, t, k)
    BY <1>7, <1>10, <2>1, <2>2
  <2> QED BY <1>7, <1>10, <2>1, <2>2, <2>6, <2>7, <2>8, <2>9 DEF ExactEntry, more, flows
<1> QED BY <1>8, <1>9, <1>10

CountHolds ==
  /\ hash \in [Flows -> SUBSET (0 .. filter_size - 1)]
  /\ seen \in Seq(Flows) /\ filter = BitsOf(seen, hash)
  /\ tables = [t \in counted |-> tables[t]]
  /\ \A t \in counted : CounterMap(tables[t]) /\ PacketsOf(tables[t]) = Len(seen)
  /\ Count!NeverFull => \A t \in counted : \A k : ExactEntry(tables[t], t, seen, hash, k)

CountInv == component = "count" => CountHolds

LEMMA NewTable ==
  /\ CounterMap(<<>>) /\ PacketsOf(<<>>) = 0
  /\ \A t, h, k : ExactEntry(<<>>, t, <<>>, h, k)
<1>1. DOMAIN <<>> = {}
  OBVIOUS
<1>2. CounterMap(<<>>)
  BY <1>1, FS_EmptySet DEF CounterMap
<1>3. PacketsOf(<<>>) = 0
  BY <1>1, SumOfNothing DEF PacketsOf
<1>4. \A t, k : FlowsIn(<<>>, t, k) = {}
  BY <1>1 DEF FlowsIn
<1>5. \A t, h, k : ExactEntry(<<>>, t, <<>>, h, k)
  BY <1>1, <1>4 DEF ExactEntry
<1> QED BY <1>2, <1>3, <1>5

\* A new storage, at the start and after each test.
LEMMA NewStorageHolds ==
  ASSUME hash' \in [Flows -> SUBSET (0 .. filter_size - 1)], seen' = <<>>, filter' = {},
         tables' = [t \in counted' |-> <<>>]
  PROVE  CountHolds'
<1>1. filter' = BitsOf(seen', hash')
  BY DEF BitsOf
<1>2. \A t \in counted' : /\ CounterMap(tables'[t]) /\ PacketsOf(tables'[t]) = Len(seen')
                          /\ \A k : ExactEntry(tables'[t], t, seen', hash', k)
  BY NewTable
<1> QED BY <1>1, <1>2 DEF CountHolds, CounterMap, PacketsOf, ExactEntry, FlowsIn, PacketsIn, BitsBut, BitsOf

LEMMA CountInit == SideInit => CountInv
<1> SUFFICES ASSUME SideInit, component = "count" PROVE CountHolds
  BY DEF CountInv
<1>1. /\ hash \in [Flows -> SUBSET (0 .. filter_size - 1)] /\ seen = <<>> /\ filter = {}
      /\ tables = [t \in counted |-> <<>>]
  BY DEF SideInit, Count!Init, Count!initHF, Count!cleared, Count!NewTables
<1>2. filter = BitsOf(seen, hash)
  BY <1>1 DEF BitsOf
<1> QED BY <1>1, <1>2, NewTable DEF CountHolds

\* A table that is never full has room for the key of every flow.
LEMMA RoomForKey ==
  ASSUME max_size \in Int, CountHolds, Count!NeverFull, NEW t \in counted, NEW f \in Flows,
         Count!KeyOf(f, t) \notin DOMAIN tables[t]
  PROVE  Cardinality(DOMAIN tables[t]) < max_size - 1
<1> DEFINE keys == {Count!KeyOf(x, t) : x \in Flows}
           some == DOMAIN tables[t]
<1>1. Cardinality(keys) < max_size
  BY CountCardinality DEF Count!NeverFull
<1>2. IsFiniteSet(keys)
  <2> DEFINE a == Flow(1, 3, 10, 80)
             b == Flow(1, 4, 10, 53)
             c == Flow(2, 3, 11, 22)
  <2>1. IsFiniteSet(Flows)
    <3>1. Flows = ({} \cup {a}) \cup {b} \cup {c}
      BY DEF Flows
    <3>2. IsFiniteSet({} \cup {a})
      BY FS_EmptySet, FS_AddElement
    <3>3. IsFiniteSet(({} \cup {a}) \cup {b})
      BY <3>2, FS_AddElement
    <3> QED BY <3>1, <3>3, FS_AddElement
  <2> DEFINE g == [x \in Flows |-> Count!KeyOf(x, t)]
  <2>2. g \in Surjection(Flows, keys)
    BY DEF Surjection
  <2> QED BY <2>1, <2>2, FS_Surjection
<1>3. some \subseteq keys \ {Count!KeyOf(f, t)}
  <2> SUFFICES ASSUME NEW k \in some PROVE k \in keys
    OBVIOUS
  <2>1. FlowsIn(seen, t, k) # {}
    BY DEF CountHolds, ExactEntry
  <2> QED BY <2>1 DEF FlowsIn, CountHolds
<1>4. Count!KeyOf(f, t) \in keys
  OBVIOUS
<1> HIDE DEF keys, some
<1>5. /\ Cardinality(keys \ {Count!KeyOf(f, t)}) = Cardinality(keys) - 1
      /\ IsFiniteSet(keys \ {Count!KeyOf(f, t)})
      /\ Cardinality(keys) \in Nat
  BY <1>2, <1>4, FS_RemoveElement, FS_CardinalityType
<1>6. /\ Cardinality(some) <= Cardinality(keys \ {Count!KeyOf(f, t)}) /\ IsFiniteSet(some)
      /\ Cardinality(some) \in Nat
  BY <1>3, <1>5, FS_Subset, FS_CardinalityType
<1> QED BY <1>1, <1>5, <1>6 DEF some

LEMMA CountRecordStep ==
  ASSUME max_size \in Int, CountHolds, Count!Record
  PROVE  CountHolds'
<1> DEFINE known(f) == hash[f] \subseteq filter
           isNew(f) == Count!NewFlowKey(f, known(f))
<1>1. PICK f \in Flows :
        /\ filter' = Count!set(hash[f]) /\ seen' = Append(seen, f)
        /\ tables' = [t \in counted |->
                        Count!UpdateCountMap(tables[t], Count!KeyOf(f, t), Count!Default(t), isNew(f))]
  BY DEF Count!Record, Count!testBeforeInsert, Count!test
<1>2. counted' = counted /\ hash' = hash
  BY DEF Count!Record, Count!config
<1>3. isNew(f) \in BOOLEAN
  BY DEF Count!NewFlowKey
<1>4. /\ hash \in [Flows -> SUBSET (0 .. filter_size - 1)] /\ seen \in Seq(Flows)
      /\ filter = BitsOf(seen, hash)
  BY DEF CountHolds
<1>5. filter' = BitsOf(seen', hash)
  <2>1. BitsOf(seen', hash) = BitsOf(seen, hash) \cup hash[f]
    BY <1>1, <1>4, BitsGrow
  <2> QED BY <1>1, <1>4, <2>1 DEF Count!set
<1>6. seen' \in Seq(Flows) /\ Len(seen') = Len(seen) + 1 /\ Len(seen) \in Nat
  BY <1>1, <1>4
<1> HIDE DEF isNew
<1>7. ASSUME NEW t \in counted
      PROVE  CounterMap(tables'[t]) /\ PacketsOf(tables'[t]) = Len(seen')
  <2>1. CounterMap(tables[t]) /\ PacketsOf(tables[t]) = Len(seen)
    BY DEF CountHolds
  <2>2. tables'[t] = Count!UpdateCountMap(tables[t], Count!KeyOf(f, t), Count!Default(t), isNew(f))
    BY <1>1
  <2> QED BY <1>3, <1>6, <2>1, <2>2, UpdateSum
<1>8. ASSUME Count!NeverFull, NEW t \in counted, NEW k
      PROVE  ExactEntry(tables'[t], t, seen', hash, k)
  <2>1. CounterMap(tables[t]) /\ ExactEntry(tables[t], t, seen, hash, k)
    BY <1>8 DEF CountHolds
  <2>2. tables'[t] = Count!UpdateCountMap(tables[t], Count!KeyOf(f, t), Count!Default(t), isNew(f))
    BY <1>1
  <2>3. PICK at : /\ Takes(tables[t], tables'[t], at, isNew(f))
                  /\ at = Count!KeyOf(f, t) \/ ~(\/ Count!KeyOf(f, t) \in DOMAIN tables[t]
                                                 \/ Cardinality(DOMAIN tables[t]) < max_size - 1)
    BY <1>3, <2>1, <2>2, UpdateMap
  <2>4. at = Count!KeyOf(f, t)
    BY <1>8, <2>3, RoomForKey
  <2>5. isNew(f) => \A i \in DOMAIN seen : seen[i] # f
    <3> SUFFICES ASSUME NEW i \in DOMAIN seen, seen[i] = f PROVE ~isNew(f)
      OBVIOUS
    <3>1. known(f)
      BY <1>4 DEF BitsOf
    <3>2. \A u \in counted : Count!KeyOf(f, u) \in DOMAIN tables[u]
      <4> TAKE u \in counted
      <4>1. ExactEntry(tables[u], u, seen, hash, Count!KeyOf(f, u))
        BY <1>8 DEF CountHolds
      <4>2. f \in FlowsIn(seen, u, Count!KeyOf(f, u))
        BY DEF FlowsIn
      <4> QED BY <4>1, <4>2 DEF ExactEntry
    <3> QED BY <3>1, <3>2 DEF isNew, Count!NewFlowKey
  <2>6. ~isNew(f) => hash[f] \subseteq BitsOf(seen, hash)
    BY <1>4 DEF isNew, Count!NewFlowKey
  <2> QED BY <1>1, <1>3, <1>4, <2>1, <2>3, <2>4, <2>5, <2>6, EntryStaysExact
<1>9. Count!NeverFull' => Count!NeverFull
  BY <1>2 DEF Count!NeverFull
<1>10. tables' = [t \in counted' |-> tables'[t]]
  BY <1>1, <1>2
<1>11. \A t \in counted' : CounterMap(tables'[t]) /\ PacketsOf(tables'[t]) = Len(seen')
  BY <1>2, <1>7
<1>12. Count!NeverFull' => \A t \in counted' : \A k : ExactEntry(tables'[t], t, seen', hash', k)
  BY <1>2, <1>8, <1>9
<1>13. (filter = BitsOf(seen, hash))'
  BY <1>2, <1>5 DEF BitsOf
<1>14. (\A t \in counted : CounterMap(tables[t]) /\ PacketsOf(tables[t]) = Len(seen))'
  BY <1>11 DEF CounterMap, PacketsOf
<1>15. (Count!NeverFull => \A t \in counted : \A k : ExactEntry(tables[t], t, seen, hash, k))'
  BY <1>12 DEF ExactEntry, FlowsIn, PacketsIn, BitsBut
<1> QED BY <1>2, <1>4, <1>6, <1>10, <1>13, <1>14, <1>15 DEF CountHolds

LEMMA CountNext ==
  ASSUME max_size \in Int
  PROVE  CountInv /\ [SideNext]_sideVars => CountInv'
<1> SUFFICES ASSUME CountInv, [SideNext]_sideVars, component' = "count" PROVE CountHolds'
  BY DEF CountInv
<1>1. component = "count" /\ CountHolds
  BY DEF CountInv, SideNext, sideVars
<1>2. Count!Next \/ UNCHANGED CountVars
  BY <1>1 DEF SideNext, sideVars
<1>3. CASE UNCHANGED CountVars
  <2>1. UNCHANGED <<counted, hash, filter, tables, seen>>
    BY <1>3 DEF CountVars
  <2>2. (\A t \in counted : CounterMap(tables[t]) /\ PacketsOf(tables[t]) = Len(seen))'
    BY <1>1, <2>1 DEF CountHolds, CounterMap, PacketsOf
  <2>3. (Count!NeverFull => \A t \in counted : \A k : ExactEntry(tables[t], t, seen, hash, k))'
    <3>1. Count!NeverFull' => Count!NeverFull
      BY <2>1 DEF Count!NeverFull
    <3>2. Count!NeverFull' => \A t \in counted' : \A k : ExactEntry(tables'[t], t, seen', hash', k)
      BY <1>1, <2>1, <3>1 DEF CountHolds
    <3> QED BY <3>2 DEF ExactEntry, FlowsIn, PacketsIn, BitsBut
  <2>4. (filter = BitsOf(seen, hash))'
    BY <1>1, <2>1 DEF CountHolds, BitsOf
  <2> QED BY <1>1, <2>1, <2>2, <2>3, <2>4 DEF CountHolds
<1>4. CASE Count!Record
  BY <1>1, <1>4, CountRecordStep
<1>5. CASE Count!Test
  <2>1. /\ hash' \in [Flows -> SUBSET (0 .. filter_size - 1)] /\ seen' = <<>> /\ filter' = {}
        /\ tables' = [t \in counted' |-> <<>>]
    BY <1>1, <1>5 DEF CountHolds, Count!Test, Count!config, Count!cleared, Count!NewTables
  <2> QED BY <2>1, NewStorageHolds
<1> QED BY <1>2, <1>3, <1>4, <1>5 DEF Count!Next

LEMMA SameFlows ==
  /\ \A t, k : Count!PacketsOf(t, k) = PacketsIn(seen, t, k)
  /\ \A t, k : Count!FlowsOf(t, k) = FlowsIn(seen, t, k)
<1>1. \A t, k : Count!PacketsOf(t, k) = PacketsIn(seen, t, k)
  BY CountCardinality DEF Count!PacketsOf, PacketsIn
<1>2. \A t, k : Count!FlowsOf(t, k) = FlowsIn(seen, t, k)
  BY DEF Count!FlowsOf, FlowsIn
<1> QED BY <1>1, <1>2

LEMMA PacketsOfMet ==
  ASSUME CountHolds, NEW t, NEW k
  PROVE  PacketsIn(seen, t, k) \in Nat /\ (PacketsIn(seen, t, k) = 0 <=> FlowsIn(seen, t, k) = {})
<1>1. seen \in Seq(Flows)
  BY DEF CountHolds
<1>2. PICK f : f \in Flows
  BY DEF Flows
<1> QED BY <1>1, <1>2, PacketsOne

\* CountsAreExact: no packet is lost, whichever tables are full; and in tables
\* with room for all keys, each key has all its packets and no flow twice, and a
\* flow is missed only if others of the interval have set all its bits in the
\* Bloom filter: for every size of the filter, every choice of hash functions and
\* of tables (CountStore::recordEnd, updateIpCountMap, BloomFilter::testBeforeInsert).
THEOREM CountTablesAreExact ==
  ASSUME max_size \in Int
  PROVE  SideSpec => []CountsAreExact
<1>1. CountInv => CountsAreExact
  <2> SUFFICES ASSUME CountInv, component = "count" PROVE Count!CountsAreExact
    BY DEF CountsAreExact
  <2>1. CountHolds
    BY DEF CountInv
  <2>2. ASSUME NEW t \in counted PROVE Count!PacketsAreKept(t)
    <3> DEFINE packetsOf == [k \in DOMAIN tables[t] |-> tables[t][k].packets]
    <3>1. PacketsOf(tables[t]) = SumFunctionOnSet(packetsOf, DOMAIN packetsOf)
      BY DEF PacketsOf
    <3>2. Count!SumFunction(packetsOf) = SumFunctionOnSet(packetsOf, DOMAIN packetsOf)
      BY CountSum
    <3>3. PacketsOf(tables[t]) = Len(seen)
      BY <2>1 DEF CountHolds
    <3> QED BY <3>1, <3>2, <3>3 DEF Count!PacketsAreKept
  <2>3. ASSUME Count!NeverFull, NEW t \in counted, NEW k, Count!PacketsOf(t, k) = 0
        PROVE  k \notin DOMAIN tables[t]
    <3>1. ExactEntry(tables[t], t, seen, hash, k)
      BY <2>1, <2>3 DEF CountHolds
    <3> QED BY <2>1, <2>3, <3>1, SameFlows, PacketsOfMet DEF ExactEntry
  <2>4. ASSUME Count!NeverFull, NEW t \in counted, NEW k, Count!PacketsOf(t, k) # 0
        PROVE  /\ tables[t][k].packets = Count!PacketsOf(t, k)
               /\ tables[t][k].flows <= Count!Cardinality(Count!FlowsOf(t, k))
               /\ \/ tables[t][k].flows = Count!Cardinality(Count!FlowsOf(t, k))
                  \/ \E f \in Count!FlowsOf(t, k) : hash[f] \subseteq
                       UNION {hash[seen[i]] : i \in {j \in DOMAIN seen : seen[j] # f}}
    <3>1. ExactEntry(tables[t], t, seen, hash, k)
      BY <2>1, <2>4 DEF CountHolds
    <3>2. k \in DOMAIN tables[t]
      BY <2>1, <2>4, <3>1, SameFlows, PacketsOfMet DEF ExactEntry
    <3>3. /\ tables[t][k].packets = PacketsIn(seen, t, k)
          /\ tables[t][k].flows <= Cardinality(FlowsIn(seen, t, k))
          /\ \/ tables[t][k].flows = Cardinality(FlowsIn(seen, t, k))
             \/ \E f \in FlowsIn(seen, t, k) : hash[f] \subseteq BitsBut(seen, hash, f)
      BY <3>1, <3>2 DEF ExactEntry
    <3> QED BY <3>3, SameFlows, CountCardinality DEF BitsBut
  <2> QED BY <2>2, <2>3, <2>4 DEF Count!CountsAreExact
<1> QED BY CountInit, CountNext, <1>1, PTL DEF SideSpec

\* ReportedIfLoud: a test reports each key whose packets have reached the packet
\* threshold since the last test, if no table is ever full, whatever the other
\* threshold says (CountModule::test, checkThresholds).
THEOREM LoudKeysAreReported ==
  ASSUME max_size \in Int
  PROVE  SideSpec => ReportedIfLoud
<1>1. CountInv /\ [SideNext]_sideVars => (component = "count" => Count!LoudAreReported)
  <2> SUFFICES ASSUME CountInv, [SideNext]_sideVars, component = "count",
                      Count!NeverFull, seen' = <<>>, seen # <<>>,
                      NEW t \in counted, NEW k \in {Count!KeyOf(seen[i], t) : i \in DOMAIN seen},
                      Count!PacketsOf(t, k) >= packetThreshold
               PROVE  <<t, k>> \in report'
    BY DEF Count!LoudAreReported
  <2>1. CountHolds
    BY DEF CountInv
  <2>2. Count!Test
    <3>1. Count!Next \/ UNCHANGED CountVars
      BY DEF SideNext, sideVars
    <3>2. ~UNCHANGED CountVars
      BY DEF CountVars
    <3>3. ~Count!Record
      <4> SUFFICES ASSUME Count!Record PROVE FALSE
        OBVIOUS
      <4>1. PICK f \in Flows : seen' = Append(seen, f)
        BY DEF Count!Record
      <4>2. Len(Append(seen, f)) = Len(seen) + 1 /\ Len(seen) \in Nat
        BY <2>1 DEF CountHolds
      <4> QED BY <4>1, <4>2
    <3> QED BY <3>1, <3>2, <3>3 DEF Count!Next
  <2>3. k \in DOMAIN tables[t] /\ tables[t][k].packets = Count!PacketsOf(t, k)
    <3>1. ExactEntry(tables[t], t, seen, hash, k)
      BY <2>1 DEF CountHolds
    <3>2. FlowsIn(seen, t, k) # {}
      BY DEF FlowsIn
    <3> QED BY <3>1, <3>2, SameFlows DEF ExactEntry
  <2>4. Count!checkThresholds(tables[t][k])
    BY <2>3 DEF Count!checkThresholds
  <2>5. <<t, k>> \in UNION {{u} \X DOMAIN tables[u] : u \in counted}
    BY <2>3
  <2> QED BY <2>2, <2>4, <2>5 DEF Count!Test
<1>2. CountInv /\ [SideNext]_sideVars => [component = "count" => Count!LoudAreReported]_sideVars
  BY <1>1
<1> QED BY CountInit, CountNext, <1>2, PTL DEF SideSpec, ReportedIfLoud
-----------------------------------------------------------------------------
(* The tests' samples: sorted sequences, of which the loops have taken all *)
(* but the rest.                                                           *)

LEMMA RanksCardinality == \A S : Ranks!Cardinality(S) = Cardinality(S)
  BY DEF Ranks!Cardinality, Cardinality

Sorted(s) ==
  /\ s \in Seq(Int)
  /\ \A i, j \in 1 .. Len(s) : i <= j => s[i] <= s[j]

\* r is what is left of s; Taken items have gone.
RestOf(r, s) ==
  /\ r \in Seq(Int) /\ Len(r) <= Len(s)
  /\ \A i \in 1 .. Len(r) : r[i] = s[Len(s) - Len(r) + i]
Taken(r, s) == Len(s) - Len(r)

\* What has been taken of s is less than what is left in q.
Less(r, s, q) ==
  \A i \in 1 .. Taken(r, s), k \in 1 .. Len(q) : s[i] < q[k]

\* A set of naturals that is closed downwards is an interval.
LEMMA DownwardsClosed ==
  ASSUME NEW n \in Nat, NEW T, T \subseteq 1 .. n,
         \A i \in T : \A k \in 1 .. i : k \in T
  PROVE  /\ Cardinality(T) \in 0 .. n
         /\ \A i \in 1 .. n : i \in T <=> i <= Cardinality(T)
<1> DEFINE Above == {m \in Nat : \A i \in T : i <= m}
<1>1. n \in Above
  OBVIOUS
<1>2. PICK m \in Above : \A k \in Above : m <= k
  BY <1>1, LeastNatural
<1>3. m <= n /\ m \in Nat
  BY <1>1, <1>2
<1>4. T = 1 .. m
  <2>1. CASE m = 0
    BY <2>1
  <2>2. CASE m # 0
    <3>1. m - 1 \in Nat /\ m - 1 \notin Above
      BY <2>2, <1>2
    <3>2. m \in T
      BY <3>1, <1>3
    <3>3. T \subseteq 1 .. m
      BY <1>2
    <3> QED BY <3>2, <3>3
  <2> QED BY <2>1, <2>2
<1>5. Cardinality(1 .. m) = m
  BY <1>3, FS_Interval
<1> QED BY <1>3, <1>4, <1>5

LEMMA SortedBounds ==
  ASSUME NEW s, Sorted(s), NEW v \in Int
  PROVE  /\ Ranks!Below(v, s) \in 0 .. Len(s)
         /\ \A i \in 1 .. Len(s) : s[i] < v <=> i <= Ranks!Below(v, s)
         /\ Ranks!UpTo(v, s) \in 0 .. Len(s)
         /\ \A i \in 1 .. Len(s) : s[i] <= v <=> i <= Ranks!UpTo(v, s)
<1> DEFINE Lower == {i \in DOMAIN s : s[i] < v}
           Upper == {i \in DOMAIN s : s[i] <= v}
<1>1. /\ Len(s) \in Nat /\ DOMAIN s = 1 .. Len(s)
      /\ \A i \in 1 .. Len(s) : s[i] \in Int
      /\ \A i, j \in 1 .. Len(s) : i <= j => s[i] <= s[j]
  BY DEF Sorted
<1>2. Lower \subseteq 1 .. Len(s) /\ \A i \in Lower : \A k \in 1 .. i : k \in Lower
  BY <1>1
<1>3. Upper \subseteq 1 .. Len(s) /\ \A i \in Upper : \A k \in 1 .. i : k \in Upper
  BY <1>1
<1>4. Cardinality(Lower) = Ranks!Below(v, s) /\ Cardinality(Upper) = Ranks!UpTo(v, s)
  BY RanksCardinality DEF Ranks!Below, Ranks!UpTo
<1>5. \A i \in 1 .. Len(s) : (i \in Lower <=> s[i] < v) /\ (i \in Upper <=> s[i] <= v)
  BY <1>1
<1> HIDE DEF Lower, Upper
<1>6. /\ Cardinality(Lower) \in 0 .. Len(s)
      /\ \A i \in 1 .. Len(s) : i \in Lower <=> i <= Cardinality(Lower)
  BY <1>1, <1>2, DownwardsClosed
<1>7. /\ Cardinality(Upper) \in 0 .. Len(s)
      /\ \A i \in 1 .. Len(s) : i \in Upper <=> i <= Cardinality(Upper)
  BY <1>1, <1>3, DownwardsClosed
<1> QED BY <1>4, <1>5, <1>6, <1>7

\* The loop over the items that equal the least one takes a leading block.
LEMMA TimesBlock ==
  ASSUME NEW s, Sorted(s), NEW r, RestOf(r, s), NEW v \in Int,
         \A i \in 1 .. Len(r) : v <= r[i]
  PROVE  /\ Ranks!Times(v, r) \in 0 .. Len(r)
         /\ \A i \in 1 .. Len(r) : r[i] = v <=> i <= Ranks!Times(v, r)
<1> DEFINE Equal == {i \in DOMAIN r : r[i] = v}
<1>1. /\ Len(r) \in Nat /\ DOMAIN r = 1 .. Len(r)
      /\ \A i \in 1 .. Len(r) : r[i] \in Int
      /\ \A i, j \in 1 .. Len(r) : i <= j => r[i] <= r[j]
  <2>1. /\ Len(r) \in Nat /\ Len(s) \in Nat /\ Len(r) <= Len(s) /\ DOMAIN r = 1 .. Len(r)
        /\ \A i \in 1 .. Len(r) : r[i] \in Int
    BY DEF Sorted, RestOf
  <2>2. ASSUME NEW i \in 1 .. Len(r), NEW j \in 1 .. Len(r), i <= j
        PROVE  r[i] <= r[j]
    <3>1. /\ Len(s) - Len(r) + i \in 1 .. Len(s) /\ Len(s) - Len(r) + j \in 1 .. Len(s)
          /\ Len(s) - Len(r) + i <= Len(s) - Len(r) + j
      BY <2>1, <2>2
    <3>2. s[Len(s) - Len(r) + i] <= s[Len(s) - Len(r) + j]
      BY <3>1 DEF Sorted
    <3> QED BY <3>2 DEF RestOf
  <2> QED BY <2>1, <2>2
<1>2. Equal \subseteq 1 .. Len(r) /\ \A i \in Equal : \A k \in 1 .. i : k \in Equal
  BY <1>1
<1>3. Cardinality(Equal) = Ranks!Times(v, r)
  BY RanksCardinality DEF Ranks!Times
<1>4. \A i \in 1 .. Len(r) : i \in Equal <=> r[i] = v
  BY <1>1
<1> HIDE DEF Equal
<1>5. /\ Cardinality(Equal) \in 0 .. Len(r)
      /\ \A i \in 1 .. Len(r) : i \in Equal <=> i <= Cardinality(Equal)
  BY <1>1, <1>2, DownwardsClosed
<1> QED BY <1>3, <1>4, <1>5

LEMMA DropRest ==
  ASSUME NEW s, Sorted(s), NEW r, RestOf(r, s), NEW k \in 0 .. Len(r)
  PROVE  /\ RestOf(Ranks!Drop(r, k), s)
         /\ Len(Ranks!Drop(r, k)) = Len(r) - k
         /\ \A i \in 1 .. Len(r) - k : Ranks!Drop(r, k)[i] = r[k + i]
<1>1. /\ Len(r) \in Nat /\ Len(s) \in Nat
      /\ \A i \in k + 1 .. Len(r) : r[i] \in Int
  BY DEF RestOf, Sorted
<1>2. /\ SubSeq(r, k + 1, Len(r)) \in Seq(Int)
      /\ Len(SubSeq(r, k + 1, Len(r))) = IF k + 1 <= Len(r) THEN Len(r) - (k + 1) + 1 ELSE 0
      /\ \A i \in 1 .. Len(r) - (k + 1) + 1 : SubSeq(r, k + 1, Len(r))[i] = r[k + 1 + i - 1]
  BY <1>1, SubSeqProperties
<1>3. /\ Len(Ranks!Drop(r, k)) = Len(r) - k /\ Ranks!Drop(r, k) \in Seq(Int)
      /\ \A i \in 1 .. Len(r) - k : Ranks!Drop(r, k)[i] = r[k + i]
  BY <1>1, <1>2 DEF Ranks!Drop
<1>4. \A i \in 1 .. Len(r) - k : r[k + i] = s[Len(s) - Len(r) + (k + i)]
  BY <1>1 DEF RestOf
<1>5. \A i \in 1 .. Len(r) - k : Len(s) - Len(r) + (k + i) = Len(s) - (Len(r) - k) + i
  BY <1>1
<1> QED BY <1>1, <1>3, <1>4, <1>5 DEF RestOf

LEMMA TailRest ==
  ASSUME NEW s, Sorted(s), NEW r, RestOf(r, s), r # <<>>
  PROVE  /\ RestOf(Tail(r), s)
         /\ Len(r) \in Nat \ {0} /\ Len(Tail(r)) = Len(r) - 1
         /\ \A i \in 1 .. Len(r) - 1 : Tail(r)[i] = r[1 + i]
         /\ Head(r) = r[1] /\ r[1] \in Int
<1>1. r \in Seq(Int) /\ Len(r) \in Nat \ {0} /\ Len(s) \in Nat
  BY EmptySeq DEF RestOf, Sorted
<1>2. /\ Tail(r) \in Seq(Int) /\ Len(Tail(r)) = Len(r) - 1
      /\ \A i \in 1 .. Len(Tail(r)) : Tail(r)[i] = r[i + 1]
  BY <1>1, HeadTailProperties
<1>3. \A i \in 1 .. Len(r) - 1 : Tail(r)[i] = r[1 + i]
  BY <1>1, <1>2
<1>4. \A i \in 1 .. Len(r) - 1 : r[1 + i] = s[Len(s) - (Len(r) - 1) + i]
  BY <1>1 DEF RestOf
<1> QED BY <1>1, <1>2, <1>3, <1>4 DEF RestOf

LEMMA RestFacts ==
  ASSUME NEW s, Sorted(s), NEW r, RestOf(r, s)
  PROVE  /\ Len(r) \in Nat /\ Len(s) \in Nat /\ Taken(r, s) \in Nat
         /\ Taken(r, s) + Len(r) = Len(s)
         /\ \A i \in 1 .. Len(r) : r[i] = s[Taken(r, s) + i] /\ r[i] \in Int
         /\ \A i \in 1 .. Len(s) : s[i] \in Int
  BY DEF Sorted, RestOf, Taken
-----------------------------------------------------------------------------
(* Pearson's categories. *)

LEMMA UpToIsTaken ==
  ASSUME NEW s, Sorted(s), NEW r, RestOf(r, s), NEW v \in Int,
         \A i \in 1 .. Taken(r, s) : s[i] <= v,
         \A i \in 1 .. Len(r) : v < r[i]
  PROVE  Ranks!UpTo(v, s) = Taken(r, s)
<1> DEFINE a == Taken(r, s)
           b == Ranks!UpTo(v, s)
<1>1. /\ Len(r) \in Nat /\ Len(s) \in Nat /\ a \in 0 .. Len(s) /\ a + Len(r) = Len(s)
      /\ \A i \in 1 .. Len(r) : r[i] = s[a + i]
      /\ \A i \in 1 .. Len(s) : s[i] \in Int
  BY DEF Sorted, RestOf, Taken
<1>2. b \in 0 .. Len(s) /\ \A i \in 1 .. Len(s) : s[i] <= v <=> i <= b
  BY SortedBounds
<1> HIDE DEF a, b
<1>3. \A i \in 1 .. a : s[i] <= v
  BY DEF a
<1>4. a <= b
  <2>1. CASE a = 0
    BY <2>1, <1>2
  <2>2. CASE a # 0
    <3>1. a \in 1 .. Len(s) /\ a \in 1 .. a
      BY <2>2, <1>1
    <3> QED BY <3>1, <1>2, <1>3
  <2> QED BY <2>1, <2>2
<1>5. ~(a < b)
  <2> SUFFICES ASSUME a < b PROVE FALSE
    OBVIOUS
  <2>1. a + 1 \in 1 .. Len(s) /\ a + 1 <= b /\ 1 \in 1 .. Len(r)
    BY <1>1, <1>2
  <2>2. s[a + 1] <= v /\ v < r[1] /\ r[1] = s[a + 1] /\ s[a + 1] \in Int
    BY <2>1, <1>1, <1>2
  <2> QED BY <2>2
<1>6. a \in Int /\ b \in Int
  BY <1>1, <1>2
<1> QED BY <1>4, <1>5, <1>6 DEF a, b

\* The least value that is left is taken wherever it stands.
LEMMA TakeLeast ==
  ASSUME NEW s, Sorted(s), NEW r, RestOf(r, s), NEW v \in Int,
         \A i \in 1 .. Len(r) : v <= r[i],
         \A i \in 1 .. Taken(r, s) : s[i] < v
  PROVE  LET t == Ranks!Times(v, r)
             q == Ranks!Drop(r, t)
         IN /\ t \in 0 .. Len(r) /\ RestOf(q, s) /\ Len(q) = Len(r) - t
            /\ \A i \in 1 .. Taken(q, s) : s[i] <= v
            /\ \A i \in 1 .. Len(q) : v < q[i]
            /\ Ranks!UpTo(v, s) = Taken(q, s)
<1> DEFINE t == Ranks!Times(v, r)
           q == Ranks!Drop(r, t)
           a == Taken(r, s)
<1>1. /\ t \in 0 .. Len(r)
      /\ \A i \in 1 .. Len(r) : r[i] = v <=> i <= t
  BY TimesBlock
<1> HIDE DEF t
<1>2. RestOf(q, s) /\ Len(q) = Len(r) - t /\ \A i \in 1 .. Len(r) - t : q[i] = r[t + i]
  BY <1>1, DropRest
<1> HIDE DEF q
<1>3. /\ Len(r) \in Nat /\ Len(s) \in Nat /\ Len(r) <= Len(s)
      /\ \A i \in 1 .. Len(r) : r[i] \in Int /\ r[i] = s[a + i]
      /\ \A i \in 1 .. Len(s) : s[i] \in Int
  BY DEF Sorted, RestOf, Taken
<1>4. a \in Nat /\ a + Len(r) = Len(s) /\ Taken(q, s) = a + t
  BY <1>1, <1>2, <1>3 DEF Taken
<1>5. \A i \in 1 .. Len(q) : v < q[i]
  <2> SUFFICES ASSUME NEW i \in 1 .. Len(q) PROVE v < q[i]
    OBVIOUS
  <2>1. t + i \in 1 .. Len(r) /\ ~(t + i <= t)
    BY <1>1, <1>2, <1>3
  <2>2. r[t + i] # v /\ v <= r[t + i] /\ r[t + i] \in Int
    BY <2>1, <1>1, <1>3
  <2> QED BY <2>2, <1>2
<1>6. \A i \in 1 .. a + t : s[i] <= v
  <2> SUFFICES ASSUME NEW i \in 1 .. a + t PROVE s[i] <= v
    OBVIOUS
  <2>1. CASE i \in 1 .. a
    <3>1. s[i] < v /\ s[i] \in Int
      BY <2>1, <1>3, <1>4
    <3> QED BY <3>1
  <2>2. CASE i \notin 1 .. a
    <3>1. i - a \in 1 .. Len(r) /\ i - a <= t /\ a + (i - a) = i
      BY <2>2, <1>1, <1>3, <1>4
    <3>2. r[i - a] = v /\ r[i - a] = s[i]
      BY <3>1, <1>1, <1>3
    <3> QED BY <3>2
  <2> QED BY <2>1, <2>2
<1>7. Ranks!UpTo(v, s) = a + t
  BY <1>2, <1>4, <1>5, <1>6, UpToIsTaken
<1> QED BY <1>1, <1>2, <1>4, <1>5, <1>6, <1>7 DEF t, q

\* The items that the first k categories hold of the j-th sample.
HeldIn(c, k, j) == SumFunctionOnSet([i \in 1 .. k |-> c[i][j]], 1 .. k)

LEMMA RanksSum == \A f : Ranks!SumFunction(f) = SumFunctionOnSet(f, DOMAIN f)
  BY DEF Ranks!SumFunction, Ranks!SumFunctionOnSet, Ranks!FoldFunctionOnSet,
         Ranks!MapThenFoldSet, SumFunctionOnSet, FoldFunctionOnSet, MapThenFoldSet

LEMMA HeldInAppend ==
  ASSUME NEW c \in Seq(Nat \X Nat), NEW e \in Nat \X Nat, NEW j \in {1, 2}
  PROVE  /\ HeldIn(c, Len(c), j) \in Int
         /\ HeldIn(Append(c, e), Len(c) + 1, j) = HeldIn(c, Len(c), j) + e[j]
         /\ \A k \in 1 .. Len(c) : HeldIn(Append(c, e), k, j) = HeldIn(c, k, j)
<1> DEFINE b == Append(c, e)
<1>1. /\ Len(c) \in Nat /\ b[Len(c) + 1] = e
      /\ \A i \in 1 .. Len(c) : b[i] = c[i] /\ c[i] \in Nat \X Nat
  BY AppendProperties
<1>2. e[j] \in Int /\ \A i \in 1 .. Len(c) : c[i][j] \in Int
  BY <1>1
<1> HIDE DEF b
<1>3. ASSUME NEW k \in 1 .. Len(c) PROVE HeldIn(b, k, j) = HeldIn(c, k, j)
  <2>1. \A i \in 1 .. k : b[i] = c[i]
    BY <1>1
  <2>2. [i \in 1 .. k |-> b[i][j]] = [i \in 1 .. k |-> c[i][j]]
    BY <2>1, Zenon
  <2> QED BY <2>2 DEF HeldIn
<1>4. HeldIn(c, Len(c), j) \in Int
  <2> DEFINE f == [i \in 1 .. Len(c) |-> c[i][j]]
  <2>1. IsFiniteSet(1 .. Len(c)) /\ \A x \in 1 .. Len(c) : f[x] \in Int
    BY <1>1, <1>2, FS_Interval
  <2> HIDE DEF f
  <2>2. SumFunctionOnSet(f, 1 .. Len(c)) \in Int
    BY <2>1, SumType
  <2> QED BY <2>2 DEF HeldIn, f
<1>5. PICK n \in Nat : n = Len(c)
  BY <1>1
<1>6. HeldIn(b, n + 1, j) = HeldIn(c, n, j) + e[j]
  <2> DEFINE f == [i \in 1 .. n |-> c[i][j]]
             g == [i \in 1 .. n + 1 |-> b[i][j]]
  <2>1. IsFiniteSet(1 .. n)
    BY FS_Interval
  <2>2. n + 1 \notin 1 .. n /\ 1 .. n + 1 = (1 .. n) \cup {n + 1}
    OBVIOUS
  <2>3. \A x \in 1 .. n : f[x] = g[x] /\ f[x] \in Int
    BY <1>1, <1>2, <1>5
  <2>4. g[n + 1] = e[j]
    BY <1>1, <1>5
  <2> HIDE DEF f, g
  <2>5. \A x \in (1 .. n) \cup {n + 1} : g[x] \in Int
    BY <2>2, <2>3, <2>4, <1>2
  <2>6. /\ SumFunctionOnSet(g, 1 .. n) \in Int
        /\ SumFunctionOnSet(g, (1 .. n) \cup {n + 1}) = g[n + 1] + SumFunctionOnSet(g, 1 .. n)
    BY <2>1, <2>2, <2>5, SumAdd
  <2>7. SumFunctionOnSet(f, 1 .. n) = SumFunctionOnSet(g, 1 .. n)
    BY <2>1, <2>3, SumEqual
  <2>8. SumFunctionOnSet(g, 1 .. n + 1) = e[j] + SumFunctionOnSet(f, 1 .. n)
    BY <2>2, <2>4, <2>6, <2>7
  <2>9. SumFunctionOnSet(f, 1 .. n) \in Int
    BY <2>6, <2>7
  <2> QED BY <2>8, <2>9, <1>2 DEF HeldIn, f, g
<1> QED BY <1>3, <1>4, <1>5, <1>6 DEF b

\* Of the first m categories: all hold enough, and none ends within a value.
DividedOf(s, o, c, m) ==
  \A k \in 1 .. m :
    /\ Len(s) * (c[k][1] + c[k][2]) >= Expected * (Len(s) + Len(o))
    /\ Len(o) * (c[k][1] + c[k][2]) >= Expected * (Len(s) + Len(o))
    /\ \E v \in Ranks!Range(s) \cup Ranks!Range(o) :
         HeldIn(c, k, 1) = Ranks!UpTo(v, s) /\ HeldIn(c, k, 2) = Ranks!UpTo(v, o)

Parted(r, s, q, o) == Less(r, s, r) /\ Less(r, s, q) /\ Less(q, o, q) /\ Less(q, o, r)

\* What the categories and the current one hold has been taken.
PcsHolds ==
  /\ RestOf(rest1, sample1) /\ RestOf(rest2, sample2)
  /\ Parted(rest1, sample1, rest2, sample2)
  /\ n1 \in Nat /\ n2 \in Nat /\ categories \in Seq(Nat \X Nat)
  /\ HeldIn(categories, Len(categories), 1) + n1 = Taken(rest1, sample1)
  /\ HeldIn(categories, Len(categories), 2) + n2 = Taken(rest2, sample2)
  /\ DividedOf(sample1, sample2, categories, Len(categories))

PcsDone ==
  /\ categories \in Seq(Nat \X Nat)
  /\ HeldIn(categories, Len(categories), 1) = Len(sample1)
  /\ HeldIn(categories, Len(categories), 2) = Len(sample2)
  /\ DividedOf(sample1, sample2, categories, Len(categories) - 1)

LEMMA DividedAppend ==
  ASSUME NEW s, NEW o, NEW c \in Seq(Nat \X Nat), NEW e \in Nat \X Nat,
         DividedOf(s, o, c, Len(c))
  PROVE  /\ DividedOf(s, o, Append(c, e), Len(c))
         /\ /\ Len(s) * (e[1] + e[2]) >= Expected * (Len(s) + Len(o))
            /\ Len(o) * (e[1] + e[2]) >= Expected * (Len(s) + Len(o))
            /\ \E v \in Ranks!Range(s) \cup Ranks!Range(o) :
                 /\ HeldIn(Append(c, e), Len(c) + 1, 1) = Ranks!UpTo(v, s)
                 /\ HeldIn(Append(c, e), Len(c) + 1, 2) = Ranks!UpTo(v, o)
            => DividedOf(s, o, Append(c, e), Len(c) + 1)
<1> DEFINE b == Append(c, e)
<1>1. /\ Len(c) \in Nat /\ b[Len(c) + 1] = e
      /\ \A i \in 1 .. Len(c) : b[i] = c[i]
  BY AppendProperties
<1>2. \A k \in 1 .. Len(c) : HeldIn(b, k, 1) = HeldIn(c, k, 1) /\ HeldIn(b, k, 2) = HeldIn(c, k, 2)
  BY HeldInAppend
<1> HIDE DEF b
<1>3. DividedOf(s, o, b, Len(c))
  BY <1>1, <1>2 DEF DividedOf
<1>4. ASSUME Len(s) * (e[1] + e[2]) >= Expected * (Len(s) + Len(o)),
             Len(o) * (e[1] + e[2]) >= Expected * (Len(s) + Len(o)),
             \E v \in Ranks!Range(s) \cup Ranks!Range(o) :
               /\ HeldIn(b, Len(c) + 1, 1) = Ranks!UpTo(v, s)
               /\ HeldIn(b, Len(c) + 1, 2) = Ranks!UpTo(v, o)
      PROVE  DividedOf(s, o, b, Len(c) + 1)
  <2>1. \A k \in 1 .. Len(c) + 1 : k \in 1 .. Len(c) \/ k = Len(c) + 1
    BY <1>1
  <2> QED BY <2>1, <1>1, <1>3, <1>4 DEF DividedOf
<1> QED BY <1>3, <1>4 DEF b

\* The head is the least that is left of its sample.
LEMMA HeadLeast ==
  ASSUME NEW s, Sorted(s), NEW r, RestOf(r, s), r # <<>>
  PROVE  /\ Len(r) \in Nat \ {0} /\ Head(r) = r[1] /\ r[1] \in Int
         /\ r[1] \in Ranks!Range(s)
         /\ \A i \in 1 .. Len(r) : r[1] <= r[i] /\ r[i] \in Int
<1>1. /\ Len(r) \in Nat \ {0} /\ Head(r) = r[1] /\ r[1] \in Int
  BY TailRest
<1>2. /\ Len(s) \in Nat /\ Len(r) <= Len(s) /\ DOMAIN s = 1 .. Len(s)
      /\ \A i \in 1 .. Len(r) : r[i] \in Int /\ r[i] = s[Len(s) - Len(r) + i]
  BY DEF RestOf, Sorted
<1>3. 1 \in 1 .. Len(r) /\ Len(s) - Len(r) + 1 \in 1 .. Len(s)
  BY <1>1, <1>2
<1>4. ASSUME NEW i \in 1 .. Len(r) PROVE r[1] <= r[i]
  <2>1. /\ Len(s) - Len(r) + i \in 1 .. Len(s)
        /\ Len(s) - Len(r) + 1 <= Len(s) - Len(r) + i
    BY <1>1, <1>2
  <2>2. s[Len(s) - Len(r) + 1] <= s[Len(s) - Len(r) + i]
    BY <2>1, <1>3 DEF Sorted
  <2> QED BY <2>2, <1>2, <1>3
<1>5. r[1] \in Ranks!Range(s)
  BY <1>2, <1>3 DEF Ranks!Range
<1> QED BY <1>1, <1>2, <1>4, <1>5

\* The lesser of both heads is the least value left of both samples.
LEMMA LeastHead ==
  ASSUME NEW s, Sorted(s), NEW o, Sorted(o), NEW r, RestOf(r, s), NEW q, RestOf(q, o),
         r # <<>>, q # <<>>
  PROVE  LET v == IF Head(r) < Head(q) THEN Head(r) ELSE Head(q)
         IN /\ v \in Int /\ v \in Ranks!Range(s) \cup Ranks!Range(o)
            /\ \A i \in 1 .. Len(r) : v <= r[i]
            /\ \A i \in 1 .. Len(q) : v <= q[i]
            /\ Parted(r, s, q, o) =>
                 /\ \A i \in 1 .. Taken(r, s) : s[i] < v
                 /\ \A i \in 1 .. Taken(q, o) : o[i] < v
<1>1. /\ Len(r) \in Nat \ {0} /\ Head(r) = r[1] /\ r[1] \in Int /\ r[1] \in Ranks!Range(s)
      /\ \A i \in 1 .. Len(r) : r[1] <= r[i] /\ r[i] \in Int
  BY HeadLeast
<1>2. /\ Len(q) \in Nat \ {0} /\ Head(q) = q[1] /\ q[1] \in Int /\ q[1] \in Ranks!Range(o)
      /\ \A i \in 1 .. Len(q) : q[1] <= q[i] /\ q[i] \in Int
  BY HeadLeast
<1> DEFINE v == IF Head(r) < Head(q) THEN Head(r) ELSE Head(q)
<1>5. v \in {r[1], q[1]} /\ v <= r[1] /\ v <= q[1]
  BY <1>1, <1>2
<1> HIDE DEF v
<1>6. v \in Int
  BY <1>1, <1>2, <1>5
<1>7. Parted(r, s, q, o) =>
        /\ \A i \in 1 .. Taken(r, s) : s[i] < v
        /\ \A i \in 1 .. Taken(q, o) : o[i] < v
  BY <1>1, <1>2, <1>5 DEF Parted, Less
<1>8. (\A i \in 1 .. Len(r) : v <= r[i]) /\ (\A i \in 1 .. Len(q) : v <= q[i])
  BY <1>1, <1>2, <1>5, <1>6
<1> QED BY <1>1, <1>2, <1>5, <1>6, <1>7, <1>8 DEF v

LEMMA PcsStep ==
  ASSUME Sorted(sample1), Sorted(sample2), PcsHolds, Ranks!PcsTake
  PROVE  \/ kind' = "pcs" /\ PcsHolds'
         \/ kind' = "done pcs" /\ PcsDone'
<1> DEFINE v  == IF Head(rest1) < Head(rest2) THEN Head(rest1) ELSE Head(rest2)
           t1 == Ranks!Times(v, rest1)
           t2 == Ranks!Times(v, rest2)
           r1 == Ranks!Drop(rest1, t1)
           r2 == Ranks!Drop(rest2, t2)
           e  == <<n1 + t1, n2 + t2>>
           d  == <<n1 + t1 + Len(r1), n2 + t2 + Len(r2)>>
           n  == Len(categories)
<1>1. /\ kind = "pcs" /\ rest1 # <<>> /\ rest2 # <<>>
      /\ rest1' = r1 /\ rest2' = r2
      /\ sample1' = sample1 /\ sample2' = sample2
  BY DEF Ranks!PcsTake, Ranks!Running, Ranks!samples
<1>2. \/ categories' = Append(categories, d) /\ kind' = "done pcs"
      \/ /\ Ranks!Enough(n1 + t1 + (n2 + t2))
         /\ categories' = Append(categories, e) /\ kind' = kind /\ n1' = 0 /\ n2' = 0
      \/ categories' = categories /\ kind' = kind /\ n1' = n1 + t1 /\ n2' = n2 + t2
  BY DEF Ranks!PcsTake
<1>3. /\ v \in Int /\ v \in Ranks!Range(sample1) \cup Ranks!Range(sample2)
      /\ \A i \in 1 .. Len(rest1) : v <= rest1[i]
      /\ \A i \in 1 .. Len(rest2) : v <= rest2[i]
      /\ \A i \in 1 .. Taken(rest1, sample1) : sample1[i] < v
      /\ \A i \in 1 .. Taken(rest2, sample2) : sample2[i] < v
  BY <1>1, LeastHead DEF PcsHolds
<1> HIDE DEF v
<1>4. /\ t1 \in 0 .. Len(rest1) /\ RestOf(r1, sample1) /\ Len(r1) = Len(rest1) - t1
      /\ \A i \in 1 .. Taken(r1, sample1) : sample1[i] <= v
      /\ \A i \in 1 .. Len(r1) : v < r1[i]
      /\ Ranks!UpTo(v, sample1) = Taken(r1, sample1)
  BY <1>3, TakeLeast DEF PcsHolds
<1>5. /\ t2 \in 0 .. Len(rest2) /\ RestOf(r2, sample2) /\ Len(r2) = Len(rest2) - t2
      /\ \A i \in 1 .. Taken(r2, sample2) : sample2[i] <= v
      /\ \A i \in 1 .. Len(r2) : v < r2[i]
      /\ Ranks!UpTo(v, sample2) = Taken(r2, sample2)
  BY <1>3, TakeLeast DEF PcsHolds
<1> HIDE DEF t1, t2, r1, r2
<1>6. /\ Len(sample1) \in Nat /\ Len(sample2) \in Nat /\ Len(rest1) \in Nat /\ Len(rest2) \in Nat
      /\ Len(r1) \in Nat /\ Len(r2) \in Nat /\ t1 \in Nat /\ t2 \in Nat
      /\ Len(rest1) <= Len(sample1) /\ Len(rest2) <= Len(sample2)
  BY <1>4, <1>5, SMTT(40) DEF Sorted, RestOf, PcsHolds
<1>7. Parted(r1, sample1, r2, sample2)
  <2>1. /\ \A i \in 1 .. Taken(r1, sample1) : sample1[i] \in Int
        /\ \A i \in 1 .. Taken(r2, sample2) : sample2[i] \in Int
    BY <1>4, <1>5, <1>6, SMTT(40) DEF Sorted, Taken
  <2>2. (\A i \in 1 .. Len(r1) : r1[i] \in Int) /\ (\A i \in 1 .. Len(r2) : r2[i] \in Int)
    BY <1>4, <1>5, SMTT(40) DEF RestOf
  <2> QED BY <2>1, <2>2, <1>3, <1>4, <1>5, SMTT(40) DEF Parted, Less
<1>8. /\ Taken(r1, sample1) = Taken(rest1, sample1) + t1
      /\ Taken(r2, sample2) = Taken(rest2, sample2) + t2
  BY <1>4, <1>5, <1>6 DEF Taken
<1>9. /\ n1 \in Nat /\ n2 \in Nat /\ categories \in Seq(Nat \X Nat) /\ n \in Nat
      /\ HeldIn(categories, n, 1) \in Int /\ HeldIn(categories, n, 2) \in Int
      /\ HeldIn(categories, n, 1) + n1 = Taken(rest1, sample1)
      /\ HeldIn(categories, n, 2) + n2 = Taken(rest2, sample2)
      /\ DividedOf(sample1, sample2, categories, n)
  <2>1. e \in Nat \X Nat
    BY <1>6 DEF PcsHolds
  <2>2. HeldIn(categories, n, 1) \in Int /\ HeldIn(categories, n, 2) \in Int
    BY <2>1, HeldInAppend DEF PcsHolds
  <2> QED BY <2>2 DEF PcsHolds
<1> DEFINE h1 == HeldIn(categories, n, 1)
           h2 == HeldIn(categories, n, 2)
           a1 == Taken(rest1, sample1)
           a2 == Taken(rest2, sample2)
<1>10. /\ n1 \in Nat /\ n2 \in Nat /\ h1 \in Int /\ h2 \in Int /\ a1 \in Int /\ a2 \in Int
       /\ h1 + n1 = a1 /\ h2 + n2 = a2
  BY <1>6, <1>9 DEF Taken
<1> HIDE DEF h1, h2, a1, a2
<1>11. /\ t1 \in Nat /\ t2 \in Nat /\ Len(r1) \in Nat /\ Len(r2) \in Nat
  BY <1>6
<1>12. h1 + (n1 + t1) = a1 + t1 /\ h2 + (n2 + t2) = a2 + t2
  BY <1>10, <1>11
<1>13. h1 + (n1 + t1 + Len(r1)) = a1 + t1 + Len(r1) /\ h2 + (n2 + t2 + Len(r2)) = a2 + t2 + Len(r2)
  BY <1>10, <1>11
<1>14. /\ HeldIn(categories, n, 1) + (n1 + t1) = Taken(r1, sample1)
       /\ HeldIn(categories, n, 2) + (n2 + t2) = Taken(r2, sample2)
  BY <1>8, <1>12 DEF h1, h2, a1, a2
<1>15. /\ HeldIn(categories, n, 1) + (n1 + t1 + Len(r1)) = Taken(r1, sample1) + Len(r1)
       /\ HeldIn(categories, n, 2) + (n2 + t2 + Len(r2)) = Taken(r2, sample2) + Len(r2)
  BY <1>8, <1>13 DEF h1, h2, a1, a2
<1>16. CASE categories' = categories /\ kind' = kind /\ n1' = n1 + t1 /\ n2' = n2 + t2
  <2>1. /\ n1 + t1 \in Nat /\ n2 + t2 \in Nat
        /\ HeldIn(categories, n, 1) + (n1 + t1) = Taken(r1, sample1)
        /\ HeldIn(categories, n, 2) + (n2 + t2) = Taken(r2, sample2)
    BY <1>10, <1>11, <1>14
  <2>2. PcsHolds'
    BY <2>1, <1>1, <1>4, <1>5, <1>7, <1>9, <1>16 DEF PcsHolds
  <2> QED BY <2>2, <1>1, <1>16
<1>17. CASE /\ Ranks!Enough(n1 + t1 + (n2 + t2))
            /\ categories' = Append(categories, e) /\ kind' = kind /\ n1' = 0 /\ n2' = 0
  <2> DEFINE c == Append(categories, e)
  <2>1. e \in Nat \X Nat /\ e[1] = n1 + t1 /\ e[2] = n2 + t2
    BY <1>6, <1>9, SMTT(40)
  <2>2. c \in Seq(Nat \X Nat) /\ Len(c) = n + 1
    BY <2>1, <1>9, AppendProperties
  <2>3. /\ HeldIn(c, n + 1, 1) = HeldIn(categories, n, 1) + e[1]
        /\ HeldIn(c, n + 1, 2) = HeldIn(categories, n, 2) + e[2]
    BY <2>1, <1>9, HeldInAppend
  <2> HIDE DEF c, n, e
  <2>4. /\ HeldIn(c, n + 1, 1) = Taken(r1, sample1) /\ HeldIn(c, n + 1, 1) + 0 = Taken(r1, sample1)
        /\ HeldIn(c, n + 1, 2) = Taken(r2, sample2) /\ HeldIn(c, n + 1, 2) + 0 = Taken(r2, sample2)
    <3>1. Taken(r1, sample1) \in Int /\ Taken(r2, sample2) \in Int
      BY <1>6 DEF Taken
    <3>2. Taken(r1, sample1) + 0 = Taken(r1, sample1) /\ Taken(r2, sample2) + 0 = Taken(r2, sample2)
      BY <3>1
    <3> QED BY <3>2, <2>1, <2>3, <1>14
  <2>5. /\ Len(sample1) * (e[1] + e[2]) >= Expected * (Len(sample1) + Len(sample2))
        /\ Len(sample2) * (e[1] + e[2]) >= Expected * (Len(sample1) + Len(sample2))
    BY <2>1, <1>17 DEF Ranks!Enough, Ranks!lg1, Ranks!lg2
  <2>6. \E x \in Ranks!Range(sample1) \cup Ranks!Range(sample2) :
          HeldIn(c, n + 1, 1) = Ranks!UpTo(x, sample1) /\ HeldIn(c, n + 1, 2) = Ranks!UpTo(x, sample2)
    BY <2>4, <1>3, <1>4, <1>5
  <2>7. DividedOf(sample1, sample2, c, n + 1)
    BY <2>1, <2>5, <2>6, <1>9, DividedAppend DEF c, n
  <2>8. categories' = c
    BY <1>17 DEF c, e
  <2>9. PcsHolds'
    BY <2>2, <2>4, <2>7, <2>8, <1>1, <1>4, <1>5, <1>7, <1>17 DEF PcsHolds
  <2> QED BY <2>9, <1>1, <1>17
<1>18. CASE categories' = Append(categories, d) /\ kind' = "done pcs"
  <2> DEFINE c == Append(categories, d)
  <2>1. d \in Nat \X Nat /\ d[1] = n1 + t1 + Len(r1) /\ d[2] = n2 + t2 + Len(r2)
    BY <1>6, <1>9, SMTT(40)
  <2>2. c \in Seq(Nat \X Nat) /\ Len(c) = n + 1 /\ Len(c) - 1 = n
    BY <2>1, <1>9, AppendProperties
  <2>3. /\ HeldIn(c, n + 1, 1) = HeldIn(categories, n, 1) + d[1]
        /\ HeldIn(c, n + 1, 2) = HeldIn(categories, n, 2) + d[2]
    BY <2>1, <1>9, HeldInAppend
  <2> HIDE DEF c, n, d
  <2>4. /\ Taken(r1, sample1) + Len(r1) = Len(sample1)
        /\ Taken(r2, sample2) + Len(r2) = Len(sample2)
    BY <1>6 DEF Taken
  <2>5. HeldIn(c, n + 1, 1) = Len(sample1) /\ HeldIn(c, n + 1, 2) = Len(sample2)
    BY <2>1, <2>3, <2>4, <1>15
  <2>6. DividedOf(sample1, sample2, c, n)
    BY <2>1, <1>9, DividedAppend DEF c, n
  <2>7. categories' = c
    BY <1>18 DEF c, d
  <2>8. PcsDone'
    BY <2>2, <2>5, <2>6, <2>7, <1>1 DEF PcsDone
  <2> QED BY <2>8, <1>18
<1> QED BY <1>2, <1>16, <1>17, <1>18

\* The neighbours of a sample are in order, so all its items are.
LEMMA NeighboursSorted ==
  ASSUME NEW s \in Seq(Int), \A i \in 1 .. Len(s) - 1 : s[i] <= s[i + 1]
  PROVE  Sorted(s)
<1>1. Len(s) \in Nat /\ \A i \in 1 .. Len(s) : s[i] \in Int
  OBVIOUS
<1>2. ASSUME NEW i \in 1 .. Len(s), NEW j \in 1 .. Len(s), i <= j, ~(s[i] <= s[j])
      PROVE  FALSE
  <2> DEFINE Higher == {k \in Nat : i <= k /\ k <= Len(s) /\ ~(s[i] <= s[k])}
  <2>1. j \in Higher
    BY <1>1, <1>2
  <2>2. PICK m \in Higher : \A k \in Higher : m <= k
    BY <2>1, LeastNatural
  <2>3. m # i
    BY <1>1
  <2>4. m - 1 \in 1 .. Len(s) - 1 /\ m - 1 \in 1 .. Len(s) /\ i <= m - 1 /\ m \in 1 .. Len(s)
    BY <2>2, <2>3, <1>1
  <2>5. s[i] <= s[m - 1]
    BY <2>2, <2>4, <1>1
  <2>6. (m - 1) + 1 = m
    BY <2>4
  <2>7. s[m - 1] <= s[m]
    BY <2>4, <2>6
  <2>8. ~(s[i] <= s[m])
    BY <2>2
  <2> QED BY <2>4, <2>5, <2>7, <2>8, <1>1
<1> QED BY <1>1, <1>2 DEF Sorted

LEMMA SamplesAreSorted == \A s \in Samples : Sorted(s) /\ s # <<>>
<1> SUFFICES ASSUME NEW s \in Samples PROVE Sorted(s) /\ s # <<>>
  OBVIOUS
<1>1. PICK n \in 1 .. 4 : s \in [1 .. n -> {0, 1, 2, 5}]
  BY DEF Samples
<1>2. s \in Seq(Int) /\ Len(s) = n
  BY <1>1
<1>3. \A i \in 1 .. Len(s) - 1 : s[i] <= s[i + 1]
  BY DEF Samples
<1> QED BY <1>2, <1>3, NeighboursSorted

LEMMA WholeRest == ASSUME NEW s, Sorted(s) PROVE RestOf(s, s) /\ Taken(s, s) = 0
<1>1. s \in Seq(Int) /\ Len(s) \in Nat
  BY DEF Sorted
<1>2. \A i \in 1 .. Len(s) : Len(s) - Len(s) + i = i
  BY <1>1
<1> QED BY <1>1, <1>2 DEF RestOf, Taken

PcsInv ==
  component = "ranks" =>
    /\ Sorted(sample1) /\ Sorted(sample2)
    /\ kind \in {"wmw", "ks", "pcs", "done", "done ks", "done pcs"}
    /\ kind = "pcs" => PcsHolds
    /\ kind = "done pcs" => PcsDone

LEMMA PcsInit == SideInit => PcsInv
<1> SUFFICES ASSUME SideInit, component = "ranks" PROVE PcsInv
  BY DEF PcsInv
<1>1. /\ kind \in {"wmw", "ks", "pcs"} /\ sample1 \in Samples /\ sample2 \in Samples
      /\ rest1 = sample1 /\ rest2 = sample2 /\ n1 = 0 /\ n2 = 0 /\ categories = <<>>
  BY DEF SideInit, Ranks!Init
<1>2. Sorted(sample1) /\ Sorted(sample2)
  BY <1>1, SamplesAreSorted
<1>3. /\ RestOf(rest1, sample1) /\ Taken(rest1, sample1) = 0
      /\ RestOf(rest2, sample2) /\ Taken(rest2, sample2) = 0
  BY <1>1, <1>2, WholeRest
<1>4. Parted(rest1, sample1, rest2, sample2)
  BY <1>3 DEF Parted, Less
<1>5. categories \in Seq(Nat \X Nat) /\ Len(categories) = 0
  BY <1>1
<1>6. HeldIn(categories, 0, 1) = 0 /\ HeldIn(categories, 0, 2) = 0
  <2>1. 1 .. 0 = {}
    OBVIOUS
  <2> QED BY <2>1, SumOfNothing DEF HeldIn
<1>7. DividedOf(sample1, sample2, categories, 0)
  BY DEF DividedOf
<1>8. PcsHolds
  BY <1>1, <1>3, <1>4, <1>5, <1>6, <1>7 DEF PcsHolds
<1> QED BY <1>1, <1>2, <1>8 DEF PcsInv

LEMMA PcsNext == PcsInv /\ [SideNext]_sideVars => PcsInv'
<1> SUFFICES ASSUME PcsInv, [SideNext]_sideVars, component = "ranks" PROVE PcsInv'
  BY DEF SideNext, sideVars, PcsInv
<1>1. Ranks!Next \/ UNCHANGED RanksVars
  BY DEF SideNext, sideVars
<1>2. component' = "ranks"
  BY DEF SideNext, sideVars
<1>3. ASSUME UNCHANGED RanksVars PROVE PcsInv'
  BY <1>2, <1>3 DEF PcsInv, PcsHolds, PcsDone, RanksVars
<1>4. ASSUME Ranks!PcsTake PROVE PcsInv'
  <2>1. sample1' = sample1 /\ sample2' = sample2 /\ kind = "pcs"
    BY <1>4 DEF Ranks!PcsTake, Ranks!samples
  <2>2. \/ kind' = "pcs" /\ PcsHolds'
        \/ kind' = "done pcs" /\ PcsDone'
    BY <1>4, <2>1, PcsStep DEF PcsInv
  <2> QED BY <2>1, <2>2, <1>2 DEF PcsInv
<1>5. ASSUME Ranks!WmwTie \/ Ranks!WmwStep \/ Ranks!WmwRest \/ Ranks!KsTie \/ Ranks!KsStep \/ Ranks!KsResult
      PROVE  PcsInv'
  <2>1. /\ sample1' = sample1 /\ sample2' = sample2
        /\ kind' \in {"wmw", "ks", "done", "done ks"}
    BY <1>5 DEF Ranks!WmwTie, Ranks!WmwStep, Ranks!WmwRest, Ranks!KsTie, Ranks!KsStep,
                Ranks!KsResult, Ranks!samples
  <2> QED BY <2>1, <1>2 DEF PcsInv
<1>6. ASSUME Ranks!Returned PROVE PcsInv'
  BY <1>3, <1>6 DEF Ranks!Returned, Ranks!vars, Ranks!samples, Ranks!ranks, Ranks!dists,
                    Ranks!chi, RanksVars
<1> QED BY <1>1, <1>3, <1>4, <1>5, <1>6 DEF Ranks!Next

\* CategoriesDivide: the categories of the chi-square test hold each item of
\* both samples once, no value is split between two of them, and all but the
\* last are expected to hold enough of both (pcs_categories).
THEOREM CategoriesDivideSamples == SideSpec => []CategoriesDivide
<1>1. PcsInv => CategoriesDivide
  <2> SUFFICES ASSUME PcsInv, component = "ranks", kind = "done pcs"
               PROVE  Ranks!CategoriesDivide
    BY DEF CategoriesDivide, Ranks!CategoriesDivide
  <2>1. PcsDone
    BY DEF PcsInv
  <2>2. \A k, j : Ranks!SumFunction([i \in 1 .. k |-> categories[i][j]]) = HeldIn(categories, k, j)
    BY RanksSum DEF HeldIn
  <2> QED BY <2>1, <2>2 DEF PcsDone, DividedOf, Ranks!CategoriesDivide, Ranks!lg1, Ranks!lg2
<1> QED BY PcsInit, PcsNext, <1>1, PTL DEF SideSpec
-----------------------------------------------------------------------------
(* Wilcoxon's rank sums. *)

\* A sum whose terms are the differences of g.
LEMMA Telescope ==
  ASSUME NEW f, NEW g, NEW a \in Nat, NEW b \in Nat, a <= b,
         \A i \in 1 .. b : f[i] \in Int,
         \A i \in a .. b : g[i] \in Int,
         \A i \in a + 1 .. b : g[i] = g[i - 1] + f[i]
  PROVE  SumFunctionOnSet(f, 1 .. b) = SumFunctionOnSet(f, 1 .. a) + (g[b] - g[a])
<1> DEFINE Sum(n) == SumFunctionOnSet(f, 1 .. n)
           Wrong == {n \in a .. b : Sum(n) # Sum(a) + (g[n] - g[a])}
<1>1. \A n \in 0 .. b : Sum(n) \in Int
  <2> SUFFICES ASSUME NEW n \in 0 .. b PROVE Sum(n) \in Int
    OBVIOUS
  <2>1. IsFiniteSet(1 .. n) /\ \A i \in 1 .. n : f[i] \in Int
    BY FS_Interval
  <2> QED BY <2>1, SumType
<1>2. \A n \in 1 .. b : Sum(n) = f[n] + Sum(n - 1)
  <2> SUFFICES ASSUME NEW n \in 1 .. b PROVE Sum(n) = f[n] + Sum(n - 1)
    OBVIOUS
  <2>1. /\ n \notin 1 .. n - 1 /\ 1 .. n = (1 .. n - 1) \cup {n}
        /\ \A x \in (1 .. n - 1) \cup {n} : f[x] \in Int
    OBVIOUS
  <2>2. IsFiniteSet(1 .. n - 1)
    BY FS_Interval
  <2>3. SumFunctionOnSet(f, (1 .. n - 1) \cup {n}) = f[n] + SumFunctionOnSet(f, 1 .. n - 1)
    BY <2>1, <2>2, SumAdd
  <2> QED BY <2>1, <2>3
<1> HIDE DEF Sum
<1>3. Wrong = {}
  <2> SUFFICES ASSUME Wrong # {} PROVE FALSE
    OBVIOUS
  <2>1. PICK n \in Wrong : \A k \in Wrong : n <= k
    <3>1. Wrong \subseteq Nat
      OBVIOUS
    <3> HIDE DEF Wrong
    <3> QED BY <3>1, LeastNatural
  <2>2. n # a
    BY <1>1
  <2>3. n - 1 \in a .. b /\ n - 1 \notin Wrong /\ n \in a + 1 .. b /\ n \in 1 .. b
    BY <2>1, <2>2
  <2>4. Sum(n - 1) = Sum(a) + (g[n - 1] - g[a])
    BY <2>3
  <2>5. Sum(n) = f[n] + Sum(n - 1) /\ g[n] = g[n - 1] + f[n]
    BY <2>3, <1>2
  <2>6. /\ Sum(a) \in Int /\ f[n] \in Int /\ Sum(n - 1) \in Int
        /\ g[n - 1] \in Int /\ g[a] \in Int /\ g[n] \in Int
    BY <2>3, <1>1
  <2>7. Sum(n) = Sum(a) + (g[n] - g[a])
    BY <2>4, <2>5, <2>6
  <2> QED BY <2>7
<1>4. b \notin Wrong /\ b \in a .. b
  BY <1>3
<1> QED BY <1>4 DEF Sum

\* Twice the mean rank of the items that equal v in the joint sample.
MidRank(v, s, o) ==
  Ranks!Below(v, s) + Ranks!UpTo(v, s) + Ranks!Below(v, o) + Ranks!UpTo(v, o) + 1

TiedIn(v, o) == \E k \in 1 .. Len(o) : o[k] = v

\* Twice the rank that the loop gives to each item of s: the mean rank if the
\* other sample has it as well, or else its own among all items.
RankOf(s, o) ==
  [i \in 1 .. Len(s) |->
     IF TiedIn(s[i], o) THEN MidRank(s[i], s, o) ELSE 2 * (i + Ranks!Below(s[i], o))]
RankSum(s, o, p) == SumFunctionOnSet(RankOf(s, o), 1 .. p)

LEMMA BelowIsTaken ==
  ASSUME NEW s, Sorted(s), NEW r, RestOf(r, s), NEW v \in Int,
         \A i \in 1 .. Taken(r, s) : s[i] < v,
         \A i \in 1 .. Len(r) : v <= r[i]
  PROVE  Ranks!Below(v, s) = Taken(r, s)
<1> DEFINE a == Taken(r, s)
           b == Ranks!Below(v, s)
<1>1. /\ Len(r) \in Nat /\ Len(s) \in Nat /\ a \in 0 .. Len(s) /\ a + Len(r) = Len(s)
      /\ \A i \in 1 .. Len(r) : r[i] = s[a + i]
      /\ \A i \in 1 .. Len(s) : s[i] \in Int
  BY DEF Sorted, RestOf, Taken
<1>2. b \in 0 .. Len(s) /\ \A i \in 1 .. Len(s) : s[i] < v <=> i <= b
  BY SortedBounds
<1> HIDE DEF a, b
<1>3. \A i \in 1 .. a : s[i] < v
  BY DEF a
<1>4. a <= b
  <2>1. CASE a = 0
    BY <2>1, <1>2
  <2>2. CASE a # 0
    <3>1. a \in 1 .. Len(s) /\ a \in 1 .. a
      BY <2>2, <1>1
    <3> QED BY <3>1, <1>2, <1>3
  <2> QED BY <2>1, <2>2
<1>5. ~(a < b)
  <2> SUFFICES ASSUME a < b PROVE FALSE
    OBVIOUS
  <2>1. a + 1 \in 1 .. Len(s) /\ a + 1 <= b /\ 1 \in 1 .. Len(r)
    BY <1>1, <1>2
  <2>2. s[a + 1] < v /\ v <= r[1] /\ r[1] = s[a + 1] /\ s[a + 1] \in Int
    BY <2>1, <1>1, <1>2
  <2> QED BY <2>2
<1>6. a \in Int /\ b \in Int
  BY <1>1, <1>2
<1> QED BY <1>4, <1>5, <1>6 DEF a, b

LEMMA RankOfType ==
  ASSUME NEW s, Sorted(s), NEW o, Sorted(o), NEW i \in 1 .. Len(s)
  PROVE  RankOf(s, o)[i] \in Int /\ MidRank(s[i], s, o) \in Int
<1>1. s[i] \in Int
  BY DEF Sorted
<1>2. /\ Ranks!Below(s[i], s) \in Int /\ Ranks!UpTo(s[i], s) \in Int
      /\ Ranks!Below(s[i], o) \in Int /\ Ranks!UpTo(s[i], o) \in Int
  <2>1. Ranks!Below(s[i], s) \in 0 .. Len(s) /\ Ranks!UpTo(s[i], s) \in 0 .. Len(s)
    BY <1>1, SortedBounds
  <2>2. Ranks!Below(s[i], o) \in 0 .. Len(o) /\ Ranks!UpTo(s[i], o) \in 0 .. Len(o)
    BY <1>1, SortedBounds
  <2> QED BY <2>1, <2>2 DEF Sorted
<1> QED BY <1>2 DEF RankOf, MidRank

\* An item that the other sample does not have comes after what has been taken
\* of that one.
LEMMA RankOfUntied ==
  ASSUME NEW s, Sorted(s), NEW r, RestOf(r, s), NEW o, Sorted(o), NEW q, RestOf(q, o),
         Less(q, o, r), NEW i \in Taken(r, s) + 1 .. Len(s),
         \A k \in 1 .. Len(q) : s[i] < q[k]
  PROVE  RankOf(s, o)[i] = 2 * (i + Taken(q, o)) /\ ~TiedIn(s[i], o)
<1>1. /\ Taken(r, s) \in Nat /\ Taken(q, o) \in Nat /\ Len(r) \in Nat /\ Len(s) \in Nat
      /\ Len(q) \in Nat /\ Len(o) \in Nat
      /\ Taken(r, s) + Len(r) = Len(s) /\ Taken(q, o) + Len(q) = Len(o)
      /\ \A k \in 1 .. Len(r) : r[k] = s[Taken(r, s) + k]
      /\ \A k \in 1 .. Len(q) : q[k] = o[Taken(q, o) + k] /\ q[k] \in Int
      /\ \A k \in 1 .. Len(o) : o[k] \in Int
      /\ \A k \in 1 .. Len(s) : s[k] \in Int
  BY SMTT(40) DEF Sorted, RestOf, Taken
<1>2. i \in 1 .. Len(s) /\ i - Taken(r, s) \in 1 .. Len(r) /\ Taken(r, s) + (i - Taken(r, s)) = i
  BY <1>1
<1>3. s[i] \in Int /\ s[i] = r[i - Taken(r, s)]
  BY <1>1, <1>2
<1>4. \A k \in 1 .. Taken(q, o) : o[k] < s[i]
  BY <1>2, <1>3 DEF Less
<1>5. \A k \in 1 .. Len(q) : s[i] <= q[k]
  BY <1>1, <1>3, SMTT(40)
<1>6. Ranks!Below(s[i], o) = Taken(q, o)
  BY <1>3, <1>4, <1>5, BelowIsTaken
<1>7. ~TiedIn(s[i], o)
  <2> SUFFICES ASSUME NEW k \in 1 .. Len(o), o[k] = s[i] PROVE FALSE
    BY DEF TiedIn
  <2>1. CASE k \in 1 .. Taken(q, o)
    BY <2>1, <1>3, <1>4
  <2>2. CASE k \notin 1 .. Taken(q, o)
    <3>1. k - Taken(q, o) \in 1 .. Len(q) /\ Taken(q, o) + (k - Taken(q, o)) = k
      BY <2>2, <1>1
    <3>2. q[k - Taken(q, o)] = s[i] /\ s[i] < q[k - Taken(q, o)]
      BY <3>1, <1>1
    <3> QED BY <3>2, <1>3
  <2> QED BY <2>1, <2>2
<1> QED BY <1>2, <1>6, <1>7 DEF RankOf

\* The do-while loop over the items that equal the head takes them all.
LEMMA OccursBlock ==
  ASSUME NEW s, Sorted(s), NEW r, RestOf(r, s), r # <<>>, NEW v, v = r[1]
  PROVE  Ranks!Occurs(v, r) = Ranks!Times(v, r) /\ Ranks!Times(v, r) \in 1 .. Len(r)
<1>1. /\ Len(r) \in Nat \ {0} /\ r[1] \in Int
      /\ \A i \in 1 .. Len(r) : r[1] <= r[i] /\ r[i] \in Int
  BY HeadLeast
<1>2. /\ Ranks!Times(v, r) \in 0 .. Len(r)
      /\ \A i \in 1 .. Len(r) : r[i] = v <=> i <= Ranks!Times(v, r)
  BY <1>1, TimesBlock
<1>3. 1 \in 1 .. Len(r) /\ Ranks!Times(v, r) \in 1 .. Len(r)
  BY <1>1, <1>2
<1>4. CASE Len(r) > 1 /\ r[2] = v
  <2>1. /\ RestOf(Tail(r), s) /\ Len(Tail(r)) = Len(r) - 1
        /\ \A i \in 1 .. Len(r) - 1 : Tail(r)[i] = r[1 + i]
    BY TailRest
  <2>2. \A i \in 1 .. Len(Tail(r)) : v <= Tail(r)[i]
    BY <2>1, <1>1
  <2>3. /\ Ranks!Times(v, Tail(r)) \in 0 .. Len(r) - 1
        /\ \A i \in 1 .. Len(r) - 1 : Tail(r)[i] = v <=> i <= Ranks!Times(v, Tail(r))
    <3>1. v \in Int
      BY <1>1
    <3>2. /\ Ranks!Times(v, Tail(r)) \in 0 .. Len(Tail(r))
          /\ \A i \in 1 .. Len(Tail(r)) : Tail(r)[i] = v <=> i <= Ranks!Times(v, Tail(r))
      <4> DEFINE w == Tail(r)
      <4>1. RestOf(w, s) /\ \A i \in 1 .. Len(w) : v <= w[i]
        BY <2>1, <2>2
      <4> HIDE DEF w
      <4>2. /\ Ranks!Times(v, w) \in 0 .. Len(w)
            /\ \A i \in 1 .. Len(w) : w[i] = v <=> i <= Ranks!Times(v, w)
        BY <3>1, <4>1, TimesBlock
      <4> QED BY <4>2 DEF w
    <3> QED BY <2>1, <3>2
  <2> DEFINE t == Ranks!Times(v, r)
             u == Ranks!Times(v, Tail(r))
  <2> HIDE DEF t, u
  <2>4. /\ t \in 1 .. Len(r) /\ u \in 0 .. Len(r) - 1 /\ Len(r) \in Nat
        /\ \A i \in 1 .. Len(r) : r[i] = v <=> i <= t
        /\ \A i \in 1 .. Len(r) - 1 : r[1 + i] = v <=> i <= u
    BY <2>1, <2>3, <1>1, <1>2, <1>3 DEF t, u
  <2>5. \A i \in 1 .. Len(r) - 1 : 1 + i <= t <=> i <= u
    <3> SUFFICES ASSUME NEW i \in 1 .. Len(r) - 1 PROVE 1 + i <= t <=> i <= u
      OBVIOUS
    <3>1. 1 + i \in 1 .. Len(r)
      BY <2>4
    <3> QED BY <3>1, <2>4
  <2>6. u <= t - 1
    <3>1. CASE u = 0
      BY <3>1, <2>4
    <3>2. CASE u # 0
      <4>1. u \in 1 .. Len(r) - 1
        BY <3>2, <2>4
      <4> QED BY <4>1, <2>4, <2>5
    <3> QED BY <3>1, <3>2
  <2>7. t - 1 <= u
    <3>1. CASE t = 1
      BY <3>1, <2>4
    <3>2. CASE t # 1
      <4>1. t - 1 \in 1 .. Len(r) - 1
        BY <3>2, <2>4
      <4> QED BY <4>1, <2>4, <2>5
    <3> QED BY <3>1, <3>2
  <2>8. 1 + u = t
    BY <2>4, <2>6, <2>7
  <2> QED BY <2>8, <1>3, <1>4 DEF Ranks!Occurs, t, u
<1>5. CASE ~(Len(r) > 1 /\ r[2] = v)
  <2>1. Ranks!Times(v, r) = 1
    BY <1>1, <1>2, <1>3, <1>5
  <2> QED BY <2>1, <1>3, <1>5 DEF Ranks!Occurs
<1> QED BY <1>4, <1>5

\* The items that both samples have get their mean rank.
LEMMA RankOfTie ==
  ASSUME NEW s, Sorted(s), NEW r, RestOf(r, s), NEW o, Sorted(o), NEW q, RestOf(q, o),
         Less(r, s, q), Less(q, o, r), r # <<>>, q # <<>>, r[1] = q[1]
  PROVE  LET t == Ranks!Times(r[1], r)
             u == Ranks!Times(r[1], q)
         IN /\ \A i \in Taken(r, s) + 1 .. Taken(r, s) + t :
                 RankOf(s, o)[i] = 2 * (Taken(r, s) + Taken(q, o)) + (t + u) + 1
            /\ Less(Ranks!Drop(r, t), s, Ranks!Drop(q, u))
            /\ Ranks!UpTo(r[1], s) = Taken(r, s) + t
<1> DEFINE v == r[1]
           t == Ranks!Times(v, r)
           u == Ranks!Times(v, q)
           a == Taken(r, s)
           b == Taken(q, o)
<1>1. /\ Len(r) \in Nat \ {0} /\ v \in Int /\ \A i \in 1 .. Len(r) : v <= r[i] /\ r[i] \in Int
      /\ Len(q) \in Nat \ {0} /\ v = q[1] /\ \A i \in 1 .. Len(q) : v <= q[i] /\ q[i] \in Int
  BY HeadLeast
<1>2. 1 \in 1 .. Len(r) /\ 1 \in 1 .. Len(q)
  BY <1>1
<1>3. (\A i \in 1 .. a : s[i] < v) /\ (\A i \in 1 .. b : o[i] < v)
  BY <1>1, <1>2 DEF Less
<1> HIDE DEF v
<1>4. /\ t \in 0 .. Len(r) /\ RestOf(Ranks!Drop(r, t), s) /\ Len(Ranks!Drop(r, t)) = Len(r) - t
      /\ \A i \in 1 .. Taken(Ranks!Drop(r, t), s) : s[i] <= v
      /\ \A i \in 1 .. Len(Ranks!Drop(r, t)) : v < Ranks!Drop(r, t)[i]
      /\ Ranks!UpTo(v, s) = Taken(Ranks!Drop(r, t), s)
  BY <1>1, <1>3, TakeLeast
<1>5. /\ u \in 0 .. Len(q) /\ RestOf(Ranks!Drop(q, u), o) /\ Len(Ranks!Drop(q, u)) = Len(q) - u
      /\ \A i \in 1 .. Len(Ranks!Drop(q, u)) : v < Ranks!Drop(q, u)[i]
      /\ Ranks!UpTo(v, o) = Taken(Ranks!Drop(q, u), o)
  BY <1>1, <1>3, TakeLeast
<1>6. Ranks!Below(v, s) = a /\ Ranks!Below(v, o) = b
  BY <1>1, <1>3, BelowIsTaken
<1>7. \A i \in 1 .. Len(r) : r[i] = v <=> i <= t
  <2>1. \A i \in 1 .. Len(r) : v <= r[i]
    BY <1>1
  <2>2. v \in Int
    BY <1>1
  <2> QED BY <2>1, <2>2, TimesBlock
<1> HIDE DEF t, u
<1>8. /\ Len(r) \in Nat /\ Len(s) \in Nat /\ Len(q) \in Nat /\ Len(o) \in Nat
      /\ a \in Nat /\ b \in Nat /\ t \in Nat /\ u \in Nat
      /\ a + Len(r) = Len(s) /\ b + Len(q) = Len(o)
      /\ \A i \in 1 .. Len(r) : r[i] = s[a + i]
      /\ \A i \in 1 .. Len(q) : q[i] = o[b + i]
      /\ \A i \in 1 .. Len(s) : s[i] \in Int
  <2>1. t \in Nat /\ u \in Nat
    BY <1>1, <1>4, <1>5
  <2> QED BY <2>1, RestFacts
<1>9. Ranks!UpTo(v, s) = a + t /\ Ranks!UpTo(v, o) = b + u
  BY <1>4, <1>5, <1>8 DEF Taken
<1>10. Less(Ranks!Drop(r, t), s, Ranks!Drop(q, u))
  <2> SUFFICES ASSUME NEW i \in 1 .. Taken(Ranks!Drop(r, t), s),
                      NEW k \in 1 .. Len(Ranks!Drop(q, u))
               PROVE  s[i] < Ranks!Drop(q, u)[k]
    BY DEF Less
  <2>1. i \in 1 .. Len(s) /\ Ranks!Drop(q, u)[k] \in Int
    <3>1. Taken(Ranks!Drop(r, t), s) + Len(Ranks!Drop(r, t)) = Len(s)
          /\ Taken(Ranks!Drop(r, t), s) \in Nat /\ Len(Ranks!Drop(r, t)) \in Nat
      BY <1>4, RestFacts
    <3>2. Ranks!Drop(q, u)[k] \in Int
      BY <1>5, RestFacts
    <3> QED BY <3>1, <3>2
  <2>2. s[i] <= v /\ v < Ranks!Drop(q, u)[k] /\ s[i] \in Int
    BY <2>1, <1>4, <1>5, <1>8
  <2> QED BY <2>1, <2>2, <1>1
<1>11. MidRank(v, s, o) = 2 * (a + b) + (t + u) + 1
  <2>1. a + (a + t) + b + (b + u) + 1 = 2 * (a + b) + (t + u) + 1
    BY <1>8, SMTT(40)
  <2> QED BY <2>1, <1>6, <1>9 DEF MidRank
<1>12. ASSUME NEW i \in a + 1 .. a + t
       PROVE  RankOf(s, o)[i] = 2 * (a + b) + (t + u) + 1
  <2>1. i - a \in 1 .. Len(r) /\ i - a <= t /\ a + (i - a) = i /\ i \in 1 .. Len(s)
    BY <1>4, <1>8, SMTT(40)
  <2>2. s[i] = v
    BY <2>1, <1>7, <1>8
  <2>3. b + 1 \in 1 .. Len(o) /\ o[b + 1] = v
    <3>1. b + 1 \in 1 .. Len(o)
      BY <1>2, <1>8, SMTT(40)
    <3>2. q[1] = o[b + 1]
      BY <1>2, <1>8
    <3> QED BY <3>1, <3>2, <1>1
  <2>4. TiedIn(s[i], o)
    BY <2>2, <2>3 DEF TiedIn
  <2> QED BY <2>1, <2>2, <2>4, <1>11 DEF RankOf
<1> HIDE DEF a, b
<1> QED BY <1>9, <1>10, <1>12 DEF v, t, u, a, b

LEMMA RankSumBlock ==
  ASSUME NEW s, Sorted(s), NEW o, Sorted(o), NEW a \in Nat, NEW b \in Nat,
         a <= b, b <= Len(s), NEW x \in Int, \A i \in a + 1 .. b : RankOf(s, o)[i] = x
  PROVE  RankSum(s, o, b) = RankSum(s, o, a) + (b - a) * x /\ RankSum(s, o, a) \in Int
<1> DEFINE f == RankOf(s, o)
           g == [i \in a .. b |-> (i - a) * x]
<1>1. Len(s) \in Nat
  BY DEF Sorted
<1>2. \A i \in 1 .. b : f[i] \in Int
  BY <1>1, RankOfType
<1>3. \A i \in a + 1 .. b : f[i] = x
  OBVIOUS
<1> HIDE DEF f
<1>4. \A i \in a .. b : g[i] \in Int
  OBVIOUS
<1>5. \A i \in a + 1 .. b : g[i] = g[i - 1] + f[i]
  <2> SUFFICES ASSUME NEW i \in a + 1 .. b PROVE g[i] = g[i - 1] + f[i]
    OBVIOUS
  <2>1. i \in a .. b /\ i - 1 \in a .. b /\ i \in Int
    OBVIOUS
  <2>2. (i - a) * x = (i - 1 - a) * x + x
    BY <2>1
  <2> QED BY <2>1, <2>2, <1>3
<1>6. g[b] = (b - a) * x /\ g[a] = 0 /\ (b - a) * x - 0 = (b - a) * x
  OBVIOUS
<1> HIDE DEF g
<1>7. SumFunctionOnSet(f, 1 .. b) = SumFunctionOnSet(f, 1 .. a) + (g[b] - g[a])
  BY <1>2, <1>4, <1>5, Telescope, ZenonT(90)
<1>8. SumFunctionOnSet(f, 1 .. a) \in Int
  <2>1. IsFiniteSet(1 .. a) /\ \A i \in 1 .. a : f[i] \in Int
    BY <1>2, FS_Interval
  <2> QED BY <2>1, SumType
<1> QED BY <1>6, <1>7, <1>8 DEF RankSum, f

LEMMA RankSumRest ==
  ASSUME NEW s, Sorted(s), NEW o, Sorted(o), NEW a \in Nat, a <= Len(s), NEW m \in Nat,
         \A i \in a + 1 .. Len(s) : RankOf(s, o)[i] = 2 * (i + m)
  PROVE  RankSum(s, o, Len(s)) = RankSum(s, o, a) + Ranks!RanksFrom(a + m, Len(s) + m)
<1> DEFINE f == RankOf(s, o)
<1>1. PICK b \in Nat : b = Len(s)
  BY DEF Sorted
<1> DEFINE g == [i \in a .. b |-> (i + m) * (i + m + 1)]
<1>2. \A i \in 1 .. b : f[i] \in Int
  BY <1>1, RankOfType
<1>3. \A i \in a + 1 .. b : f[i] = 2 * (i + m)
  BY <1>1
<1> HIDE DEF f
<1>4. \A i \in a .. b : g[i] \in Int
  OBVIOUS
<1>5. \A i \in a + 1 .. b : g[i] = g[i - 1] + f[i]
  <2> SUFFICES ASSUME NEW i \in a + 1 .. b PROVE g[i] = g[i - 1] + f[i]
    OBVIOUS
  <2>1. i \in a .. b /\ i - 1 \in a .. b /\ i \in Int
    OBVIOUS
  <2>2. (i + m) * (i + m + 1) = (i - 1 + m) * (i - 1 + m + 1) + 2 * (i + m)
    BY <2>1
  <2> QED BY <2>1, <2>2, <1>3
<1>6. a <= b
  BY <1>1
<1>7. g[b] - g[a] = Ranks!RanksFrom(a + m, b + m)
  BY <1>6 DEF Ranks!RanksFrom
<1> HIDE DEF g
<1>8. SumFunctionOnSet(f, 1 .. b) = SumFunctionOnSet(f, 1 .. a) + (g[b] - g[a])
  BY <1>2, <1>4, <1>5, <1>6, Telescope, ZenonT(90)
<1> QED BY <1>1, <1>7, <1>8 DEF RankSum, f

\* The lesser head is taken alone.
LEMMA TakeHead ==
  ASSUME NEW s, Sorted(s), NEW r, RestOf(r, s), NEW o, Sorted(o), NEW q, RestOf(q, o),
         Less(r, s, q), Less(q, o, r), r # <<>>, q # <<>>, r[1] < q[1]
  PROVE  /\ RestOf(Tail(r), s) /\ Taken(Tail(r), s) = Taken(r, s) + 1
         /\ Taken(r, s) + 1 \in 1 .. Len(s) /\ s[Taken(r, s) + 1] = r[1]
         /\ \A k \in 1 .. Len(q) : r[1] < q[k]
         /\ Less(Tail(r), s, q) /\ Less(q, o, Tail(r))
<1>1. /\ RestOf(Tail(r), s) /\ Len(Tail(r)) = Len(r) - 1
      /\ \A i \in 1 .. Len(r) - 1 : Tail(r)[i] = r[1 + i]
  BY TailRest
<1>2. Len(r) \in Nat \ {0} /\ r[1] \in Int /\ q[1] \in Int
  BY HeadLeast
<1>3. \A k \in 1 .. Len(q) : q[1] <= q[k] /\ q[k] \in Int
  BY HeadLeast
<1>4. /\ Len(s) \in Nat /\ Taken(r, s) \in Nat /\ Taken(r, s) + Len(r) = Len(s)
      /\ \A i \in 1 .. Len(r) : r[i] = s[Taken(r, s) + i]
  BY RestFacts
<1>5. Taken(Tail(r), s) = Taken(r, s) + 1
  BY <1>1, <1>2, <1>4 DEF Taken
<1>6. Taken(r, s) + 1 \in 1 .. Len(s) /\ 1 \in 1 .. Len(r)
  BY <1>2, <1>4
<1>7. s[Taken(r, s) + 1] = r[1]
  BY <1>4, <1>6
<1>8. \A k \in 1 .. Len(q) : r[1] < q[k]
  BY <1>2, <1>3
<1>9. Less(Tail(r), s, q)
  <2> SUFFICES ASSUME NEW i \in 1 .. Taken(r, s) + 1, NEW k \in 1 .. Len(q) PROVE s[i] < q[k]
    BY <1>5 DEF Less
  <2>1. CASE i = Taken(r, s) + 1
    BY <2>1, <1>7, <1>8
  <2>2. CASE i # Taken(r, s) + 1
    <3>1. i \in 1 .. Taken(r, s)
      BY <2>2, <1>4
    <3> QED BY <3>1 DEF Less
  <2> QED BY <2>1, <2>2
<1>10. Less(q, o, Tail(r))
  <2> SUFFICES ASSUME NEW i \in 1 .. Taken(q, o), NEW k \in 1 .. Len(r) - 1
               PROVE  o[i] < Tail(r)[k]
    BY <1>1 DEF Less
  <2>1. 1 + k \in 1 .. Len(r)
    BY <1>2
  <2> QED BY <2>1, <1>1 DEF Less
<1> QED BY <1>1, <1>5, <1>6, <1>7, <1>8, <1>9, <1>10

\* The rank sums hold what has been taken.
WmwHolds ==
  /\ RestOf(rest1, sample1) /\ RestOf(rest2, sample2)
  /\ Less(rest1, sample1, rest2) /\ Less(rest2, sample2, rest1)
  /\ rank = Taken(rest1, sample1) + Taken(rest2, sample2)
  /\ rs1 = RankSum(sample1, sample2, Taken(rest1, sample1))
  /\ rs2 = RankSum(sample2, sample1, Taken(rest2, sample2))

WmwDone ==
  /\ rs1 = RankSum(sample1, sample2, Len(sample1))
  /\ rs2 = RankSum(sample2, sample1, Len(sample2))

LEMMA RankSumHead ==
  ASSUME NEW s, Sorted(s), NEW r, RestOf(r, s), NEW o, Sorted(o), NEW q, RestOf(q, o),
         Less(r, s, q), Less(q, o, r), r # <<>>, q # <<>>, r[1] < q[1]
  PROVE  RankSum(s, o, Taken(r, s) + 1)
           = RankSum(s, o, Taken(r, s)) + 2 * (Taken(r, s) + Taken(q, o) + 1)
<1> DEFINE a == Taken(r, s)
           m == Taken(q, o)
<1>1. /\ a + 1 \in 1 .. Len(s) /\ s[a + 1] = r[1]
      /\ \A k \in 1 .. Len(q) : r[1] < q[k]
  BY TakeHead
<1>2. a \in Nat /\ Len(s) \in Nat /\ m \in Nat
  BY RestFacts
<1>3. a + 1 \in a + 1 .. Len(s)
  BY <1>1, <1>2
<1>4. \A k \in 1 .. Len(q) : s[a + 1] < q[k]
  BY <1>1
<1>5. RankOf(s, o)[a + 1] = 2 * (a + 1 + m)
  BY <1>3, <1>4, RankOfUntied
<1> HIDE DEF a, m
<1>6. \A i \in a + 1 .. a + 1 : RankOf(s, o)[i] = 2 * (a + 1 + m)
  BY <1>2, <1>5
<1>7. 2 * (a + 1 + m) \in Int /\ a + 1 \in Nat /\ a <= a + 1 /\ a + 1 <= Len(s)
  BY <1>1, <1>2
<1>8. RankSum(s, o, a + 1) = RankSum(s, o, a) + 2 * (a + m + 1)
  <2>1. PICK b \in Nat, x \in Int : b = a + 1 /\ x = 2 * (a + 1 + m)
    BY <1>7
  <2>2. a <= b /\ b <= Len(s) /\ \A i \in a + 1 .. b : RankOf(s, o)[i] = x
    BY <2>1, <1>6, <1>7
  <2>3. RankSum(s, o, b) = RankSum(s, o, a) + (b - a) * x /\ RankSum(s, o, a) \in Int
    BY <2>2, <1>2, RankSumBlock
  <2>4. (b - a) * x = 2 * (a + m + 1)
    BY <2>1, <1>2
  <2> QED BY <2>1, <2>3, <2>4, Zenon
<1> QED BY <1>8 DEF a, m

LEMMA WmwStepHolds ==
  ASSUME Sorted(sample1), Sorted(sample2), WmwHolds, Ranks!WmwStep
  PROVE  WmwHolds' /\ kind' = "wmw"
<1>1. /\ kind = "wmw" /\ rest1 # <<>> /\ rest2 # <<>> /\ Head(rest1) # Head(rest2)
      /\ rank' = rank + 1
      /\ kind' = kind /\ sample1' = sample1 /\ sample2' = sample2
  BY DEF Ranks!WmwStep, Ranks!Running, Ranks!samples
<1>2. /\ RestOf(rest1, sample1) /\ RestOf(rest2, sample2)
      /\ Less(rest1, sample1, rest2) /\ Less(rest2, sample2, rest1)
  BY DEF WmwHolds
<1>3. /\ Head(rest1) = rest1[1] /\ rest1[1] \in Int
      /\ Head(rest2) = rest2[1] /\ rest2[1] \in Int
  BY <1>1, <1>2, HeadLeast
<1>4. /\ Taken(rest1, sample1) \in Nat /\ Taken(rest2, sample2) \in Nat
      /\ rank = Taken(rest1, sample1) + Taken(rest2, sample2)
  BY <1>2, RestFacts DEF WmwHolds
<1>5. CASE Head(rest1) < Head(rest2)
  <2>1. rs1' = rs1 + 2 * (rank + 1) /\ rest1' = Tail(rest1) /\ rs2' = rs2 /\ rest2' = rest2
    BY <1>5 DEF Ranks!WmwStep
  <2>2. rest1[1] < rest2[1]
    BY <1>3, <1>5
  <2>3. /\ RestOf(Tail(rest1), sample1) /\ Taken(Tail(rest1), sample1) = Taken(rest1, sample1) + 1
        /\ Less(Tail(rest1), sample1, rest2) /\ Less(rest2, sample2, Tail(rest1))
    BY <2>2, <1>1, <1>2, TakeHead
  <2>4. RankSum(sample1, sample2, Taken(rest1, sample1) + 1)
          = rs1 + 2 * (Taken(rest1, sample1) + Taken(rest2, sample2) + 1)
    BY <2>2, <1>1, <1>2, RankSumHead DEF WmwHolds
  <2>5. rank + 1 = Taken(rest1, sample1) + 1 + Taken(rest2, sample2)
    BY <1>4
  <2> QED BY <2>1, <2>3, <2>4, <2>5, <1>1, <1>2, <1>4 DEF WmwHolds
<1>6. CASE ~(Head(rest1) < Head(rest2))
  <2>1. rs2' = rs2 + 2 * (rank + 1) /\ rest2' = Tail(rest2) /\ rs1' = rs1 /\ rest1' = rest1
    BY <1>6 DEF Ranks!WmwStep
  <2>2. rest2[1] < rest1[1]
    BY <1>1, <1>3, <1>6
  <2>3. /\ RestOf(Tail(rest2), sample2) /\ Taken(Tail(rest2), sample2) = Taken(rest2, sample2) + 1
        /\ Less(Tail(rest2), sample2, rest1) /\ Less(rest1, sample1, Tail(rest2))
    BY <2>2, <1>1, <1>2, TakeHead
  <2>4. RankSum(sample2, sample1, Taken(rest2, sample2) + 1)
          = rs2 + 2 * (Taken(rest2, sample2) + Taken(rest1, sample1) + 1)
    BY <2>2, <1>1, <1>2, RankSumHead DEF WmwHolds
  <2>5. /\ rank + 1 = Taken(rest1, sample1) + (Taken(rest2, sample2) + 1)
        /\ rank + 1 = Taken(rest2, sample2) + Taken(rest1, sample1) + 1
    BY <1>4
  <2> QED BY <2>1, <2>3, <2>4, <2>5, <1>1, <1>2, <1>4 DEF WmwHolds
<1> QED BY <1>1, <1>5, <1>6

\* The ranks of a tie are shared without a remainder.
LEMMA TieShare ==
  ASSUME NEW a \in Nat, NEW k \in Nat, NEW t \in Nat, t > 0
  PROVE  (k * Ranks!RanksFrom(a, a + t)) \div t = k * (2 * a + t + 1)
<1>1. k * ((a + t) * (a + t + 1) - a * (a + 1)) = (k * (2 * a + t + 1)) * t
  OBVIOUS
<1>2. \A x \in Int : (x * t) \div t = x
  OBVIOUS
<1>3. k * (2 * a + t + 1) \in Int
  OBVIOUS
<1> QED BY <1>1, <1>2, <1>3 DEF Ranks!RanksFrom

LEMMA RankSumTie ==
  ASSUME NEW s, Sorted(s), NEW r, RestOf(r, s), NEW o, Sorted(o), NEW q, RestOf(q, o),
         Less(r, s, q), Less(q, o, r), r # <<>>, q # <<>>, r[1] = q[1],
         NEW t, t = Ranks!Times(r[1], r), NEW u, u = Ranks!Times(r[1], q)
  PROVE  /\ t \in 1 .. Len(r) /\ u \in 1 .. Len(q)
         /\ Ranks!Occurs(r[1], r) = t /\ Ranks!Occurs(r[1], q) = u
         /\ RestOf(Ranks!Drop(r, t), s) /\ Taken(Ranks!Drop(r, t), s) = Taken(r, s) + t
         /\ RankSum(s, o, Taken(r, s) + t)
              = RankSum(s, o, Taken(r, s))
                  + t * (2 * (Taken(r, s) + Taken(q, o)) + (t + u) + 1)
         /\ RankSum(s, o, Taken(r, s)) \in Int
         /\ Less(Ranks!Drop(r, t), s, Ranks!Drop(q, u))
<1> DEFINE a == Taken(r, s)
           m == Taken(q, o)
<1>1. t \in 1 .. Len(r) /\ Ranks!Occurs(r[1], r) = t
  BY OccursBlock
<1>2. u \in 1 .. Len(q) /\ Ranks!Occurs(r[1], q) = u
  BY OccursBlock
<1>3. a \in Nat /\ m \in Nat /\ Len(s) \in Nat /\ a + Len(r) = Len(s) /\ Len(r) \in Nat /\ Len(q) \in Nat
  BY RestFacts
<1>4. /\ RestOf(Ranks!Drop(r, t), s) /\ Len(Ranks!Drop(r, t)) = Len(r) - t
  <2>1. t \in 0 .. Len(r)
    BY <1>1
  <2> QED BY <2>1, DropRest
<1>5. Taken(Ranks!Drop(r, t), s) = a + t
  BY <1>1, <1>3, <1>4 DEF Taken
<1>6. /\ \A i \in a + 1 .. a + t : RankOf(s, o)[i] = 2 * (a + m) + (t + u) + 1
      /\ Less(Ranks!Drop(r, t), s, Ranks!Drop(q, u))
  BY RankOfTie
<1> HIDE DEF a, m
<1>7. /\ a + t \in Nat /\ a <= a + t /\ a + t <= Len(s)
      /\ 2 * (a + m) + (t + u) + 1 \in Int /\ a + t - a = t
  BY <1>1, <1>2, <1>3
<1>8. /\ RankSum(s, o, a + t) = RankSum(s, o, a) + t * (2 * (a + m) + (t + u) + 1)
      /\ RankSum(s, o, a) \in Int
  <2>1. PICK b \in Nat, x \in Int : b = a + t /\ x = 2 * (a + m) + (t + u) + 1
    BY <1>7
  <2>2. a <= b /\ b <= Len(s) /\ \A i \in a + 1 .. b : RankOf(s, o)[i] = x
    BY <2>1, <1>6, <1>7
  <2>3. RankSum(s, o, b) = RankSum(s, o, a) + (b - a) * x /\ RankSum(s, o, a) \in Int
    BY <2>2, <1>3, RankSumBlock, ZenonT(90)
  <2>4. b - a = t
    BY <2>1, <1>1, <1>3
  <2> QED BY <2>1, <2>3, <2>4, Zenon
<1> QED BY <1>1, <1>2, <1>4, <1>5, <1>6, <1>8 DEF a, m

LEMMA WmwTieHolds ==
  ASSUME Sorted(sample1), Sorted(sample2), WmwHolds, Ranks!WmwTie
  PROVE  WmwHolds' /\ kind' = "wmw"
<1> DEFINE t == Ranks!Times(rest1[1], rest1)
           u == Ranks!Times(rest1[1], rest2)
           a == Taken(rest1, sample1)
           b == Taken(rest2, sample2)
<1>1. /\ kind = "wmw" /\ rest1 # <<>> /\ rest2 # <<>> /\ Head(rest1) = Head(rest2)
      /\ kind' = kind /\ sample1' = sample1 /\ sample2' = sample2
  BY DEF Ranks!WmwTie, Ranks!Running, Ranks!samples
<1>2. /\ RestOf(rest1, sample1) /\ RestOf(rest2, sample2)
      /\ Less(rest1, sample1, rest2) /\ Less(rest2, sample2, rest1)
      /\ rank = a + b /\ rs1 = RankSum(sample1, sample2, a) /\ rs2 = RankSum(sample2, sample1, b)
  BY DEF WmwHolds
<1>3. /\ Head(rest1) = rest1[1] /\ Head(rest2) = rest2[1] /\ rest1[1] = rest2[1]
      /\ Len(rest1) \in Nat /\ Len(rest2) \in Nat
  BY <1>1, <1>2, HeadLeast
<1>4. a \in Nat /\ b \in Nat
  BY <1>2, RestFacts
<1>5. /\ t \in 1 .. Len(rest1) /\ u \in 1 .. Len(rest2)
      /\ Ranks!Occurs(rest1[1], rest1) = t /\ Ranks!Occurs(rest1[1], rest2) = u
      /\ RestOf(Ranks!Drop(rest1, t), sample1) /\ Taken(Ranks!Drop(rest1, t), sample1) = a + t
      /\ RankSum(sample1, sample2, a + t)
           = RankSum(sample1, sample2, a) + t * (2 * (a + b) + (t + u) + 1)
      /\ RankSum(sample1, sample2, a) \in Int
      /\ Less(Ranks!Drop(rest1, t), sample1, Ranks!Drop(rest2, u))
  BY <1>1, <1>2, <1>3, RankSumTie
<1>6. /\ RestOf(Ranks!Drop(rest2, u), sample2) /\ Taken(Ranks!Drop(rest2, u), sample2) = b + u
      /\ RankSum(sample2, sample1, b + u)
           = RankSum(sample2, sample1, b) + u * (2 * (b + a) + (u + t) + 1)
      /\ RankSum(sample2, sample1, b) \in Int
      /\ Less(Ranks!Drop(rest2, u), sample2, Ranks!Drop(rest1, t))
  <2>1. t = Ranks!Times(rest2[1], rest1) /\ u = Ranks!Times(rest2[1], rest2)
    BY <1>3
  <2> QED BY <2>1, <1>1, <1>2, <1>3, RankSumTie
<1>7. /\ rs1' = rs1 + (t * Ranks!RanksFrom(rank, rank + (t + u))) \div (t + u)
      /\ rs2' = rs2 + (u * Ranks!RanksFrom(rank, rank + (t + u))) \div (t + u)
      /\ rank' = rank + t + u
      /\ rest1' = Ranks!Drop(rest1, t) /\ rest2' = Ranks!Drop(rest2, u)
  BY <1>3, <1>5 DEF Ranks!WmwTie, Ranks!TieRanks
<1> HIDE DEF t, u, a, b
<1>8. t \in Nat /\ u \in Nat /\ t + u \in Nat /\ t + u > 0 /\ rank \in Nat
  BY <1>2, <1>3, <1>4, <1>5
<1>9. /\ (t * Ranks!RanksFrom(rank, rank + (t + u))) \div (t + u) = t * (2 * rank + (t + u) + 1)
      /\ (u * Ranks!RanksFrom(rank, rank + (t + u))) \div (t + u) = u * (2 * rank + (t + u) + 1)
  <2>1. PICK m \in Nat : m = t + u
    BY <1>8
  <2>2. m > 0
    BY <2>1, <1>8
  <2>3. /\ (t * Ranks!RanksFrom(rank, rank + m)) \div m = t * (2 * rank + m + 1)
        /\ (u * Ranks!RanksFrom(rank, rank + m)) \div m = u * (2 * rank + m + 1)
    BY <2>2, <1>8, TieShare
  <2> QED BY <2>1, <2>3
<1>10. rs1' = RankSum(sample1, sample2, a + t)
  BY <1>2, <1>5, <1>7, <1>9
<1>11. rs2' = RankSum(sample2, sample1, b + u)
  <2>1. 2 * (b + a) + (u + t) + 1 = 2 * rank + (t + u) + 1
    BY <1>2, <1>4, <1>8
  <2> QED BY <2>1, <1>2, <1>6, <1>7, <1>9
<1>12. rank' = (a + t) + (b + u)
  BY <1>2, <1>4, <1>7, <1>8
<1> QED BY <1>1, <1>5, <1>6, <1>7, <1>10, <1>11, <1>12 DEF WmwHolds

\* The sample that is left takes all ranks that are left.
LEMMA RankSumLast ==
  ASSUME NEW s, Sorted(s), NEW r, RestOf(r, s), NEW o, Sorted(o), NEW q, RestOf(q, o),
         Less(q, o, r), r = <<>> \/ q = <<>>
  PROVE  RankSum(s, o, Taken(r, s))
           + Ranks!RanksFrom(Taken(r, s) + Taken(q, o), Taken(r, s) + Taken(q, o) + Len(r))
           = RankSum(s, o, Len(s))
<1> DEFINE a == Taken(r, s)
           m == Taken(q, o)
<1>1. /\ a \in Nat /\ m \in Nat /\ Len(s) \in Nat /\ a + Len(r) = Len(s) /\ a <= Len(s)
      /\ Len(r) \in Nat /\ m + Len(q) = Len(o)
  BY RestFacts
<1>2. CASE q = <<>>
  <2>1. Len(q) = 0 /\ m = Len(o)
    BY <1>1, <1>2, RestFacts
  <2>2. \A i \in a + 1 .. Len(s) : RankOf(s, o)[i] = 2 * (i + m)
    <3> SUFFICES ASSUME NEW i \in a + 1 .. Len(s) PROVE RankOf(s, o)[i] = 2 * (i + m)
      OBVIOUS
    <3>1. \A k \in 1 .. Len(q) : s[i] < q[k]
      BY <2>1
    <3> QED BY <3>1, RankOfUntied
  <2> HIDE DEF a, m
  <2>3. RankSum(s, o, Len(s)) = RankSum(s, o, a) + Ranks!RanksFrom(a + m, Len(s) + m)
    BY <2>2, <1>1, RankSumRest
  <2>4. Len(s) + m = a + m + Len(r)
    BY <1>1
  <2> QED BY <2>3, <2>4 DEF a, m
<1>3. CASE q # <<>>
  <2>1. Len(r) = 0 /\ a = Len(s)
    BY <1>1, <1>3
  <2> HIDE DEF a, m
  <2>2. Ranks!RanksFrom(a + m, a + m + Len(r)) = 0
    BY <2>1, <1>1 DEF Ranks!RanksFrom
  <2>3. RankSum(s, o, a) \in Int
    <3>1. \A i \in a + 1 .. a : RankOf(s, o)[i] = 0
      BY <1>1
    <3> QED BY <3>1, <1>1, RankSumBlock
  <2> QED BY <2>1, <2>2, <2>3 DEF a, m
<1> QED BY <1>2, <1>3

LEMMA WmwRestHolds ==
  ASSUME Sorted(sample1), Sorted(sample2), WmwHolds, Ranks!WmwRest
  PROVE  WmwDone' /\ kind' = "done"
<1>1. /\ rest1 = <<>> \/ rest2 = <<>>
      /\ kind' = "done" /\ sample1' = sample1 /\ sample2' = sample2
      /\ rs1' = rs1 + Ranks!RanksFrom(rank, rank + Len(rest1))
      /\ rs2' = rs2 + Ranks!RanksFrom(rank, rank + Len(rest2))
  BY DEF Ranks!WmwRest, Ranks!Running
<1>2. /\ RestOf(rest1, sample1) /\ RestOf(rest2, sample2)
      /\ Less(rest1, sample1, rest2) /\ Less(rest2, sample2, rest1)
      /\ rank = Taken(rest1, sample1) + Taken(rest2, sample2)
  BY DEF WmwHolds
<1>3. rs1' = RankSum(sample1, sample2, Len(sample1))
  BY <1>1, <1>2, RankSumLast DEF WmwHolds
<1>4. rank = Taken(rest2, sample2) + Taken(rest1, sample1)
  <2>1. Taken(rest1, sample1) \in Nat /\ Taken(rest2, sample2) \in Nat
    BY <1>2, RestFacts
  <2> QED BY <2>1, <1>2
<1>5. rs2' = RankSum(sample2, sample1, Len(sample2))
  BY <1>1, <1>2, <1>4, RankSumLast DEF WmwHolds
<1> QED BY <1>1, <1>3, <1>5 DEF WmwDone

\* What the mean ranks of the first i items are more than the ranks they got.
RankGap(s, o) ==
  [i \in 0 .. Len(s) |->
     IF i = 0 \/ TiedIn(s[i], o) THEN 0
     ELSE (i - Ranks!Below(s[i], s)) * (Ranks!UpTo(s[i], s) - i)]

\* Where a run of equal items ends, they are no more.
LEMMA GapAtEnd ==
  ASSUME NEW s, Sorted(s), NEW o, Sorted(o), NEW i \in 0 .. Len(s),
         i = 0 \/ i = Len(s) \/ s[i] # s[i + 1]
  PROVE  RankGap(s, o)[i] = 0
<1>1. Len(s) \in Nat /\ \A k \in 1 .. Len(s) : s[k] \in Int
  BY DEF Sorted
<1>2. CASE i = 0 \/ TiedIn(s[i], o)
  BY <1>2 DEF RankGap
<1>3. CASE ~(i = 0 \/ TiedIn(s[i], o))
  <2>1. i \in 1 .. Len(s) /\ s[i] \in Int
    BY <1>1, <1>3
  <2>2. /\ Ranks!UpTo(s[i], s) \in 0 .. Len(s) /\ Ranks!Below(s[i], s) \in 0 .. Len(s)
        /\ \A k \in 1 .. Len(s) : s[k] <= s[i] <=> k <= Ranks!UpTo(s[i], s)
    BY <2>1, SortedBounds
  <2>3. i <= Ranks!UpTo(s[i], s)
    BY <2>1, <2>2
  <2>4. ~(i < Ranks!UpTo(s[i], s))
    <3> SUFFICES ASSUME i < Ranks!UpTo(s[i], s) PROVE FALSE
      OBVIOUS
    <3>1. i + 1 \in 1 .. Len(s) /\ i + 1 <= Ranks!UpTo(s[i], s)
      BY <2>1, <2>2, <1>1
    <3>2. s[i + 1] <= s[i] /\ s[i + 1] \in Int
      BY <3>1, <2>2, <1>1
    <3>3. s[i] <= s[i + 1]
      BY <2>1, <3>1 DEF Sorted
    <3>4. s[i] # s[i + 1]
      BY <3>1, <1>1, <1>3
    <3> QED BY <2>1, <3>2, <3>3, <3>4
  <2>5. Ranks!UpTo(s[i], s) = i
    BY <2>1, <2>2, <2>3, <2>4
  <2>6. (i - Ranks!Below(s[i], s)) * (i - i) = 0
    BY <2>1, <2>2
  <2> QED BY <2>5, <2>6, <1>3 DEF RankGap
<1> QED BY <1>2, <1>3

LEMMA GapStep ==
  ASSUME NEW s, Sorted(s), NEW o, Sorted(o), NEW i \in 1 .. Len(s)
  PROVE  /\ RankGap(s, o)[i] \in Int /\ RankGap(s, o)[i - 1] \in Int
         /\ MidRank(s[i], s, o) + RankGap(s, o)[i - 1] = RankOf(s, o)[i] + RankGap(s, o)[i]
<1> DEFINE v == s[i]
           b == Ranks!Below(v, s)
           u == Ranks!UpTo(v, s)
           m == Ranks!Below(v, o)
<1>1. /\ Len(s) \in Nat /\ v \in Int /\ i - 1 \in 0 .. Len(s) /\ i \in 0 .. Len(s)
      /\ \A k \in 1 .. Len(s) : s[k] \in Int
  BY DEF Sorted
<1>2. /\ b \in Nat /\ b \in Int /\ u \in Int
      /\ \A k \in 1 .. Len(s) : s[k] < v <=> k <= b
  <2>1. /\ b \in 0 .. Len(s) /\ u \in 0 .. Len(s)
        /\ \A k \in 1 .. Len(s) : s[k] < v <=> k <= b
    BY <1>1, SortedBounds
  <2> QED BY <2>1
<1>3. /\ m \in 0 .. Len(o) /\ Ranks!UpTo(v, o) \in 0 .. Len(o) /\ Len(o) \in Nat
      /\ \A k \in 1 .. Len(o) : o[k] < v <=> k <= m
      /\ \A k \in 1 .. Len(o) : o[k] <= v <=> k <= Ranks!UpTo(v, o)
      /\ \A k \in 1 .. Len(o) : o[k] \in Int
  <2>1. /\ m \in 0 .. Len(o) /\ Ranks!UpTo(v, o) \in 0 .. Len(o)
        /\ \A k \in 1 .. Len(o) : o[k] < v <=> k <= m
        /\ \A k \in 1 .. Len(o) : o[k] <= v <=> k <= Ranks!UpTo(v, o)
    BY <1>1, SortedBounds
  <2>2. Len(o) \in Nat /\ \A k \in 1 .. Len(o) : o[k] \in Int
    BY DEF Sorted
  <2> QED BY <2>1, <2>2
<1>4. CASE TiedIn(v, o)
  <2>1. RankOf(s, o)[i] = MidRank(v, s, o) /\ RankGap(s, o)[i] = 0
    BY <1>1, <1>4 DEF RankOf, RankGap
  <2>2. RankGap(s, o)[i - 1] = 0
    <3>1. CASE i - 1 = 0 \/ s[i - 1] = v
      BY <1>1, <1>4, <3>1 DEF RankGap
    <3>2. CASE ~(i - 1 = 0 \/ s[i - 1] = v)
      <4>1. (i - 1) + 1 = i /\ s[(i - 1) + 1] = v
        OBVIOUS
      <4> QED BY <4>1, <1>1, <3>2, GapAtEnd
    <3> QED BY <3>1, <3>2
  <2> QED BY <2>1, <2>2, RankOfType
<1>5. CASE ~TiedIn(v, o)
  <2>1. Ranks!UpTo(v, o) = m
    <3> DEFINE w == Ranks!UpTo(v, o)
    <3>1. w \in 0 .. Len(o) /\ \A k \in 1 .. Len(o) : o[k] <= v <=> k <= w
      BY <1>3
    <3> HIDE DEF w, m, v
    <3>2. \A k \in 1 .. Len(o) : k <= m <=> k <= w
      <4> SUFFICES ASSUME NEW k \in 1 .. Len(o) PROVE k <= m <=> k <= w
        OBVIOUS
      <4>1. o[k] # v /\ o[k] \in Int
        BY <1>3, <1>5 DEF TiedIn
      <4>2. o[k] < v <=> o[k] <= v
        BY <4>1, <1>1
      <4> QED BY <4>2, <3>1, <1>3
    <3>3. m <= w
      <4>1. m = 0 \/ m \in 1 .. Len(o)
        BY <1>3
      <4> QED BY <4>1, <3>1, <3>2, <1>3
    <3>4. w <= m
      <4>1. w = 0 \/ w \in 1 .. Len(o)
        BY <1>3, <3>1
      <4> QED BY <4>1, <3>1, <3>2, <1>3
    <3>5. w = m
      BY <3>1, <3>3, <3>4, <1>3
    <3> QED BY <3>5 DEF w
  <2>2. MidRank(v, s, o) = b + u + 2 * m + 1
    <3>1. m \in Int
      BY <1>3
    <3>2. b + u + m + m + 1 = b + u + 2 * m + 1
      BY <3>1, <1>2
    <3> QED BY <2>1, <3>2 DEF MidRank
  <2>3. RankOf(s, o)[i] = 2 * (i + m)
    BY <1>5 DEF RankOf
  <2>4. RankGap(s, o)[i] = (i - b) * (u - i)
    BY <1>1, <1>5 DEF RankGap
  <2>5. CASE i - 1 = 0 \/ s[i - 1] # v
    <3>1. b = i - 1
      <4>1. b <= i - 1
        <5>1. ~(i <= b)
          BY <1>1, <1>2
        <5> QED BY <5>1, <1>2
      <4>2. i - 1 <= b \/ i - 1 = 0
        <5> SUFFICES ASSUME i - 1 # 0 PROVE i - 1 <= b
          OBVIOUS
        <5>1. i - 1 \in 1 .. Len(s) /\ s[i - 1] # v
          BY <2>5, <1>1
        <5>2. s[i - 1] <= v /\ s[i - 1] \in Int
          BY <5>1, <1>1 DEF Sorted
        <5> QED BY <5>1, <5>2, <1>1, <1>2
      <4> QED BY <4>1, <4>2, <1>1, <1>2
    <3>2. RankGap(s, o)[i - 1] = 0
      <4>1. (i - 1) + 1 = i /\ s[(i - 1) + 1] = v
        OBVIOUS
      <4> QED BY <4>1, <1>1, <2>5, GapAtEnd
    <3>3. /\ b + u + 2 * m + 1 + 0 = 2 * (i + m) + (i - b) * (u - i) /\ (i - b) * (u - i) \in Int
      <4>1. i - b = 1
        BY <3>1
      <4>2. 1 * (u - i) = u - i /\ u - i \in Int
        BY <1>2
      <4>3. (i - b) * (u - i) = u - i
        BY <4>1, <4>2
      <4> QED BY <4>2, <4>3, <3>1, <1>2, <1>3
    <3> QED BY <2>2, <2>3, <2>4, <3>2, <3>3
  <2>6. CASE ~(i - 1 = 0 \/ s[i - 1] # v)
    <3>1. RankGap(s, o)[i - 1] = (i - 1 - b) * (u - (i - 1))
      BY <1>1, <1>5, <2>6 DEF RankGap
    <3> HIDE DEF b, u, m
    <3>2. (i - b) * (u - i) - (i - 1 - b) * (u - (i - 1)) = b + u + 1 - 2 * i
      BY <1>2
    <3>3. PICK x \in Int, y \in Int : x = (i - b) * (u - i) /\ y = (i - 1 - b) * (u - (i - 1))
      BY <1>2
    <3>4. x - y = b + u + 1 - 2 * i
      BY <3>2, <3>3
    <3>5. b + u + 2 * m + 1 + y = 2 * (i + m) + x
      BY <3>4, <1>2, <1>3
    <3> QED BY <2>2, <2>3, <2>4, <3>1, <3>3, <3>5
  <2> QED BY <2>5, <2>6
<1> QED BY <1>4, <1>5

\* In all, the items have got their mean ranks.
LEMMA RanksAreMean ==
  ASSUME NEW s, Sorted(s), NEW o, Sorted(o)
  PROVE  RankSum(s, o, Len(s)) = SumFunctionOnSet([i \in 1 .. Len(s) |-> MidRank(s[i], s, o)],
                                                  1 .. Len(s))
<1>1. PICK n \in Nat : n = Len(s)
  BY DEF Sorted
<1> DEFINE f == RankOf(s, o)
           h == [i \in 1 .. n |-> MidRank(s[i], s, o)]
           d == RankGap(s, o)
           sum(i) == SumFunctionOnSet(h, 1 .. i)
           g == [i \in 0 .. n |-> sum(i) - d[i]]
<1>2. \A i \in 1 .. n : f[i] \in Int /\ h[i] \in Int
  BY <1>1, RankOfType
<1>3. \A i \in 1 .. n : d[i] \in Int /\ d[i - 1] \in Int /\ h[i] + d[i - 1] = f[i] + d[i]
  BY <1>1, GapStep
<1>4. d[0] = 0 /\ d[n] = 0
  BY <1>1, GapAtEnd
<1> HIDE DEF f, h, d
<1>5. \A i \in 0 .. n : sum(i) \in Int
  <2> SUFFICES ASSUME NEW i \in 0 .. n PROVE sum(i) \in Int
    OBVIOUS
  <2>1. IsFiniteSet(1 .. i) /\ \A k \in 1 .. i : h[k] \in Int
    BY <1>2, FS_Interval
  <2> QED BY <2>1, SumType
<1>6. \A i \in 1 .. n : sum(i) = h[i] + sum(i - 1)
  <2> SUFFICES ASSUME NEW i \in 1 .. n PROVE sum(i) = h[i] + sum(i - 1)
    OBVIOUS
  <2>1. /\ i \notin 1 .. i - 1 /\ 1 .. i = (1 .. i - 1) \cup {i}
        /\ \A x \in (1 .. i - 1) \cup {i} : h[x] \in Int
    BY <1>2
  <2>2. IsFiniteSet(1 .. i - 1)
    BY FS_Interval
  <2>3. SumFunctionOnSet(h, (1 .. i - 1) \cup {i}) = h[i] + SumFunctionOnSet(h, 1 .. i - 1)
    BY <2>1, <2>2, SumAdd
  <2> QED BY <2>1, <2>3
<1>7. sum(0) = 0 /\ SumFunctionOnSet(f, 1 .. 0) = 0
  <2>1. 1 .. 0 = {}
    OBVIOUS
  <2> QED BY <2>1, SumOfNothing
<1> HIDE DEF sum
<1>8. \A i \in 0 .. n : d[i] \in Int
  <2>1. \A i \in 0 .. n : i = 0 \/ i \in 1 .. n
    OBVIOUS
  <2> QED BY <2>1, <1>3, <1>4
<1>9. \A i \in 0 .. n : g[i] \in Int
  BY <1>5, <1>8
<1>10. \A i \in 1 .. n : g[i] = g[i - 1] + f[i]
  <2> SUFFICES ASSUME NEW i \in 1 .. n PROVE g[i] = g[i - 1] + f[i]
    OBVIOUS
  <2>1. i - 1 \in 0 .. n /\ i \in 0 .. n
    OBVIOUS
  <2>2. (h[i] + sum(i - 1)) - d[i] = (sum(i - 1) - d[i - 1]) + f[i]
    BY <2>1, <1>2, <1>3, <1>5
  <2>3. g[i] = sum(i) - d[i] /\ g[i - 1] = sum(i - 1) - d[i - 1]
    BY <2>1
  <2>4. sum(i) = h[i] + sum(i - 1)
    BY <1>6
  <2> HIDE DEF g
  <2> QED BY <2>2, <2>3, <2>4
<1>11. g[0] = 0 /\ g[n] = sum(n)
  BY <1>4, <1>5, <1>7
<1> HIDE DEF g
<1>12. SumFunctionOnSet(f, 1 .. n) = SumFunctionOnSet(f, 1 .. 0) + (g[n] - g[0])
  <2>1. PICK a \in Nat : a = 0
    OBVIOUS
  <2>2. /\ a <= n /\ \A i \in a .. n : g[i] \in Int
        /\ \A i \in a + 1 .. n : g[i] = g[i - 1] + f[i]
    BY <2>1, <1>9, <1>10
  <2>3. \A i \in 1 .. n : f[i] \in Int
    BY <1>2
  <2>4. SumFunctionOnSet(f, 1 .. n) = SumFunctionOnSet(f, 1 .. a) + (g[n] - g[a])
    BY <2>2, <2>3, Telescope
  <2> QED BY <2>1, <2>4
<1>13. SumFunctionOnSet(f, 1 .. n) = sum(n)
  BY <1>5, <1>7, <1>11, <1>12
<1> QED BY <1>1, <1>13 DEF RankSum, f, h, sum
-----------------------------------------------------------------------------
(* Kolmogorov's distance. *)

\* The distance of both distributions at v, times both numbers of items.
GapOf(v, s, o) == Ranks!UpTo(v, s) * Len(o) - Ranks!UpTo(v, o) * Len(s)

\* What has been taken of s keeps to the bounds, but the value in whose run the
\* loop stands; a bound but 0 is reached or passed at some value.
Bounded(r, s, o, lo, hi) ==
  \A i \in 1 .. Taken(r, s) :
    /\ GapOf(s[i], s, o) <= hi \/ (r # <<>> /\ r[1] = s[i])
    /\ lo <= GapOf(s[i], s, o)
Reached(hi, s, o) ==
  hi # 0 => \E v \in Ranks!Range(s) \cup Ranks!Range(o) : hi <= GapOf(v, s, o)

\* The loop of the test, seen from the first sample; the second one sees the
\* distances with the other sign.
KsState(r, s, q, o, d, lo, hi) ==
  /\ RestOf(r, s) /\ RestOf(q, o) /\ Less(r, s, q) /\ Less(q, o, r)
  /\ d = Taken(r, s) * Len(o) - Taken(q, o) * Len(s)
  /\ lo \in Int /\ hi \in Int /\ lo <= 0 /\ 0 <= hi /\ lo <= d /\ d <= hi
  /\ Bounded(r, s, o, lo, hi) /\ Bounded(q, o, s, -hi, -lo)
  /\ Reached(hi, s, o) /\ Reached(-lo, o, s)

LEMMA KsSwap ==
  ASSUME NEW r, NEW s, Sorted(s), NEW q, NEW o, Sorted(o), NEW d, NEW lo, NEW hi,
         KsState(r, s, q, o, d, lo, hi)
  PROVE  KsState(q, o, r, s, -d, -hi, -lo)
<1>1. /\ Taken(r, s) \in Nat /\ Taken(q, o) \in Nat /\ Len(s) \in Nat /\ Len(o) \in Nat
      /\ lo \in Int /\ hi \in Int
  BY RestFacts DEF KsState
<1>2. PICK x \in Int, y \in Int : x = Taken(r, s) * Len(o) /\ y = Taken(q, o) * Len(s)
  BY <1>1
<1>3. d = x - y /\ d \in Int /\ -d = y - x
  BY <1>2 DEF KsState
<1>4. /\ -(-hi) = hi /\ -(-lo) = lo
      /\ -hi \in Int /\ -lo \in Int /\ -hi <= 0 /\ 0 <= -lo /\ -hi <= -d /\ -d <= -lo
  BY <1>1, <1>3, SMTT(40) DEF KsState
<1> QED BY <1>2, <1>3, <1>4 DEF KsState

LEMMA GapType ==
  ASSUME NEW s, Sorted(s), NEW o, Sorted(o), NEW v \in Int
  PROVE  GapOf(v, s, o) \in Int /\ GapOf(v, o, s) = -GapOf(v, s, o)
<1>1. Ranks!UpTo(v, s) \in 0 .. Len(s) /\ Ranks!UpTo(v, o) \in 0 .. Len(o)
  BY SortedBounds
<1>2. Len(s) \in Nat /\ Len(o) \in Nat
  BY DEF Sorted
<1>3. PICK x \in Int, y \in Int : x = Ranks!UpTo(v, s) * Len(o) /\ y = Ranks!UpTo(v, o) * Len(s)
  BY <1>1, <1>2
<1>4. x - y \in Int /\ y - x = -(x - y)
  OBVIOUS
<1> QED BY <1>3, <1>4 DEF GapOf

LEMMA RangeIsInt ==
  ASSUME NEW s, Sorted(s), NEW o, Sorted(o), NEW v \in Ranks!Range(s) \cup Ranks!Range(o)
  PROVE  v \in Int
  BY DEF Ranks!Range, Sorted

\* An item of the first sample alone moves the distance up.
LEMMA KsUp ==
  ASSUME NEW r, NEW s, Sorted(s), NEW q, NEW o, Sorted(o), NEW d, NEW lo, NEW hi,
         KsState(r, s, q, o, d, lo, hi), r # <<>>, q # <<>>, r[1] < q[1],
         NEW top, top = IF d + Len(o) > hi THEN d + Len(o) ELSE hi
  PROVE  KsState(Tail(r), s, q, o, d + Len(o), lo, top)
<1> DEFINE v == r[1]
           a == Taken(r, s)
           m == Taken(q, o)
           w == Tail(r)
           e == d + Len(o)
<1>1. /\ RestOf(r, s) /\ RestOf(q, o) /\ Less(r, s, q) /\ Less(q, o, r)
      /\ d = a * Len(o) - m * Len(s)
      /\ lo \in Int /\ hi \in Int /\ lo <= 0 /\ 0 <= hi /\ lo <= d /\ d <= hi
      /\ Bounded(r, s, o, lo, hi) /\ Bounded(q, o, s, -hi, -lo)
      /\ Reached(hi, s, o) /\ Reached(-lo, o, s)
  BY DEF KsState
<1>2. /\ RestOf(w, s) /\ Taken(w, s) = a + 1
      /\ a + 1 \in 1 .. Len(s) /\ s[a + 1] = v
      /\ \A k \in 1 .. Len(q) : v < q[k]
      /\ Less(w, s, q) /\ Less(q, o, w)
  BY <1>1, TakeHead
<1>3. /\ a \in Nat /\ Len(s) \in Nat /\ m \in Nat /\ Len(o) \in Nat
      /\ \A i \in 1 .. Len(s) : s[i] \in Int
      /\ \A i \in 1 .. Len(o) : o[i] \in Int
      /\ m + Len(q) = Len(o) /\ Len(q) \in Nat
  BY <1>1, RestFacts
<1>4. Len(r) \in Nat \ {0} /\ v \in Int /\ v \in Ranks!Range(s)
  BY <1>1, HeadLeast
<1>5. Ranks!UpTo(v, o) = m
  <2>1. 1 \in 1 .. Len(r)
    BY <1>4
  <2>2. \A i \in 1 .. m : o[i] < v
    BY <1>1, <2>1 DEF Less
  <2>3. \A i \in 1 .. m : i \in 1 .. Len(o)
    BY <1>3
  <2> HIDE DEF v
  <2>4. \A i \in 1 .. m : o[i] <= v
    BY <2>2, <2>3, <1>3, <1>4
  <2> QED BY <2>4, <1>1, <1>2, <1>4, UpToIsTaken
<1>6. /\ Ranks!UpTo(v, s) \in 0 .. Len(s)
      /\ \A i \in 1 .. Len(s) : s[i] <= v <=> i <= Ranks!UpTo(v, s)
  BY <1>4, SortedBounds
<1>7. a + 1 <= Ranks!UpTo(v, s)
  BY <1>2, <1>4, <1>6
<1>8. ASSUME ~(w # <<>> /\ w[1] = v) PROVE Ranks!UpTo(v, s) = a + 1
  <2>1. \A i \in 1 .. Len(w) : v < w[i]
    <3>1. CASE w = <<>>
      <4> HIDE DEF w
      <4> QED BY <3>1
    <3>2. CASE w # <<>>
      <4>1. /\ Len(r) - 1 = Len(w) /\ Len(w) \in Nat \ {0} /\ w[1] = r[1 + 1]
            /\ \A i \in 1 .. Len(w) : w[1] <= w[i] /\ w[i] \in Int
        <5>1. /\ Len(w) \in Nat \ {0}
              /\ \A i \in 1 .. Len(w) : w[1] <= w[i] /\ w[i] \in Int
          BY <1>2, <3>2, HeadLeast
        <5>2. Len(w) = Len(r) - 1 /\ \A i \in 1 .. Len(r) - 1 : w[i] = r[1 + i]
          BY <1>1, TailRest
        <5> QED BY <5>1, <5>2
      <4>2. r[1 + 1] \in Int /\ v <= r[1 + 1]
        <5>1. 1 + 1 \in 1 .. Len(r)
          BY <4>1, <1>4
        <5> QED BY <5>1, <1>1, HeadLeast
      <4>3. v < w[1]
        BY <4>1, <4>2, <3>2, <1>4, <1>8
      <4> HIDE DEF v, w
      <4> QED BY <4>1, <4>3, <1>4
    <3> QED BY <3>1, <3>2
  <2>2. \A i \in 1 .. a + 1 : s[i] <= v
    BY <1>2, <1>3, <1>6, <1>7, SMTT(40)
  <2> HIDE DEF v, w, a
  <2>3. Ranks!UpTo(v, s) = Taken(w, s)
    BY <2>1, <2>2, <1>2, <1>4, UpToIsTaken
  <2> QED BY <2>3, <1>2
<1> DEFINE g == GapOf(v, s, o)
<1>9. /\ e \in Int /\ e = (a + 1) * Len(o) - m * Len(s) /\ d <= e
      /\ g \in Int /\ e <= g
      /\ ~(w # <<>> /\ w[1] = v) => g = e
  <2> DEFINE n == Ranks!UpTo(v, s)
             c == Len(o)
  <2> HIDE DEF v, w, a, m, n, c
  <2>1. n \in Nat /\ c \in Nat /\ a + 1 <= n
    BY <1>3, <1>6, <1>7 DEF n, c
  <2>2. PICK z \in Int : z = m * Len(s)
    BY <1>3
  <2>3. PICK x \in Int, y \in Int : x = a * c /\ y = n * c
    BY <2>1, <1>3
  <2>4. (a + 1) * c = x + c /\ x + c <= y /\ (n = a + 1 => y = x + c)
    <3>1. (a + 1) * c = a * c + c /\ (a + 1) * c <= n * c
      BY <2>1, <1>3
    <3> QED BY <2>3, <3>1
  <2>5. d = x - z /\ e = d + c /\ g = y - z
    BY <2>2, <2>3, <1>1, <1>5 DEF GapOf, n, c
  <2>6. /\ e \in Int /\ e = (x + c) - z /\ d <= e /\ g \in Int /\ e <= g
        /\ n = a + 1 => g = e
    <3>1. /\ d = x - z /\ e = d + c /\ g = y - z /\ x + c <= y
          /\ n = a + 1 => y = x + c
      BY <2>4, <2>5
    <3> HIDE DEF e, g
    <3> QED BY <2>1, <3>1
  <2>7. ~(w # <<>> /\ w[1] = v) => n = a + 1
    BY <1>8 DEF n
  <2>8. e = (a + 1) * Len(o) - m * Len(s)
    BY <2>2, <2>4, <2>6 DEF c
  <2> QED BY <2>6, <2>7, <2>8
<1> HIDE DEF e, g, v, w, a, m
<1>10. /\ top \in Int /\ hi <= top /\ e <= top /\ 0 <= top /\ lo <= e
       /\ top = hi \/ top = e
  <2>1. e \in Int /\ d <= e /\ d \in Int
    <3>1. d \in Int
      BY <1>1, <1>3
    <3> QED BY <3>1, <1>9
  <2>2. top = IF e > hi THEN e ELSE hi
    BY DEF e
  <2>3. hi \in Int /\ 0 <= hi /\ lo \in Int /\ lo <= d
    BY <1>1
  <2> QED BY <2>1, <2>2, <2>3
<1>11. Bounded(w, s, o, lo, top)
  <2> SUFFICES ASSUME NEW i \in 1 .. a + 1
               PROVE  /\ GapOf(s[i], s, o) <= top \/ (w # <<>> /\ w[1] = s[i])
                      /\ lo <= GapOf(s[i], s, o)
    BY <1>2 DEF Bounded
  <2>1. CASE s[i] = v
    <3>1. lo <= g
      BY <1>1, <1>9, <1>10
    <3>2. g <= top \/ (w # <<>> /\ w[1] = v)
      BY <1>9, <1>10
    <3> QED BY <2>1, <3>1, <3>2 DEF g
  <2>2. CASE s[i] # v
    <3>1. i \in 1 .. a
      BY <2>2, <1>2, <1>3
    <3>2. i \in 1 .. Len(s)
      BY <1>2, <1>3
    <3>3. GapOf(s[i], s, o) \in Int
      BY <3>2, <1>3, GapType
    <3>4. GapOf(s[i], s, o) <= hi /\ lo <= GapOf(s[i], s, o)
      BY <3>1, <2>2, <1>1 DEF Bounded, a, v
    <3> QED BY <3>3, <3>4, <1>1, <1>10
  <2> QED BY <2>1, <2>2
<1>12. Bounded(q, o, s, -top, -lo)
  <2> SUFFICES ASSUME NEW i \in 1 .. Taken(q, o)
               PROVE  -top <= GapOf(o[i], o, s)
    BY <1>1 DEF Bounded
  <2>1. i \in 1 .. Len(o)
    BY <1>3 DEF m
  <2>2. GapOf(o[i], o, s) \in Int
    BY <2>1, <1>3, GapType
  <2>3. -hi <= GapOf(o[i], o, s)
    BY <1>1 DEF Bounded
  <2> QED BY <2>2, <2>3, <1>1, <1>10
<1>13. Reached(top, s, o)
  <2>1. CASE top = hi
    BY <2>1, <1>1
  <2>2. CASE top = e
    <3>1. top <= GapOf(v, s, o)
      BY <2>2, <1>9 DEF g
    <3> QED BY <3>1, <1>4 DEF Reached
  <2> QED BY <2>1, <2>2, <1>10
<1>14. e = Taken(w, s) * Len(o) - Taken(q, o) * Len(s)
  BY <1>2, <1>9 DEF m
<1>15. KsState(w, s, q, o, e, lo, top)
  BY <1>1, <1>2, <1>10, <1>11, <1>12, <1>13, <1>14 DEF KsState
<1> QED BY <1>15 DEF w, e

\* A value that both samples have is passed in one step.
LEMMA TieBounded ==
  ASSUME NEW r, NEW s, Sorted(s), NEW q, NEW o, Sorted(o), NEW lo \in Int, NEW hi \in Int,
         RestOf(r, s), RestOf(q, o), Less(r, s, q), Less(q, o, r),
         r # <<>>, q # <<>>, r[1] = q[1], Bounded(r, s, o, lo, hi),
         NEW low \in Int, NEW top \in Int, low <= lo, hi <= top,
         low <= GapOf(r[1], s, o), GapOf(r[1], s, o) <= top,
         NEW t, t = Ranks!Times(r[1], r)
  PROVE  Bounded(Ranks!Drop(r, t), s, o, low, top)
<1> DEFINE a == Taken(r, s)
<1>1. /\ t \in 1 .. Len(r) /\ Taken(Ranks!Drop(r, t), s) = a + t
  BY RankSumTie
<1>2. \A i \in 1 .. Len(r) : r[i] = r[1] <=> i <= t
  <2>1. r[1] \in Int /\ \A i \in 1 .. Len(r) : r[1] <= r[i]
    BY HeadLeast
  <2>2. PICK v \in Int : v = r[1]
    BY <2>1
  <2>3. \A i \in 1 .. Len(r) : v <= r[i]
    BY <2>1, <2>2
  <2>4. \A i \in 1 .. Len(r) : r[i] = v <=> i <= Ranks!Times(v, r)
    BY <2>3, TimesBlock
  <2> QED BY <2>2, <2>4
<1>3. /\ a \in Nat /\ Len(r) \in Nat /\ Len(s) \in Nat /\ a + Len(r) = Len(s)
      /\ \A i \in 1 .. Len(r) : r[i] = s[a + i]
      /\ \A i \in 1 .. Len(s) : s[i] \in Int
  BY RestFacts
<1>4. ASSUME NEW i \in 1 .. a + t
      PROVE  GapOf(s[i], s, o) <= top /\ low <= GapOf(s[i], s, o)
  <2>1. i \in 1 .. Len(s) /\ GapOf(s[i], s, o) \in Int
    <3>1. i \in 1 .. Len(s)
      BY <1>1, <1>3
    <3>2. s[i] \in Int
      BY <3>1, <1>3
    <3> QED BY <3>1, <3>2, GapType
  <2>2. CASE i \in 1 .. a
    <3>1. s[i] # r[1]
      <4>1. 1 \in 1 .. Len(q)
        BY HeadLeast
      <4>2. s[i] < q[1] /\ s[i] \in Int
        BY <4>1, <2>1, <2>2, <1>3 DEF Less
      <4> QED BY <4>2
    <3>2. GapOf(s[i], s, o) <= hi /\ lo <= GapOf(s[i], s, o)
      BY <2>2, <3>1 DEF Bounded
    <3> QED BY <3>2, <2>1
  <2>3. CASE i \notin 1 .. a
    <3>1. i - a \in 1 .. Len(r) /\ i - a <= t /\ a + (i - a) = i
      BY <2>3, <1>1, <1>3, SMTT(40)
    <3>2. s[i] = r[1]
      BY <3>1, <1>2, <1>3
    <3> QED BY <3>2
  <2> QED BY <2>2, <2>3
<1> QED BY <1>1, <1>4 DEF Bounded

Moved(d, t, u, s, o) == d + t * Len(o) - u * Len(s)
Higher(e, hi) == IF e > hi THEN e ELSE hi
Lower(e, lo, hi) == IF e <= hi /\ e < lo THEN e ELSE lo

LEMMA ProductsGrow == \A i, k \in Int, c \in Nat : i <= k => i * c <= k * c
  OBVIOUS

LEMMA KsTied ==
  ASSUME NEW r, NEW s, Sorted(s), NEW q, NEW o, Sorted(o), NEW d, NEW lo, NEW hi,
         KsState(r, s, q, o, d, lo, hi), r # <<>>, q # <<>>, r[1] = q[1],
         NEW t, t = Ranks!Times(r[1], r), NEW u, u = Ranks!Times(r[1], q),
         NEW e, e = Moved(d, t, u, s, o),
         NEW top, top = Higher(e, hi), NEW low, low = Lower(e, lo, hi)
  PROVE  KsState(Ranks!Drop(r, t), s, Ranks!Drop(q, u), o, e, low, top)
<1> DEFINE v == r[1]
           a == Taken(r, s)
           m == Taken(q, o)
           w == Ranks!Drop(r, t)
           z == Ranks!Drop(q, u)
<1>1. /\ RestOf(r, s) /\ RestOf(q, o) /\ Less(r, s, q) /\ Less(q, o, r)
      /\ d = a * Len(o) - m * Len(s)
      /\ lo \in Int /\ hi \in Int /\ lo <= 0 /\ 0 <= hi /\ lo <= d /\ d <= hi
      /\ Bounded(r, s, o, lo, hi) /\ Bounded(q, o, s, -hi, -lo)
      /\ Reached(hi, s, o) /\ Reached(-lo, o, s)
  BY DEF KsState
<1>2. v \in Int /\ v \in Ranks!Range(s) /\ u = Ranks!Times(q[1], q) /\ t = Ranks!Times(q[1], r)
  BY <1>1, HeadLeast
<1>3. /\ t \in 1 .. Len(r) /\ RestOf(w, s) /\ Taken(w, s) = a + t /\ Less(w, s, z)
  BY <1>1, RankSumTie
<1>4. /\ u \in 1 .. Len(q) /\ RestOf(z, o) /\ Taken(z, o) = m + u /\ Less(z, o, w)
  BY <1>1, <1>2, RankSumTie
<1>5. Ranks!UpTo(v, s) = a + t
  BY <1>1, RankOfTie
<1>6. Ranks!UpTo(v, o) = m + u
  <2>1. Ranks!UpTo(q[1], o) = Taken(q, o) + Ranks!Times(q[1], q)
    BY <1>1, RankOfTie
  <2> QED BY <2>1, <1>2
<1>7. /\ a \in Nat /\ m \in Nat /\ Len(s) \in Nat /\ Len(o) \in Nat /\ t \in Nat /\ u \in Nat
  <2>1. Len(r) \in Nat /\ a \in Nat /\ Len(s) \in Nat
    BY <1>1, RestFacts
  <2>2. Len(q) \in Nat /\ m \in Nat /\ Len(o) \in Nat
    BY <1>1, RestFacts
  <2>3. t \in 1 .. Len(r) /\ u \in 1 .. Len(q)
    BY <1>3, <1>4
  <2>4. t \in Nat /\ u \in Nat
    BY <2>1, <2>2, <2>3
  <2> QED BY <2>1, <2>2, <2>4
<1> HIDE DEF v, a, m, w, z
<1>8. /\ e \in Int /\ d \in Int /\ e = GapOf(v, s, o)
      /\ e = (a + t) * Len(o) - (m + u) * Len(s)
  <2> DEFINE n == Len(s)
             c == Len(o)
  <2> HIDE DEF n, c
  <2>1. n \in Nat /\ c \in Nat
    BY <1>7 DEF n, c
  <2>2. PICK x1 \in Int, x2 \in Int, y1 \in Int, y2 \in Int :
          x1 = a * c /\ x2 = t * c /\ y1 = m * n /\ y2 = u * n
    <3>1. a * c \in Int /\ t * c \in Int
      BY <2>1, <1>7
    <3>2. m * n \in Int /\ u * n \in Int
      BY <2>1, <1>7
    <3> QED BY <3>1, <3>2
  <2>3. (a + t) * c = x1 + x2 /\ (m + u) * n = y1 + y2
    <3>1. (a + t) * c = a * c + t * c /\ (m + u) * n = m * n + u * n
      BY <2>1, <1>7
    <3> QED BY <2>2, <3>1
  <2>4. d = x1 - y1 /\ e = d + x2 - y2
    BY <2>2, <1>1 DEF n, c, Moved
  <2>5. e = (x1 + x2) - (y1 + y2) /\ d \in Int /\ e \in Int
    BY <2>4
  <2> QED BY <2>3, <2>5, <1>5, <1>6 DEF GapOf, n, c
<1>9. /\ top \in Int /\ low \in Int /\ low <= lo /\ hi <= top /\ low <= e /\ e <= top
      /\ low <= 0 /\ 0 <= top /\ (top = hi \/ top = e) /\ (low = lo \/ low = e)
  <2>1. e \in Int /\ lo \in Int /\ hi \in Int /\ lo <= 0 /\ 0 <= hi
    BY <1>1, <1>8
  <2>2. lo <= hi
    BY <2>1
  <2> QED BY <2>1, <2>2 DEF Higher, Lower
<1>10. Bounded(w, s, o, low, top)
  <2>1. low <= GapOf(r[1], s, o) /\ GapOf(r[1], s, o) <= top
    BY <1>8, <1>9 DEF v
  <2> QED BY <2>1, <1>1, <1>9, TieBounded DEF w
<1>11. GapOf(v, o, s) = -e
  <2>1. GapOf(v, o, s) = -GapOf(v, s, o)
    BY <1>2, GapType
  <2> QED BY <2>1, <1>8
<1>12. Bounded(z, o, s, -top, -low)
  <2>1. -top <= GapOf(q[1], o, s) /\ GapOf(q[1], o, s) <= -low
    BY <1>8, <1>9, <1>11 DEF v
  <2>2. /\ -top \in Int /\ -low \in Int /\ -hi \in Int /\ -lo \in Int
        /\ -top <= -hi /\ -lo <= -low
    BY <1>1, <1>9
  <2>3. PICK l1 \in Int, l2 \in Int, h1 \in Int, h2 \in Int :
          l1 = -hi /\ h1 = -lo /\ l2 = -top /\ h2 = -low
    BY <2>2
  <2>4. Bounded(z, o, s, l2, h2)
    BY <2>1, <2>2, <2>3, <1>1, <1>2, TieBounded DEF z
  <2> QED BY <2>3, <2>4
<1>13. Reached(top, s, o)
  <2>1. CASE top = hi
    BY <2>1, <1>1
  <2>2. CASE top = e
    <3>1. top <= GapOf(v, s, o)
      BY <2>2, <1>8
    <3> QED BY <3>1, <1>2 DEF Reached
  <2> QED BY <2>1, <2>2, <1>9
<1>14. Reached(-low, o, s)
  <2>1. CASE low = lo
    BY <2>1, <1>1
  <2>2. CASE low = e
    <3>1. -low <= GapOf(v, o, s)
      BY <2>2, <1>8, <1>11
    <3> QED BY <3>1, <1>2 DEF Reached
  <2> QED BY <2>1, <2>2, <1>9
<1>15. e = Taken(w, s) * Len(o) - Taken(z, o) * Len(s)
  BY <1>3, <1>4, <1>8
<1> QED BY <1>3, <1>4, <1>9, <1>10, <1>12, <1>13, <1>14, <1>15 DEF KsState, w, z

\* When the second sample is parsed, no distance is beyond the bounds.
LEMMA KsOver ==
  ASSUME NEW r, NEW s, Sorted(s), NEW q, NEW o, Sorted(o), NEW d, NEW lo, NEW hi,
         KsState(r, s, q, o, d, lo, hi), q = <<>>,
         NEW v \in Ranks!Range(s) \cup Ranks!Range(o)
  PROVE  lo <= GapOf(v, s, o) /\ GapOf(v, s, o) <= hi
<1> DEFINE a == Taken(r, s)
<1>1. /\ RestOf(r, s) /\ RestOf(q, o) /\ Less(r, s, q) /\ Less(q, o, r)
      /\ d = a * Len(o) - Taken(q, o) * Len(s)
      /\ lo \in Int /\ hi \in Int /\ lo <= 0 /\ 0 <= hi /\ lo <= d /\ d <= hi
      /\ Bounded(r, s, o, lo, hi) /\ Bounded(q, o, s, -hi, -lo)
  BY DEF KsState
<1>2. /\ a \in Nat /\ Len(s) \in Nat /\ Len(o) \in Nat /\ Len(r) \in Nat /\ a + Len(r) = Len(s)
      /\ Taken(q, o) + Len(q) = Len(o) /\ Taken(q, o) \in Nat
      /\ \A i \in 1 .. Len(r) : r[i] = s[a + i]
      /\ \A i \in 1 .. Len(s) : s[i] \in Int
      /\ \A i \in 1 .. Len(o) : o[i] \in Int
      /\ DOMAIN s = 1 .. Len(s) /\ DOMAIN o = 1 .. Len(o)
  <2>1. /\ a \in Nat /\ Len(s) \in Nat /\ Len(r) \in Nat /\ a + Len(r) = Len(s)
        /\ \A i \in 1 .. Len(r) : r[i] = s[a + i]
        /\ \A i \in 1 .. Len(s) : s[i] \in Int
    BY <1>1, RestFacts
  <2>2. /\ Len(o) \in Nat /\ Taken(q, o) + Len(q) = Len(o) /\ Taken(q, o) \in Nat
        /\ \A i \in 1 .. Len(o) : o[i] \in Int
    BY <1>1, RestFacts
  <2>3. DOMAIN s = 1 .. Len(s) /\ DOMAIN o = 1 .. Len(o)
    BY DEF Sorted
  <2> QED BY <2>1, <2>2, <2>3
<1>3. Taken(q, o) = Len(o)
  BY <1>2
<1>4. GapOf(v, s, o) \in Int /\ GapOf(v, o, s) = -GapOf(v, s, o)
  BY RangeIsInt, GapType
<1>5. CASE v \in Ranks!Range(o)
  <2>1. PICK i \in 1 .. Len(o) : o[i] = v
    BY <1>2, <1>5 DEF Ranks!Range
  <2>2. -hi <= GapOf(v, o, s) /\ GapOf(v, o, s) <= -lo
    BY <2>1, <1>1, <1>3 DEF Bounded
  <2> QED BY <2>2, <1>1, <1>4
<1>6. CASE v \in Ranks!Range(s)
  <2>1. PICK i \in 1 .. Len(s) : s[i] = v
    BY <1>2, <1>6 DEF Ranks!Range
  <2>2. v \in Int
    BY <2>1, <1>2
  <2>3. /\ Ranks!UpTo(v, s) \in 0 .. Len(s) /\ i <= Ranks!UpTo(v, s)
    <3>1. /\ Ranks!UpTo(v, s) \in 0 .. Len(s)
          /\ \A k \in 1 .. Len(s) : s[k] <= v <=> k <= Ranks!UpTo(v, s)
      BY <2>2, SortedBounds
    <3> QED BY <2>1, <2>2, <3>1
  <2>4. ASSUME \A k \in 1 .. Len(o) : o[k] < v
        PROVE  /\ GapOf(v, s, o) <= 0
               /\ a <= Ranks!UpTo(v, s) => d <= GapOf(v, s, o)
    <3>1. Ranks!UpTo(v, o) = Len(o)
      <4>1. \A k \in 1 .. Taken(q, o) : o[k] <= v
        BY <2>2, <2>4, <1>2, <1>3
      <4>2. \A k \in 1 .. Len(q) : v < q[k]
        OBVIOUS
      <4> QED BY <4>1, <4>2, <2>2, <1>1, <1>3, UpToIsTaken
    <3> DEFINE n == Ranks!UpTo(v, s)
    <3>2. n \in Nat /\ n <= Len(s)
      BY <2>3, <1>2
    <3> HIDE DEF n, a
    <3>3. PICK x \in Int, y \in Int, z \in Int : x = n * Len(o) /\ y = a * Len(o) /\ z = Len(o) * Len(s)
      BY <3>2, <1>2
    <3>4. n * Len(o) <= Len(s) * Len(o) /\ Len(s) * Len(o) = Len(o) * Len(s)
      <4>1. n \in Int /\ Len(s) \in Int /\ Len(o) \in Nat
        BY <3>2, <1>2
      <4>2. n * Len(o) <= Len(s) * Len(o)
        BY <4>1, <3>2, ProductsGrow
      <4>3. \A x1, x2 \in Int : x1 * x2 = x2 * x1
        OBVIOUS
      <4> QED BY <4>1, <4>2, <4>3
    <3>5. a <= n => a * Len(o) <= n * Len(o)
      <4>1. n \in Int /\ a \in Int /\ Len(o) \in Nat
        BY <3>2, <1>2
      <4> QED BY <4>1, ProductsGrow
    <3>6. GapOf(v, s, o) = x - z /\ d = y - z
      BY <3>1, <3>3, <1>1, <1>3 DEF GapOf, n
    <3>7. x <= z /\ (a <= n => y <= x)
      BY <3>3, <3>4, <3>5
    <3> QED BY <3>6, <3>7 DEF n
  <2>5. CASE i \in 1 .. a /\ GapOf(v, s, o) <= hi
    BY <2>1, <2>5, <1>1 DEF Bounded
  <2>6. CASE i \in 1 .. a /\ ~(GapOf(v, s, o) <= hi)
    <3>1. r # <<>> /\ r[1] = v /\ lo <= GapOf(v, s, o)
      BY <2>1, <2>6, <1>1 DEF Bounded
    <3>2. 1 \in 1 .. Len(r)
      BY <3>1, <1>1, HeadLeast
    <3>3. \A k \in 1 .. Len(o) : o[k] < v
      BY <3>1, <3>2, <1>1, <1>3 DEF Less
    <3> QED BY <3>1, <3>3, <2>4, <1>1, <1>4
  <2>7. CASE i \notin 1 .. a
    <3>1. i - a \in 1 .. Len(r) /\ a + (i - a) = i
      BY <2>7, <1>2
    <3>2. r[i - a] = v
      BY <3>1, <2>1, <1>2
    <3>3. \A k \in 1 .. Len(o) : o[k] < v
      BY <3>1, <3>2, <1>1, <1>3 DEF Less
    <3>4. a <= Ranks!UpTo(v, s)
      BY <2>3, <2>7, <1>2
    <3>5. d \in Int
      BY <1>1, <1>2, <1>3
    <3> QED BY <3>3, <3>4, <3>5, <2>4, <1>1, <1>4
  <2> QED BY <2>5, <2>6, <2>7
<1> QED BY <1>5, <1>6

\* The same for an item of the second sample alone.
LEMMA KsDown ==
  ASSUME NEW r, NEW s, Sorted(s), NEW q, NEW o, Sorted(o), NEW d, NEW lo, NEW hi,
         KsState(r, s, q, o, d, lo, hi), r # <<>>, q # <<>>, q[1] < r[1],
         NEW e, e = d - Len(s), NEW low, low = IF e < lo THEN e ELSE lo
  PROVE  KsState(r, s, Tail(q), o, e, low, hi)
<1>1. lo \in Int /\ hi \in Int /\ Len(s) \in Nat /\ d \in Int
  <2>1. RestOf(r, s) /\ RestOf(q, o) /\ lo \in Int /\ hi \in Int
    BY DEF KsState
  <2>2. Taken(r, s) \in Nat /\ Len(s) \in Nat
    BY <2>1, RestFacts
  <2>3. Taken(q, o) \in Nat /\ Len(o) \in Nat
    BY <2>1, RestFacts
  <2>4. d = Taken(r, s) * Len(o) - Taken(q, o) * Len(s)
    BY DEF KsState
  <2> QED BY <2>1, <2>2, <2>3, <2>4
<1>2. PICK d1 \in Int, l1 \in Int, h1 \in Int : d1 = -d /\ l1 = -hi /\ h1 = -lo
  BY <1>1
<1>3. KsState(q, o, r, s, d1, l1, h1)
  <2>1. KsState(q, o, r, s, -d, -hi, -lo)
    BY KsSwap
  <2> QED BY <2>1, <1>2
<1>4. PICK top \in Int : top = IF d1 + Len(s) > h1 THEN d1 + Len(s) ELSE h1
  BY <1>1, <1>2
<1>5. KsState(Tail(q), o, r, s, d1 + Len(s), l1, top)
  BY <1>3, <1>4, KsUp
<1>6. KsState(r, s, Tail(q), o, -(d1 + Len(s)), -top, -l1)
  BY <1>5, KsSwap
<1>7. -(d1 + Len(s)) = e /\ -top = low /\ -l1 = hi
  BY <1>1, <1>2, <1>4
<1> QED BY <1>6, <1>7

\* When one sample is parsed, the larger bound is the largest distance.
Size(x) == IF x < 0 THEN -x ELSE x

Farther(lo, hi) == IF -lo > hi THEN -lo ELSE hi

\* No distance is larger than x, and some distance is x.
Largest(x, s, o) ==
  /\ \A v \in Ranks!Range(s) \cup Ranks!Range(o) :
       Size(GapOf(v, s, o)) \in Int /\ Size(GapOf(v, s, o)) <= x
  /\ \E v \in Ranks!Range(s) \cup Ranks!Range(o) : x = Size(GapOf(v, s, o))

LEMMA KsEnd ==
  ASSUME NEW r, NEW s, Sorted(s), NEW q, NEW o, Sorted(o), NEW d, NEW lo, NEW hi,
         KsState(r, s, q, o, d, lo, hi), r = <<>> \/ q = <<>>, s # <<>>,
         NEW m, m = Farther(lo, hi)
  PROVE  Largest(m, s, o)
<1> DEFINE Items == Ranks!Range(s) \cup Ranks!Range(o)
<1>1. /\ lo \in Int /\ hi \in Int /\ lo <= 0 /\ 0 <= hi
      /\ Reached(hi, s, o) /\ Reached(-lo, o, s)
  BY DEF KsState
<1>2. \A v \in Items : GapOf(v, s, o) \in Int /\ GapOf(v, o, s) = -GapOf(v, s, o)
  BY RangeIsInt, GapType
<1>3. \A v \in Items : lo <= GapOf(v, s, o) /\ GapOf(v, s, o) <= hi
  <2> SUFFICES ASSUME NEW v \in Items PROVE lo <= GapOf(v, s, o) /\ GapOf(v, s, o) <= hi
    OBVIOUS
  <2>1. CASE q = <<>>
    BY <2>1, KsOver
  <2>2. CASE r = <<>>
    <3>1. PICK l1 \in Int, h1 \in Int : l1 = -hi /\ h1 = -lo
      BY <1>1
    <3>2. KsState(q, o, r, s, -d, l1, h1)
      <4>1. KsState(q, o, r, s, -d, -hi, -lo)
        BY KsSwap
      <4> QED BY <4>1, <3>1
    <3>3. l1 <= GapOf(v, o, s) /\ GapOf(v, o, s) <= h1
      BY <3>2, <2>2, KsOver
    <3>4. GapOf(v, s, o) \in Int /\ GapOf(v, o, s) = -GapOf(v, s, o)
      BY <1>2
    <3> HIDE DEF Items
    <3> QED BY <3>1, <3>3, <3>4, <1>1
  <2> QED BY <2>1, <2>2
<1>4. PICK w : w \in Items
  <2>1. RestOf(s, s)
    BY WholeRest
  <2>2. s[1] \in Ranks!Range(s)
    BY <2>1, HeadLeast
  <2> QED BY <2>2
<1>5. CASE hi # 0 /\ m = hi
  <2>1. PICK v \in Items : hi <= GapOf(v, s, o)
    BY <1>1, <1>5 DEF Reached
  <2>2. GapOf(v, s, o) = hi
    BY <2>1, <1>1, <1>2, <1>3
  <2>3. m = Size(GapOf(v, s, o))
    BY <2>2, <1>1, <1>5 DEF Size
  <2> HIDE DEF Items
  <2>4. \A x \in Items : Size(GapOf(x, s, o)) \in Int /\ Size(GapOf(x, s, o)) <= m
    BY <1>1, <1>2, <1>3 DEF Size, Farther
  <2> QED BY <2>3, <2>4 DEF Largest, Items
<1>6. CASE lo # 0 /\ m = -lo
  <2>1. PICK v \in Items : -lo <= GapOf(v, o, s)
    <3>1. -lo # 0
      BY <1>1, <1>6
    <3> QED BY <3>1, <1>1 DEF Reached
  <2>2. GapOf(v, s, o) = lo
    BY <2>1, <1>1, <1>2, <1>3
  <2>3. m = Size(GapOf(v, s, o))
    BY <2>2, <1>1, <1>6 DEF Size
  <2> HIDE DEF Items
  <2>4. \A x \in Items : Size(GapOf(x, s, o)) \in Int /\ Size(GapOf(x, s, o)) <= m
    BY <1>1, <1>2, <1>3 DEF Size, Farther
  <2> QED BY <2>3, <2>4 DEF Largest, Items
<1>7. CASE lo = 0 /\ hi = 0
  <2>1. m = 0
    <3>1. PICK x \in Int : x = -lo
      BY <1>1
    <3>2. x + lo = 0
      BY <3>1, <1>1
    <3>3. x = 0
      BY <3>2, <1>7
    <3> QED BY <3>1, <3>3, <1>7 DEF Farther
  <2> HIDE DEF Items
  <2>2. \A v \in Items : GapOf(v, s, o) = 0
    BY <1>2, <1>3, <1>7
  <2>3. \A v \in Items : Size(GapOf(v, s, o)) = 0
    BY <2>2 DEF Size
  <2>4. \A v \in Items : Size(GapOf(v, s, o)) \in Int /\ Size(GapOf(v, s, o)) <= m
    BY <2>1, <2>3
  <2> QED BY <2>1, <2>3, <2>4, <1>4 DEF Largest, Items
<1>8. (hi # 0 /\ m = hi) \/ (lo # 0 /\ m = -lo) \/ (lo = 0 /\ hi = 0)
  BY <1>1 DEF Farther
<1> QED BY <1>5, <1>6, <1>7, <1>8
-----------------------------------------------------------------------------
(* The steps of Kolmogorov's test, if no value is cut to an int. *)

AllFit == \A v \in Ranks!Range(sample1) \cup Ranks!Range(sample2) : Ranks!ToInt(v) = v
KsHolds == AllFit => KsState(rest1, sample1, rest2, sample2, D, Dmin, Dmax)
KsDone == AllFit => Largest(D, sample1, sample2)

LEMMA KsStepHolds ==
  ASSUME Sorted(sample1), Sorted(sample2), KsHolds, Ranks!KsStep
  PROVE  KsHolds' /\ kind' = "ks"
<1>1. /\ kind = "ks" /\ rest1 # <<>> /\ rest2 # <<>> /\ Head(rest1) # Head(rest2)
      /\ kind' = kind /\ sample1' = sample1 /\ sample2' = sample2
  BY DEF Ranks!KsStep, Ranks!Running, Ranks!samples
<1> SUFFICES ASSUME AllFit
             PROVE  KsState(rest1', sample1, rest2', sample2, D', Dmin', Dmax')
  BY <1>1 DEF KsHolds, AllFit
<1>2. KsState(rest1, sample1, rest2, sample2, D, Dmin, Dmax)
  BY DEF KsHolds
<1>3. /\ Head(rest1) = rest1[1] /\ rest1[1] \in Int
      /\ Head(rest2) = rest2[1] /\ rest2[1] \in Int
  BY <1>1, <1>2, HeadLeast DEF KsState
<1>4. CASE Head(rest1) < Head(rest2)
  <2>1. /\ D' = D + Len(sample2) /\ rest1' = Tail(rest1) /\ rest2' = rest2 /\ Dmin' = Dmin
        /\ Dmax' = IF D + Len(sample2) > Dmax THEN D + Len(sample2) ELSE Dmax
    BY <1>4 DEF Ranks!KsStep, Ranks!lg2
  <2>2. rest1[1] < rest2[1]
    BY <1>3, <1>4
  <2>3. KsState(Tail(rest1), sample1, rest2, sample2, D + Len(sample2), Dmin, Dmax')
    BY <2>1, <2>2, <1>1, <1>2, KsUp
  <2> QED BY <2>1, <2>3
<1>5. CASE ~(Head(rest1) < Head(rest2))
  <2>1. /\ D' = D - Len(sample1) /\ rest2' = Tail(rest2) /\ rest1' = rest1 /\ Dmax' = Dmax
        /\ Dmin' = IF D' < Dmin THEN D' ELSE Dmin
    BY <1>5 DEF Ranks!KsStep, Ranks!lg1
  <2>2. rest2[1] < rest1[1]
    BY <1>1, <1>3, <1>5
  <2>3. KsState(rest1, sample1, Tail(rest2), sample2, D', Dmin', Dmax)
    BY <2>1, <2>2, <1>1, <1>2, KsDown
  <2> QED BY <2>1, <2>3
<1> QED BY <1>4, <1>5

LEMMA KsTieHolds ==
  ASSUME Sorted(sample1), Sorted(sample2), KsHolds, Ranks!KsTie
  PROVE  KsHolds' /\ kind' = "ks"
<1>1. /\ kind = "ks" /\ rest1 # <<>> /\ rest2 # <<>> /\ Head(rest1) = Head(rest2)
      /\ kind' = kind /\ sample1' = sample1 /\ sample2' = sample2
  BY DEF Ranks!KsTie, Ranks!Running, Ranks!samples
<1> SUFFICES ASSUME AllFit
             PROVE  KsState(rest1', sample1, rest2', sample2, D', Dmin', Dmax')
  BY <1>1 DEF KsHolds, AllFit
<1> DEFINE t == Ranks!Times(rest1[1], rest1)
           u == Ranks!Times(rest1[1], rest2)
           e == Moved(D, t, u, sample1, sample2)
<1>2. /\ KsState(rest1, sample1, rest2, sample2, D, Dmin, Dmax)
      /\ RestOf(rest1, sample1) /\ RestOf(rest2, sample2)
  BY DEF KsHolds, KsState
<1>3. /\ Head(rest1) = rest1[1] /\ Head(rest2) = rest2[1] /\ rest1[1] = rest2[1]
      /\ rest1[1] \in Ranks!Range(sample1)
  BY <1>1, <1>2, HeadLeast
<1>4. Ranks!ToInt(Head(rest1)) = rest1[1]
  BY <1>3 DEF AllFit
<1>5. Ranks!Occurs(rest1[1], rest1) = t /\ Ranks!Occurs(rest1[1], rest2) = u
  <2>1. Ranks!Occurs(rest1[1], rest1) = t
    BY <1>1, <1>2, OccursBlock
  <2>2. Ranks!Occurs(rest1[1], rest2) = u
    BY <1>1, <1>2, <1>3, OccursBlock
  <2> QED BY <2>1, <2>2
<1>6. /\ D' = e /\ Dmax' = Higher(e, Dmax) /\ Dmin' = Lower(e, Dmin, Dmax)
      /\ rest1' = Ranks!Drop(rest1, t) /\ rest2' = Ranks!Drop(rest2, u)
  <2> HIDE DEF t, u
  <2> QED BY <1>4, <1>5 DEF Ranks!KsTie, Ranks!lg1, Ranks!lg2, Moved, Higher, Lower
<1>7. KsState(Ranks!Drop(rest1, t), sample1, Ranks!Drop(rest2, u), sample2, D', Dmin', Dmax')
  BY <1>1, <1>2, <1>3, <1>6, KsTied
<1> QED BY <1>6, <1>7

LEMMA KsResultHolds ==
  ASSUME Sorted(sample1), Sorted(sample2), sample1 # <<>>, KsHolds, Ranks!KsResult
  PROVE  KsDone' /\ kind' = "done ks"
<1>1. rest1 = <<>> \/ rest2 = <<>>
  BY DEF Ranks!KsResult, Ranks!Running
<1>2. PICK x : x = D' /\ x = Farther(Dmin, Dmax)
  BY DEF Ranks!KsResult, Ranks!KsDistance, Farther
<1>3. kind' = "done ks" /\ sample1' = sample1 /\ sample2' = sample2
  BY DEF Ranks!KsResult
<1>4. ASSUME AllFit PROVE Largest(x, sample1, sample2)
  <2>1. KsState(rest1, sample1, rest2, sample2, D, Dmin, Dmax)
    BY <1>4 DEF KsHolds
  <2>2. x = Farther(Dmin, Dmax)
    BY <1>2
  <2> QED BY <2>1, <2>2, <1>1, KsEnd
<1>5. AllFit => Largest(D', sample1, sample2)
  BY <1>2, <1>4
<1> QED BY <1>3, <1>5 DEF KsDone, AllFit
-----------------------------------------------------------------------------
(* Both statistics. *)

StatInv ==
  component = "ranks" =>
    /\ Sorted(sample1) /\ Sorted(sample2) /\ sample1 # <<>>
    /\ kind \in {"wmw", "ks", "pcs", "done", "done ks", "done pcs"}
    /\ kind = "wmw" => WmwHolds
    /\ kind = "done" => WmwDone
    /\ kind = "ks" => KsHolds
    /\ kind = "done ks" => KsDone

LEMMA ZeroIsOwn == ASSUME NEW z \in Int, z = 0 PROVE z <= 0 /\ 0 <= z /\ z <= z /\ -z = z
<1>1. PICK y \in Int : y = -z
  OBVIOUS
<1>2. z + y = 0
  BY <1>1
<1>3. y = z
  BY <1>2
<1>4. z <= 0 /\ 0 <= z /\ z <= z
  OBVIOUS
<1> QED BY <1>1, <1>3, <1>4, Zenon

LEMMA Antisymmetry == ASSUME NEW x \in Int, NEW y \in Int, x >= y, x <= y PROVE x = y
  OBVIOUS

LEMMA StatInit == SideInit => StatInv
<1> SUFFICES ASSUME SideInit, component = "ranks" PROVE StatInv
  BY DEF StatInv
<1>1. /\ kind \in {"wmw", "ks", "pcs"} /\ sample1 \in Samples /\ sample2 \in Samples
      /\ rest1 = sample1 /\ rest2 = sample2 /\ rank = 0 /\ rs1 = 0 /\ rs2 = 0
      /\ D = 0 /\ Dmin = 0 /\ Dmax = 0
  BY DEF SideInit, Ranks!Init
<1>2. Sorted(sample1) /\ Sorted(sample2) /\ sample1 # <<>>
  BY <1>1, SamplesAreSorted
<1>3. RestOf(rest1, sample1) /\ Taken(rest1, sample1) = 0
  BY <1>1, <1>2, WholeRest
<1>4. RestOf(rest2, sample2) /\ Taken(rest2, sample2) = 0
  BY <1>1, <1>2, WholeRest
<1>5. Less(rest1, sample1, rest2) /\ Less(rest2, sample2, rest1)
  BY <1>3, <1>4 DEF Less
<1>6. WmwHolds
  <2>1. RankSum(sample1, sample2, 0) = 0 /\ RankSum(sample2, sample1, 0) = 0
    <3>1. 1 .. 0 = {}
      OBVIOUS
    <3> QED BY <3>1, SumOfNothing DEF RankSum
  <2> QED BY <2>1, <1>1, <1>3, <1>4, <1>5 DEF WmwHolds
<1>7. KsHolds
  <2>1. Len(sample1) \in Nat /\ Len(sample2) \in Nat
    BY <1>2 DEF Sorted
  <2>2. PICK z \in Int : z = 0
    OBVIOUS
  <2>3. z = Taken(rest1, sample1) * Len(sample2) - Taken(rest2, sample2) * Len(sample1)
    BY <2>1, <2>2, <1>3, <1>4
  <2>4. z <= 0 /\ 0 <= z /\ z <= z /\ -z = z
    BY <2>2, ZeroIsOwn
  <2>5. Bounded(rest1, sample1, sample2, z, z) /\ Bounded(rest2, sample2, sample1, z, z)
    BY <1>3, <1>4 DEF Bounded
  <2>6. Reached(z, sample1, sample2) /\ Reached(z, sample2, sample1)
    BY <2>2 DEF Reached
  <2>7. KsState(rest1, sample1, rest2, sample2, z, z, z)
    BY <2>3, <2>4, <2>5, <2>6, <1>3, <1>4, <1>5 DEF KsState
  <2> QED BY <2>2, <2>7, <1>1 DEF KsHolds
<1> QED BY <1>1, <1>2, <1>6, <1>7 DEF StatInv

LEMMA StatNext == StatInv /\ [SideNext]_sideVars => StatInv'
<1> SUFFICES ASSUME StatInv, [SideNext]_sideVars, component = "ranks" PROVE StatInv'
  BY DEF SideNext, sideVars, StatInv
<1>1. Ranks!Next \/ UNCHANGED RanksVars
  BY DEF SideNext, sideVars
<1>2. component' = "ranks"
  BY DEF SideNext, sideVars
<1>3. ASSUME UNCHANGED RanksVars PROVE StatInv'
  BY <1>2, <1>3 DEF StatInv, WmwHolds, WmwDone, KsHolds, KsDone, AllFit, RanksVars
<1>4. Sorted(sample1) /\ Sorted(sample2) /\ sample1 # <<>>
  BY DEF StatInv
<1>5. ASSUME Ranks!WmwTie \/ Ranks!WmwStep PROVE StatInv'
  <2>1. sample1' = sample1 /\ sample2' = sample2 /\ kind = "wmw"
    BY <1>5 DEF Ranks!WmwTie, Ranks!WmwStep, Ranks!samples
  <2>2. WmwHolds
    BY <2>1 DEF StatInv
  <2>3. WmwHolds' /\ kind' = "wmw"
    BY <2>2, <1>4, <1>5, WmwTieHolds, WmwStepHolds
  <2> QED BY <2>1, <2>3, <1>2, <1>4 DEF StatInv
<1>6. ASSUME Ranks!WmwRest PROVE StatInv'
  <2>1. sample1' = sample1 /\ sample2' = sample2 /\ kind = "wmw"
    BY <1>6 DEF Ranks!WmwRest
  <2>2. WmwHolds
    BY <2>1 DEF StatInv
  <2>3. WmwDone' /\ kind' = "done"
    BY <2>2, <1>4, <1>6, WmwRestHolds
  <2> QED BY <2>1, <2>3, <1>2, <1>4 DEF StatInv
<1>7. ASSUME Ranks!KsTie \/ Ranks!KsStep PROVE StatInv'
  <2>1. sample1' = sample1 /\ sample2' = sample2 /\ kind = "ks"
    BY <1>7 DEF Ranks!KsTie, Ranks!KsStep, Ranks!samples
  <2>2. KsHolds
    BY <2>1 DEF StatInv
  <2>3. KsHolds' /\ kind' = "ks"
    BY <2>2, <1>4, <1>7, KsTieHolds, KsStepHolds
  <2> QED BY <2>1, <2>3, <1>2, <1>4 DEF StatInv
<1>8. ASSUME Ranks!KsResult PROVE StatInv'
  <2>1. sample1' = sample1 /\ sample2' = sample2 /\ kind = "ks"
    BY <1>8 DEF Ranks!KsResult
  <2>2. KsHolds
    BY <2>1 DEF StatInv
  <2>3. KsDone' /\ kind' = "done ks"
    BY <2>2, <1>4, <1>8, KsResultHolds
  <2> QED BY <2>1, <2>3, <1>2, <1>4 DEF StatInv
<1>9. ASSUME Ranks!PcsTake PROVE StatInv'
  <2>1. /\ sample1' = sample1 /\ sample2' = sample2 /\ kind' \in {"pcs", "done pcs"}
    BY <1>9 DEF Ranks!PcsTake, Ranks!samples
  <2> QED BY <2>1, <1>2, <1>4 DEF StatInv
<1>10. ASSUME Ranks!Returned PROVE StatInv'
  BY <1>3, <1>10 DEF Ranks!Returned, Ranks!vars, Ranks!samples, Ranks!ranks, Ranks!dists,
                     Ranks!chi, RanksVars
<1> QED BY <1>1, <1>3, <1>5, <1>6, <1>7, <1>8, <1>9, <1>10 DEF Ranks!Next

\* The rank sum of one sample is that of the mean ranks.
LEMMA MidRanksAreTaken ==
  ASSUME NEW s, Sorted(s), NEW o, Sorted(o),
         \/ s = sample1 /\ o = sample2
         \/ s = sample2 /\ o = sample1
  PROVE  Ranks!MidRanks(s) = RankSum(s, o, Len(s))
<1> DEFINE f == [i \in DOMAIN s |-> Ranks!Below(s[i], sample1) + Ranks!UpTo(s[i], sample1)
                                     + Ranks!Below(s[i], sample2) + Ranks!UpTo(s[i], sample2) + 1]
           h == [i \in 1 .. Len(s) |-> MidRank(s[i], s, o)]
<1>1. Len(s) \in Nat /\ DOMAIN s = 1 .. Len(s) /\ IsFiniteSet(1 .. Len(s))
  BY FS_Interval DEF Sorted
<1>2. Ranks!MidRanks(s) = SumFunctionOnSet(f, 1 .. Len(s))
  <2>1. Ranks!MidRanks(s) = Ranks!SumFunction(f)
    BY DEF Ranks!MidRanks
  <2>2. DOMAIN f = 1 .. Len(s)
    BY <1>1
  <2> HIDE DEF f
  <2> QED BY <2>1, <2>2, RanksSum
<1>3. ASSUME NEW i \in 1 .. Len(s) PROVE h[i] = f[i] /\ h[i] \in Int
  <2>1. s[i] \in Int
    BY DEF Sorted
  <2>2. PICK v \in Int : v = s[i]
    BY <2>1
  <2>3. PICK x1 \in Int, x2 \in Int, y1 \in Int, y2 \in Int :
          /\ x1 = Ranks!Below(v, sample1) /\ x2 = Ranks!UpTo(v, sample1)
          /\ y1 = Ranks!Below(v, sample2) /\ y2 = Ranks!UpTo(v, sample2)
    <3>1. Ranks!Below(v, s) \in 0 .. Len(s) /\ Ranks!UpTo(v, s) \in 0 .. Len(s)
      BY SortedBounds
    <3>2. Ranks!Below(v, o) \in 0 .. Len(o) /\ Ranks!UpTo(v, o) \in 0 .. Len(o)
      BY SortedBounds
    <3> QED BY <3>1, <3>2 DEF Sorted
  <2>4. f[i] = x1 + x2 + y1 + y2 + 1
    BY <2>2, <2>3, <1>1
  <2>5. MidRank(v, s, o) = x1 + x2 + y1 + y2 + 1
    <3>1. CASE s = sample1 /\ o = sample2
      BY <2>3, <3>1 DEF MidRank
    <3>2. CASE s = sample2 /\ o = sample1
      <4>1. MidRank(v, s, o) = y1 + y2 + x1 + x2 + 1
        BY <2>3, <3>2 DEF MidRank
      <4> QED BY <2>3, <4>1
    <3> QED BY <3>1, <3>2
  <2>6. h[i] = MidRank(v, s, o)
    BY <2>2
  <2> HIDE DEF f, h
  <2> QED BY <2>3, <2>4, <2>5, <2>6, SMTT(40)
<1> HIDE DEF f, h
<1>4. SumFunctionOnSet(h, 1 .. Len(s)) = SumFunctionOnSet(f, 1 .. Len(s))
  BY <1>1, <1>3, SumEqual
<1>5. RankSum(s, o, Len(s)) = SumFunctionOnSet(h, 1 .. Len(s))
  BY RanksAreMean DEF h
<1> QED BY <1>2, <1>4, <1>5

\* StatisticsExact: the rank sums give each value its mean rank in the joint
\* sample, and the distance is the largest of both empirical distributions,
\* whatever values are tied (wmw_test, ks_test).
THEOREM StatisticsAreExact == SideSpec => []StatisticsExact
<1>1. StatInv => StatisticsExact
  <2> SUFFICES ASSUME StatInv, component = "ranks" PROVE Ranks!RankSumsExact /\ Ranks!KsIsSupremum
    BY DEF StatisticsExact, Ranks!StatisticsExact
  <2>1. Sorted(sample1) /\ Sorted(sample2)
    BY DEF StatInv
  <2>2. Ranks!RankSumsExact
    <3> SUFFICES ASSUME kind = "done"
                 PROVE  rs1 = Ranks!MidRanks(sample1) /\ rs2 = Ranks!MidRanks(sample2)
      BY DEF Ranks!RankSumsExact
    <3>1. WmwDone
      BY DEF StatInv
    <3>2. Ranks!MidRanks(sample1) = RankSum(sample1, sample2, Len(sample1))
      BY <2>1, MidRanksAreTaken
    <3>3. Ranks!MidRanks(sample2) = RankSum(sample2, sample1, Len(sample2))
      BY <2>1, MidRanksAreTaken
    <3> QED BY <3>1, <3>2, <3>3 DEF WmwDone
  <2>3. Ranks!KsIsSupremum
    <3> DEFINE Items == Ranks!Range(sample1) \cup Ranks!Range(sample2)
               Sizes == {Size(GapOf(v, sample1, sample2)) : v \in Items}
    <3> SUFFICES ASSUME kind = "done ks", AllFit PROVE D = Ranks!Max(Sizes)
      BY DEF Ranks!KsIsSupremum, AllFit, Size, GapOf, Ranks!lg1, Ranks!lg2
    <3>1. KsDone
      BY DEF StatInv
    <3>2. D \in Sizes /\ \A x \in Sizes : x \in Int /\ x <= D
      BY <3>1 DEF KsDone, Largest
    <3> HIDE DEF Sizes
    <3>3. \A x \in Sizes : (\A y \in Sizes : x >= y) <=> x = D
      <4>1. ASSUME NEW x \in Sizes, \A y \in Sizes : x >= y PROVE x = D
        <5>1. x >= D /\ x \in Int /\ D \in Int /\ x <= D
          BY <3>2, <4>1
        <5> QED BY <5>1, Antisymmetry
      <4>2. \A y \in Sizes : D >= y
        BY <3>2
      <4> QED BY <4>1, <4>2
    <3>4. D = CHOOSE x \in Sizes : \A y \in Sizes : x >= y
      BY <3>2, <3>3
    <3> QED BY <3>4 DEF Ranks!Max
  <2> QED BY <2>2, <2>3
<1> QED BY StatInit, StatNext, <1>1, PTL DEF SideSpec
=============================================================================
