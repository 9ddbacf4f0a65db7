----------------------------- MODULE RankTests -----------------------------
(***************************************************************************)
(* The three tests that compare the old with the new sample, without the   *)
(* distributions that turn their statistic into a p-value: rank sums (wmw),*)
(* Kolmogorov's statistic (ks) and the categories of the chi-square test   *)
(* (pcs).  A step is an iteration of the loop over the sorted samples.     *)
(***************************************************************************)
EXTENDS Integers, Sequences, FiniteSets, SequencesExt, Functions, FiniteSetsExt

CONSTANTS
  Samples,     \* bound: samples, as sorted sequences of metric values
  IntWidth,    \* bits of an int (32); a value has more
  Expected     \* items expected in a category (5)

VARIABLES
  kind,            \* which of the tests runs
  sample1, sample2,
  rest1, rest2,    \* from it1 and it2 on, or what is left in the lists
  rank,            \* wmw: the rank reached, i
  rs1, rs2,        \* wmw: twice the rank sums
  D, Dmin, Dmax,
  n1, n2,          \* pcs: items in the current category
  categories       \* pcs: categories1 and categories2, as pairs

samples == <<kind, sample1, sample2>>
ranks   == <<rank, rs1, rs2>>
dists   == <<D, Dmin, Dmax>>
chi     == <<n1, n2, categories>>
vars    == <<samples, rest1, rest2, ranks, dists, chi>>

lg1 == Len(sample1)
lg2 == Len(sample2)
Running == kind # "done" /\ rest1 # <<>> /\ rest2 # <<>>

Init ==
  /\ kind \in {"wmw", "ks", "pcs"}
  /\ sample1 \in Samples /\ sample2 \in Samples
  /\ rest1 = sample1 /\ rest2 = sample2
  /\ rank = 0 /\ rs1 = 0 /\ rs2 = 0
  /\ D = 0 /\ Dmin = 0 /\ Dmax = 0
  /\ n1 = 0 /\ n2 = 0 /\ categories = <<>>

\* The loop over the items that equal v; do-while takes the first one in any
\* case, and the list is sorted.
Times(v, rest) == Cardinality({i \in DOMAIN rest : rest[i] = v})
Occurs(v, rest) == 1 + IF Len(rest) > 1 /\ rest[2] = v THEN Times(v, Tail(rest)) ELSE 0
Drop(rest, k) == SubSeq(rest, k + 1, Len(rest))

\* Twice the sum of the ranks from a + 1 to b.
RanksFrom(a, b) == b * (b + 1) - a * (a + 1)

\* An int takes the lower bits of a value.
ToInt(v) == ((v + 2 ^ (IntWidth - 1)) % 2 ^ IntWidth) - 2 ^ (IntWidth - 1)
-----------------------------------------------------------------------------
(* Wilcoxon-Mann-Whitney *)

\* Mutant: all items of a tie get its first rank.
TieFirstRank(to1, to2) ==
  rs1' = rs1 + 2 * to1 * (rank + 1) /\ rs2' = rs2 + 2 * to2 * (rank + 1)

\* All items of a tie get their mean rank.
TieRanks(to1, to2) ==
  LET to == to1 + to2
      tie_rs == RanksFrom(rank, rank + to)
  IN rs1' = rs1 + (to1 * tie_rs) \div to /\ rs2' = rs2 + (to2 * tie_rs) \div to

WmwTie ==
  /\ kind = "wmw" /\ Running /\ Head(rest1) = Head(rest2)
  /\ LET to1 == Occurs(Head(rest1), rest1)
         to2 == Occurs(Head(rest1), rest2)
     IN /\ TieRanks(to1, to2)
        /\ rank' = rank + to1 + to2
        /\ rest1' = Drop(rest1, to1) /\ rest2' = Drop(rest2, to2)
  /\ UNCHANGED <<samples, dists, chi>>

WmwStep ==
  /\ kind = "wmw" /\ Running /\ Head(rest1) # Head(rest2)
  /\ rank' = rank + 1
  /\ IF Head(rest1) < Head(rest2)
       THEN rs1' = rs1 + 2 * (rank + 1) /\ rest1' = Tail(rest1) /\ UNCHANGED <<rs2, rest2>>
       ELSE rs2' = rs2 + 2 * (rank + 1) /\ rest2' = Tail(rest2) /\ UNCHANGED <<rs1, rest1>>
  /\ UNCHANGED <<samples, dists, chi>>

\* One sample is parsed: the other takes all ranks that are left.
WmwRest ==
  /\ kind = "wmw" /\ ~Running
  /\ rs1' = rs1 + RanksFrom(rank, rank + Len(rest1))
  /\ rs2' = rs2 + RanksFrom(rank, rank + Len(rest2))
  /\ rank' = lg1 + lg2
  /\ kind' = "done" /\ rest1' = <<>> /\ rest2' = <<>>
  /\ UNCHANGED <<sample1, sample2, dists, chi>>
-----------------------------------------------------------------------------
(* Kolmogorov-Smirnov *)

KsTie ==
  /\ kind = "ks" /\ Running /\ Head(rest1) = Head(rest2)
  /\ LET s == ToInt(Head(rest1))
         k1 == Occurs(s, rest1)
         k2 == Occurs(s, rest2)
         d == D + k1 * lg2 - k2 * lg1
     IN /\ D' = d
        /\ Dmax' = IF d > Dmax THEN d ELSE Dmax
        /\ Dmin' = IF d <= Dmax /\ d < Dmin THEN d ELSE Dmin
        /\ rest1' = Drop(rest1, k1) /\ rest2' = Drop(rest2, k2)
  /\ UNCHANGED <<samples, ranks, chi>>

KsStep ==
  /\ kind = "ks" /\ Running /\ Head(rest1) # Head(rest2)
  /\ IF Head(rest1) < Head(rest2)
       THEN /\ D' = D + lg2 /\ rest1' = Tail(rest1)
            /\ Dmax' = IF D' > Dmax THEN D' ELSE Dmax
            /\ UNCHANGED <<rest2, Dmin>>
       ELSE /\ D' = D - lg1 /\ rest2' = Tail(rest2)
            /\ Dmin' = IF D' < Dmin THEN D' ELSE Dmin
            /\ UNCHANGED <<rest1, Dmax>>
  /\ UNCHANGED <<samples, ranks, chi>>

KsDistance == IF -Dmin > Dmax THEN -Dmin ELSE Dmax

KsResult ==
  /\ kind = "ks" /\ ~Running
  /\ D' = KsDistance /\ kind' = "done ks"
  /\ UNCHANGED <<sample1, sample2, rest1, rest2, Dmin, Dmax, ranks, chi>>
-----------------------------------------------------------------------------
(* Pearson: pcs_categories *)

\* Mutant: the expectation is tested for the first sample only.
EnoughInFirst(k) == lg1 * k >= Expected * (lg1 + lg2)

\* The expected numbers of items of both samples are large enough.
Enough(k) == /\ lg1 * k >= Expected * (lg1 + lg2)
             /\ lg2 * k >= Expected * (lg1 + lg2)

\* All items of the least value go into the category; what is left when one
\* sample is empty goes into the last one.
PcsTake ==
  /\ kind = "pcs" /\ Running
  /\ LET min == IF Head(rest1) < Head(rest2) THEN Head(rest1) ELSE Head(rest2)
         r1 == Drop(rest1, Times(min, rest1))
         r2 == Drop(rest2, Times(min, rest2))
         c1 == n1 + Times(min, rest1)
         c2 == n2 + Times(min, rest2)
     IN /\ rest1' = r1 /\ rest2' = r2
        /\ IF r1 = <<>> \/ r2 = <<>>
             THEN /\ categories' = Append(categories, <<c1 + Len(r1), c2 + Len(r2)>>)
                  /\ kind' = "done pcs" /\ n1' = 0 /\ n2' = 0
             ELSE /\ IF Enough(c1 + c2)
                       THEN /\ categories' = Append(categories, <<c1, c2>>)
                            /\ n1' = 0 /\ n2' = 0
                       ELSE n1' = c1 /\ n2' = c2 /\ UNCHANGED categories
                  /\ UNCHANGED kind
  /\ UNCHANGED <<sample1, sample2, ranks, dists>>

Returned == kind \in {"done", "done ks", "done pcs"} /\ UNCHANGED vars

Next == WmwTie \/ WmwStep \/ WmwRest \/ KsTie \/ KsStep \/ KsResult \/ PcsTake \/ Returned

Spec == Init /\ [][Next]_vars
-----------------------------------------------------------------------------
(* Properties *)

Below(v, s)   == Cardinality({i \in DOMAIN s : s[i] < v})
UpTo(v, s)    == Cardinality({i \in DOMAIN s : s[i] <= v})
MidRanks(s)   == SumFunction([i \in DOMAIN s |->
                   Below(s[i], sample1) + UpTo(s[i], sample1)
                     + Below(s[i], sample2) + UpTo(s[i], sample2) + 1])

\* The rank sums are those of the mid-ranks in the joint sample.
RankSumsExact == kind = "done" => rs1 = MidRanks(sample1) /\ rs2 = MidRanks(sample2)

\* The statistic is the largest distance of the empirical distributions, if
\* every value fits into the int to which a tied value is copied.
KsIsSupremum ==
  LET values == Range(sample1) \cup Range(sample2)
      Distance(v) == LET d == UpTo(v, sample1) * lg2 - UpTo(v, sample2) * lg1
                     IN IF d < 0 THEN -d ELSE d
  IN kind = "done ks" /\ (\A v \in values : ToInt(v) = v) =>
       D = Max({Distance(v) : v \in values})

\* Ranks and distances are what the definitions of both tests give, whatever
\* values are tied within and between the samples.
StatisticsExact == RankSumsExact /\ KsIsSupremum

\* The categories divide both samples, no value is split between two, and all
\* but the last are expected to hold enough of both.
CategoriesDivide ==
  kind = "done pcs" =>
    LET Upto(k, j) == SumFunction([i \in 1 .. k |-> categories[i][j]])
    IN /\ Upto(Len(categories), 1) = lg1 /\ Upto(Len(categories), 2) = lg2
       /\ \A k \in 1 .. Len(categories) - 1 :
            /\ lg1 * (categories[k][1] + categories[k][2]) >= Expected * (lg1 + lg2)
            /\ lg2 * (categories[k][1] + categories[k][2]) >= Expected * (lg1 + lg2)
            /\ \E v \in Range(sample1) \cup Range(sample2) :
                 Upto(k, 1) = UpTo(v, sample1) /\ Upto(k, 2) = UpTo(v, sample2)
=============================================================================
