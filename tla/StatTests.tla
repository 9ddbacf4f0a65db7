----------------------------- MODULE StatTests -----------------------------
(***************************************************************************)
(* Stat::test for one endpoint: its samples and learning phases, the pauses *)
(* after an attack, and the counting of alarms.                            *)
(*                                                                         *)
(* A value of the metrics is the number of the call that extracted it; a   *)
(* mean stands for the set of values that went into it.  What a statistical *)
(* test decides is floating point arithmetic and may be anything.          *)
(***************************************************************************)
EXTENDS Integers, Sequences, FiniteSets, SequencesExt

CONSTANTS
  Xmls,                  \* bound: configuration files, see Configured
  sample_old_size, sample_new_size, cusum_learning_phase, pca_learning_phase,
  MaxTests               \* bound: calls of test()

VARIABLES
  config,        \* what init() has made of the file
  test_counter,
  P,             \* the Params of the endpoint, or NoParams
  got,           \* history: the values handed to the update functions
  trace          \* history: per kind of test, what each conducted test found

vars == <<config, test_counter, P, got, trace>>

WkpTests == {"wmw", "ks", "pcs"}
NoParams == [known |-> FALSE]
-----------------------------------------------------------------------------
(* init() *)

\* The two sections of tests.  Sizes and levels out of range get their default.
init_cusum_test(xml) == xml.cusum_test \notin {"no section", "false"}

\* Without its section enable_wkp_test is never assigned.
init_wkp_test(xml) == IF xml.wkp_section THEN {xml.tests # {}} ELSE BOOLEAN

Atoi(text) == CASE text = "2" -> 2 [] text \in {"absent", "1"} -> 1 [] OTHER -> 0

\* pause_update_when_attack
Pause(xml) == IF xml.pause \in 0 .. 3 THEN xml.pause ELSE 0

\* report_only_first_attack is read from the tag of the test frequency.
OnlyFirst(xml) == xml.test_frequency # "false"

\* The sections: of the preferences, of CUSUM, and of the three tests.
Configured(xml) ==
  {[freq      |-> Atoi(xml.test_frequency),
    onlyFirst |-> OnlyFirst(xml),
    pause     |-> Pause(xml),
    pca       |-> xml.pca,
    cusum     |-> init_cusum_test(xml),
    wkp       |-> wkp,
    tests     |-> IF xml.wkp_section THEN xml.tests ELSE {},
    metrics   |-> xml.metrics] :
     wkp \in init_wkp_test(xml)}

Init ==
  /\ \E xml \in Xmls : config \in Configured(xml)
  /\ test_counter = 0
  /\ P = NoParams
  /\ got = <<>>
  /\ trace = [wkp |-> <<>>, cusum |-> <<>>]
-----------------------------------------------------------------------------
(* The learn and update phase *)

\* The first call of extract_pca_data counts for its learning phase; without
\* PCA the first value goes into the old sample and the sums.
NewParams(v) ==
  [known |-> TRUE,
   Old |-> IF config.wkp /\ ~config.pca THEN <<v>> ELSE <<>>,
   New |-> <<>>, wkp_updated |-> FALSE,
   attack |-> {},
   alarms |-> [t \in (WkpTests \cup {"cusum"}) \X config.metrics |-> 0],
   mean |-> [m \in config.metrics |->
               IF config.cusum /\ ~config.pca THEN {v} ELSE {}],
   learning |-> IF config.cusum /\ ~config.pca THEN 1 ELSE 0,
   ready_to_test |-> FALSE, X_curr |-> -1, cusum_updated |-> FALSE,
   pca_learning |-> IF config.pca THEN 1 ELSE 0, pca_ready |-> FALSE]

\* extract_pca_data yields nothing while it learns, nor when it gets ready.
ExtractPca(p) ==
  IF p.pca_learning < pca_learning_phase
    THEN [p EXCEPT !.pca_learning = @ + 1]
    ELSE [p EXCEPT !.pca_ready = TRUE]

HasData(p) == p.known /\ (config.pca => p.pca_ready)

\* Only the new sample moves after an attack that pauses the update.
WkpPaused(p) ==
  LET alarming == {a[1] : a \in p.attack} \cap WkpTests
  IN \/ config.pause = 1 /\ alarming # {}
     \/ config.pause = 2 /\ alarming = WkpTests

\* Mutant: the value that comes in goes into both samples.
wkp_update_both(p, v) ==
  IF ~config.wkp THEN p
  ELSE IF Len(p.Old) # sample_old_size THEN [p EXCEPT !.Old = Append(@, v)]
  ELSE IF Len(p.New) # sample_new_size THEN [p EXCEPT !.New = Append(@, v)]
  ELSE [p EXCEPT !.New = Append(Tail(@), v), !.wkp_updated = TRUE,
                 !.Old = IF WkpPaused(p) THEN @ ELSE Append(Tail(@), v)]

wkp_update(p, v) ==
  IF ~config.wkp THEN p
  ELSE IF Len(p.Old) # sample_old_size THEN [p EXCEPT !.Old = Append(@, v)]
  ELSE IF Len(p.New) # sample_new_size THEN [p EXCEPT !.New = Append(@, v)]
  ELSE [p EXCEPT !.New = Append(Tail(@), v), !.wkp_updated = TRUE,
                 !.Old = IF WkpPaused(p) THEN @ ELSE Append(Tail(@), Head(p.New))]

\* The metrics whose mean and variance stay as they are.
CusumPaused(p) ==
  LET alarming == {m \in config.metrics : <<"cusum", m>> \in p.attack}
  IN IF \/ config.pause = 1 /\ alarming # {}
        \/ config.pause = 2 /\ alarming = config.metrics
       THEN config.metrics
       ELSE IF config.pause = 3 THEN alarming ELSE {}

\* Mutant: the new value is assigned before the mean is updated.
cusum_update_late(p, v) ==
  LET q == [p EXCEPT !.cusum_updated = TRUE]
  IN IF ~config.cusum THEN p
     ELSE IF ~p.ready_to_test /\ p.learning < cusum_learning_phase
       THEN [q EXCEPT !.learning = @ + 1,
                      !.mean = [m \in config.metrics |-> @[m] \cup {v}]]
     ELSE IF ~p.ready_to_test THEN [q EXCEPT !.ready_to_test = TRUE, !.X_curr = v]
     ELSE [q EXCEPT !.X_curr = v,
                    !.mean = [m \in config.metrics |->
                                IF m \in CusumPaused(p) THEN @[m] ELSE @[m] \cup {v}]]

\* Sums of the first values; then the mean follows one value behind X_curr.
cusum_update(p, v) ==
  LET q == [p EXCEPT !.cusum_updated = TRUE]
  IN IF ~config.cusum THEN p
     ELSE IF ~p.ready_to_test /\ p.learning < cusum_learning_phase
       THEN [q EXCEPT !.learning = @ + 1,
                      !.mean = [m \in config.metrics |-> @[m] \cup {v}]]
     ELSE IF ~p.ready_to_test THEN [q EXCEPT !.ready_to_test = TRUE, !.X_curr = v]
     ELSE [q EXCEPT !.X_curr = v,
                    !.mean = [m \in config.metrics |->
                                IF m \in CusumPaused(p) THEN @[m]
                                ELSE @[m] \cup {p.X_curr}]]

Update(p, v) ==
  IF ~p.known THEN NewParams(v)
  ELSE IF ~HasData(p) THEN ExtractPca(p)
  ELSE cusum_update(wkp_update(p, v), v)
-----------------------------------------------------------------------------
(* The tests *)

MakeStatTest == config.freq # 0 /\ test_counter % config.freq = 0
WkpTested(p)   == MakeStatTest /\ config.wkp /\ Len(p.New) = sample_new_size
CusumTested(p) == MakeStatTest /\ config.cusum /\ p.ready_to_test

\* What may be found: nothing without a new value since the last test.
WkpFindings(p)   == IF p.wkp_updated THEN SUBSET (config.tests \X config.metrics)
                                     ELSE {{}}
CusumFindings(p) == IF p.cusum_updated THEN SUBSET ({"cusum"} \X config.metrics)
                                       ELSE {{}}

\* Mutant: without a new value the flags of the last attack stay.
RecordedKept(p, kind, found) ==
  [p EXCEPT !.attack = IF p.wkp_updated \/ p.cusum_updated
                         THEN {a \in @ : a[1] \notin kind} \cup found ELSE @,
            !.alarms = [a \in DOMAIN @ |->
                          IF a \in found /\ (~config.onlyFirst \/ a \notin p.attack)
                            THEN @[a] + 1 ELSE @[a]]]

\* An alarm is counted if every attack is reported or the last test was none.
Recorded(p, kind, found) ==
  [p EXCEPT !.attack = {a \in @ : a[1] \notin kind} \cup found,
            !.alarms = [a \in DOMAIN @ |->
                          IF a \in found /\ (~config.onlyFirst \/ a \notin p.attack)
                            THEN @[a] + 1 ELSE @[a]]]

wkp_test(p, found) ==
  [Recorded(p, WkpTests, found) EXCEPT !.wkp_updated = FALSE]

cusum_test(p, found) ==
  [Recorded(p, {"cusum"}, found) EXCEPT !.cusum_updated = FALSE]
-----------------------------------------------------------------------------
(* test() *)

\* No endpoint has had traffic: the call only counts.
TestEmpty ==
  /\ test_counter < MaxTests
  /\ test_counter' = test_counter + 1
  /\ UNCHANGED <<config, P, got, trace>>

\* Both tests of the endpoint, where they are conducted.
Tested(p, wkp, cusum) ==
  LET q == IF WkpTested(p) THEN wkp_test(p, wkp) ELSE p
  IN IF CusumTested(p) THEN cusum_test(q, cusum) ELSE q

\* The storage has data of some endpoint, this one or another.
Test ==
  /\ test_counter < MaxTests
  /\ \E present \in BOOLEAN :
       LET learns == present /\ (HasData(P) \/ (~P.known /\ ~config.pca))
           p == IF present THEN Update(P, test_counter) ELSE P
       IN IF ~p.known THEN UNCHANGED <<P, got, trace>>
          ELSE \E wkp \in IF WkpTested(p) THEN WkpFindings(p) ELSE {{}},
                  cusum \in IF CusumTested(p) THEN CusumFindings(p) ELSE {{}} :
                 /\ P' = Tested(p, wkp, cusum)
                 /\ got' = IF learns THEN Append(got, test_counter) ELSE got
                 /\ trace' = [wkp |-> IF WkpTested(p) THEN Append(trace.wkp, wkp)
                                                      ELSE trace.wkp,
                              cusum |-> IF CusumTested(p)
                                THEN Append(trace.cusum, [X |-> p.X_curr, found |-> cusum])
                                ELSE trace.cusum]
  /\ test_counter' = test_counter + 1
  /\ UNCHANGED config

Stopped == test_counter = MaxTests /\ UNCHANGED vars

Next == TestEmpty \/ Test \/ Stopped

Spec == Init /\ [][Next]_vars
-----------------------------------------------------------------------------
(* Properties *)

\* The new sample is the latest values, and the old sample comes before it:
\* all of it unless an update has been paused.
SamplesAreRecent ==
  P.known /\ config.wkp =>
    /\ Len(P.Old) <= sample_old_size /\ Len(P.New) <= sample_new_size
    /\ P.New # <<>> => Len(P.Old) = sample_old_size /\ IsSuffix(P.New, got)
    /\ \A i \in DOMAIN P.Old : \A j \in DOMAIN P.New : P.Old[i] < P.New[j]
    /\ config.pause \in {0, 3} => IsSuffix(P.Old \o P.New, got)

\* The alarms of a test are the attacks it has found, or, if only the first one
\* is to be reported, the runs of consecutive tests that found one, and a test
\* without new data ends a run.
AlarmsCountRuns ==
  P.known =>
    LET found == [wkp |-> trace.wkp,
                  cusum |-> [i \in DOMAIN trace.cusum |-> trace.cusum[i].found]]
        Kind(a) == IF a[1] = "cusum" THEN found.cusum ELSE found.wkp
    IN \A a \in DOMAIN P.alarms :
         P.alarms[a] = Cardinality(
           {i \in DOMAIN Kind(a) :
              a \in Kind(a)[i] /\ (config.onlyFirst /\ i > 1 => a \notin Kind(a)[i - 1])})

\* If every call tests, the mean is all values but the current one and those
\* that alarmed, as the setting says.  The last test before the next value
\* decides: one without new data takes the alarm back, and the value is learned.
AttacksAreNotLearned ==
  P.known /\ config.cusum /\ config.freq = 1 =>
    \A m \in config.metrics :
      LET tests == trace.cusum
          Decides(i) == i < Len(tests) => tests[i + 1].X # tests[i].X
          Alarmed(i) == CASE config.pause = 1 -> tests[i].found # {}
                          [] config.pause = 2 -> tests[i].found = {"cusum"} \X config.metrics
                          [] config.pause = 3 -> <<"cusum", m>> \in tests[i].found
                          [] OTHER -> FALSE
          paused == {tests[i].X : i \in {j \in DOMAIN tests : Decides(j) /\ Alarmed(j)}}
      IN P.mean[m] = ToSet(got) \ (paused \cup {P.X_curr})
=============================================================================
