---------------------------- MODULE FileCounter ----------------------------
(***************************************************************************)
(* shared::FileCounter (commonutils/sharedobj.cpp): the cyclic counter     *)
(* that numbers the packet files.  The collector's listener thread, the    *)
(* packet store, the shared memory block and the detection modules all     *)
(* name a packet file by a value of this counter, and the manager computes *)
(* how many files it may delete by subtracting two of them.                *)
(***************************************************************************)
EXTENDS Naturals

CONSTANT MAX_FILES  \* config_space::MAX_FILES, 100000 in commonutils/global.h

ASSUME MaxFilesAssumption == MAX_FILES \in Nat /\ MAX_FILES >= 2

\* The range the class comment promises: [ 0, MAX_FILES ).
Counter == 0 .. MAX_FILES - 1

\* operator++, both forms: the value the counter holds afterwards.
Inc(c) == IF c + 1 = MAX_FILES THEN 0 ELSE c + 1

\* operator-: the cyclic distance from b up to a.
Minus(a, b) == IF a >= b THEN a - b ELSE MAX_FILES - (b - a)

\* operator+: n increments of c.
Plus(c, n) == IF c + n >= MAX_FILES THEN (c + n) - MAX_FILES ELSE c + n

=============================================================================
