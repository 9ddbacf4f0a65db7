--------------------------- MODULE PacketDelivery ---------------------------
(***************************************************************************)
(* What the packet exchange promises, as manager.h puts it: the manager    *)
(* "informs them [the modules] about incoming IPFIX packets and deletes    *)
(* the new packets after they were parsed by the modules".  Packets are    *)
(* numbered in the order in which they are published; every module parses  *)
(* them in that order, none twice, and a packet is deleted only when every *)
(* module has parsed it.                                                   *)
(***************************************************************************)
EXTENDS Naturals

CONSTANT Modules

VARIABLES
  published,  \* packets 1..published are available or were
  parsed,     \* for each module, the packets it has parsed
  deleted     \* packets 1..deleted are gone

vars == <<published, parsed, deleted>>

Init ==
  /\ published = 0
  /\ parsed = [m \in Modules |-> {}]
  /\ deleted = 0

Publish ==
  /\ published' = published + 1
  /\ UNCHANGED <<parsed, deleted>>

\* A module parses the first packet it has not parsed yet.
Parse(m) ==
  /\ \E p \in 1 .. published :
       /\ parsed[m] = 1 .. p - 1
       /\ parsed' = [parsed EXCEPT ![m] = 1 .. p]
  /\ UNCHANGED <<published, deleted>>

Delete ==
  /\ deleted' \in deleted + 1 .. published
  /\ \A m \in Modules : 1 .. deleted' \subseteq parsed[m]
  /\ UNCHANGED <<published, parsed>>

Next == Publish \/ Delete \/ \E m \in Modules : Parse(m)

Spec == Init /\ [][Next]_vars

=============================================================================
