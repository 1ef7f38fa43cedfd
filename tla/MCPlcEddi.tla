----------------------------- MODULE MCPlcEddi ------------------------------
(* PlcEddi for TLC: a pair whose original is in way 0, one whose is not, *)
(* and one slot of no pair.                                              *)
EXTENDS PlcEddi, TLC

Slot(a, w) == [addr |-> a, way |-> w]
Other == Slot(0, 1)
MixedPairs == {[orig |-> Slot(1, 0), dup |-> Slot(1, 1)],
               [orig |-> Slot(2, 1), dup |-> Slot(2, 0)]}

(* The core reads only Other; a stimulus that does not write carries no value. *)
EddiStimuli ==
    {s \in Stimulus :
        /\ s.rd = Other
        /\ s.op # "write" \/ s.bus = Other => s.val = 0}

(***************************************************************************)
(* A behaviour is followed until the program stores different values to a  *)
(* pair: NoFalseAlarm says nothing of what follows, and the adder, the     *)
(* list and the check flag depend on no value.                             *)
(***************************************************************************)
UntilCorrupt == ~corrupt

(* The array starts with zeros, which nothing reads before it is written. *)
ZeroInit == EddiInit /\ mem = [s \in Slots |-> 0]
MCEddiSpec == ZeroInit /\ [][EddiNext]_eddiVars
=============================================================================
