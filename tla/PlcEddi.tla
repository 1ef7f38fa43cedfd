------------------------------ MODULE PlcEddi -------------------------------
(***************************************************************************)
(* Plc driven by the programs it is made for: EDDI code, in which the      *)
(* store of a duplicate follows the store of its original "right after"    *)
(* (plc_guts.v).  What the unit promises holds under a discipline of the   *)
(* core's stores that nothing in the RTL enforces; here it is written out. *)
(***************************************************************************)
EXTENDS Plc

CONSTANT Pairs   \* the <original, duplicate> slots of the program

VARIABLE corrupt  \* a duplicate was once stored with another value

eddiVars == <<vars, corrupt>>

Origs == {p.orig : p \in Pairs}
Dups == {p.dup : p \in Pairs}

(***************************************************************************)
(* No slot has two roles; slot 0/0, which the empty entries hold, is none. *)
(* Ways are any: the core's are one-hot, so none of them is 0.             *)
(***************************************************************************)
ASSUME EddiAssumption ==
    /\ Pairs \subseteq Tuples
    /\ Origs \cap Dups = {}
    /\ ZeroSlot \notin Origs \union Dups
    /\ \A p, q \in Pairs : p # q => p.orig # q.orig /\ p.dup # q.dup

(* The original stored in the last cycle, whose duplicate is now due. *)
Due(p) == m.op = "write" /\ m.slot = p.orig

(***************************************************************************)
(* A due duplicate is stored at once.  Otherwise an original may be stored *)
(* (but not with the indicator that announces it, nor in the cycle in      *)
(* which its own tuple is added), or, while the adder is idle, a slot of   *)
(* no pair other than 0/0.  What is on the write bus in a cycle without a  *)
(* store is left open.                                                     *)
(***************************************************************************)
Discipline(s) ==
    \/ \E p \in Pairs : Due(p) /\ s.op = "write" /\ s.bus = p.dup
    \/ /\ ~\E p \in Pairs : Due(p)
       /\ \/ s.op # "write"
          \/ /\ s.bus \in Origs
             /\ ~(s.add /\ adder = "IDLE")
             /\ ~(addFlag /\ s.bus = addTuple.orig)
          \/ s.bus \notin Origs \union Dups \union {ZeroSlot} /\ adder = "IDLE"

Program(s) ==
    /\ Discipline(s)
    /\ Clock(s)
    /\ corrupt' = \/ corrupt
                  \/ \E p \in Pairs : Due(p) /\ s.val # m.val

EddiInit == Init /\ corrupt = FALSE
EddiNext == (\E s \in Stimuli : Program(s)) \/ (Reset /\ UNCHANGED corrupt)
EddiSpec == EddiInit /\ [][EddiNext]_eddiVars

-----------------------------------------------------------------------------

(***************************************************************************)
(* No false alarm: an error is reported only after the program really      *)
(* stored different values to the halves of a pair.  A check begins with   *)
(* no pair half stored, and no half is stored between its two reads.       *)
(***************************************************************************)
NoFalseAlarm == [][~plcError /\ plcError' => corrupt]_eddiVars

(***************************************************************************)
(* The store of a registered duplicate requests a check if all registered  *)
(* originals are in way 0, and none if its own original is in another way: *)
(* plc_guts.v compares both ways of a tuple with the one on the bus.  No   *)
(* other store, no idle bus, no registration, not even in the same cycle,  *)
(* and no full list makes a difference.                                    *)
(***************************************************************************)
CheckAfterDuplicate ==
    \A i \in Registered : m.op = "write" /\ m.slot = list[i].dup =>
        /\ (\A j \in Registered : list[j].orig.way = 0) => checkFlag
        /\ list[i].orig.way # 0 => ~checkFlag

(***************************************************************************)
(* What gets registered is the two halves of one pair of the program,      *)
(* never the halves of two of them.                                        *)
(***************************************************************************)
PairsAligned == \A i \in Registered : list[i] \in Pairs
=============================================================================
