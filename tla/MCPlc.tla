------------------------------- MODULE MCPlc --------------------------------
(* Plc for TLC: any store, read or indicator in any cycle. *)
EXTENDS Plc, TLC

(* Writes of either value to the slots of `slots', reads of one slot, and *)
(* idle cycles with each of those slots on the write bus.                 *)
Free(slots) ==
    {s \in Stimulus :
        /\ s.bus \in slots /\ s.rd = ZeroSlot
        /\ s.op # "write" => s.val = 0
        /\ s.op = "read" => s.bus = ZeroSlot}

StimuliWay0 == Free({[addr |-> a, way |-> 0] : a \in Addrs})

(* Ways as the core has them, one-hot and so never 0; here the one way 1. *)
StimuliWay1 == Free({[addr |-> a, way |-> 1] : a \in Addrs})
=============================================================================
