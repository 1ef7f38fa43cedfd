------------------------------ MODULE PlcBase ------------------------------
(***************************************************************************)
(* Data shared by the blocks of the proactive load-and-check unit (PLC):   *)
(* cache slots, <original, duplicate> tuples and the stimuli the core puts *)
(* on the ports of plc_wrapper in one clock cycle.                         *)
(***************************************************************************)
EXTENDS Naturals

CONSTANTS
    Addrs,    \* index part of a D-cache address, va[10:3]
    Ways,     \* D-cache way numbers as carried by the 4-bit way fields
    Values,   \* doublewords held by the cache
    ListCap,  \* LIST_CAP: entries of plc_list, a power of two in the RTL
    Stimuli   \* what the core may do in one cycle, a subset of Stimulus

Slots == [addr : Addrs, way : Ways]
Tuples == [orig : Slots, dup : Slots]
Indices == 0 .. ListCap - 1

ZeroSlot == [addr |-> 0, way |-> 0]
ZeroTuple == [orig |-> ZeroSlot, dup |-> ZeroSlot]

(***************************************************************************)
(* One cycle of the core, E stage: op is the access it makes (the array is *)
(* single ported, so never a read and a write at once); rd is the read     *)
(* port, bus and val the write port (bus carries an address even when      *)
(* nothing is written); add is add_to_list.                                *)
(***************************************************************************)
Stimulus == [op : {"none", "read", "write"}, rd : Slots, bus : Slots,
             val : Values, add : BOOLEAN]

ASSUME BaseAssumption ==
    /\ Addrs \subseteq Nat /\ 0 \in Addrs
    /\ Ways \subseteq Nat /\ 0 \in Ways
    /\ 0 \in Values
    /\ ListCap \in Nat /\ ListCap >= 2
    /\ Stimuli \subseteq Stimulus

(* A quiet cycle, as during reset: no access, nothing on the buses. *)
QuietCycle == [op |-> "none", rd |-> ZeroSlot, bus |-> ZeroSlot,
               val |-> 0, add |-> FALSE]
=============================================================================
