------------------------------ MODULE PlcAdder ------------------------------
(***************************************************************************)
(* plc_adder: after the indicator, the next two stores name the original   *)
(* and the duplicate of a tuple, which is then offered to plc_list.        *)
(***************************************************************************)
EXTENDS PlcBase

VARIABLES adder, addTuple, addFlag

adderVars == <<adder, addTuple, addFlag>>

AdderTypeOK ==
    /\ adder \in {"IDLE", "WXO", "WXE"}
    /\ addTuple \in Tuples
    /\ addFlag \in BOOLEAN

AdderInit == adder = "IDLE" /\ addTuple = ZeroTuple /\ addFlag = FALSE

AwaitIndicator(indicator) ==
    /\ adder = "IDLE"
    /\ adder' = IF indicator THEN "WXO" ELSE "IDLE"
    /\ addFlag' = FALSE
    /\ UNCHANGED addTuple

(* Mutation of TakeOriginal: the halves of the tuple swapped. *)
TakeOriginalSwapped(bus) ==
    /\ adder = "WXO"
    /\ adder' = "WXE"
    /\ addTuple' = [addTuple EXCEPT !.dup = bus]
    /\ addFlag' = FALSE

TakeOriginal(bus) ==
    /\ adder = "WXO"
    /\ adder' = "WXE"
    /\ addTuple' = [addTuple EXCEPT !.orig = bus]
    /\ addFlag' = FALSE

TakeDuplicate(bus) ==
    /\ adder = "WXE"
    /\ adder' = "IDLE"
    /\ addTuple' = [addTuple EXCEPT !.dup = bus]
    /\ addFlag' = TRUE

AdderTick(indicator, wen, bus) ==
    \/ AwaitIndicator(indicator)
    \/ wen /\ TakeOriginal(bus)
    \/ wen /\ TakeDuplicate(bus)
    \/ adder # "IDLE" /\ ~wen /\ UNCHANGED adderVars

AdderReset == adder' = "IDLE" /\ addTuple' = ZeroTuple /\ addFlag' = FALSE
=============================================================================
