----------------------------- MODULE PlcChecker -----------------------------
(***************************************************************************)
(* plc_checker: the FSM that reads the two slots of each tuple in turn and *)
(* compares the data two cycles behind the addresses.                      *)
(***************************************************************************)
EXTENDS PlcBase

VARIABLES
    chk,      \* FSM state: First/Second Address, Data Odd/Even, Last Odd/Even
    dataO,    \* data of the original, held for the comparison
    plcError  \* the output plc_error

checkerVars == <<chk, dataO, plcError>>

CheckerTypeOK ==
    /\ chk \in {"IDLE", "FA", "SA", "DO", "DE", "LO", "LE"}
    /\ dataO \in Values
    /\ plcError \in BOOLEAN

CheckerInit == chk = "IDLE" /\ dataO = 0 /\ plcError = FALSE

(* Combinational outputs: read_en, next, and the address of the read. *)
ReadEn == chk \in {"FA", "SA", "DO", "DE"}
NextTuple == chk \in {"SA", "DE"}
ReadSlot(t) == IF chk \in {"FA", "DO"} THEN t.orig ELSE t.dup

Begin(start) ==
    /\ chk = "IDLE"
    /\ chk' = IF start THEN "FA" ELSE "IDLE"
    /\ plcError' = (plcError /\ ~start)
    /\ UNCHANGED dataO

FirstAddress ==
    chk = "FA" /\ chk' = "SA" /\ plcError' = FALSE /\ UNCHANGED dataO

SecondAddress(last) ==
    /\ chk = "SA"
    /\ chk' = IF last THEN "LO" ELSE "DO"
    /\ plcError' = FALSE
    /\ UNCHANGED dataO

SaveOriginal(ddata) ==
    /\ chk \in {"DO", "LO"}
    /\ chk' = IF chk = "DO" THEN "DE" ELSE "LE"
    /\ plcError' = FALSE
    /\ dataO' = ddata

Compare(ddata, last) ==
    /\ chk \in {"DE", "LE"}
    /\ chk' = IF chk = "LE" THEN "IDLE" ELSE IF last THEN "LO" ELSE "DO"
    /\ plcError' = (dataO # ddata)
    /\ UNCHANGED dataO

CheckerTick(start, last, ddata) ==
    \/ Begin(start)
    \/ FirstAddress
    \/ SecondAddress(last)
    \/ SaveOriginal(ddata)
    \/ Compare(ddata, last)

(* rst | pause *)
CheckerReset(ddata) == chk' = "IDLE" /\ plcError' = FALSE /\ dataO' = ddata
=============================================================================
