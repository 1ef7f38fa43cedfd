---------------------------- MODULE MCPlcLoaded -----------------------------
(***************************************************************************)
(* Plc for TLC once the program has registered its tuples: no indicator    *)
(* any more, any store and read in any cycle.  The list of three tuples is *)
(* full, and some share a slot.                                            *)
(***************************************************************************)
EXTENDS Plc, TLC

Slot0(a) == [addr |-> a, way |-> 0]
Loaded == <<[orig |-> Slot0(1), dup |-> Slot0(2)],
            [orig |-> Slot0(0), dup |-> Slot0(2)],
            [orig |-> Slot0(0), dup |-> Slot0(3)]>>

NoAddStimuli ==
    {s \in Stimulus :
        /\ ~s.add /\ s.rd = Slot0(1)
        /\ s.op # "write" => s.val = 0
        /\ s.op = "read" => s.bus = Slot0(0)}

LoadedInit ==
    /\ CacheInit /\ CheckerInit /\ checkEnable = FALSE
    /\ adder = "IDLE" /\ addFlag = FALSE /\ addTuple = Loaded[3]
    /\ list = [i \in Indices |-> IF i < 3 THEN Loaded[i + 1] ELSE ZeroTuple]
    /\ size = 3 /\ fetchPtr = 0 /\ fetchTuple = ZeroTuple
    /\ storeCounter \in {{}, {3}} /\ storeDone = FALSE /\ checkFlag = FALSE

LoadedSpec == LoadedInit /\ [][Run]_vars /\ ClockRuns
=============================================================================
