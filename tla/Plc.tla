-------------------------------- MODULE Plc ---------------------------------
(***************************************************************************)
(* plc_wrapper: the adder, the list and the checker clocked together in    *)
(* front of the D-cache.  One step is one clock edge, so every register    *)
(* takes its next value from the same old state and the same stimulus.     *)
(***************************************************************************)
EXTENDS Dcache, PlcAdder, PlcList, PlcChecker

VARIABLE checkEnable

vars == <<cacheVars, adderVars, listVars, checkerVars, checkEnable>>

TypeOK ==
    /\ CacheTypeOK
    /\ AdderTypeOK
    /\ ListTypeOK
    /\ CheckerTypeOK
    /\ checkEnable \in BOOLEAN

(* The state a reset leaves; the contents of the array are arbitrary. *)
Init == CacheInit /\ AdderInit /\ ListInit /\ CheckerInit /\ checkEnable = FALSE

CoreAccess(s) ==
    CASE s.op = "read"  -> ReadOf(s.rd)
      [] s.op = "write" -> WriteOf(s.bus, s.val)
      [] OTHER          -> NoAccess

(* The muxes: the checker has the port while it is enabled and the core idles. *)
PortAccess(s) ==
    IF checkEnable /\ s.op = "none"
    THEN IF ReadEn THEN ReadOf(ReadSlot(fetchTuple)) ELSE NoAccess
    ELSE CoreAccess(s)

(* Mutation of Pause: write_enable left out of access_cache. *)
PauseOnReads(s) == checkEnable /\ s.op = "read"

Pause(s) == checkEnable /\ s.op # "none"

(* Mutation of EnableTick: dropped on any fetch, not on the last. *)
EnableUntilFetch == checkEnable' = (checkFlag \/ (checkEnable /\ ~NextTuple))

EnableTick ==
    checkEnable' = (checkFlag \/ (checkEnable /\ ~(LastFlag /\ NextTuple)))

(* A clock edge with the reset off and the core applying s. *)
Clock(s) ==
    /\ CacheTick(PortAccess(s))
    /\ AdderTick(s.add, s.op = "write", s.bus)
    /\ ListTick(addFlag, addTuple, s.op = "write", s.bus, NextTuple)
    /\ IF Pause(s) THEN CheckerReset(wb) ELSE CheckerTick(checkFlag, LastFlag, wb)
    /\ EnableTick

(* A clock edge with the reset on; the array and its pipeline are not reset. *)
Reset ==
    /\ CacheTick(PortAccess(QuietCycle))
    /\ AdderReset
    /\ ListReset
    /\ CheckerReset(wb)
    /\ checkEnable' = FALSE

Run == \E s \in Stimuli : Clock(s)
Next == Run \/ Reset

Spec == Init /\ [][Next]_vars

(***************************************************************************)
(* The clock keeps running.  Stated of the cycles that have something to   *)
(* do: in an idle cycle no register need change, and the step stutters.    *)
(***************************************************************************)
Busy == chk # "IDLE" \/ checkFlag
ClockRuns == WF_vars(Run /\ Busy)

-----------------------------------------------------------------------------
(***************************************************************************)
(* Properties.                                                             *)
(***************************************************************************)

Registered == 0 .. size - 1
Differs(t) == mem[t.orig] # mem[t.dup]

(***************************************************************************)
(* plc_error only ever rises when the two halves of one registered tuple   *)
(* differ in the array at that moment: the two-deep read pipeline never    *)
(* pairs data of different tuples, of the core's own reads, or from before *)
(* and after a store, whatever the core does while a check runs.           *)
(***************************************************************************)
ErrorIsGenuine ==
    [][~plcError /\ plcError' => \E i \in Registered : Differs(list[i])]_vars

(***************************************************************************)
(* plc_check_flag is a pulse of one cycle, although nothing resets it and  *)
(* stores may follow each other in every cycle; the list and the checker   *)
(* both restart on it, one cycle apart.                                    *)
(***************************************************************************)
CheckFlagIsPulse == [][checkFlag => ~checkFlag']_vars

(***************************************************************************)
(* A registered tuple is never overwritten, moved or dropped, also when    *)
(* the list is full, except by a reset, which empties the whole list.      *)
(***************************************************************************)
RegisteredForever ==
    [][\/ size <= size' /\ \A i \in Registered : list'[i] = list[i]
       \/ size' = 0 /\ \A i \in Indices : list'[i] = ZeroTuple]_vars

(***************************************************************************)
(* A store to the duplicate of a registered tuple is found by the search   *)
(* ("the address was found, used to ctrl the up-down counters") and flips  *)
(* the parity of that tuple.                                               *)
(***************************************************************************)
DuplicateFound ==
    [][m'.op = "write" =>
         \A i \in Registered :
            m'.slot = list[i].dup => (i \in storeCounter') # (i \in storeCounter)]_vars

(***************************************************************************)
(* Only tuples in the list ("number of tuples in the list") have a store   *)
(* parity: a store to an address nobody registered is not found.           *)
(***************************************************************************)
OnlyRegisteredCounted == storeCounter \subseteq Registered

(* The core has not used the array in the last cycle. *)
CoreQuiet == m.op # "none" => chk \in {"SA", "DO", "DE", "LO"}

(***************************************************************************)
(* A check that has begun reports every registered tuple that differs,     *)
(* unless the core uses the array first: the fetch pointer, last_flag and  *)
(* the pipeline leave no tuple out, and check_enable drops late enough.    *)
(***************************************************************************)
CheckFindsMismatch ==
    (chk = "FA" /\ \E i \in Registered : Differs(list[i])) ~> (plcError \/ ~CoreQuiet)

-----------------------------------------------------------------------------
(***************************************************************************)
(* The inductive invariant behind the safety properties.                   *)
(***************************************************************************)

(* store_done tells of the store now in M, *)
StoreSeen == storeDone => m.op = "write"
(* a store that comes with the check flag evened out the counters, *)
FlagEven == checkFlag /\ storeDone => storeCounter = {}
(* and the flag never meets a checker past its first pair. *)
FlagState == checkFlag => chk \in {"IDLE", "SA"}
(* The port belongs to the checker as long as it presents addresses, *)
PortHeld == ReadEn => checkEnable
(* so no store is in M between the reads of a pair. *)
NoStoreBetween == m.op = "write" => chk \in {"IDLE", "FA", "LE"}

UnusedZero == \A i \in Indices : i >= size => list[i] = ZeroTuple
Entry(t) == t = ZeroTuple \/ \E i \in Registered : list[i] = t
FetchedEntry == Entry(fetchTuple)

(* Where the data of the tuples in flight are, state by state. *)
SecondRead == chk = "SA" => m = ReadOf(fetchTuple.orig)
OddArrives ==
    chk \in {"DO", "LO"} =>
        \E t \in Tuples : Entry(t) /\ wb = mem[t.orig] /\ m = ReadOf(t.dup)
EvenArrives ==
    chk \in {"DE", "LE"} =>
        \E t \in Tuples : Entry(t) /\ dataO = mem[t.orig] /\ wb = mem[t.dup]
NextFollows == chk = "DE" => m = ReadOf(fetchTuple.orig)

Inv ==
    /\ StoreSeen /\ FlagEven /\ FlagState /\ PortHeld /\ NoStoreBetween
    /\ UnusedZero /\ FetchedEntry
    /\ SecondRead /\ OddArrives /\ EvenArrives /\ NextFollows
=============================================================================
