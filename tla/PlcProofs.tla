----------------------------- MODULE PlcProofs ------------------------------
(***************************************************************************)
(* TLAPS proofs about Plc, for every cache geometry, list capacity and set *)
(* of stimuli that satisfies BaseAssumption.                               *)
(***************************************************************************)
EXTENDS Plc, TLAPS

-----------------------------------------------------------------------------
(* Types. *)

(* The zero slot, tuple and cycle are well typed, and so are halves. *)
LEMMA SlotFacts ==
    /\ ZeroSlot \in Slots
    /\ ZeroTuple \in Tuples
    /\ QuietCycle \in Stimulus
    /\ \A t \in Tuples : t.orig \in Slots /\ t.dup \in Slots
BY BaseAssumption DEF ZeroSlot, ZeroTuple, Slots, Tuples, QuietCycle, Stimulus

(* What the muxes present to the array is an access. *)
LEMMA PortAccessType ==
    ASSUME TypeOK, NEW s \in Stimulus
    PROVE  PortAccess(s) \in [op : {"none", "read", "write"}, slot : Slots, val : Values]
<1>1. \A x \in Slots : ReadOf(x) \in [op : {"none", "read", "write"}, slot : Slots, val : Values]
  BY BaseAssumption DEF ReadOf
<1>2. \A x \in Slots, v \in Values :
          WriteOf(x, v) \in [op : {"none", "read", "write"}, slot : Slots, val : Values]
  BY DEF WriteOf
<1>3. NoAccess \in [op : {"none", "read", "write"}, slot : Slots, val : Values]
  BY BaseAssumption, SlotFacts DEF NoAccess
<1>4. ReadSlot(fetchTuple) \in Slots
  BY SlotFacts DEF ReadSlot, TypeOK, ListTypeOK
<1>5. s.rd \in Slots /\ s.bus \in Slots /\ s.val \in Values
  BY DEF Stimulus
<1>6. CoreAccess(s) \in [op : {"none", "read", "write"}, slot : Slots, val : Values]
  <2>1. CASE s.op = "read"
    BY <2>1, <1>1, <1>5 DEF CoreAccess
  <2>2. CASE s.op = "write"
    BY <2>2, <1>2, <1>5 DEF CoreAccess
  <2>3. CASE s.op = "none"
    BY <2>3, <1>3 DEF CoreAccess
  <2>4. QED
    BY <2>1, <2>2, <2>3 DEF Stimulus
<1>7. QED
  BY <1>1, <1>3, <1>4, <1>6 DEF PortAccess

(* Each block keeps its types: the data array, *)
LEMMA CacheType ==
    ASSUME TypeOK, NEW s \in Stimulus, CacheTick(PortAccess(s))
    PROVE  CacheTypeOK'
<1>1. PortAccess(s) \in [op : {"none", "read", "write"}, slot : Slots, val : Values]
  BY PortAccessType
<1>2. m.slot \in Slots /\ m.val \in Values /\ mem \in [Slots -> Values]
  BY DEF TypeOK, CacheTypeOK
<1>3. mem' \in [Slots -> Values]
  BY <1>2 DEF CacheTick
<1>4. wb' \in Values
  BY <1>2, BaseAssumption DEF CacheTick
<1>5. QED
  BY <1>1, <1>3, <1>4 DEF CacheTypeOK, CacheTick

(* the adder, *)
LEMMA AdderType ==
    ASSUME TypeOK, NEW s \in Stimulus,
           AdderTick(s.add, s.op = "write", s.bus) \/ AdderReset
    PROVE  AdderTypeOK'
<1>1. s.bus \in Slots
  BY DEF Stimulus
<1>2. addTuple \in Tuples /\ addFlag \in BOOLEAN /\ adder \in {"IDLE", "WXO", "WXE"}
  BY DEF TypeOK, AdderTypeOK
<1>3. addTuple' \in Tuples
  BY <1>1, <1>2, SlotFacts DEF AdderTick, AdderReset, AwaitIndicator, TakeOriginal,
        TakeDuplicate, adderVars, Tuples
<1>4. QED
  BY <1>2, <1>3 DEF AdderTypeOK, AdderTick, AdderReset, AwaitIndicator, TakeOriginal,
        TakeDuplicate, adderVars

(* the list, whose indices wrap at the capacity, *)
LEMMA ListType ==
    ASSUME TypeOK, NEW s \in Stimulus,
           \/ ListTick(addFlag, addTuple, s.op = "write", s.bus, NextTuple)
           \/ ListReset
    PROVE  ListTypeOK'
<1>1. list \in [Indices -> Tuples] /\ size \in Indices /\ fetchPtr \in Indices
      /\ fetchTuple \in Tuples /\ storeCounter \in SUBSET Indices /\ addTuple \in Tuples
  BY DEF TypeOK, ListTypeOK, AdderTypeOK
<1>2. 0 \in Indices /\ 1 \in Indices
  BY BaseAssumption DEF Indices
<1>3. \A n \in Indices : (n + 1) % ListCap \in Indices
  BY BaseAssumption, Z3 DEF Indices
<1>4. SearchResult(s.bus) \subseteq Indices
  BY DEF SearchResult
<1>5. CASE ListReset
  BY <1>5, <1>2, SlotFacts DEF ListReset, ListTypeOK
<1>6. CASE ListTick(addFlag, addTuple, s.op = "write", s.bus, NextTuple)
  <2>1. list' \in [Indices -> Tuples] /\ size' \in Indices
    BY <1>6, <1>1, <1>3 DEF ListTick, Add
  <2>2. fetchPtr' \in Indices /\ fetchTuple' \in Tuples
    BY <1>6, <1>1, <1>2, <1>3 DEF ListTick, Fetch
  <2>3. storeCounter' \in SUBSET Indices /\ storeDone' \in BOOLEAN
    BY <1>6, <1>1, <1>4 DEF ListTick, Store, Toggle
  <2>4. checkFlag' \in BOOLEAN
    BY <1>6 DEF ListTick, RaiseCheck
  <2>5. QED
    BY <2>1, <2>2, <2>3, <2>4 DEF ListTypeOK
<1>7. QED
  BY <1>5, <1>6

(* the checker, *)
LEMMA CheckerType ==
    ASSUME TypeOK, CheckerReset(wb) \/ CheckerTick(checkFlag, LastFlag, wb)
    PROVE  CheckerTypeOK'
BY DEF TypeOK, CacheTypeOK, CheckerTypeOK, CheckerReset, CheckerTick, Begin,
       FirstAddress, SecondAddress, SaveOriginal, Compare

(* and so all of them together. *)
LEMMA TypeStep == TypeOK /\ [Next]_vars => TypeOK'
<1> SUFFICES ASSUME TypeOK, [Next]_vars
             PROVE  TypeOK'
  OBVIOUS
<1>1. ASSUME NEW s \in Stimuli, Clock(s)
      PROVE  TypeOK'
  <2>1. s \in Stimulus
    BY BaseAssumption
  <2>2. CacheTypeOK'
    BY <1>1, <2>1, CacheType DEF Clock
  <2>3. AdderTypeOK'
    BY <1>1, <2>1, AdderType DEF Clock
  <2>4. ListTypeOK'
    BY <1>1, <2>1, ListType DEF Clock
  <2>5. CheckerTypeOK'
    BY <1>1, CheckerType DEF Clock
  <2>6. checkEnable' \in BOOLEAN
    BY <1>1 DEF Clock, EnableTick
  <2>7. QED
    BY <2>2, <2>3, <2>4, <2>5, <2>6 DEF TypeOK
<1>2. CASE Reset
  <2>1. CacheTypeOK'
    BY <1>2, SlotFacts, CacheType DEF Reset
  <2>2. AdderTypeOK'
    BY <1>2, SlotFacts, AdderType DEF Reset
  <2>3. ListTypeOK'
    BY <1>2, SlotFacts, ListType DEF Reset
  <2>4. CheckerTypeOK'
    BY <1>2, CheckerType DEF Reset
  <2>5. QED
    BY <1>2, <2>1, <2>2, <2>3, <2>4 DEF TypeOK, Reset
<1>3. CASE UNCHANGED vars
  BY <1>3 DEF vars, cacheVars, adderVars, listVars, checkerVars, TypeOK, CacheTypeOK,
          AdderTypeOK, ListTypeOK, CheckerTypeOK
<1>4. QED
  BY <1>1, <1>2, <1>3 DEF Next, Run

(* The reset state is well typed. *)
LEMMA InitType == Init => TypeOK
<1> SUFFICES ASSUME Init PROVE TypeOK
  OBVIOUS
<1>1. 0 \in Values /\ 0 \in Indices
  BY BaseAssumption DEF Indices
<1>2. CacheTypeOK
  BY <1>1, SlotFacts DEF Init, CacheInit, CacheTypeOK, NoAccess
<1>3. AdderTypeOK /\ CheckerTypeOK
  BY <1>1, SlotFacts DEF Init, AdderInit, AdderTypeOK, CheckerInit, CheckerTypeOK
<1>4. ListTypeOK
  BY <1>1, SlotFacts DEF Init, ListInit, ListTypeOK
<1>5. QED
  BY <1>2, <1>3, <1>4 DEF Init, TypeOK

(* Every register of the unit and the cache keeps its type (all blocks). *)
THEOREM TypeCorrect == Spec => []TypeOK
BY InitType, TypeStep, PTL DEF Spec

-----------------------------------------------------------------------------
(* The inductive invariant. *)

(* A step is a clock edge under some stimulus, or a reset. *)
LEMMA StepCases ==
    ASSUME TypeOK, Next
    PROVE  \/ \E s \in Stimulus : Clock(s)
           \/ Reset
BY BaseAssumption DEF Next, Run

(* What a clock edge does to the M stage. *)
LEMMA MStage ==
    ASSUME TypeOK, NEW s \in Stimulus, Clock(s)
    PROVE  /\ m' = PortAccess(s)
           /\ m'.op = "write" <=> s.op = "write"
           /\ checkEnable /\ ~Pause(s) /\ ReadEn => m' = ReadOf(ReadSlot(fetchTuple))
<1>1. m' = PortAccess(s)
  BY DEF Clock, CacheTick
<1>2. m'.op = "write" <=> s.op = "write"
  BY <1>1 DEF PortAccess, CoreAccess, ReadOf, WriteOf, NoAccess, Stimulus
<1>3. checkEnable /\ ~Pause(s) /\ ReadEn => m' = ReadOf(ReadSlot(fetchTuple))
  BY <1>1 DEF PortAccess, Pause
<1>4. QED
  BY <1>1, <1>2, <1>3

(* The check flag is a pulse. *)
LEMMA PulseStep ==
    ASSUME TypeOK, FlagEven, NEW s \in Stimulus, Clock(s), checkFlag
    PROVE  ~checkFlag'
<1> SUFFICES ASSUME checkFlag' PROVE FALSE
  OBVIOUS
<1>1. storeDone /\ SearchResult(s.bus) # {} /\ Toggle(storeCounter, SearchResult(s.bus)) = {}
  BY DEF Clock, ListTick, RaiseCheck
<1>2. storeCounter = {}
  BY <1>1 DEF FlagEven
<1>3. QED
  BY <1>1, <1>2 DEF Toggle

(* Entries stay entries: the list only grows. *)
LEMMA EntryStable ==
    ASSUME TypeOK, NEW s \in Stimulus, Clock(s)
    PROVE  /\ size <= size'
           /\ \A i \in Registered : list'[i] = list[i]
           /\ \A t : Entry(t) => Entry(t)'
<1>1. list \in [Indices -> Tuples] /\ size \in Indices /\ ListCap \in Nat /\ ListCap >= 2
  BY BaseAssumption DEF TypeOK, ListTypeOK
<1>2. Add(addFlag, addTuple)
  BY DEF Clock, ListTick
<1>3. CASE addFlag /\ ~ListFull
  <2>1. list' = [list EXCEPT ![size] = addTuple] /\ size' = (size + 1) % ListCap
    BY <1>2, <1>3 DEF Add
  <2>2. size \in 0 .. ListCap - 2
    BY <1>1, <1>3 DEF ListFull, Indices
  <2>3. size' = size + 1
    BY <2>1, <2>2, <1>1, Z3
  <2>4. \A i \in Registered : list'[i] = list[i]
    BY <2>1, <2>2, <1>1 DEF Registered, Indices
  <2>5. \A t : Entry(t) => Entry(t)'
    BY <2>2, <2>3, <2>4 DEF Entry, Registered
  <2>6. QED
    BY <2>2, <2>3, <2>4, <2>5
<1>4. CASE ~(addFlag /\ ~ListFull)
  <2>1. list' = list /\ size' = size
    BY <1>2, <1>4 DEF Add
  <2>2. QED
    BY <2>1, <1>1 DEF Entry, Registered, Indices
<1>5. QED
  BY <1>3, <1>4

(* An entry past the used ones stays zero: Add writes the next one only. *)
LEMMA UnusedStep ==
    ASSUME TypeOK, UnusedZero, NEW s \in Stimulus, Clock(s)
    PROVE  UnusedZero'
<1>1. list \in [Indices -> Tuples] /\ size \in Indices /\ ListCap \in Nat /\ ListCap >= 2
  BY BaseAssumption DEF TypeOK, ListTypeOK
<1>2. Add(addFlag, addTuple)
  BY DEF Clock, ListTick
<1>3. CASE addFlag /\ ~ListFull
  <2>1. list' = [list EXCEPT ![size] = addTuple] /\ size' = (size + 1) % ListCap
    BY <1>2, <1>3 DEF Add
  <2>2. size \in 0 .. ListCap - 2
    BY <1>1, <1>3 DEF ListFull, Indices
  <2>3. size' = size + 1
    BY <2>1, <2>2, <1>1, Z3
  <2>4. QED
    BY <2>1, <2>2, <2>3, <1>1 DEF UnusedZero, Indices
<1>4. CASE ~(addFlag /\ ~ListFull)
  BY <1>2, <1>4 DEF Add, UnusedZero
<1>5. QED
  BY <1>3, <1>4

(* Whatever the fetch does, the tuple it holds is an entry of the list. *)
LEMMA FetchedStep ==
    ASSUME TypeOK, UnusedZero, FetchedEntry, NEW s \in Stimulus, Clock(s)
    PROVE  FetchedEntry'
<1>1. list \in [Indices -> Tuples] /\ size \in Indices /\ fetchPtr \in Indices
      /\ ListCap \in Nat /\ ListCap >= 2
  BY BaseAssumption DEF TypeOK, ListTypeOK
<1>2. \A i \in Indices : Entry(list[i])
  BY <1>1 DEF UnusedZero, Entry, Registered, Indices
<1>3. Fetch(NextTuple)
  BY DEF Clock, ListTick
<1>4. Entry(fetchTuple')
  BY <1>1, <1>2, <1>3 DEF Fetch, FetchedEntry, Indices
<1>5. QED
  BY <1>4, EntryStable DEF FetchedEntry, Entry

(* The flags and the M stage, after a step. *)
LEMMA FlagStep ==
    ASSUME TypeOK, Inv, NEW s \in Stimulus, Clock(s)
    PROVE  (StoreSeen /\ FlagEven /\ FlagState /\ PortHeld /\ NoStoreBetween)'
<1> USE DEF CheckerReset, CheckerTick, Begin, FirstAddress, SecondAddress,
            SaveOriginal, Compare
<1>1. IF Pause(s) THEN CheckerReset(wb) ELSE CheckerTick(checkFlag, LastFlag, wb)
  BY DEF Clock
<1>2. checkEnable' = (checkFlag \/ (checkEnable /\ ~(LastFlag /\ NextTuple)))
  BY DEF Clock, EnableTick
<1>3. storeDone' = (s.op = "write")
  BY DEF Clock, ListTick, Store
<1>4. StoreSeen'
  BY <1>3, MStage DEF StoreSeen
<1>5. FlagEven'
  <2> SUFFICES ASSUME checkFlag', storeDone' PROVE storeCounter' = {}
    BY DEF FlagEven
  <2>1. Toggle(storeCounter, SearchResult(s.bus)) = {}
    BY DEF Clock, ListTick, RaiseCheck
  <2>2. QED
    BY <1>3, <2>1 DEF Clock, ListTick, Store
<1>6. FlagState'
  <2> SUFFICES ASSUME checkFlag' PROVE chk' \in {"IDLE", "SA"}
    BY DEF FlagState
  <2>1. storeDone
    BY DEF Clock, ListTick, RaiseCheck
  <2>2. chk \in {"IDLE", "FA", "LE"}
    BY <2>1 DEF Inv, StoreSeen, NoStoreBetween
  <2>3. ~checkFlag
    BY PulseStep DEF Inv
  <2>4. QED
    BY <1>1, <2>2, <2>3
<1>7. PortHeld'
  <2> SUFFICES ASSUME chk' \in {"FA", "SA", "DO", "DE"} PROVE checkEnable'
    BY DEF PortHeld, ReadEn
  <2>1. CASE chk' = "FA"
    BY <1>1, <1>2, <2>1 DEF TypeOK, CheckerTypeOK
  <2>2. CASE chk' \in {"SA", "DE"}
    BY <1>1, <1>2, <2>2 DEF Inv, PortHeld, ReadEn, NextTuple
  <2>3. CASE chk' = "DO"
    BY <1>1, <1>2, <2>3 DEF Inv, PortHeld, ReadEn, NextTuple
  <2>4. QED
    BY <2>1, <2>2, <2>3
<1>8. NoStoreBetween'
  <2> SUFFICES ASSUME s.op = "write" PROVE chk' \in {"IDLE", "FA", "LE"}
    BY MStage DEF NoStoreBetween
  <2>1. CASE checkEnable
    BY <1>1, <2>1 DEF Pause
  <2>2. CASE ~checkEnable
    <3>1. chk \in {"IDLE", "LO", "LE"}
      BY <2>2 DEF Inv, PortHeld, ReadEn, TypeOK, CheckerTypeOK
    <3>2. QED
      BY <1>1, <3>1
  <2>3. QED
    BY <2>1, <2>2
<1>9. QED
  BY <1>4, <1>5, <1>6, <1>7, <1>8

(* A read in M leaves the array alone and delivers its slot to WB. *)
LEMMA ReadDelivered ==
    ASSUME NEW s \in Stimulus, Clock(s), NEW x, m = ReadOf(x)
    PROVE  mem' = mem /\ wb' = mem[x]
BY DEF Clock, CacheTick, ReadOf

(* The data of the tuples in flight, after a step. *)
LEMMA PipelineStep ==
    ASSUME TypeOK, Inv, NEW s \in Stimulus, Clock(s)
    PROVE  (SecondRead /\ OddArrives /\ EvenArrives /\ NextFollows)'
<1> USE DEF CheckerReset, CheckerTick, Begin, FirstAddress, SecondAddress,
            SaveOriginal, Compare
<1>1. IF Pause(s) THEN CheckerReset(wb) ELSE CheckerTick(checkFlag, LastFlag, wb)
  BY DEF Clock
<1>2. \A t : Entry(t) => Entry(t)'
  BY EntryStable
<1>3. chk \in {"FA", "DO"} => fetchTuple' = fetchTuple
  BY DEF Clock, ListTick, Fetch, Inv, FlagState, NextTuple
<1>4. chk \in {"FA", "SA", "DO", "DE"} /\ chk' # "IDLE" => m' = ReadOf(ReadSlot(fetchTuple))
  BY <1>1, MStage DEF Inv, PortHeld, ReadEn
<1>5. fetchTuple \in Tuples /\ Entry(fetchTuple)
  BY DEF Inv, FetchedEntry, TypeOK, ListTypeOK
<1>6. SecondRead'
  <2> SUFFICES ASSUME chk' = "SA" PROVE m' = ReadOf(fetchTuple'.orig)
    BY DEF SecondRead, ReadOf
  <2>1. chk = "FA"
    BY <1>1
  <2>2. QED
    BY <2>1, <1>3, <1>4 DEF ReadSlot
<1>7. NextFollows'
  <2> SUFFICES ASSUME chk' = "DE" PROVE m' = ReadOf(fetchTuple'.orig)
    BY DEF NextFollows, ReadOf
  <2>1. chk = "DO"
    BY <1>1
  <2>2. QED
    BY <2>1, <1>3, <1>4 DEF ReadSlot
<1>8. OddArrives'
  <2> SUFFICES ASSUME chk' \in {"DO", "LO"}
               PROVE  \E t \in Tuples : /\ Entry(t)'
                                        /\ wb' = mem'[t.orig]
                                        /\ m' = ReadOf(t.dup)
    BY DEF OddArrives, ReadOf
  <2>1. chk \in {"SA", "DE"}
    BY <1>1
  <2>2. m = ReadOf(fetchTuple.orig)
    BY <2>1 DEF Inv, SecondRead, NextFollows
  <2>3. mem' = mem /\ wb' = mem[fetchTuple.orig]
    BY <2>2, ReadDelivered
  <2>4. m' = ReadOf(fetchTuple.dup)
    BY <2>1, <1>4 DEF ReadSlot
  <2>5. QED
    BY <2>3, <2>4, <1>2, <1>5
<1>9. EvenArrives'
  <2> SUFFICES ASSUME chk' \in {"DE", "LE"}
               PROVE  \E t \in Tuples : /\ Entry(t)'
                                        /\ dataO' = mem'[t.orig]
                                        /\ wb' = mem'[t.dup]
    BY DEF EvenArrives
  <2>1. chk \in {"DO", "LO"} /\ dataO' = wb
    BY <1>1
  <2>2. PICK t \in Tuples : Entry(t) /\ wb = mem[t.orig] /\ m = ReadOf(t.dup)
    BY <2>1 DEF Inv, OddArrives
  <2>3. mem' = mem /\ wb' = mem[t.dup]
    BY <2>2, ReadDelivered
  <2>4. QED
    BY <2>1, <2>2, <2>3, <1>2
<1>10. QED
  BY <1>6, <1>7, <1>8, <1>9

(* The invariant holds at first, *)
LEMMA InvInit == Init => Inv
<1> SUFFICES ASSUME Init PROVE Inv
  OBVIOUS
<1>1. \A i \in Indices : list[i] = ZeroTuple
  BY DEF Init, ListInit
<1>2. UnusedZero /\ FetchedEntry
  BY <1>1 DEF UnusedZero, FetchedEntry, Entry, Init, ListInit
<1>3. QED
  BY <1>2 DEF Init, CacheInit, ListInit, CheckerInit, NoAccess, ReadEn, Inv, StoreSeen,
      FlagEven, FlagState, PortHeld, NoStoreBetween, SecondRead, OddArrives,
      EvenArrives, NextFollows

(* after a reset, *)
LEMMA InvReset == Reset => Inv'
<1> SUFFICES ASSUME Reset PROVE Inv'
  OBVIOUS
<1>1. \A i \in Indices : list'[i] = ZeroTuple
  BY DEF Reset, ListReset
<1>2. (UnusedZero /\ FetchedEntry)'
  BY <1>1 DEF UnusedZero, FetchedEntry, Entry, Reset, ListReset
<1>3. QED
  BY <1>2 DEF Reset, ListReset, CheckerReset, ReadEn, Inv, StoreSeen, FlagEven,
      FlagState, PortHeld, NoStoreBetween, SecondRead, OddArrives, EvenArrives, NextFollows

(* and is preserved by every step. *)
LEMMA InvStep == TypeOK /\ Inv /\ [Next]_vars => Inv'
<1> SUFFICES ASSUME TypeOK, Inv, [Next]_vars PROVE Inv'
  OBVIOUS
<1>1. ASSUME NEW s \in Stimulus, Clock(s) PROVE Inv'
  <2>1. (UnusedZero /\ FetchedEntry)'
    BY <1>1, UnusedStep, FetchedStep DEF Inv
  <2>2. QED
    BY <1>1, <2>1, FlagStep, PipelineStep DEF Inv
<1>2. CASE Reset
  BY <1>2, InvReset
<1>3. CASE UNCHANGED vars
  BY <1>3 DEF vars, cacheVars, adderVars, listVars, checkerVars, Inv, StoreSeen, FlagEven,
      FlagState, PortHeld, ReadEn, NoStoreBetween, UnusedZero, FetchedEntry, Entry,
      Registered, SecondRead, OddArrives, EvenArrives, NextFollows, ReadOf
<1>4. QED
  BY <1>1, <1>2, <1>3, StepCases

(***************************************************************************)
(* The pipeline of plc_checker stays aligned with the list, the flag and   *)
(* the store port, in every reachable state.                               *)
(***************************************************************************)
THEOREM PipelineInvariant == Spec => []Inv
<1>1. Spec => []TypeOK
  BY TypeCorrect
<1>2. QED
  BY <1>1, InvInit, InvStep, PTL DEF Spec

-----------------------------------------------------------------------------
(* The action properties. *)

(* Where an error rises, two halves of a registered tuple differ. *)
LEMMA GenuineStep ==
    ASSUME TypeOK, Inv, NEW s \in Stimulus, Clock(s), ~plcError, plcError'
    PROVE  \E i \in Registered : Differs(list[i])
<1>1. chk \in {"DE", "LE"} /\ dataO # wb
  BY DEF Clock, CheckerReset, CheckerTick, Begin, FirstAddress, SecondAddress,
         SaveOriginal, Compare
<1>2. PICK t \in Tuples : Entry(t) /\ dataO = mem[t.orig] /\ wb = mem[t.dup]
  BY <1>1 DEF Inv, EvenArrives
<1>3. t # ZeroTuple
  BY <1>1, <1>2 DEF ZeroTuple
<1>4. QED
  BY <1>1, <1>2, <1>3 DEF Entry, Differs

(***************************************************************************)
(* plc_error never rises without two halves of one registered tuple that   *)
(* differ in the array at that clock edge.                                 *)
(***************************************************************************)
THEOREM ErrorsAreGenuine == Spec => ErrorIsGenuine
<1>1. TypeOK /\ Inv /\ [Next]_vars =>
        [~plcError /\ plcError' => \E i \in Registered : Differs(list[i])]_vars
  <2> SUFFICES ASSUME TypeOK, Inv, Next, ~plcError, plcError'
               PROVE  \E i \in Registered : Differs(list[i])
    OBVIOUS
  <2>1. ~Reset
    BY DEF Reset, CheckerReset
  <2>2. QED
    BY <2>1, StepCases, GenuineStep
<1>2. QED
  BY <1>1, TypeCorrect, PipelineInvariant, PTL DEF Spec, ErrorIsGenuine

(* plc_check_flag is never up for two cycles in a row. *)
THEOREM CheckFlagPulses == Spec => CheckFlagIsPulse
<1>1. TypeOK /\ Inv /\ [Next]_vars => [checkFlag => ~checkFlag']_vars
  <2> SUFFICES ASSUME TypeOK, Inv, Next, checkFlag PROVE ~checkFlag'
    OBVIOUS
  <2>1. CASE Reset
    BY <2>1 DEF Reset, ListReset
  <2>2. QED
    BY <2>1, StepCases, PulseStep DEF Inv
<1>2. QED
  BY <1>1, TypeCorrect, PipelineInvariant, PTL DEF Spec, CheckFlagIsPulse

(* Only a reset takes a tuple out of the list, and it takes all of them. *)
THEOREM TuplesStay == Spec => RegisteredForever
<1>1. TypeOK /\ [Next]_vars =>
        [\/ size <= size' /\ \A i \in Registered : list'[i] = list[i]
         \/ size' = 0 /\ \A i \in Indices : list'[i] = ZeroTuple]_vars
  <2> SUFFICES ASSUME TypeOK, Next
               PROVE  \/ size <= size' /\ \A i \in Registered : list'[i] = list[i]
                      \/ size' = 0 /\ \A i \in Indices : list'[i] = ZeroTuple
    OBVIOUS
  <2>1. CASE Reset
    BY <2>1 DEF Reset, ListReset
  <2>2. QED
    BY <2>1, StepCases, EntryStable
<1>2. QED
  BY <1>1, TypeCorrect, PTL DEF Spec, RegisteredForever
=============================================================================
