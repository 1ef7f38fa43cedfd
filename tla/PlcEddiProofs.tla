--------------------------- MODULE PlcEddiProofs ----------------------------
(***************************************************************************)
(* TLAPS proofs about PlcEddi: what plc_wrapper promises to EDDI programs, *)
(* for every cache geometry, list capacity and set of pairs that satisfies *)
(* EddiAssumption, in whatever ways they are, and for every stimulus the   *)
(* discipline admits.                                                      *)
(***************************************************************************)
EXTENDS PlcEddi, PlcProofs

-----------------------------------------------------------------------------
(* The invariant. *)

(* Every registered tuple, and the one being offered to the list, is a     *)
(* pair; the adder collects its halves from two stores in a row.           *)
PairInv ==
    /\ PairsAligned
    /\ adder = "WXO" => \A p \in Pairs : ~Due(p)
    /\ adder = "WXE" => \E p \in Pairs : Due(p) /\ addTuple.orig = p.orig
    /\ addFlag => /\ adder = "IDLE"
                  /\ addTuple \in Pairs
                  /\ m.op = "write" /\ m.slot = addTuple.dup

(* Odd is the parity of the pair that is half stored, and of no other with *)
(* an original in way 0; of the others only the originals are counted.     *)
ParityInv ==
    /\ storeCounter \subseteq Registered
    /\ \A i \in Registered : list[i].orig.way = 0 => (i \in storeCounter <=> Due(list[i]))
    /\ m.op = "write" => storeDone

(* The halves of p agree in the array, or will when the store in M is done. *)
Settled(p) ==
    mem[p.orig] = IF m.op = "write" /\ m.slot = p.dup THEN m.val ELSE mem[p.dup]

(* Without corruption no tuple differs, but for a store still in M,        *)
MemInv ==
    ~corrupt => /\ \A i \in Registered : Settled(list[i])
                /\ addFlag => Settled(addTuple)

(* and that store is not of a duplicate when the last pair is compared.    *)
LastCompareInv == chk = "LE" /\ m.op = "write" => m.slot \notin Dups

EddiInv == PairInv /\ ParityInv /\ MemInv /\ LastCompareInv /\ CheckAfterDuplicate

EddiIInv == TypeOK /\ Inv /\ EddiInv

-----------------------------------------------------------------------------
(* Facts about pairs and about a clock edge. *)

(* The slots of pairs: well typed, with one role each, and in one pair. *)
LEMMA PairFacts ==
    /\ \A p \in Pairs : /\ p \in Tuples /\ p.orig \in Slots /\ p.dup \in Slots
                        /\ p.orig \in Origs /\ p.dup \in Dups
    /\ \A p, q \in Pairs : /\ p.orig # q.dup
                           /\ p.orig = q.orig => p = q
                           /\ p.dup = q.dup => p = q
    /\ ZeroSlot \notin Origs /\ ZeroSlot \notin Dups
<1>1. \A p \in Pairs : p \in Tuples
  BY EddiAssumption
<1>2. \A p \in Pairs : p.orig \in Slots /\ p.dup \in Slots
  BY <1>1, SlotFacts
<1>3. \A p \in Pairs : p.orig \in Origs /\ p.dup \in Dups
  BY DEF Origs, Dups
<1>4. \A p, q \in Pairs : p.orig # q.dup
  BY <1>3, EddiAssumption
<1>5. QED
  BY <1>1, <1>2, <1>3, <1>4, EddiAssumption

(* The store in M after a clock edge is the one the core presented. *)
LEMMA StoreStage ==
    ASSUME TypeOK, NEW s \in Stimulus, Clock(s)
    PROVE  /\ m'.op = "write" <=> s.op = "write"
           /\ s.op = "write" => m'.slot = s.bus /\ m'.val = s.val
<1>1. m' = PortAccess(s) /\ (m'.op = "write" <=> s.op = "write")
  BY MStage
<1>2. s.op = "write" => PortAccess(s) = WriteOf(s.bus, s.val)
  BY DEF PortAccess, CoreAccess
<1>3. QED
  BY <1>1, <1>2 DEF WriteOf

(* The discipline, seen from the store: a due duplicate is stored, nothing *)
(* else is while one is due, and no other duplicate ever.                  *)
LEMMA StoreCases ==
    ASSUME EddiInv, NEW s \in Stimulus, Discipline(s)
    PROVE  /\ \A p \in Pairs : Due(p) => s.op = "write" /\ s.bus = p.dup /\ ~addFlag
           /\ s.op = "write" =>
                /\ s.bus # ZeroSlot
                /\ \A p \in Pairs : s.bus = p.dup => Due(p)
                /\ \A p \in Pairs : s.bus = p.orig =>
                     /\ \A q \in Pairs : ~Due(q)
                     /\ ~(s.add /\ adder = "IDLE") /\ ~(addFlag /\ addTuple.orig = p.orig)
           /\ s.op = "write" /\ s.bus \notin Origs /\ s.bus \notin Dups => adder = "IDLE"
<1>1. \A p \in Pairs : Due(p) => ~addFlag
  BY PairFacts DEF EddiInv, PairInv, Due
<1>2. CASE \E p \in Pairs : Due(p) /\ s.op = "write" /\ s.bus = p.dup
  <2>1. PICK p \in Pairs : Due(p) /\ s.op = "write" /\ s.bus = p.dup
    BY <1>2
  <2>2. \A q \in Pairs : Due(q) => q = p
    BY <2>1, PairFacts DEF Due
  <2>3. s.bus \in Dups /\ s.bus # ZeroSlot /\ ~addFlag
    BY <2>1, <1>1, PairFacts
  <2>4. \A q \in Pairs : s.bus # q.orig /\ (s.bus = q.dup => q = p)
    BY <2>1, PairFacts
  <2>5. QED
    BY <2>1, <2>2, <2>3, <2>4
<1>3. CASE ~\E p \in Pairs : Due(p)
  <2>1. \/ s.op # "write"
        \/ s.bus \in Origs /\ ~(s.add /\ adder = "IDLE") /\ ~(addFlag /\ s.bus = addTuple.orig)
        \/ s.bus \notin Origs \union Dups \union {ZeroSlot} /\ adder = "IDLE"
    BY <1>3 DEF Discipline
  <2>2. s.op = "write" => s.bus \notin Dups /\ s.bus # ZeroSlot
    BY <2>1, EddiAssumption
  <2>3. \A p \in Pairs : s.op = "write" => s.bus # p.dup
    BY <2>2 DEF Dups
  <2>4. \A p \in Pairs : p.orig \in Origs
    BY PairFacts
  <2>5. QED
    BY <1>3, <2>1, <2>2, <2>3, <2>4
<1>4. QED
  BY <1>2, <1>3 DEF Discipline

(* The search finds the original of a pair in all its entries, the         *)
(* duplicate only if the original is in way 0, and nothing else.           *)
LEMMA SearchFacts ==
    ASSUME TypeOK, UnusedZero, PairsAligned, NEW x \in Slots, x # ZeroSlot
    PROVE  SearchResult(x) =
             {i \in Registered : x = list[i].orig \/ (x = list[i].dup /\ list[i].orig.way = 0)}
<1>1. Registered \subseteq Indices /\ \A i \in Indices : i \in Registered \/ i >= size
  BY BaseAssumption DEF TypeOK, ListTypeOK, Registered, Indices
<1>2. \A i \in Indices \ Registered : list[i] = ZeroTuple
  BY <1>1 DEF UnusedZero
<1>3. \A y \in Slots : y.addr = x.addr /\ y.way = x.way <=> y = x
  BY DEF Slots
<1>4. ~Matches(ZeroTuple, x)
  BY <1>3, SlotFacts DEF Matches, ZeroTuple, ZeroSlot
<1>5. \A p \in Pairs : Matches(p, x) <=> x = p.orig \/ (x = p.dup /\ p.orig.way = 0)
  <2> SUFFICES ASSUME NEW p \in Pairs
               PROVE  Matches(p, x) <=> x = p.orig \/ (x = p.dup /\ p.orig.way = 0)
    OBVIOUS
  <2>1. p.orig \in Slots /\ p.dup \in Slots
    BY PairFacts
  <2>2. QED
    BY <2>1, <1>3 DEF Matches
<1>6. QED
  BY <1>1, <1>2, <1>4, <1>5 DEF SearchResult, PairsAligned

-----------------------------------------------------------------------------
(* A clock edge under the discipline preserves the invariant. *)

(* Registered tuples stay where they are, and the list grows by addTuple only. *)
LEMMA ListGrowth ==
    ASSUME TypeOK, NEW s \in Stimulus, Clock(s)
    PROVE  /\ \A i \in Registered' : \/ i \in Registered /\ list'[i] = list[i]
                                     \/ addFlag /\ list'[i] = addTuple
           /\ \A i \in Registered : i \in Registered' /\ list'[i] = list[i]
           /\ ~addFlag => Registered' = Registered
<1>1. list \in [Indices -> Tuples] /\ size \in Indices /\ ListCap \in Nat /\ ListCap >= 2
  BY BaseAssumption DEF TypeOK, ListTypeOK
<1>2. Add(addFlag, addTuple)
  BY DEF Clock, ListTick
<1>3. CASE addFlag /\ ~ListFull
  <2>1. list' = [list EXCEPT ![size] = addTuple] /\ size' = (size + 1) % ListCap
    BY <1>2, <1>3 DEF Add
  <2>2. size \in 0 .. ListCap - 2
    BY <1>1, <1>3 DEF ListFull, Indices
  <2>3. size' = size + 1
    BY <2>1, <2>2, <1>1, Z3
  <2>4. list'[size] = addTuple /\ \A i \in Registered : list'[i] = list[i]
    BY <2>1, <2>2, <1>1 DEF Registered, Indices
  <2>5. \A i \in Registered' : i \in Registered \/ i = size
    BY <2>2, <2>3 DEF Registered
  <2>6. \A i \in Registered : i \in Registered'
    BY <2>2, <2>3 DEF Registered
  <2>7. QED
    BY <2>4, <2>5, <2>6, <1>3
<1>4. CASE ~(addFlag /\ ~ListFull)
  BY <1>2, <1>4 DEF Add, Registered
<1>5. QED
  BY <1>3, <1>4

(* The adder joins the halves of one pair, and nothing else is offered. *)
LEMMA PairStep ==
    ASSUME TypeOK, EddiInv, NEW s \in Stimulus, Clock(s), Discipline(s)
    PROVE  PairInv'
<1>1. PairsAligned'
  BY ListGrowth DEF EddiInv, PairInv, PairsAligned
<1>2. m'.op = "write" <=> s.op = "write"
  BY StoreStage
<1>3. s.op = "write" => m'.slot = s.bus
  BY StoreStage
<1>4. AdderTick(s.add, s.op = "write", s.bus)
  BY DEF Clock
<1>5. addTuple \in Tuples /\ s.bus \in Slots
  BY DEF TypeOK, AdderTypeOK, Stimulus
<1>6. CASE AwaitIndicator(s.add)
  <2>1. adder' # "WXE" /\ ~addFlag' /\ (adder' = "WXO" => s.add /\ adder = "IDLE")
    BY <1>6 DEF AwaitIndicator
  <2>2. adder' = "WXO" => \A p \in Pairs : ~Due(p)'
    BY <1>2, <1>3, <2>1, StoreCases DEF Due
  <2>3. QED
    BY <1>1, <2>1, <2>2 DEF PairInv
<1>7. CASE s.op = "write" /\ TakeOriginal(s.bus)
  <2>1. adder = "WXO" /\ adder' = "WXE" /\ ~addFlag'
        /\ addTuple' = [addTuple EXCEPT !.orig = s.bus]
    BY <1>7 DEF TakeOriginal
  <2>2. \A p \in Pairs : ~Due(p)
    BY <2>1 DEF EddiInv, PairInv
  <2>3. s.bus \in Origs
    BY <1>7, <2>1, <2>2 DEF Discipline
  <2>4. PICK p \in Pairs : s.bus = p.orig
    BY <2>3 DEF Origs
  <2>5. addTuple'.orig = p.orig
    BY <2>1, <2>4, <1>5 DEF Tuples
  <2>6. Due(p)'
    BY <1>2, <1>3, <1>7, <2>4 DEF Due
  <2>7. QED
    BY <1>1, <2>1, <2>5, <2>6 DEF PairInv
<1>8. CASE s.op = "write" /\ TakeDuplicate(s.bus)
  <2>1. adder = "WXE" /\ adder' = "IDLE" /\ addTuple' = [addTuple EXCEPT !.dup = s.bus]
    BY <1>8 DEF TakeDuplicate
  <2>2. PICK p \in Pairs : Due(p) /\ addTuple.orig = p.orig
    BY <2>1 DEF EddiInv, PairInv
  <2>3. s.bus = p.dup
    BY <2>2, StoreCases
  <2>4. addTuple' = p
    BY <2>1, <2>2, <2>3, <1>5, PairFacts DEF Tuples
  <2>5. QED
    BY <1>1, <1>2, <1>3, <1>8, <2>1, <2>3, <2>4 DEF PairInv
<1>9. CASE adder # "IDLE" /\ s.op # "write" /\ UNCHANGED adderVars
  <2>1. adder' = adder /\ ~addFlag' /\ adder # "WXE"
    BY <1>9, StoreCases DEF adderVars, EddiInv, PairInv
  <2>2. QED
    BY <1>1, <1>2, <1>9, <2>1 DEF PairInv, Due
<1>10. QED
  BY <1>4, <1>6, <1>7, <1>8, <1>9 DEF AdderTick

(* The parities follow the stores, and the check is asked for in time. *)
LEMMA ParityStep ==
    ASSUME TypeOK, Inv, EddiInv, NEW s \in Stimulus, Clock(s), Discipline(s)
    PROVE  ParityInv' /\ CheckAfterDuplicate'
<1>1. m'.op = "write" <=> s.op = "write"
  BY StoreStage
<1>2. s.op = "write" => m'.slot = s.bus
  BY StoreStage
<1>3. storeDone' = (s.op = "write")
  BY DEF Clock, ListTick, Store
<1>4. m'.op = "write" => storeDone'
  BY <1>1, <1>3
<1>5. /\ storeCounter \subseteq Registered /\ PairsAligned
      /\ \A i \in Registered : list[i].orig.way = 0 => (i \in storeCounter <=> Due(list[i]))
  BY DEF EddiInv, ParityInv, PairInv
<1>6. /\ \A i \in Registered : i \in Registered' /\ list'[i] = list[i]
      /\ \A i \in Registered' : i \in Registered \/ (addFlag /\ list'[i] = addTuple)
      /\ ~addFlag => Registered' = Registered
  BY ListGrowth
<1>7. CASE s.op = "write"
  <2>1. s.bus \in Slots /\ s.bus # ZeroSlot
    BY <1>7, StoreCases DEF Stimulus
  <2>2. SearchResult(s.bus) = {i \in Registered :
          s.bus = list[i].orig \/ (s.bus = list[i].dup /\ list[i].orig.way = 0)}
    BY <2>1, <1>5, SearchFacts DEF Inv
  <2>3. storeCounter' = Toggle(storeCounter, SearchResult(s.bus))
    BY <1>7 DEF Clock, ListTick, Store
  <2>4. storeCounter' \subseteq Registered'
    BY <1>5, <1>6, <2>2, <2>3 DEF Toggle
  <2>5. ASSUME NEW i \in Registered, list[i].orig.way = 0
        PROVE  i \in storeCounter' <=> s.bus = list[i].orig
    <3>1. list[i] \in Pairs /\ (i \in storeCounter <=> Due(list[i]))
      BY <1>5, <2>5 DEF PairsAligned
    <3>2. /\ Due(list[i]) <=> s.bus = list[i].dup
          /\ s.bus = list[i].orig => ~Due(list[i])
      BY <3>1, <1>7, StoreCases
    <3>3. i \in SearchResult(s.bus) <=> s.bus = list[i].orig \/ s.bus = list[i].dup
      BY <2>2, <2>5
    <3>4. QED
      BY <2>3, <3>1, <3>2, <3>3 DEF Toggle
  <2>6. ASSUME NEW i \in Registered', list'[i].orig.way = 0
        PROVE  i \in storeCounter' <=> Due(list[i])'
    <3>1. Due(list[i])' <=> s.bus = list'[i].orig
      BY <1>1, <1>2, <1>7 DEF Due
    <3>2. CASE i \in Registered
      BY <3>1, <3>2, <1>6, <2>5, <2>6
    <3>3. CASE i \notin Registered
      <4>1. addFlag /\ list'[i] = addTuple /\ addTuple \in Pairs
        BY <3>3, <1>6 DEF EddiInv, PairInv
      <4>2. s.bus # addTuple.orig
        BY <4>1, <1>7, StoreCases
      <4>3. i \notin storeCounter'
        BY <3>3, <1>5, <2>2, <2>3 DEF Toggle
      <4>4. QED
        BY <3>1, <4>1, <4>2, <4>3
    <3>4. QED
      BY <3>2, <3>3
  <2>7. ParityInv'
    BY <1>4, <2>4, <2>6 DEF ParityInv
  <2>8. CheckAfterDuplicate'
    <3> SUFFICES ASSUME NEW j \in Registered', s.bus = list'[j].dup
                 PROVE  /\ (\A i \in Registered' : list'[i].orig.way = 0) => checkFlag'
                        /\ list'[j].orig.way # 0 => ~checkFlag'
      BY <1>1, <1>2, <1>7 DEF CheckAfterDuplicate
    <3>1. list'[j] \in Pairs
      BY <1>5, <1>6 DEF PairsAligned, EddiInv, PairInv
    <3>2. Due(list'[j]) /\ ~addFlag
      BY <3>1, <1>7, StoreCases
    <3>3. Registered' = Registered /\ \A i \in Registered : list'[i] = list[i]
      BY <1>6, <3>2
    <3>4. checkFlag' <=> storeDone /\ SearchResult(s.bus) # {} /\ storeCounter' = {}
      BY <2>3 DEF Clock, ListTick, RaiseCheck
    <3>5. storeDone
      BY <3>2 DEF EddiInv, ParityInv, Due
    <3>6. ASSUME \A i \in Registered : list[i].orig.way = 0
          PROVE  checkFlag'
      <4>1. j \in SearchResult(s.bus)
        BY <2>2, <3>3, <3>6
      <4>2. \A i \in Registered : s.bus # list[i].orig
        BY <3>1, <1>5, PairFacts DEF PairsAligned
      <4>3. storeCounter' = {}
        BY <2>4, <2>5, <3>3, <3>6, <4>2
      <4>4. QED
        BY <3>4, <3>5, <4>1, <4>3
    <3>7. ASSUME list[j].orig.way # 0
          PROVE  SearchResult(s.bus) = {}
      <4>1. \A i \in Registered : /\ s.bus # list[i].orig
                                  /\ s.bus = list[i].dup => list[i] = list[j]
        BY <3>1, <3>3, <1>5, PairFacts DEF PairsAligned
      <4>2. QED
        BY <2>2, <3>7, <4>1
    <3>8. QED
      BY <3>3, <3>4, <3>6, <3>7
  <2>9. QED
    BY <2>7, <2>8
<1>8. CASE s.op # "write"
  <2>1. \A p \in Pairs : ~Due(p)
    BY <1>8, StoreCases
  <2>2. storeCounter' = storeCounter
    BY <1>8 DEF Clock, ListTick, Store
  <2>3. m'.op # "write"
    BY <1>1, <1>8
  <2>4. storeCounter' \subseteq Registered'
    BY <1>5, <1>6, <2>2
  <2>5. ASSUME NEW i \in Registered', list'[i].orig.way = 0
        PROVE  i \notin storeCounter'
    BY <1>5, <1>6, <2>1, <2>2, <2>5 DEF PairsAligned
  <2>6. ParityInv'
    BY <2>3, <2>4, <2>5 DEF ParityInv, Due
  <2>7. QED
    BY <2>3, <2>6 DEF CheckAfterDuplicate
<1>9. QED
  BY <1>7, <1>8

(* A pair whose halves agree stays so, and the store of its duplicate makes *)
(* the halves of any pair agree.                                            *)
LEMMA SettledStep ==
    ASSUME TypeOK, EddiInv, NEW s \in Stimulus, Program(s), ~corrupt', NEW p \in Pairs,
           Settled(p) \/ (s.op = "write" /\ s.bus = p.dup)
    PROVE  Settled(p)'
<1>1. Clock(s) /\ Discipline(s)
  BY DEF Program
<1>2. \A q \in Pairs : Due(q) => s.val = m.val
  BY DEF Program
<1>3. m'.op = "write" <=> s.op = "write"
  BY <1>1, StoreStage
<1>4. s.op = "write" => m'.slot = s.bus /\ m'.val = s.val
  BY <1>1, StoreStage
<1>5. mem' = IF m.op = "write" THEN [mem EXCEPT ![m.slot] = m.val] ELSE mem
  BY <1>1 DEF Clock, CacheTick
<1>6. mem \in [Slots -> Values] /\ p.orig \in Slots /\ p.dup \in Slots /\ p.orig # p.dup
  BY PairFacts DEF TypeOK, CacheTypeOK
<1>7. CASE s.op = "write" /\ s.bus = p.dup
  <2>1. Due(p)
    BY <1>1, <1>7, StoreCases
  <2>2. mem'[p.orig] = m.val
    BY <2>1, <1>5, <1>6 DEF Due
  <2>3. m'.op = "write" /\ m'.slot = p.dup /\ m'.val = m.val
    BY <2>1, <1>2, <1>3, <1>4, <1>7
  <2>4. QED
    BY <2>2, <2>3 DEF Settled
<1>8. CASE ~(s.op = "write" /\ s.bus = p.dup)
  <2>1. Settled(p) /\ ~(m'.op = "write" /\ m'.slot = p.dup)
    BY <1>3, <1>4, <1>8
  <2>2. ~Due(p)
    BY <1>1, <1>8, StoreCases
  <2>3. mem'[p.orig] = mem[p.orig]
    BY <2>2, <1>5, <1>6 DEF Due
  <2>4. mem'[p.dup] = IF m.op = "write" /\ m.slot = p.dup THEN m.val ELSE mem[p.dup]
    BY <1>5, <1>6
  <2>5. mem'[p.orig] = mem'[p.dup]
    BY <2>1, <2>3, <2>4 DEF Settled
  <2>6. QED
    BY <2>1, <2>5 DEF Settled
<1>9. QED
  BY <1>7, <1>8

(* Registered pairs, and the pair being registered, stay settled. *)
LEMMA MemStep ==
    ASSUME TypeOK, EddiInv, NEW s \in Stimulus, Program(s)
    PROVE  MemInv'
<1> SUFFICES ASSUME ~corrupt'
             PROVE  /\ \A i \in Registered' : Settled(list[i])'
                    /\ addFlag' => Settled(addTuple)'
  BY DEF MemInv
<1>1. Clock(s) /\ Discipline(s) /\ ~corrupt
  BY DEF Program
<1>2. \A i \in Registered : list[i] \in Pairs /\ Settled(list[i])
  BY <1>1 DEF EddiInv, PairInv, MemInv, PairsAligned
<1>3. addFlag => addTuple \in Pairs /\ Settled(addTuple)
  BY <1>1 DEF EddiInv, PairInv, MemInv
<1>4. \A p \in Pairs : Settled(p) => Settled(p)'
  BY SettledStep
<1>5. \A i \in Registered' : Settled(list[i])'
  <2> SUFFICES ASSUME NEW i \in Registered' PROVE Settled(list[i])'
    OBVIOUS
  <2>1. CASE i \in Registered /\ list'[i] = list[i]
    <3> DEFINE p == list[i]
    <3>1. p \in Pairs /\ Settled(p) /\ list'[i] = p
      BY <2>1, <1>2
    <3>2. PICK q \in Pairs : q = p
      BY <3>1
    <3>3. Settled(q)' /\ list'[i] = q
      BY <3>1, <3>2, <1>4
    <3>4. QED
      BY <3>3 DEF Settled
  <2>2. CASE addFlag /\ list'[i] = addTuple
    <3>1. PICK q \in Pairs : q = addTuple
      BY <2>2, <1>3
    <3>2. Settled(q)' /\ list'[i] = q
      BY <2>2, <3>1, <1>3, <1>4
    <3>3. QED
      BY <3>2 DEF Settled
  <2>3. QED
    BY <2>1, <2>2, <1>1, ListGrowth
<1>6. addFlag' => Settled(addTuple)'
  <2> SUFFICES ASSUME addFlag' PROVE Settled(addTuple)'
    OBVIOUS
  <2>1. addTuple' \in Pairs /\ m'.op = "write" /\ m'.slot = addTuple'.dup
    BY <1>1, PairStep DEF PairInv
  <2>2. s.op = "write" /\ s.bus = addTuple'.dup
    BY <2>1, <1>1, StoreStage
  <2>3. \A p \in Pairs : s.op = "write" /\ s.bus = p.dup => Settled(p)'
    BY SettledStep
  <2>4. PICK q \in Pairs : q = addTuple'
    BY <2>1
  <2>5. Settled(q)'
    BY <2>2, <2>3, <2>4
  <2>6. QED
    BY <2>4, <2>5 DEF Settled
<1>7. QED
  BY <1>5, <1>6

(* The cycle before the last comparison had a read in M: no duplicate is due. *)
LEMMA LastCompareStep ==
    ASSUME TypeOK, Inv, EddiInv, NEW s \in Stimulus, Clock(s), Discipline(s)
    PROVE  LastCompareInv'
<1> SUFFICES ASSUME chk' = "LE", m'.op = "write" PROVE m'.slot \notin Dups
  BY DEF LastCompareInv
<1>1. chk = "LO"
  BY DEF Clock, CheckerReset, CheckerTick, Begin, FirstAddress, SecondAddress,
         SaveOriginal, Compare
<1>2. m.op # "write"
  BY <1>1 DEF Inv, NoStoreBetween
<1>3. \A p \in Pairs : s.bus # p.dup
  BY <1>2, StoreStage, StoreCases DEF Due
<1>4. QED
  BY <1>3, StoreStage DEF Dups

-----------------------------------------------------------------------------
(* The theorems. *)

(* The invariant holds at first, *)
LEMMA EddiInvInit == EddiInit => EddiIInv
<1> SUFFICES ASSUME EddiInit PROVE EddiIInv
  OBVIOUS
<1>1. Init
  BY DEF EddiInit
<1>2. TypeOK /\ Inv
  BY <1>1, InitType, InvInit
<1>3. Registered = {} /\ m.op = "none" /\ addFlag = FALSE /\ adder = "IDLE"
      /\ storeCounter = {} /\ chk = "IDLE"
  BY <1>1 DEF Init, ListInit, Registered, CacheInit, NoAccess, AdderInit, CheckerInit
<1>4. PairInv /\ ParityInv /\ MemInv /\ LastCompareInv /\ CheckAfterDuplicate
  BY <1>3 DEF PairInv, PairsAligned, ParityInv, MemInv, LastCompareInv, CheckAfterDuplicate
<1>5. QED
  BY <1>2, <1>4 DEF EddiIInv, EddiInv

(* The steps of a program are steps of the unit. *)
LEMMA EddiSteps ==
    ASSUME [EddiNext]_eddiVars
    PROVE  /\ [Next]_vars
           /\ \/ \E s \in Stimulus : Program(s)
              \/ Reset /\ UNCHANGED corrupt
              \/ UNCHANGED eddiVars
<1>1. CASE EddiNext
  <2>1. Next
    BY <1>1 DEF EddiNext, Program, Next, Run
  <2>2. QED
    BY <1>1, <2>1, BaseAssumption DEF EddiNext
<1>2. CASE UNCHANGED eddiVars
  BY <1>2 DEF eddiVars
<1>3. QED
  BY <1>1, <1>2

(* after a reset, which empties the list, *)
LEMMA EddiReset ==
    ASSUME Reset
    PROVE  EddiInv'
<1>1. Registered' = {} /\ adder' = "IDLE" /\ addFlag' = FALSE /\ storeCounter' = {}
      /\ chk' = "IDLE"
  BY DEF Reset, ListReset, AdderReset, CheckerReset, Registered
<1>2. m' = PortAccess(QuietCycle)
  BY DEF Reset, CacheTick
<1>3. m'.op # "write"
  BY <1>2 DEF PortAccess, CoreAccess, QuietCycle, ReadOf, NoAccess
<1>4. QED
  BY <1>1, <1>3 DEF EddiInv, PairInv, PairsAligned, ParityInv, MemInv, LastCompareInv,
      CheckAfterDuplicate

(* and is preserved by every step. *)
LEMMA EddiInvStep == EddiIInv /\ [EddiNext]_eddiVars => EddiIInv'
<1> SUFFICES ASSUME EddiIInv, [EddiNext]_eddiVars PROVE EddiIInv'
  OBVIOUS
<1> USE DEF EddiIInv
<1>1. TypeOK' /\ Inv'
  BY EddiSteps, TypeStep, InvStep
<1>2. ASSUME NEW s \in Stimulus, Program(s) PROVE EddiInv'
  <2>1. Clock(s) /\ Discipline(s)
    BY <1>2 DEF Program
  <2>2. PairInv'
    BY <2>1, PairStep
  <2>3. ParityInv' /\ CheckAfterDuplicate'
    BY <2>1, ParityStep
  <2>4. MemInv'
    BY <1>2, MemStep
  <2>5. LastCompareInv'
    BY <2>1, LastCompareStep
  <2>6. QED
    BY <2>2, <2>3, <2>4, <2>5 DEF EddiInv
<1>3. ASSUME Reset PROVE EddiInv'
  BY <1>3, EddiReset
<1>4. ASSUME UNCHANGED eddiVars PROVE EddiInv'
  <2>1. UNCHANGED <<mem, m, wb, adder, addTuple, addFlag, list, size, storeCounter,
                    storeDone, checkFlag, chk, corrupt>>
    BY <1>4 DEF eddiVars, vars, cacheVars, adderVars, listVars, checkerVars
  <2>2. QED
    BY <2>1 DEF EddiInv, PairInv, PairsAligned, ParityInv, Due, MemInv, Settled,
        LastCompareInv, CheckAfterDuplicate, Registered
<1>5. QED
  BY <1>1, <1>2, <1>3, <1>4, EddiSteps

(***************************************************************************)
(* The invariant of an EDDI program running beside the unit.               *)
(***************************************************************************)
THEOREM EddiInvariant == EddiSpec => []EddiIInv
BY EddiInvInit, EddiInvStep, PTL DEF EddiSpec

(***************************************************************************)
(* The unit registers pairs of the program and nothing else: the adder     *)
(* never joins the halves of two of them (plc_adder), and no registration  *)
(* is cut short by the stores around it.                                   *)
(***************************************************************************)
THEOREM OnlyPairsRegistered == EddiSpec => []PairsAligned
<1>1. EddiIInv => PairsAligned
  BY DEF EddiIInv, EddiInv, PairInv
<1>2. QED
  BY <1>1, EddiInvariant, PTL

(***************************************************************************)
(* Every store of a registered duplicate raises plc_check_flag if all      *)
(* registered originals are in way 0, however many pairs were registered,  *)
(* dropped by the full list or stored before, and none does whose original *)
(* is in another way.                                                      *)
(***************************************************************************)
THEOREM ChecksRequested == EddiSpec => []CheckAfterDuplicate
<1>1. EddiIInv => CheckAfterDuplicate
  BY DEF EddiIInv, EddiInv
<1>2. QED
  BY <1>1, EddiInvariant, PTL

(***************************************************************************)
(* For EDDI programs the search of the unused entries of plc_list does no  *)
(* harm: only registered tuples ever have an odd store parity.             *)
(***************************************************************************)
THEOREM ParitiesOfRegistered == EddiSpec => []OnlyRegisteredCounted
<1>1. EddiIInv => OnlyRegisteredCounted
  BY DEF EddiIInv, EddiInv, ParityInv, OnlyRegisteredCounted
<1>2. QED
  BY <1>1, EddiInvariant, PTL

(***************************************************************************)
(* No false alarm: whatever the program, the list and the checks it cuts   *)
(* short, plc_error rises only after the halves of a pair were stored with *)
(* different values.                                                       *)
(***************************************************************************)
THEOREM NoFalseAlarms == EddiSpec => NoFalseAlarm
<1>1. EddiIInv /\ [EddiNext]_eddiVars => [~plcError /\ plcError' => corrupt]_eddiVars
  <2> SUFFICES ASSUME EddiIInv, EddiNext, ~plcError, plcError', ~corrupt
               PROVE  FALSE
    OBVIOUS
  <2>1. ~Reset
    BY DEF Reset, CheckerReset
  <2>2. PICK s \in Stimulus : Program(s)
    BY <2>1, BaseAssumption DEF EddiNext
  <2>3. Clock(s) /\ TypeOK /\ Inv /\ EddiInv
    BY <2>2 DEF Program, EddiIInv
  <2>4. PICK i \in Registered : Differs(list[i])
    BY <2>3, GenuineStep
  <2>5. chk \in {"DE", "LE"}
    BY <2>3 DEF Clock, CheckerReset, CheckerTick, Begin, FirstAddress, SecondAddress,
                SaveOriginal, Compare
  <2>6. list[i] \in Pairs /\ Settled(list[i])
    BY <2>3 DEF EddiInv, PairInv, PairsAligned, MemInv
  <2>7. ~(m.op = "write" /\ m.slot = list[i].dup)
    BY <2>3, <2>5, <2>6, PairFacts DEF EddiInv, LastCompareInv, Inv, NoStoreBetween
  <2>8. QED
    BY <2>4, <2>6, <2>7 DEF Settled, Differs
<1>2. QED
  BY <1>1, EddiInvariant, PTL DEF EddiSpec, NoFalseAlarm
=============================================================================
