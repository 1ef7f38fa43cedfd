---------------------------- MODULE Pcx2mbProofs ----------------------------
(***************************************************************************)
(* TLAPS proofs about the request bridge, for any number of destinations   *)
(* and payloads, and a FIFO that is full in any cycle it likes.            *)
(***************************************************************************)
EXTENDS Pcx2mb, FiniteSetTheorems, SequenceTheorems, TLAPS

-----------------------------------------------------------------------------
(* The invariant. *)

(* A packet arrives at the buffer: a request in PA, or the second half of  *)
(* the atomic in PX.                                                       *)
Arrives == AcceptedPa.dest # NoDest
Follows == px.dest # NoDest /\ px.atom

(* The monitors of the core: an atomic is sent when both places are free,  *)
(* and nothing is sent while its second half is.                           *)
CoreInv ==
    /\ full1 \subseteq full0
    /\ pq.atom => pq.dest \notin full0
    /\ pa.atom => pa.dest \in full0 /\ pa.dest \notin full1 /\ pq.dest = NoDest
    /\ Follows => pa.dest = NoDest

(* What link counts: packets in the buffer, the one being sent, and those  *)
(* sent that are still to be granted.                                      *)
Places(d) == {i \in EntryNumbers : entries[i].active /\ entries[i].pkt.dest = d}
SendingTo(d) == Sending /\ entry1.pkt.dest = d
FirstSent(d) == atomicSecond /\ entry1.pkt.dest = d
SecondSent(d) == atomicSecondD1 /\ ~atomicSecond /\ destD1 = d
CreditInv ==
    \A d \in Dests :
        link[d] = Cardinality(Places(d)) + Count(SendingTo(d)) + Count(FirstSent(d))
                    + Count(SecondSent(d)) + Count(grant = d)

(* The packets behind entry 1 stand in a line of n, and the first half of  *)
(* an atomic comes right before the second.                                *)
LineInv(n) ==
    /\ \A i \in EntryNumbers : entries[i].active <=> i <= n + 1
    /\ \A i \in 2 .. n + 1 : entries[i].pkt.dest \in Dests
    /\ \A i \in 2 .. n + 1 : entries[i].pkt.atom =>
          \/ /\ i < n + 1
             /\ entries[i + 1].pkt.dest = entries[i].pkt.dest /\ ~entries[i + 1].pkt.atom
          \/ i = n + 1 /\ Follows /\ px.dest = entries[i].pkt.dest
    /\ n = 0 => ~entries[2].pkt.atom

(* What the state machine knows of the line, *)
StateInv(n) ==
    /\ state = "IDLE" => n = 0 /\ ~Arrives /\ ~Follows
    /\ state = "LOAD" => n = 0 /\ Arrives /\ ~Follows
    /\ state = "SHIFT" => (Follows => n > 0 \/ count = 3)
    /\ state = "LDWAIT" => (n > 0 \/ Arrives) /\ (Follows => n > 0)
    /\ state = "WAIT" => n = 0 /\ ~Arrives /\ ~Follows
    /\ Sending => activeD1 /\ entry1.pkt.dest \in Dests
    /\ state \in {"LDWAIT", "WAIT"} => destD1 = entry1.pkt.dest

(* of the halves of an atomic, *)
HalvesInv(n) ==
    /\ atomicFirst => state \in {"LOAD", "SHIFT", "LDWAIT"}
    /\ atomicFirst /\ state = "LOAD" => pa.atom
    /\ atomicFirst /\ Sending =>
          \/ n > 0 /\ entries[2].pkt.dest = entry1.pkt.dest /\ ~entries[2].pkt.atom
          \/ n = 0 /\ state = "SHIFT" /\ count = 3 /\ Follows /\ px.dest = entry1.pkt.dest
    /\ atomicSecond => Sending /\ ~atomicFirst
    /\ atomicSecondD1 /\ ~atomicSecond =>
          state \in {"IDLE", "LOAD"} \/ (state = "SHIFT" /\ count = 3)

(* and of the word it is at. *)
WordInv ==
    /\ dataWrite <=> Sending
    /\ state = "SHIFT" => count \in 1 .. 3 /\ entry1.pos = 3 - count /\ (control <=> count = 3)
    /\ state \in {"LDWAIT", "WAIT"} => entry1.pos = 3 /\ ~control

IInv ==
    /\ TypeOK /\ CoreInv /\ CountersAgree /\ CreditInv /\ WordInv
    /\ \E n \in 0 .. LastEntry - 1 : LineInv(n) /\ StateInv(n) /\ HalvesInv(n)

-----------------------------------------------------------------------------
(* Types. *)

(* Requests and the packets made of them. *)
Signals == [dest : Dests \union {NoDest}, atom : BOOLEAN, data : Data]

(* What is requested is a packet or two for the request's destination. *)
LEMMA RequestTypes ==
    /\ NoRequest \in Lines /\ NoRequest.dest = NoDest /\ ~NoRequest.atom
    /\ Lines \subseteq Signals
    /\ \A r \in Lines : r.dest = NoDest => ~r.atom
    /\ \A r \in Signals : First(r) \in Packets /\ Second(r) \in Packets
    /\ \A r \in Lines : [r EXCEPT !.dest = NoDest] \in Signals
<1>1. (CHOOSE d \in Data : TRUE) \in Data
  BY PcxAssumption
<1>2. NoRequest \in Signals /\ NoRequest.dest = NoDest /\ ~NoRequest.atom
  BY <1>1 DEF NoRequest, Signals
<1>3. Lines \subseteq Signals
  BY <1>2 DEF Lines, Requests, Signals
<1>4. \A r \in Lines : r.dest = NoDest => ~r.atom
  BY <1>2, PcxAssumption DEF Lines, Requests
<1>5. \A r \in Signals : First(r) \in Packets /\ Second(r) \in Packets
  BY DEF First, Second, Packets, Signals
<1>6. \A r \in Lines : [r EXCEPT !.dest = NoDest] \in Signals
  BY <1>3 DEF Signals
<1>7. QED
  BY <1>2, <1>3, <1>4, <1>5, <1>6 DEF Lines

(* The request in PA that the bridge accepts. *)
LEMMA AcceptedIs ==
    ASSUME TypeOK
    PROVE  /\ AcceptedPa \in Signals /\ pa \in Signals /\ px \in Signals
           /\ \A d \in Dests : AcceptedPa.dest = d <=> pa.dest = d /\ ~Masked(d)
           /\ Arrives => pa.dest \in Dests /\ ~Masked(pa.dest) /\ AcceptedPa = pa
           /\ Arrives => AcceptedPa.dest \in Dests
<1>1. pa \in Lines /\ px \in Signals /\ pa \in Signals /\ NoDest \notin Dests
  BY RequestTypes, PcxAssumption DEF TypeOK, Signals
<1>2. [pa EXCEPT !.dest = NoDest] \in Signals /\ [pa EXCEPT !.dest = NoDest].dest = NoDest
  BY <1>1, RequestTypes DEF Signals
<1>3. AcceptedPa \in Signals
  BY <1>1, <1>2 DEF AcceptedPa
<1>4. CASE pa.dest # NoDest /\ Masked(pa.dest)
  BY <1>1, <1>2, <1>3, <1>4 DEF AcceptedPa, Arrives
<1>5. CASE ~(pa.dest # NoDest /\ Masked(pa.dest))
  <2>1. AcceptedPa = pa
    BY <1>5 DEF AcceptedPa
  <2>2. pa.dest \in Dests \union {NoDest}
    BY <1>1 DEF Signals
  <2>3. QED
    BY <1>1, <1>5, <2>1, <2>2 DEF Arrives
<1>6. QED
  BY <1>4, <1>5

(* The registers that a clock edge sets, in one view each. *)
LEMMA ClockIs ==
    ASSUME Clock
    PROVE  /\ CoreTick(pa, grant) /\ pa' = pq /\ px' = AcceptedPa
           /\ link' = [d \in Dests |-> LinkNext(d)]
           /\ EntriesTick(LoadData(full), ShiftData(full), Entry1Active(full) /\ activeD1,
                          AcceptedPa, px)
           /\ SmTick(AnyReqPq, Arrives, pq.atom, full, entry1.pkt.dest, entries[2])
           /\ full' \in BOOLEAN
BY DEF Clock, Arrives

(* The next words of the state machine. *)
Pending == entries[2].active \/ Arrives \/ AnyReqPq

(* What a clock does in each state of the state machine. *)
LEMMA StatesAre ==
    ASSUME TypeOK, Clock
    PROVE  /\ state = "IDLE" => Idle(AnyReqPq, pq.atom)
           /\ state = "LOAD" => Load
           /\ state = "SHIFT" => Shift(full, Pending)
           /\ state = "LDWAIT" => LoadWait(full, entries[2].pkt.atom)
           /\ state = "WAIT" => Wait(full, Pending)
           /\ grant' = IF NextGrant(full, Pending) THEN destD1 ELSE NoDest
           /\ (atomicSecondD1' <=> atomicSecond) /\ destD1' = entry1.pkt.dest
           /\ (activeD1' <=> Entry1Active(full))
           /\ state \in {"IDLE", "LOAD", "SHIFT", "LDWAIT", "WAIT"}
<1>1. SmTick(AnyReqPq, Arrives, pq.atom, full, entry1.pkt.dest, entries[2])
  BY ClockIs
<1>2. \/ Idle(AnyReqPq, pq.atom) \/ Load \/ Shift(full, Pending)
      \/ LoadWait(full, entries[2].pkt.atom) \/ Wait(full, Pending)
  BY <1>1 DEF SmTick, Pending
<1>3. /\ grant' = IF NextGrant(full, Pending) THEN destD1 ELSE NoDest
      /\ (atomicSecondD1' <=> atomicSecond) /\ destD1' = entry1.pkt.dest
      /\ (activeD1' <=> Entry1Active(full))
  BY <1>1 DEF SmTick, Pending
<1>4. state \in {"IDLE", "LOAD", "SHIFT", "LDWAIT", "WAIT"}
  BY DEF TypeOK, SmTypeOK
<1>5. /\ state = "IDLE" => Idle(AnyReqPq, pq.atom)
      /\ state = "LOAD" => Load
      /\ state = "SHIFT" => Shift(full, Pending)
  BY <1>2 DEF Idle, Load, Shift, LoadWait, Wait
<1>6. /\ state = "LDWAIT" => LoadWait(full, entries[2].pkt.atom)
      /\ state = "WAIT" => Wait(full, Pending)
  BY <1>2 DEF Idle, Load, Shift, LoadWait, Wait
<1>7. QED
  BY <1>3, <1>4, <1>5, <1>6

(* Entry 1 and the entries behind it hold packets. *)
LEMMA EntryTypes ==
    ASSUME TypeOK, WordInv, Clock
    PROVE  EntriesTypeOK'
<1>1. /\ entry1' = Entry1Next(LoadData(full), ShiftData(full), AcceptedPa)
      /\ entries' = [i \in EntryNumbers |->
            EntryNext(i, LoadData(full),
                      IF i = 2 THEN Entry1Active(full) /\ activeD1 ELSE entries[i - 1].active,
                      AcceptedPa, px)]
  BY ClockIs DEF EntriesTick
<1>2. /\ entry1 \in [pkt : Packets, pos : 0 .. 3]
      /\ entries \in [EntryNumbers -> [active : BOOLEAN, pkt : Packets]]
  BY DEF TypeOK, EntriesTypeOK
<1>3. First(AcceptedPa) \in Packets /\ Second(px) \in Packets /\ First(NoRequest) \in Packets
  BY AcceptedIs, RequestTypes
<1>4. 2 \in EntryNumbers
  BY PcxAssumption DEF EntryNumbers
<1>5. entry1' \in [pkt : Packets, pos : 0 .. 3]
  <2>1. CASE ShiftData(full)
    <3>1. entry1.pos \in 0 .. 2
      BY <2>1, PcxAssumption DEF ShiftData, WordInv
    <3>2. entry1' = [entry1 EXCEPT !.pos = @ + 1]
      BY <1>1, <2>1 DEF Entry1Next
    <3>3. QED
      BY <1>2, <3>1, <3>2
  <2>2. CASE ~ShiftData(full) /\ LoadData(full)
    <3>1. entry1' = [pkt |-> IF entries[2].active THEN entries[2].pkt ELSE First(AcceptedPa), pos |-> 0]
      BY <1>1, <2>2 DEF Entry1Next
    <3>2. entries[2].pkt \in Packets
      BY <1>2, <1>4
    <3>3. QED
      BY <1>3, <3>1, <3>2
  <2>3. CASE ~ShiftData(full) /\ ~LoadData(full)
    BY <1>1, <1>2, <2>3 DEF Entry1Next
  <2>4. QED
    BY <2>1, <2>2, <2>3
<1>6. ASSUME NEW i \in EntryNumbers, NEW load \in BOOLEAN, NEW nextActive \in BOOLEAN
      PROVE  EntryNext(i, load, nextActive, AcceptedPa, px) \in [active : BOOLEAN, pkt : Packets]
  <2>1. Previous(i) \in [active : BOOLEAN, pkt : Packets]
    BY <1>2, <1>3, PcxAssumption DEF Previous, Inactive, EntryNumbers
  <2>2. [active |-> TRUE, pkt |-> First(AcceptedPa)] \in [active : BOOLEAN, pkt : Packets]
    BY <1>3
  <2>3. [active |-> TRUE, pkt |-> Second(px)] \in [active : BOOLEAN, pkt : Packets]
    BY <1>3
  <2>4. [entries[i] EXCEPT !.active = @ /\ ~load] \in [active : BOOLEAN, pkt : Packets]
    BY <1>2
  <2>5. QED
    BY <2>1, <2>2, <2>3, <2>4 DEF EntryNext
<1>7. ASSUME NEW i \in EntryNumbers
      PROVE  EntryNext(i, LoadData(full),
                       IF i = 2 THEN Entry1Active(full) /\ activeD1 ELSE entries[i - 1].active,
                       AcceptedPa, px) \in [active : BOOLEAN, pkt : Packets]
  <2>1. LoadData(full) \in BOOLEAN
    BY DEF LoadData
  <2>2. CASE i = 2
    <3>1. (Entry1Active(full) /\ activeD1) \in BOOLEAN
      OBVIOUS
    <3>2. QED
      BY <1>6, <2>1, <2>2, <3>1
  <2>3. CASE i # 2
    <3>1. i - 1 \in EntryNumbers
      BY <2>3, PcxAssumption DEF EntryNumbers
    <3>2. entries[i - 1].active \in BOOLEAN
      BY <1>2, <3>1
    <3>3. QED
      BY <1>6, <2>1, <2>3, <3>2
  <2>4. QED
    BY <2>2, <2>3
<1>8. QED
  BY <1>1, <1>5, <1>7 DEF EntriesTypeOK

(* The state machine keeps its types. *)
LEMMA SmTypes ==
    ASSUME TypeOK, WordInv, Clock
    PROVE  SmTypeOK'
<1>1. /\ count \in 0 .. 7 /\ dataWrite \in BOOLEAN /\ control \in BOOLEAN
      /\ grant \in Dests \union {NoDest} /\ destD1 \in Dests \union {NoDest}
      /\ atomicFirst \in BOOLEAN /\ atomicSecond \in BOOLEAN
      /\ atomicSecondD1 \in BOOLEAN /\ activeD1 \in BOOLEAN
      /\ full \in BOOLEAN /\ entry1.pkt.dest \in Dests \union {NoDest}
  BY DEF TypeOK, SmTypeOK, EntriesTypeOK, Packets
<1>2. /\ entries[2].pkt.atom \in BOOLEAN /\ pq.atom \in BOOLEAN
      /\ Pending \in BOOLEAN /\ AnyReqPq \in BOOLEAN
  <2>1. entries[2] \in [active : BOOLEAN, pkt : Packets]
    BY PcxAssumption DEF TypeOK, EntriesTypeOK, EntryNumbers
  <2>2. pq \in Signals
    BY RequestTypes DEF TypeOK, CoreTypeOK
  <2>3. Pending \in BOOLEAN /\ AnyReqPq \in BOOLEAN
    BY <2>1 DEF Pending, AnyReqPq
  <2>4. QED
    BY <2>1, <2>2, <2>3 DEF Packets, Signals
<1>3. grant' \in Dests \union {NoDest} /\ destD1' \in Dests \union {NoDest}
  BY <1>1, StatesAre
<1>4. atomicSecondD1' \in BOOLEAN /\ activeD1' \in BOOLEAN
  <2>1. atomicSecondD1' = atomicSecond /\ activeD1' = Entry1Active(full)
    BY ClockIs DEF SmTick
  <2>2. Entry1Active(full) \in BOOLEAN
    BY DEF Entry1Active
  <2>3. QED
    BY <1>1, <2>1, <2>2
<1>5. CASE state = "IDLE"
  <2>1. Idle(AnyReqPq, pq.atom)
    BY <1>5, StatesAre
  <2>2. state' \in {"IDLE", "LOAD"} /\ count' = 0
    BY <2>1 DEF Idle
  <2>3. atomicFirst' \in BOOLEAN /\ atomicSecond' \in BOOLEAN /\ dataWrite' \in BOOLEAN /\ control' \in BOOLEAN
    BY <2>1 DEF Idle
  <2>4. QED
    BY <1>3, <1>4, <2>2, <2>3 DEF SmTypeOK
<1>6. CASE state = "LOAD"
  <2>1. Load
    BY <1>6, StatesAre
  <2>2. state' = "SHIFT" /\ count' = 3
    BY <2>1 DEF Load, StartCount
  <2>3. atomicFirst' \in BOOLEAN /\ atomicSecond' \in BOOLEAN /\ dataWrite' \in BOOLEAN /\ control' \in BOOLEAN
    BY <1>1, <2>1 DEF Load
  <2>4. QED
    BY <1>3, <1>4, <2>2, <2>3 DEF SmTypeOK
<1>7. CASE state = "SHIFT"
  <2>1. Shift(full, Pending)
    BY <1>7, StatesAre
  <2>2. count \in 1 .. 3
    BY <1>7 DEF WordInv
  <2>3. state' \in {"SHIFT", "LDWAIT", "WAIT"} /\ (count' = count \/ count' = count - 1)
    BY <1>7, <2>1 DEF Shift
  <2>4. count' \in 0 .. 7
    BY <2>2, <2>3
  <2>5. atomicFirst' \in BOOLEAN /\ atomicSecond' \in BOOLEAN /\ dataWrite' \in BOOLEAN
    BY <1>1, <2>1 DEF Shift
  <2>6. control' \in BOOLEAN
    BY <2>1 DEF Shift
  <2>7. QED
    BY <1>3, <1>4, <2>3, <2>4, <2>5, <2>6 DEF SmTypeOK
<1>8. CASE state = "LDWAIT"
  <2>1. LoadWait(full, entries[2].pkt.atom)
    BY <1>8, StatesAre
  <2>2. state' \in {"LDWAIT", "SHIFT"} /\ (count' = count \/ count' = 3)
    BY <1>8, <2>1 DEF LoadWait, StartCount
  <2>3. atomicFirst' \in BOOLEAN /\ atomicSecond' \in BOOLEAN /\ dataWrite' \in BOOLEAN /\ control' \in BOOLEAN
    BY <1>1, <1>2, <2>1 DEF LoadWait
  <2>4. count' \in 0 .. 7
    BY <1>1, <2>2
  <2>5. QED
    BY <1>3, <1>4, <2>2, <2>3, <2>4 DEF SmTypeOK
<1>9. CASE state = "WAIT"
  <2>1. Wait(full, Pending)
    BY <1>9, StatesAre
  <2>2. state' \in {"LDWAIT", "WAIT", "LOAD", "IDLE"} /\ (count' = count \/ count' = (count + 7) % 8)
    BY <2>1 DEF Wait
  <2>3. atomicFirst' \in BOOLEAN /\ atomicSecond' \in BOOLEAN /\ dataWrite' \in BOOLEAN /\ control' \in BOOLEAN
    BY <1>1, <2>1 DEF Wait
  <2>4. count' \in 0 .. 7
    BY <1>1, <2>2
  <2>5. QED
    BY <1>3, <1>4, <2>2, <2>3, <2>4 DEF SmTypeOK
<1>10. QED
  BY <1>5, <1>6, <1>7, <1>8, <1>9, StatesAre

(* All of it keeps its types. *)
LEMMA TypeStep ==
    ASSUME TypeOK, WordInv, Clock
    PROVE  TypeOK'
<1>1. CoreTypeOK'
  <2>1. CoreTick(pa, grant)
    BY ClockIs
  <2>2. pq' \in Lines
    BY <2>1, RequestTypes DEF CoreTick, Lines
  <2>3. full0 \in SUBSET Dests /\ full1 \in SUBSET Dests
    BY DEF TypeOK, CoreTypeOK
  <2>4. full0' \in SUBSET Dests /\ full1' \in SUBSET Dests
    BY <2>1, <2>3 DEF CoreTick, Monitors
  <2>5. QED
    BY <2>2, <2>4 DEF CoreTypeOK
<1>2. pa' \in Lines
  BY ClockIs DEF TypeOK, CoreTypeOK
<1>3. px' \in Signals
  BY ClockIs, AcceptedIs
<1>4. link' \in [Dests -> 0 .. 3]
  <2>1. ASSUME NEW d \in Dests PROVE LinkNext(d) \in 0 .. 3
    <3>1. link[d] \in 0 .. 3
      BY DEF TypeOK
    <3>2. (link[d] + 3) % 4 \in 0 .. 3
      BY <3>1
    <3>3. ~Masked(d) => link[d] + 1 \in 0 .. 3
      BY <3>1 DEF Masked
    <3>4. QED
      BY <3>1, <3>2, <3>3 DEF LinkNext
  <2>2. QED
    BY <2>1, ClockIs
<1>5. full' \in BOOLEAN
  BY ClockIs
<1>6. QED
  BY <1>1, <1>2, <1>3, <1>4, <1>5, EntryTypes, SmTypes DEF TypeOK, Signals

-----------------------------------------------------------------------------
(* The word that the state machine is at. *)
LEMMA WordStep ==
    ASSUME TypeOK, WordInv, Clock
    PROVE  WordInv'
<1>1. entry1' = Entry1Next(LoadData(full), ShiftData(full), AcceptedPa)
  BY ClockIs DEF EntriesTick
<1>2. /\ entry1 \in [pkt : Packets, pos : 0 .. 3] /\ count \in 0 .. 7
      /\ full \in BOOLEAN /\ dataWrite \in BOOLEAN /\ control \in BOOLEAN
  BY DEF TypeOK, EntriesTypeOK, SmTypeOK
<1>3. /\ LoadData(full) => entry1'.pos = 0
      /\ ShiftData(full) => entry1'.pos = entry1.pos + 1
      /\ ~LoadData(full) /\ ~ShiftData(full) => entry1'.pos = entry1.pos
  <2>1. ~(LoadData(full) /\ ShiftData(full))
    BY DEF LoadData, ShiftData
  <2>2. QED
    BY <1>1, <1>2, <2>1 DEF Entry1Next
<1>4. CASE state = "IDLE"
  <2>1. Idle(AnyReqPq, pq.atom)
    BY <1>4, StatesAre
  <2>2. state' \in {"IDLE", "LOAD"} /\ ~dataWrite'
    BY <2>1 DEF Idle
  <2>3. QED
    BY <2>2 DEF WordInv, Sending
<1>5. CASE state = "LOAD"
  <2>1. Load
    BY <1>5, StatesAre
  <2>2. state' = "SHIFT" /\ count' = 3 /\ dataWrite' /\ control'
    BY <2>1 DEF Load, StartCount
  <2>3. entry1'.pos = 0
    BY <1>3, <1>5 DEF LoadData
  <2>4. QED
    BY <2>2, <2>3 DEF WordInv, Sending
<1>6. CASE state = "SHIFT"
  <2>1. Shift(full, Pending)
    BY <1>6, StatesAre
  <2>2. count \in 1 .. 3 /\ entry1.pos = 3 - count
    BY <1>6 DEF WordInv
  <2>3. CASE full
    <3>1. state' = "SHIFT" /\ count' = count /\ entry1'.pos = entry1.pos
      BY <1>3, <1>6, <2>1, <2>3 DEF Shift, LoadData, ShiftData
    <3>2. dataWrite' /\ (control' <=> count = 3)
      BY <2>1, <2>3 DEF Shift, StartCount
    <3>3. count' \in 1 .. 3 /\ entry1'.pos = 3 - count' /\ (control' <=> count' = 3)
      BY <2>2, <3>1, <3>2
    <3>4. QED
      BY <3>1, <3>2, <3>3 DEF WordInv, Sending
  <2>4. CASE ~full
    <3>1. count' = count - 1 /\ entry1'.pos = entry1.pos + 1
      BY <1>3, <1>6, <2>1, <2>4 DEF Shift, ShiftData
    <3>2. /\ state' \in {"SHIFT", "LDWAIT", "WAIT"} /\ (state' = "SHIFT" <=> count > 1)
      BY <1>6, <2>1, <2>4 DEF Shift
    <3>3. dataWrite' /\ ~control'
      BY <2>1, <2>4 DEF Shift
    <3>4. count > 1 => count' \in 1 .. 3 /\ entry1'.pos = 3 - count' /\ count' # 3
      BY <2>2, <3>1
    <3>5. ~(count > 1) => entry1'.pos = 3
      BY <2>2, <3>1
    <3>6. QED
      BY <3>2, <3>3, <3>4, <3>5 DEF WordInv, Sending
  <2>5. QED
    BY <2>3, <2>4
<1>7. CASE state = "LDWAIT"
  <2>1. LoadWait(full, entries[2].pkt.atom)
    BY <1>7, StatesAre
  <2>2. CASE full
    <3>1. state' = "LDWAIT" /\ dataWrite' /\ ~control' /\ entry1'.pos = 3
      BY <1>3, <1>7, <2>1, <2>2 DEF LoadWait, LoadData, ShiftData, WordInv
    <3>2. QED
      BY <3>1 DEF WordInv, Sending
  <2>3. CASE ~full
    <3>1. state' = "SHIFT" /\ count' = 3 /\ dataWrite' /\ control' /\ entry1'.pos = 0
      BY <1>3, <1>7, <2>1, <2>3 DEF LoadWait, LoadData, StartCount
    <3>2. QED
      BY <3>1 DEF WordInv, Sending
  <2>4. QED
    BY <2>2, <2>3
<1>8. CASE state = "WAIT"
  <2>1. Wait(full, Pending)
    BY <1>8, StatesAre
  <2>2. ~control' /\ entry1'.pos = 3
    BY <1>3, <1>8, <2>1 DEF Wait, LoadData, ShiftData, WordInv
  <2>3. dataWrite' <=> full
    BY <2>1 DEF Wait
  <2>4. IF full THEN state' \in {"LDWAIT", "WAIT"} ELSE state' \in {"LOAD", "IDLE"}
    BY <2>1 DEF Wait
  <2>5. QED
    BY <2>2, <2>3, <2>4 DEF WordInv, Sending
<1>9. QED
  BY <1>4, <1>5, <1>6, <1>7, <1>8, StatesAre

(* The first state. *)
LEMMA InitTypes == Init => TypeOK /\ WordInv
<1> SUFFICES ASSUME Init PROVE TypeOK /\ WordInv
  OBVIOUS
<1>1. CoreTypeOK
  BY RequestTypes DEF Init, CoreInit, CoreTypeOK
<1>2. First(NoRequest) \in Packets
  BY RequestTypes
<1>3. EntriesTypeOK
  BY <1>2 DEF Init, EntriesInit, EntriesTypeOK, Inactive
<1>4. SmTypeOK
  <2>1. state = "IDLE" /\ count = 0 /\ grant = NoDest /\ destD1 = NoDest
    BY DEF Init, SmInit
  <2>2. /\ dataWrite = FALSE /\ control = FALSE /\ atomicFirst = FALSE /\ atomicSecond = FALSE
        /\ atomicSecondD1 = FALSE /\ activeD1 = FALSE
    BY DEF Init, SmInit
  <2>3. /\ dataWrite \in BOOLEAN /\ control \in BOOLEAN /\ atomicFirst \in BOOLEAN
        /\ atomicSecond \in BOOLEAN /\ atomicSecondD1 \in BOOLEAN /\ activeD1 \in BOOLEAN
    BY <2>2, Zenon
  <2>4. QED
    BY <2>1, <2>3 DEF SmTypeOK
<1>5. pa \in Lines /\ px \in Signals /\ link \in [Dests -> 0 .. 3] /\ full \in BOOLEAN
  BY RequestTypes DEF Init
<1>6. WordInv
  BY DEF Init, SmInit, WordInv, Sending
<1>7. QED
  BY <1>1, <1>3, <1>4, <1>5, <1>6 DEF TypeOK, Signals

(* Nothing changes. *)
LEMMA TypesStutter ==
    ASSUME TypeOK, WordInv, UNCHANGED vars
    PROVE  TypeOK' /\ WordInv'
<1>1. /\ UNCHANGED coreVars /\ UNCHANGED entryVars /\ UNCHANGED smVars
      /\ UNCHANGED <<pa, px, link, full>>
  BY DEF vars
<1>2. UNCHANGED <<state, count, dataWrite, control, grant, atomicFirst, atomicSecond,
                  atomicSecondD1, destD1, activeD1, entry1, entries, pq, full0, full1>>
  BY <1>1 DEF coreVars, entryVars, smVars
<1>3. CoreTypeOK' /\ EntriesTypeOK' /\ SmTypeOK'
  BY <1>2 DEF TypeOK, CoreTypeOK, EntriesTypeOK, SmTypeOK
<1>4. QED
  BY <1>1, <1>2, <1>3 DEF TypeOK, WordInv, Sending

(***************************************************************************)
(* Buffer, state machine, counters and monitors keep their types: the      *)
(* shift register never shifts a fifth word (pcx2mb, pcx2mb_sm).           *)
(***************************************************************************)
THEOREM TypeCorrect == Spec => []TypeOK
<1>1. TypeOK /\ WordInv /\ [Next]_vars => TypeOK' /\ WordInv'
  BY TypeStep, WordStep, TypesStutter DEF Next
<1>2. QED
  BY <1>1, InitTypes, PTL DEF Spec

(***************************************************************************)
(* The control bit is written with the first word of a packet and with no  *)
(* other, however often the FIFO is full in between (pcx2mb_sm).           *)
(***************************************************************************)
THEOREM FirstWordMarked == Spec => []ControlMarksFirst
<1>1. TypeOK /\ WordInv /\ [Next]_vars => TypeOK' /\ WordInv'
  BY TypeStep, WordStep, TypesStutter DEF Next
<1>2. TypeOK /\ WordInv => ControlMarksFirst
  <2> SUFFICES ASSUME TypeOK, WordInv, WriteWord(full) PROVE Sending /\ (control <=> entry1.pos = 0)
    BY DEF ControlMarksFirst
  <2>1. Sending /\ entry1.pos \in Int
    BY DEF WriteWord, WordInv, TypeOK, EntriesTypeOK
  <2>2. CASE state = "SHIFT"
    <3>1. count \in 1 .. 3 /\ entry1.pos = 3 - count /\ (control <=> count = 3)
      BY <2>2 DEF WordInv
    <3>2. count = 3 <=> 3 - count = 0
      BY <3>1
    <3>3. QED
      BY <2>1, <3>1, <3>2
  <2>3. CASE state \in {"LDWAIT", "WAIT"}
    <3>1. entry1.pos = 3 /\ ~control
      BY <2>3 DEF WordInv
    <3>2. QED
      BY <2>1, <3>1
  <2>4. QED
    BY <2>1, <2>2, <2>3 DEF Sending
<1>3. QED
  BY <1>1, <1>2, InitTypes, PTL DEF Spec

-----------------------------------------------------------------------------
(* Counting. *)

(* The places taken for a destination. *)
LEMMA PlacesFinite ==
    ASSUME NEW d
    PROVE  /\ IsFiniteSet(Places(d)) /\ Cardinality(Places(d)) \in Nat
           /\ Places(d) \subseteq EntryNumbers
<1>1. IsFiniteSet(EntryNumbers)
  BY PcxAssumption, FS_Interval DEF EntryNumbers
<1>2. Places(d) \in SUBSET EntryNumbers
  BY DEF Places
<1>3. IsFiniteSet(Places(d))
  BY <1>1, <1>2, FS_Subset
<1>4. QED
  BY <1>2, <1>3, FS_CardinalityType

Full(d) == Count(d \in full0) + Count(d \in full1)

(* A counter, one of its increments at a time. *)
LEMMA LinkFacts ==
    ASSUME TypeOK, CoreInv, CountersAgree, CreditInv, NEW d \in Dests
    PROVE  /\ link[d] \in Int /\ 0 <= link[d]
           /\ Full(d) = link[d] + Count(AcceptedPa.dest = d) + Count(px.dest = d /\ px.atom)
           /\ Full(d) \in {0, 1, 2}
           /\ (Full(d) = 0 <=> d \notin full0) /\ (Full(d) = 2 <=> d \in full1)
           /\ grant = d => 1 <= link[d]
           /\ ~(AcceptedPa.dest = d /\ px.dest = d /\ px.atom)
<1>1. link[d] \in Int /\ 0 <= link[d]
  BY DEF TypeOK
<1>2. Full(d) = link[d] + Count(AcceptedPa.dest = d) + Count(px.dest = d /\ px.atom)
  BY DEF Full, CountersAgree
<1>3. d \in full1 => d \in full0
  BY DEF CoreInv
<1>4. /\ Full(d) \in {0, 1, 2}
      /\ (Full(d) = 0 <=> d \notin full0) /\ (Full(d) = 2 <=> d \in full1)
  BY <1>3 DEF Full, Count
<1>5. ASSUME grant = d
      PROVE  1 <= link[d]
  <2>1. PICK n \in Nat : n = Cardinality(Places(d))
    BY PlacesFinite
  <2>2. link[d] = n + Count(SendingTo(d)) + Count(FirstSent(d)) + Count(SecondSent(d)) + 1
    BY <1>5, <2>1 DEF CreditInv, Count
  <2>3. QED
    BY <2>2 DEF Count
<1>6. ~(AcceptedPa.dest = d /\ px.dest = d /\ px.atom)
  <2>1. d # NoDest
    BY PcxAssumption
  <2>2. QED
    BY <2>1, AcceptedIs DEF CoreInv, Follows
<1>7. QED
  BY <1>1, <1>2, <1>4, <1>5, <1>6

(* The counter after the step, seen from the core. *)
LEMMA LinkStep ==
    ASSUME TypeOK, CoreInv, CountersAgree, CreditInv, Clock, NEW d \in Dests
    PROVE  link'[d] = Full(d) - Count(grant = d)
<1>1. link'[d] = LinkNext(d)
  BY ClockIs
<1> DEFINE inc == AcceptedPa.dest = d \/ (px.dest = d /\ px.atom)
<1>2. Full(d) = link[d] + Count(inc)
  BY LinkFacts DEF Count
<1>3. link[d] \in Int /\ 0 <= link[d] /\ link[d] <= 3 /\ Full(d) \in {0, 1, 2}
  BY LinkFacts DEF TypeOK
<1>4. CASE inc /\ grant # d
  <2>1. link[d] + 1 = Full(d)
    BY <1>2, <1>4 DEF Count
  <2>2. ~Masked(d)
    BY <1>3, <2>1 DEF Masked
  <2>3. LinkNext(d) = link[d] + 1
    BY <1>4, <2>2 DEF LinkNext
  <2>4. QED
    BY <1>1, <1>3, <1>4, <2>1, <2>3 DEF Count
<1>5. CASE ~inc /\ grant = d
  <2>1. LinkNext(d) = (link[d] + 3) % 4
    BY <1>5 DEF LinkNext
  <2>2. 1 <= link[d]
    BY <1>5, LinkFacts
  <2>3. link[d] \in {1, 2, 3}
    BY <1>3, <2>2
  <2>4. (link[d] + 3) % 4 = link[d] - 1
    BY <2>3
  <2>5. Full(d) = link[d]
    BY <1>2, <1>3, <1>5 DEF Count
  <2>6. QED
    BY <1>1, <1>5, <2>1, <2>4, <2>5 DEF Count
<1>6. CASE inc <=> grant = d
  <2>1. LinkNext(d) = link[d]
    BY <1>6 DEF LinkNext
  <2>2. QED
    BY <1>1, <1>2, <1>3, <1>6, <2>1 DEF Count
<1>7. QED
  BY <1>4, <1>5, <1>6

(* The monitors after the step. *)
LEMMA FullStep ==
    ASSUME TypeOK, CoreInv, CountersAgree, CreditInv, Clock, NEW d \in Dests
    PROVE  /\ d \in full1' => d \in full0'
           /\ Full(d)' = IF Full(d) = 2 /\ grant # d THEN 2
                         ELSE Full(d) - Count(grant = d) + Count(SendToPcx(pa, d))
<1>1. /\ full0 \in SUBSET Dests /\ full1 \in SUBSET Dests /\ Monitors(pa, grant)
  BY ClockIs DEF TypeOK, CoreTypeOK, CoreTick
<1> DEFINE f0 == d \in full0
           f1 == d \in full1
           g == d = grant
           x == SendToPcx(pa, d)
<1>2. /\ d \in full0' <=> ((f1 /\ g) \/ (x /\ ~(f0 /\ ~g)) \/ (f0 /\ ~g))
      /\ d \in full1' <=> ((f0 /\ x /\ ~(g /\ ~f1)) \/ (f1 /\ ~g))
  BY <1>1 DEF Monitors
<1>3. f1 => f0
  BY DEF CoreInv
<1>4. g => f0
  <2>1. SUFFICES ASSUME g PROVE Full(d) # 0
    BY LinkFacts
  <2>2. 1 <= link[d] /\ link[d] \in Int
    BY <2>1, LinkFacts
  <2>3. Full(d) = link[d] + Count(AcceptedPa.dest = d) + Count(px.dest = d /\ px.atom)
    BY LinkFacts
  <2>4. QED
    BY <2>2, <2>3 DEF Count
<1>5. /\ Full(d)' = Count(d \in full0') + Count(d \in full1')
      /\ Full(d) = Count(f0) + Count(f1)
  BY DEF Full, Count
<1> HIDE DEF f0, f1, g, x
<1>6. d \in full1' => d \in full0'
  BY <1>2, <1>3, <1>4
<1>7. CASE f1
  <2>1. CASE g
    <3>1. d \in full0' /\ (d \in full1' <=> x) /\ Full(d) = 2
      BY <1>2, <1>3, <1>5, <1>7, <2>1 DEF Count
    <3>2. Full(d)' = 2 - 1 + Count(x)
      BY <1>5, <3>1 DEF Count
    <3>3. QED
      BY <1>6, <2>1, <3>1, <3>2 DEF Count, g, x
  <2>2. CASE ~g
    <3>1. d \in full0' /\ d \in full1' /\ Full(d) = 2
      BY <1>2, <1>3, <1>5, <1>7, <2>2 DEF Count
    <3>2. QED
      BY <1>5, <1>6, <2>2, <3>1 DEF Count, g
  <2>3. QED
    BY <2>1, <2>2
<1>8. CASE ~f1 /\ f0
  <2>1. Full(d) = 1
    BY <1>5, <1>8 DEF Count
  <2>2. CASE g
    <3>1. (d \in full0' <=> x) /\ ~(d \in full1')
      BY <1>2, <1>8, <2>2
    <3>2. Full(d)' = 1 - 1 + Count(x)
      BY <1>5, <3>1 DEF Count
    <3>3. QED
      BY <1>6, <2>1, <2>2, <3>2 DEF Count, g, x
  <2>3. CASE ~g
    <3>1. d \in full0' /\ (d \in full1' <=> x)
      BY <1>2, <1>8, <2>3
    <3>2. Full(d)' = 1 - 0 + Count(x)
      BY <1>5, <3>1 DEF Count
    <3>3. QED
      BY <1>6, <2>1, <2>3, <3>2 DEF Count, g, x
  <2>4. QED
    BY <2>2, <2>3
<1>9. CASE ~f0
  <2>1. Full(d) = 0 /\ ~g
    BY <1>3, <1>4, <1>5, <1>9 DEF Count
  <2>2. (d \in full0' <=> x) /\ ~(d \in full1')
    BY <1>2, <1>3, <1>9, <2>1
  <2>3. Full(d)' = 0 - 0 + Count(x)
    BY <1>5, <2>2 DEF Count
  <2>4. QED
    BY <1>6, <2>1, <2>3 DEF Count, g, x
<1>10. QED
  BY <1>7, <1>8, <1>9

(* What is accepted next: the request in PQ, unless the core takes it back. *)
LEMMA AcceptedNext ==
    ASSUME TypeOK, WordInv, CoreInv, CountersAgree, CreditInv, Clock
    PROVE  /\ \A d \in Dests : AcceptedPa'.dest = d <=> pq.dest = d /\ Full(d) - Count(grant = d) < 2
           /\ \A d \in Dests : (px'.dest = d /\ px'.atom) <=> (AcceptedPa.dest = d /\ pa.atom)
           /\ Follows' <=> Arrives /\ pa.atom
           /\ Arrives' => AcceptedPa' = pq
<1>1. TypeOK' /\ pa' = pq /\ px' = AcceptedPa
  BY TypeStep, ClockIs
<1>2. (TypeOK => AcceptedPa \in Signals /\ \A d \in Dests : AcceptedPa.dest = d <=> pa.dest = d /\ ~Masked(d))'
  BY AcceptedIs, PTL
<1>3. ASSUME NEW d \in Dests
      PROVE  AcceptedPa'.dest = d <=> pq.dest = d /\ Full(d) - Count(grant = d) < 2
  <2>1. AcceptedPa'.dest = d <=> pq.dest = d /\ ~Masked(d)'
    BY <1>1, <1>2, <1>3
  <2>2. link'[d] = Full(d) - Count(grant = d) /\ Full(d) \in {0, 1, 2}
    BY <1>3, LinkStep, LinkFacts
  <2>3. Masked(d)' <=> link'[d] >= 2
    BY DEF Masked
  <2>4. Count(grant = d) \in {0, 1}
    BY DEF Count
  <2>5. QED
    BY <2>1, <2>2, <2>3, <2>4
<1>4. ASSUME NEW d \in Dests
      PROVE  (px'.dest = d /\ px'.atom) <=> (AcceptedPa.dest = d /\ pa.atom)
  <2>1. AcceptedPa.dest = d => AcceptedPa = pa
    BY <1>4, AcceptedIs, PcxAssumption DEF Arrives
  <2>2. QED
    BY <1>1, <2>1
<1>5. Follows' <=> Arrives /\ pa.atom
  BY <1>1, AcceptedIs DEF Follows, Arrives
<1>6. Arrives' => AcceptedPa' = pq
  <2>1. CASE (pa.dest # NoDest /\ Masked(pa.dest))'
    <3>1. AcceptedPa' = [pa EXCEPT !.dest = NoDest]'
      BY <2>1 DEF AcceptedPa
    <3>2. pq \in Signals
      BY RequestTypes DEF TypeOK, CoreTypeOK
    <3>3. AcceptedPa'.dest = NoDest
      BY <1>1, <3>1, <3>2 DEF Signals
    <3>4. QED
      BY <3>3 DEF Arrives
  <2>2. CASE ~(pa.dest # NoDest /\ Masked(pa.dest))'
    BY <1>1, <2>2 DEF AcceptedPa
  <2>3. QED
    BY <2>1, <2>2
<1>7. QED
  BY <1>3, <1>4, <1>5, <1>6

(* The core's half. *)
LEMMA CoreStep ==
    ASSUME TypeOK, WordInv, CoreInv, CountersAgree, CreditInv, Clock
    PROVE  CoreInv' /\ CountersAgree'
<1>1. /\ pa' = pq /\ CoreTick(pa, grant) /\ pa \in Lines /\ pq \in Lines /\ NoDest \notin Dests
      /\ full0 \in SUBSET Dests /\ full1 \in SUBSET Dests
  BY ClockIs, PcxAssumption DEF TypeOK, CoreTypeOK
<1>2. /\ pa.atom => pa.dest \in Dests
      /\ pq.atom => pq.dest \in Dests
  BY <1>1, RequestTypes DEF Signals
<1>3. /\ \A d \in Dests : d \in full0' <=> Full(d)' # 0
      /\ \A d \in Dests : d \in full1' <=> Full(d)' = 2
      /\ \A d \in Dests : Full(d)' \in {0, 1, 2}
      /\ full1' \subseteq full0'
  <2>1. TypeOK'
    BY TypeStep
  <2>2. ASSUME NEW d \in Dests
        PROVE  (d \in full0' <=> Full(d)' # 0) /\ (d \in full1' <=> Full(d)' = 2) /\ Full(d)' \in {0, 1, 2}
    <3>1. Full(d)' = Count(d \in full0') + Count(d \in full1')
      BY DEF Full, Count
    <3>2. d \in full1' => d \in full0'
      BY <2>2, FullStep
    <3>3. QED
      BY <3>1, <3>2 DEF Count
  <2>3. full1' \subseteq Dests
    BY <2>1 DEF TypeOK, CoreTypeOK
  <2>4. QED
    BY <2>2, <2>3, FullStep
<1>4. Follows' => pa'.dest = NoDest
  BY <1>1, AcceptedNext DEF CoreInv
<1>5. ASSUME pa'.atom
      PROVE  pa'.dest \in full0' /\ pa'.dest \notin full1' /\ pq'.dest = NoDest
  <2>1. pq.atom /\ pq.dest \in Dests /\ pq.dest \notin full0
    BY <1>1, <1>2, <1>5 DEF CoreInv
  <2>2. PICK d \in Dests : d = pq.dest
    BY <2>1
  <2>3. Full(d) = 0
    BY <2>1, <2>2, LinkFacts
  <2>4. grant # d
    <3>1. /\ link[d] \in Int
          /\ Full(d) = link[d] + Count(AcceptedPa.dest = d) + Count(px.dest = d /\ px.atom)
          /\ grant = d => 1 <= link[d]
      BY LinkFacts
    <3>2. link[d] <= 0
      BY <2>3, <3>1 DEF Count
    <3>3. QED
      BY <3>1, <3>2
  <2>5. SendToPcx(pa, d)
    BY <2>2 DEF SendToPcx
  <2>6. Full(d)' = 1
    BY <2>3, <2>4, <2>5, FullStep DEF Count
  <2>7. pq' = NoRequest
    BY <1>1, <2>1 DEF CoreTick, MaySelect
  <2>8. QED
    BY <1>1, <1>3, <2>2, <2>6, <2>7, RequestTypes
<1>6. ASSUME pq'.atom
      PROVE  pq'.dest \notin full0'
  <2>1. pq' # NoRequest
    BY <1>6, RequestTypes
  <2>2. PICK r \in Requests : MaySelect(pa, r) /\ pq' = r
    BY <1>1, <2>1 DEF CoreTick
  <2>3. r.dest \in Dests /\ r.atom /\ r.dest \notin full0 /\ ~SendToPcx(pa, r.dest)
    BY <1>6, <2>2 DEF Requests, MaySelect
  <2>4. Full(r.dest) = 0
    BY <2>3, LinkFacts
  <2>5. grant # r.dest
    <3>1. /\ link[r.dest] \in Int
          /\ Full(r.dest) = link[r.dest] + Count(AcceptedPa.dest = r.dest) + Count(px.dest = r.dest /\ px.atom)
          /\ grant = r.dest => 1 <= link[r.dest]
      BY <2>3, LinkFacts
    <3>2. link[r.dest] <= 0
      BY <2>4, <3>1 DEF Count
    <3>3. QED
      BY <3>1, <3>2
  <2>6. Full(r.dest)' = 0
    BY <2>3, <2>4, <2>5, FullStep DEF Count
  <2>7. QED
    BY <1>3, <2>2, <2>3, <2>6
<1>7. CoreInv'
  BY <1>3, <1>4, <1>5, <1>6 DEF CoreInv
<1>8. ASSUME NEW d \in Dests
      PROVE  Full(d)' = link'[d] + Count(AcceptedPa'.dest = d) + Count(px'.dest = d /\ px'.atom)
  <2> DEFINE g == Count(grant = d)
  <2>1. g \in {0, 1} /\ (g = 1 <=> grant = d) /\ Full(d) \in {0, 1, 2} /\ link'[d] = Full(d) - g
    BY <1>8, LinkFacts, LinkStep DEF Count
  <2>2. AcceptedPa'.dest = d <=> pq.dest = d /\ Full(d) - g < 2
    BY <1>8, AcceptedNext
  <2>3. (px'.dest = d /\ px'.atom) <=> (AcceptedPa.dest = d /\ pa.atom)
    BY <1>8, AcceptedNext
  <2>4. Full(d)' = IF Full(d) = 2 /\ grant # d THEN 2 ELSE Full(d) - g + Count(SendToPcx(pa, d))
    BY <1>8, FullStep
  <2> HIDE DEF g
  <2>5. CASE pq.dest = d
    <3>1. ~pa.atom
      BY <1>1, <1>8, <2>5 DEF CoreInv
    <3>2. SendToPcx(pa, d)
      BY <2>5 DEF SendToPcx
    <3>3. ~(px'.dest = d /\ px'.atom)
      BY <2>3, <3>1
    <3>4. CASE Full(d) = 2 /\ grant # d
      <4>1. ~(AcceptedPa'.dest = d)
        BY <2>1, <2>2, <3>4
      <4>2. QED
        BY <2>1, <2>4, <3>3, <3>4, <4>1 DEF Count
    <3>5. CASE ~(Full(d) = 2 /\ grant # d)
      <4>1. AcceptedPa'.dest = d
        BY <2>1, <2>2, <2>5, <3>5
      <4>2. QED
        BY <2>1, <2>4, <3>2, <3>3, <3>5, <4>1 DEF Count
    <3>6. QED
      BY <3>4, <3>5
  <2>6. CASE pq.dest # d
    <3>1. ~(AcceptedPa'.dest = d)
      BY <2>2, <2>6
    <3>2. CASE pa.dest = d /\ pa.atom
      <4>1. d \in full0 /\ d \notin full1
        BY <3>2 DEF CoreInv
      <4>2. Full(d) = 1
        BY <1>8, <2>1, <4>1, LinkFacts
      <4>3. AcceptedPa.dest = d
        <5>1. link[d] \in Int /\ Full(d) = link[d] + Count(AcceptedPa.dest = d) + Count(px.dest = d /\ px.atom)
          BY <1>8, LinkFacts
        <5>2. link[d] < 2
          BY <4>2, <5>1 DEF Count
        <5>3. ~Masked(d)
          BY <5>1, <5>2 DEF Masked
        <5>4. QED
          BY <1>8, <3>2, <5>3, AcceptedIs
      <4>4. SendToPcx(pa, d) /\ (px'.dest = d /\ px'.atom)
        BY <2>3, <3>2, <4>3 DEF SendToPcx
      <4>5. QED
        BY <2>1, <2>4, <3>1, <4>2, <4>4 DEF Count
    <3>3. CASE ~(pa.dest = d /\ pa.atom)
      <4>1. ~SendToPcx(pa, d)
        BY <2>6, <3>3 DEF SendToPcx
      <4>2. ~(px'.dest = d /\ px'.atom)
        BY <1>8, <2>3, <3>3, AcceptedIs
      <4>3. QED
        BY <2>1, <2>4, <3>1, <4>1, <4>2 DEF Count
    <3>4. QED
      BY <3>2, <3>3
  <2>7. QED
    BY <2>5, <2>6
<1>9. CountersAgree'
  BY <1>8 DEF CountersAgree, Full
<1>10. QED
  BY <1>7, <1>9

(* The bridge drops what the core takes back. *)
LEMMA DropStep ==
    ASSUME TypeOK, WordInv, CoreInv, CountersAgree, CreditInv, Clock, pq.dest # NoDest
    PROVE  Squash(grant) <=> AcceptedPa'.dest = NoDest
<1>1. pq.dest \in Dests /\ NoDest \notin Dests
  BY RequestTypes, PcxAssumption DEF TypeOK, CoreTypeOK, Signals
<1>2. Full(pq.dest) \in {0, 1, 2} /\ (Full(pq.dest) = 2 <=> pq.dest \in full1)
  BY <1>1, LinkFacts
<1>3. Squash(grant) <=> ~(Full(pq.dest) - Count(grant = pq.dest) < 2)
  BY <1>2 DEF Squash, Count
<1>4. AcceptedPa'.dest = pq.dest <=> ~Squash(grant)
  BY <1>1, <1>3, AcceptedNext
<1>5. AcceptedPa'.dest # NoDest => AcceptedPa'.dest = pq.dest
  BY AcceptedNext DEF Arrives
<1>6. QED
  BY <1>1, <1>4, <1>5

-----------------------------------------------------------------------------
(* The buffer has room. *)

(* No more than two of each kind, no more than twice as many as kinds. *)
LEMMA TwoOfEach ==
    ASSUME NEW S, IsFiniteSet(S), NEW m \in Nat, NEW D \in [1 .. m -> S],
           \A d \in S : Cardinality({i \in 1 .. m : D[i] = d}) <= 2
    PROVE  m <= 2 * Cardinality(S)
<1> DEFINE Later(i) == \E j \in 1 .. m : j < i /\ D[j] = D[i]
           f == [i \in 1 .. m |-> <<D[i], IF Later(i) THEN 2 ELSE 1>>]
<1>1. f \in [1 .. m -> S \X {1, 2}]
  OBVIOUS
<1>2. /\ IsFiniteSet({1, 2}) /\ Cardinality({1, 2}) = 2
  <2>1. IsFiniteSet({1}) /\ Cardinality({1}) = 1
    BY FS_Singleton
  <2>2. {1} \union {2} = {1, 2}
    OBVIOUS
  <2>3. /\ IsFiniteSet({1} \union {2})
        /\ Cardinality({1} \union {2}) = IF 2 \in {1} THEN Cardinality({1}) ELSE Cardinality({1}) + 1
    BY <2>1, FS_AddElement
  <2>4. Cardinality({1} \union {2}) = 2
    BY <2>1, <2>3
  <2>5. QED
    BY <2>2, <2>3, <2>4
<1>3. IsFiniteSet(S \X {1, 2}) /\ Cardinality(S \X {1, 2}) = Cardinality(S) * 2
  BY <1>2, FS_Product
<1>4. Cardinality(S) \in Nat
  BY FS_CardinalityType
<1>5. IsFiniteSet(1 .. m) /\ Cardinality(1 .. m) = m
  BY FS_Interval
<1>6. ASSUME NEW i \in 1 .. m, NEW j \in 1 .. m, i < j, f[i] = f[j]
      PROVE  FALSE
  <2>1. D[i] = D[j] /\ (Later(i) <=> Later(j))
    BY <1>6
  <2>2. Later(j)
    BY <1>6, <2>1
  <2>3. PICK k \in 1 .. m : k < i /\ D[k] = D[i]
    BY <2>1, <2>2
  <2> DEFINE all == {x \in 1 .. m : D[x] = D[i]}
  <2>4. Cardinality(all) <= 2
    BY <1>6
  <2>5. IsFiniteSet({k}) /\ Cardinality({k}) = 1
    BY FS_Singleton
  <2>6. PICK two : two = {k} \union {i} /\ IsFiniteSet(two) /\ Cardinality(two) = 2
    <3>1. /\ IsFiniteSet({k} \union {i})
          /\ Cardinality({k} \union {i}) = IF i \in {k} THEN Cardinality({k}) ELSE Cardinality({k}) + 1
      BY <2>5, FS_AddElement
    <3>2. i \notin {k}
      BY <2>3
    <3>3. Cardinality({k} \union {i}) = 2
      BY <2>5, <3>1, <3>2
    <3>4. QED
      BY <3>1, <3>3
  <2>7. /\ IsFiniteSet(two \union {j})
        /\ Cardinality(two \union {j}) = 3
    <3>1. /\ IsFiniteSet(two \union {j})
          /\ Cardinality(two \union {j}) = IF j \in two THEN Cardinality(two) ELSE Cardinality(two) + 1
      BY <2>6, FS_AddElement
    <3>2. j \notin two
      BY <1>6, <2>3, <2>6
    <3>3. Cardinality(two \union {j}) = Cardinality(two) + 1
      BY <3>1, <3>2
    <3>4. Cardinality(two) + 1 = 3
      BY <2>6
    <3>5. QED
      BY <3>1, <3>3, <3>4
  <2>8. two \union {j} \in SUBSET all
    BY <1>6, <2>1, <2>3, <2>6
  <2>9. IsFiniteSet(all)
    BY <1>5, FS_Subset
  <2>10. Cardinality(two \union {j}) <= Cardinality(all)
    BY <2>8, <2>9, FS_Subset
  <2>11. PICK c \in Nat : c = Cardinality(all)
    BY <2>9, FS_CardinalityType
  <2>12. QED
    BY <2>4, <2>7, <2>10, <2>11
<1>7. \A x, y \in 1 .. m : x # y => f[x] # f[y]
  <2>1. SUFFICES ASSUME NEW x \in 1 .. m, NEW y \in 1 .. m, x # y, f[x] = f[y]
                 PROVE  FALSE
    OBVIOUS
  <2>2. x < y \/ y < x
    BY <2>1
  <2>3. QED
    BY <1>6, <2>1, <2>2
<1> HIDE DEF f
<1>8. ~(Cardinality(S \X {1, 2}) < Cardinality(1 .. m))
  BY <1>1, <1>3, <1>5, <1>7, FS_PigeonHole
<1>9. QED
  BY <1>3, <1>4, <1>5, <1>8

(* The packet that arrives. *)
Comer == IF Arrives THEN First(pa) ELSE Second(px)

(* Of one request a packet arrives, and the second half of an atomic one a cycle later. *)
LEMMA ComerIs ==
    ASSUME TypeOK, CoreInv
    PROVE  /\ ~(Arrives /\ Follows)
           /\ Comer \in Packets
           /\ Arrives \/ Follows => Comer.dest \in Dests
           /\ Arrives => Comer = First(AcceptedPa) /\ Comer.dest = pa.dest /\ (Comer.atom <=> pa.atom)
           /\ Follows => Comer = Second(px) /\ Comer.dest = px.dest /\ ~Comer.atom
           /\ \A d \in Dests : Arrives /\ Comer.dest = d <=> AcceptedPa.dest = d
           /\ \A d \in Dests : Follows /\ Comer.dest = d <=> px.dest = d /\ px.atom
<1>1. ~(Arrives /\ Follows)
  BY AcceptedIs, PcxAssumption DEF CoreInv
<1>2. Arrives => Comer = First(AcceptedPa) /\ Comer.dest = pa.dest /\ (Comer.atom <=> pa.atom) /\ pa.dest \in Dests
  <2>1. Arrives => AcceptedPa = pa /\ pa.dest \in Dests
    BY AcceptedIs
  <2>2. First(pa).dest = pa.dest /\ (First(pa).atom <=> pa.atom)
    BY DEF First
  <2>3. QED
    BY <2>1, <2>2 DEF Comer
<1>3. Follows => Comer = Second(px) /\ Comer.dest = px.dest /\ ~Comer.atom /\ px.dest \in Dests
  <2>1. Follows => px.dest \in Dests
    BY AcceptedIs DEF Follows, Signals
  <2>2. Second(px).dest = px.dest /\ ~Second(px).atom
    BY DEF Second
  <2>3. QED
    BY <1>1, <2>1, <2>2 DEF Comer
<1>4. Comer \in Packets
  BY AcceptedIs, RequestTypes DEF Comer
<1>5. ASSUME NEW d \in Dests
      PROVE  Arrives /\ Comer.dest = d <=> AcceptedPa.dest = d
  <2>1. d # NoDest
    BY PcxAssumption
  <2>2. Arrives => AcceptedPa = pa
    BY AcceptedIs
  <2>3. QED
    BY <1>2, <2>1, <2>2 DEF Arrives
<1>6. ASSUME NEW d \in Dests
      PROVE  Follows /\ Comer.dest = d <=> px.dest = d /\ px.atom
  <2>1. d # NoDest
    BY PcxAssumption
  <2>2. QED
    BY <1>3, <2>1 DEF Follows
<1>7. QED
  BY <1>1, <1>2, <1>3, <1>4, <1>5, <1>6

(* While entry 1 is being sent, there is a place for it. *)
LEMMA Room ==
    ASSUME TypeOK, CoreInv, CountersAgree, CreditInv, NEW n \in 0 .. LastEntry - 1, LineInv(n),
           Sending, entry1.pkt.dest \in Dests, Arrives \/ Follows
    PROVE  n < LastEntry - 1
<1>1. SUFFICES ASSUME n = LastEntry - 1 PROVE FALSE
  BY PcxAssumption
<1>2. LastEntry \in Nat /\ 2 <= LastEntry /\ Cardinality(Dests) \in Nat
      /\ 2 * Cardinality(Dests) <= LastEntry /\ IsFiniteSet(Dests)
  BY PcxAssumption, FS_CardinalityType
<1> DEFINE m == LastEntry + 1
           D == [i \in 1 .. m |-> IF i = 1 THEN entry1.pkt.dest
                                  ELSE IF i = m THEN Comer.dest ELSE entries[i].pkt.dest]
<1>3. \A i \in EntryNumbers : entries[i].active /\ entries[i].pkt.dest \in Dests
  BY <1>1, <1>2 DEF LineInv, EntryNumbers
<1>4. D \in [1 .. m -> Dests]
  <2>1. \A i \in 1 .. m : i # 1 /\ i # m => i \in EntryNumbers
    BY <1>2 DEF EntryNumbers
  <2>2. Comer.dest \in Dests
    BY ComerIs
  <2>3. QED
    BY <1>3, <2>1, <2>2
<1>5. ASSUME NEW d \in Dests
      PROVE  Cardinality({i \in 1 .. m : D[i] = d}) <= 2
  <2> DEFINE all == {i \in 1 .. m : D[i] = d}
  <2>1. 1 \in 1 .. m /\ m \in 1 .. m /\ 1 # m
    BY <1>2
  <2>2. (1 \in all <=> entry1.pkt.dest = d) /\ (m \in all <=> Comer.dest = d)
    BY <2>1
  <2>3. (all \ {1}) \ {m} = Places(d)
    <3>1. \A i : i \in EntryNumbers <=> i \in 1 .. m /\ i # 1 /\ i # m
      BY <1>2 DEF EntryNumbers
    <3>2. \A i \in EntryNumbers : D[i] = entries[i].pkt.dest
      BY <3>1
    <3>3. QED
      BY <1>3, <3>1, <3>2 DEF Places
  <2>4. IsFiniteSet(all)
    <3>1. all \in SUBSET (1 .. m) /\ IsFiniteSet(1 .. m)
      BY <1>2, FS_Interval
    <3>2. QED
      BY <3>1, FS_Subset
  <2>5. /\ IsFiniteSet(all \ {1})
        /\ Cardinality(all \ {1}) = IF 1 \in all THEN Cardinality(all) - 1 ELSE Cardinality(all)
    BY <2>4, FS_RemoveElement
  <2>6. Cardinality((all \ {1}) \ {m})
          = IF m \in all \ {1} THEN Cardinality(all \ {1}) - 1 ELSE Cardinality(all \ {1})
    BY <2>5, FS_RemoveElement
  <2>7. PICK c \in Nat : c = Cardinality(all)
    BY <2>4, FS_CardinalityType
  <2>8. PICK p \in Nat : p = Cardinality(Places(d))
    BY PlacesFinite
  <2>. PICK b \in Nat : b = Cardinality(all \ {1})
    BY <2>5, FS_CardinalityType
  <2>16. b = IF 1 \in all THEN c - 1 ELSE c
    BY <2>5, <2>7
  <2>17. p = IF m \in all THEN b - 1 ELSE b
    BY <2>1, <2>3, <2>6, <2>8
  <2>18. m \in all <=> Comer.dest = d
    BY <2>2
  <2>19. 1 \in all <=> entry1.pkt.dest = d
    BY <2>2
  <2> HIDE DEF all
  <2>9. c = p + Count(entry1.pkt.dest = d) + Count(Comer.dest = d)
    BY <2>16, <2>17, <2>18, <2>19 DEF Count
  <2>10. link[d] = p + Count(SendingTo(d)) + Count(FirstSent(d)) + Count(SecondSent(d)) + Count(grant = d)
    BY <2>8 DEF CreditInv
  <2>11. p + Count(entry1.pkt.dest = d) <= link[d]
    BY <2>10 DEF Count, SendingTo
  <2>12. /\ link[d] \in Int /\ Full(d) <= 2 /\ Full(d) \in Int
         /\ Full(d) = link[d] + Count(AcceptedPa.dest = d) + Count(px.dest = d /\ px.atom)
    BY LinkFacts
  <2>13. Count(Comer.dest = d) <= Count(AcceptedPa.dest = d) + Count(px.dest = d /\ px.atom)
    BY ComerIs DEF Count
  <2>14. c <= 2
    BY <2>9, <2>11, <2>12, <2>13 DEF Count
  <2>15. QED
    BY <2>7, <2>14 DEF all
<1> HIDE DEF D
<1>6. m \in Nat
  BY <1>2
<1>7. m <= 2 * Cardinality(Dests)
  BY <1>2, <1>4, <1>5, <1>6, TwoOfEach
<1>8. QED
  BY <1>2, <1>7

-----------------------------------------------------------------------------
(* The line behind entry 1. *)

Next1Active(i) == IF i = 2 THEN Entry1Active(full) /\ activeD1 ELSE entries[i - 1].active

(* What an entry holds after a clock: the previous one's packet, the packet that arrives, or its own. *)
LEMMA EntryIs ==
    ASSUME TypeOK, CoreInv, Clock, NEW i \in EntryNumbers
    PROVE  LET load == LoadData(full)
               takes == Takes(i, load, Next1Active(i)) /\ (Arrives \/ Follows)
           IN  /\ load /\ Previous(i).active => entries'[i] = Previous(i)
               /\ ~(load /\ Previous(i).active) /\ takes => entries'[i] = [active |-> TRUE, pkt |-> Comer]
               /\ ~(load /\ Previous(i).active) /\ ~takes =>
                      entries'[i] = [entries[i] EXCEPT !.active = @ /\ ~load]
<1> DEFINE load == LoadData(full)
           t == Takes(i, load, Next1Active(i))
<1>1. entries'[i] = EntryNext(i, load, Next1Active(i), AcceptedPa, px)
  BY ClockIs DEF EntriesTick, Next1Active
<1>2. Arrives => Comer = First(AcceptedPa)
  BY ComerIs
<1>3. Follows => Comer = Second(px)
  BY ComerIs
<1>4. CASE load /\ Previous(i).active
  BY <1>1, <1>4 DEF EntryNext
<1>5. CASE ~(load /\ Previous(i).active) /\ Arrives /\ t
  BY <1>1, <1>2, <1>5 DEF EntryNext, Arrives
<1>6. CASE ~(load /\ Previous(i).active) /\ Follows /\ ~Arrives /\ t
  BY <1>1, <1>3, <1>6 DEF EntryNext, Arrives, Follows
<1>7. CASE ~(load /\ Previous(i).active) /\ ~(t /\ (Arrives \/ Follows))
  BY <1>1, <1>7 DEF EntryNext, Arrives, Follows
<1>8. QED
  BY <1>4, <1>5, <1>6, <1>7

(* No load: the packet that arrives goes behind the line. *)
LEMMA Kept ==
    ASSUME TypeOK, CoreInv, Clock, NEW n \in 0 .. LastEntry - 1, LineInv(n), ~LoadData(full),
           Arrives \/ Follows => n < LastEntry - 1 /\ Entry1Active(full) /\ activeD1,
           NEW i \in EntryNumbers
    PROVE  entries'[i] = IF (Arrives \/ Follows) /\ i = n + 2
                         THEN [active |-> TRUE, pkt |-> Comer] ELSE entries[i]
<1>1. /\ LastEntry \in Nat /\ i \in Int /\ 2 <= i /\ i <= LastEntry /\ n \in Int
      /\ entries[i] \in [active : BOOLEAN, pkt : Packets]
  BY PcxAssumption DEF EntryNumbers, TypeOK, EntriesTypeOK
<1>2. [entries[i] EXCEPT !.active = @ /\ ~LoadData(full)] = entries[i]
  <2>1. entries[i] = [active |-> entries[i].active, pkt |-> entries[i].pkt] /\ entries[i].active \in BOOLEAN
    BY <1>1
  <2>2. (entries[i].active /\ ~LoadData(full)) = entries[i].active
    BY <2>1
  <2>3. [entries[i] EXCEPT !.active = @ /\ ~LoadData(full)]
           = [active |-> entries[i].active /\ ~LoadData(full), pkt |-> entries[i].pkt]
    BY <1>1
  <2>4. QED
    BY <2>1, <2>2, <2>3
<1>3. \A j \in EntryNumbers : entries[j].active <=> j <= n + 1
  BY DEF LineInv
<1>4. Takes(i, LoadData(full), Next1Active(i)) <=> Next1Active(i) /\ i > n + 1
  BY <1>1, <1>3 DEF Takes
<1>5. CASE i = n + 2 /\ (Arrives \/ Follows)
  <2>1. Next1Active(i)
    <3>1. CASE i = 2
      BY <1>5, <3>1 DEF Next1Active
    <3>2. CASE i # 2
      <4>1. i - 1 \in EntryNumbers /\ i - 1 <= n + 1
        BY <1>1, <1>5, <3>2 DEF EntryNumbers
      <4>2. QED
        BY <1>3, <3>2, <4>1 DEF Next1Active
    <3>3. QED
      BY <3>1, <3>2
  <2>2. i > n + 1
    BY <1>1, <1>5
  <2>3. QED
    BY <1>4, <1>5, <2>1, <2>2, EntryIs
<1>6. CASE ~(i = n + 2 /\ (Arrives \/ Follows))
  <2>1. ASSUME i > n + 1, Arrives \/ Follows
        PROVE  ~Next1Active(i)
    <3>1. i > n + 2 /\ i - 1 \in EntryNumbers /\ i # 2 /\ ~(i - 1 <= n + 1)
      BY <1>1, <1>6, <2>1 DEF EntryNumbers
    <3>2. QED
      BY <1>3, <3>1 DEF Next1Active
  <2>2. QED
    BY <1>2, <1>4, <1>6, <2>1, EntryIs
<1>7. QED
  BY <1>5, <1>6

(* A load: the line moves up and the packet goes behind it. *)
LEMMA Shifted ==
    ASSUME TypeOK, CoreInv, Clock, NEW n \in 0 .. LastEntry - 1, LineInv(n), LoadData(full),
           n > 0, Entry1Active(full) /\ activeD1, NEW i \in EntryNumbers
    PROVE  /\ i <= n => entries'[i] = entries[i + 1]
           /\ i = n + 1 /\ (Arrives \/ Follows) => entries'[i] = [active |-> TRUE, pkt |-> Comer]
           /\ i = n + 1 /\ ~(Arrives \/ Follows) => ~entries'[i].active /\ entries'[i].pkt = entries[i].pkt
           /\ i > n + 1 => ~entries'[i].active
<1>1. /\ LastEntry \in Nat /\ i \in Int /\ 2 <= i /\ i <= LastEntry /\ n \in Int
      /\ entries[i] \in [active : BOOLEAN, pkt : Packets]
  BY PcxAssumption DEF EntryNumbers, TypeOK, EntriesTypeOK
<1>2. ~[entries[i] EXCEPT !.active = @ /\ ~LoadData(full)].active
      /\ [entries[i] EXCEPT !.active = @ /\ ~LoadData(full)].pkt = entries[i].pkt
  BY <1>1
<1>3. \A j \in EntryNumbers : entries[j].active <=> j <= n + 1
  BY DEF LineInv
<1>4. Previous(i).active <=> i <= n
  <2>1. CASE i = LastEntry
    BY <1>1, <2>1 DEF Previous, Inactive
  <2>2. CASE i # LastEntry
    <3>1. i + 1 \in EntryNumbers /\ (i + 1 <= n + 1 <=> i <= n)
      BY <1>1, <2>2 DEF EntryNumbers
    <3>2. QED
      BY <1>3, <2>2, <3>1 DEF Previous
  <2>3. QED
    BY <2>1, <2>2
<1>5. CASE i <= n
  <2>1. i # LastEntry /\ ~(i = n + 1) /\ ~(i > n + 1)
    BY <1>1, <1>5
  <2>2. entries'[i] = Previous(i)
    BY <1>4, <1>5, EntryIs
  <2>3. QED
    BY <2>1, <2>2 DEF Previous
<1>6. CASE i = n + 1
  <2>1. ~(i <= n) /\ ~(i > n + 1) /\ entries[i].active /\ ~Previous(i).active
    BY <1>1, <1>3, <1>4, <1>6
  <2>2. Next1Active(i)
    <3>1. CASE i = 2
      BY <3>1 DEF Next1Active
    <3>2. CASE i # 2
      <4>1. i - 1 \in EntryNumbers /\ i - 1 <= n + 1
        BY <1>1, <1>6, <3>2 DEF EntryNumbers
      <4>2. QED
        BY <1>3, <3>2, <4>1 DEF Next1Active
    <3>3. QED
      BY <3>1, <3>2
  <2>3. Takes(i, LoadData(full), Next1Active(i))
    BY <2>1, <2>2 DEF Takes
  <2>4. QED
    BY <1>2, <2>1, <2>3, EntryIs
<1>7. CASE i > n + 1
  <2>1. ~(i <= n) /\ ~(i = n + 1) /\ ~entries[i].active /\ ~Previous(i).active
    BY <1>1, <1>3, <1>4, <1>7
  <2>2. ~Takes(i, LoadData(full), Next1Active(i))
    BY <2>1 DEF Takes
  <2>3. QED
    BY <1>2, <2>1, <2>2, EntryIs
<1>8. QED
  BY <1>1, <1>5, <1>6, <1>7

(* A load from the request in PA: the line stays empty. *)
LEMMA StaysEmpty ==
    ASSUME TypeOK, CoreInv, Clock, LineInv(0), LoadData(full), NEW i \in EntryNumbers
    PROVE  ~entries'[i].active /\ entries'[i].pkt = entries[i].pkt
<1>1. /\ LastEntry \in Nat /\ i \in Int /\ 2 <= i /\ i <= LastEntry
      /\ entries[i] \in [active : BOOLEAN, pkt : Packets]
  BY PcxAssumption DEF EntryNumbers, TypeOK, EntriesTypeOK
<1>2. ~[entries[i] EXCEPT !.active = @ /\ ~LoadData(full)].active
      /\ [entries[i] EXCEPT !.active = @ /\ ~LoadData(full)].pkt = entries[i].pkt
  BY <1>1
<1>3. \A j \in EntryNumbers : ~entries[j].active
  BY DEF LineInv, EntryNumbers
<1>4. ~Previous(i).active
  <2>1. CASE i = LastEntry
    BY <1>1, <2>1 DEF Previous, Inactive
  <2>2. CASE i # LastEntry
    <3>1. i + 1 \in EntryNumbers
      BY <1>1, <2>2 DEF EntryNumbers
    <3>2. QED
      BY <1>3, <2>2, <3>1 DEF Previous
  <2>3. QED
    BY <2>1, <2>2
<1>5. ~Takes(i, LoadData(full), Next1Active(i))
  BY <1>3 DEF Takes
<1>6. QED
  BY <1>2, <1>4, <1>5, EntryIs

(* How many of them are for a destination. *)
LEMMA PlacesKept ==
    ASSUME TypeOK, CoreInv, Clock, NEW n \in 0 .. LastEntry - 1, LineInv(n), ~LoadData(full),
           Arrives \/ Follows => n < LastEntry - 1 /\ Entry1Active(full) /\ activeD1,
           NEW d \in Dests
    PROVE  Cardinality(Places(d))' = Cardinality(Places(d)) + Count((Arrives \/ Follows) /\ Comer.dest = d)
<1>1. \A i \in EntryNumbers : entries'[i] = IF (Arrives \/ Follows) /\ i = n + 2
                              THEN [active |-> TRUE, pkt |-> Comer] ELSE entries[i]
  BY Kept
<1>2. Cardinality(Places(d)) \in Nat /\ IsFiniteSet(Places(d))
  BY PlacesFinite
<1>3. Places(d)' = {i \in EntryNumbers : entries'[i].active /\ entries'[i].pkt.dest = d}
  BY DEF Places
<1>4. CASE (Arrives \/ Follows) /\ Comer.dest = d
  <2>1. n + 2 \in EntryNumbers /\ ~entries[n + 2].active
    <3>1. n + 2 \in EntryNumbers /\ ~(n + 2 <= n + 1)
      BY <1>4, PcxAssumption DEF EntryNumbers
    <3>2. QED
      BY <3>1 DEF LineInv
  <2>2. entries'[n + 2].active /\ entries'[n + 2].pkt.dest = d
    BY <1>1, <1>4, <2>1
  <2>3. Places(d)' = Places(d) \union {n + 2}
    BY <1>1, <1>3, <2>1, <2>2 DEF Places
  <2>4. n + 2 \notin Places(d)
    BY <2>1 DEF Places
  <2>5. Cardinality(Places(d) \union {n + 2})
          = IF n + 2 \in Places(d) THEN Cardinality(Places(d)) ELSE Cardinality(Places(d)) + 1
    BY <1>2, FS_AddElement
  <2>6. Cardinality(Places(d) \union {n + 2}) = Cardinality(Places(d)) + 1
    BY <2>4, <2>5
  <2>7. QED
    BY <1>4, <2>3, <2>6 DEF Count
<1>5. CASE ~((Arrives \/ Follows) /\ Comer.dest = d)
  <2>1. \A i \in EntryNumbers : (entries'[i].active /\ entries'[i].pkt.dest = d)
                                   <=> (entries[i].active /\ entries[i].pkt.dest = d)
    <3>1. SUFFICES ASSUME NEW i \in EntryNumbers
                   PROVE  (entries'[i].active /\ entries'[i].pkt.dest = d)
                             <=> (entries[i].active /\ entries[i].pkt.dest = d)
      OBVIOUS
    <3>2. CASE (Arrives \/ Follows) /\ i = n + 2
      <4>1. entries'[i].pkt.dest # d
        BY <1>1, <1>5, <3>2
      <4>2. ~entries[i].active
        <5>1. ~(i <= n + 1)
          BY <3>2
        <5>2. QED
          BY <5>1 DEF LineInv
      <4>3. QED
        BY <4>1, <4>2
    <3>3. CASE ~((Arrives \/ Follows) /\ i = n + 2)
      BY <1>1, <3>3
    <3>4. QED
      BY <3>2, <3>3
  <2>2. Places(d)' = Places(d)
    BY <1>3, <2>1 DEF Places
  <2>3. QED
    BY <1>2, <1>5, <2>2 DEF Count
<1>6. QED
  BY <1>4, <1>5

(* A set moved by one. *)
LEMMA MovedSet ==
    ASSUME NEW S, S \subseteq Int, IsFiniteSet(S)
    PROVE  /\ IsFiniteSet({i \in Int : i + 1 \in S})
           /\ Cardinality({i \in Int : i + 1 \in S}) = Cardinality(S)
<1> DEFINE T == {i \in Int : i + 1 \in S}
           f == [i \in S |-> i - 1]
<1>1. f \in [S -> T]
  BY S \subseteq Int
<1>2. \A a, b \in S : f[a] = f[b] => a = b
  <2>1. SUFFICES ASSUME NEW a \in S, NEW b \in S, f[a] = f[b] PROVE a = b
    OBVIOUS
  <2>2. a - 1 = b - 1 /\ a \in Int /\ b \in Int
    BY <2>1
  <2>3. QED
    BY <2>2
<1>3. \A t \in T : \E s \in S : f[s] = t
  <2>1. SUFFICES ASSUME NEW t \in T PROVE t + 1 \in S /\ f[t + 1] = t
    OBVIOUS
  <2>2. t + 1 \in S /\ t + 1 - 1 = t
    BY <2>1
  <2>3. QED
    BY <2>2
<1>4. f \in Bijection(S, T)
  BY <1>1, <1>2, <1>3 DEF Bijection, Injection, Surjection, IsInjective
<1>5. ExistsBijection(S, T)
  BY <1>4 DEF ExistsBijection
<1> HIDE DEF T, f
<1>6. IsFiniteSet(T) /\ Cardinality(T) = Cardinality(S)
  BY <1>5, FS_Bijection
<1>7. QED
  BY <1>6 DEF T

(* A load that shifts takes the place of the packet loaded and gives one to the packet that arrives. *)
LEMMA PlacesShifted ==
    ASSUME TypeOK, CoreInv, Clock, NEW n \in 0 .. LastEntry - 1, LineInv(n), LoadData(full),
           n > 0, Entry1Active(full) /\ activeD1, NEW d \in Dests
    PROVE  Cardinality(Places(d))' = Cardinality(Places(d)) - Count(entries[2].pkt.dest = d)
                                       + Count((Arrives \/ Follows) /\ Comer.dest = d)
<1>1. \A i \in EntryNumbers :
        /\ i <= n => entries'[i] = entries[i + 1]
        /\ i = n + 1 /\ (Arrives \/ Follows) => entries'[i] = [active |-> TRUE, pkt |-> Comer]
        /\ i = n + 1 /\ ~(Arrives \/ Follows) => ~entries'[i].active /\ entries'[i].pkt = entries[i].pkt
        /\ i > n + 1 => ~entries'[i].active
  BY Shifted
<1>2. Cardinality(Places(d)) \in Nat /\ IsFiniteSet(Places(d)) /\ Places(d) \subseteq EntryNumbers
  BY PlacesFinite
<1>3. LastEntry \in Nat /\ 2 <= LastEntry /\ n \in Int /\ 1 <= n /\ n <= LastEntry - 1 /\ 2 \in EntryNumbers
  BY PcxAssumption DEF EntryNumbers
<1>4. entries[2].active /\ (2 \in Places(d) <=> entries[2].pkt.dest = d)
  BY <1>3 DEF LineInv, Places
<1>5. \A i \in EntryNumbers : entries[i].active <=> i <= n + 1
  BY DEF LineInv
<1> DEFINE S == Places(d) \ {2}
           T == {i \in Int : i + 1 \in S}
<1>6. IsFiniteSet(S) /\ Cardinality(S) = Cardinality(Places(d)) - Count(entries[2].pkt.dest = d)
  <2>1. /\ IsFiniteSet(S)
        /\ Cardinality(S) = IF 2 \in Places(d) THEN Cardinality(Places(d)) - 1 ELSE Cardinality(Places(d))
    BY <1>2, FS_RemoveElement
  <2>2. QED
    BY <1>2, <1>4, <2>1 DEF Count
<1>7. IsFiniteSet(T) /\ Cardinality(T) = Cardinality(S)
  <2>1. S \subseteq Int
    BY <1>2 DEF EntryNumbers
  <2>2. QED
    BY <1>6, <2>1, MovedSet
<1>8. \A i : i \in T <=> i \in EntryNumbers /\ i <= n /\ entries[i + 1].pkt.dest = d
  <2>1. SUFFICES ASSUME NEW i \in Int
                 PROVE  i + 1 \in S <=> i \in EntryNumbers /\ i <= n /\ entries[i + 1].pkt.dest = d
    BY DEF EntryNumbers
  <2>2. i + 1 \in EntryNumbers /\ i + 1 # 2 /\ i + 1 <= n + 1 <=> i \in EntryNumbers /\ i <= n
    BY <1>3 DEF EntryNumbers
  <2>3. i + 1 \in S <=> i + 1 \in EntryNumbers /\ i + 1 # 2 /\ entries[i + 1].active /\ entries[i + 1].pkt.dest = d
    BY DEF Places
  <2>4. QED
    BY <1>5, <2>2, <2>3
<1>9. Places(d)' = {i \in EntryNumbers : entries'[i].active /\ entries'[i].pkt.dest = d}
  BY DEF Places
<1> HIDE DEF T
<1>10. n + 1 \in EntryNumbers /\ n + 1 \notin T
  <2>1. n + 1 \in EntryNumbers /\ ~(n + 1 <= n)
    BY <1>3 DEF EntryNumbers
  <2>2. QED
    BY <1>8, <2>1
<1>11. ASSUME NEW i \in EntryNumbers
       PROVE  i \in Places(d)' <=> i \in T \/ (i = n + 1 /\ (Arrives \/ Follows) /\ Comer.dest = d)
  <2>1. i \in Int
    BY DEF EntryNumbers
  <2>2. CASE i <= n
    <3>1. entries'[i] = entries[i + 1] /\ i # n + 1 /\ i + 1 \in EntryNumbers /\ i + 1 <= n + 1
      BY <1>1, <1>3, <2>1, <2>2 DEF EntryNumbers
    <3>2. entries[i + 1].active
      BY <1>5, <3>1
    <3>3. QED
      BY <1>8, <1>9, <2>2, <3>1, <3>2
  <2>3. CASE i = n + 1
    <3>1. ~(i <= n)
      BY <1>3, <2>3
    <3>2. i \notin T
      BY <1>8, <3>1
    <3>3. QED
      BY <1>1, <1>9, <2>3, <3>2
  <2>4. CASE i > n + 1
    <3>1. ~(i <= n) /\ i # n + 1
      BY <1>3, <2>1, <2>4
    <3>2. QED
      BY <1>1, <1>8, <1>9, <2>4, <3>1
  <2>5. QED
    BY <1>3, <2>1, <2>2, <2>3, <2>4
<1>12. T \subseteq EntryNumbers /\ Places(d)' \subseteq EntryNumbers
  BY <1>8, <1>9
<1>13. Cardinality(S) \in Int
  BY <1>6, FS_CardinalityType
<1>14. CASE (Arrives \/ Follows) /\ Comer.dest = d
  <2>1. Places(d)' = T \union {n + 1}
    BY <1>10, <1>11, <1>12, <1>14
  <2>2. Cardinality(T \union {n + 1}) = IF n + 1 \in T THEN Cardinality(T) ELSE Cardinality(T) + 1
    BY <1>7, FS_AddElement
  <2>3. Cardinality(Places(d)') = Cardinality(S) + 1
    BY <1>7, <1>10, <2>1, <2>2
  <2>4. QED
    BY <1>6, <1>13, <1>14, <2>3 DEF Count
<1>15. CASE ~((Arrives \/ Follows) /\ Comer.dest = d)
  <2>1. Places(d)' = T
    BY <1>11, <1>12, <1>15
  <2>2. Cardinality(Places(d)') = Cardinality(S)
    BY <1>7, <2>1
  <2>3. QED
    BY <1>6, <1>13, <1>15, <2>2 DEF Count
<1>16. QED
  BY <1>14, <1>15

(* A load from an empty line leaves no place taken. *)
LEMMA PlacesEmpty ==
    ASSUME TypeOK, CoreInv, Clock, LineInv(0), LoadData(full), NEW d \in Dests
    PROVE  Cardinality(Places(d))' = 0 /\ Cardinality(Places(d)) = 0
<1>1. \A i \in EntryNumbers : ~entries'[i].active
  BY StaysEmpty
<1>2. \A i \in EntryNumbers : ~entries[i].active
  BY DEF LineInv, EntryNumbers
<1>3. Places(d)' = {} /\ Places(d) = {}
  BY <1>1, <1>2 DEF Places
<1>4. QED
  BY <1>3, FS_EmptySet

-----------------------------------------------------------------------------
(* The line stays a line, halves next to each other. *)

Now(n) ==
    /\ TypeOK /\ CoreInv /\ CountersAgree /\ CreditInv /\ WordInv
    /\ n \in 0 .. LastEntry - 1 /\ LineInv(n) /\ StateInv(n) /\ HalvesInv(n)

(* What comes of an atomic that arrives. *)
LEMMA ComerNext ==
    ASSUME TypeOK, WordInv, CoreInv, CountersAgree, CreditInv, Clock
    PROVE  /\ Follows' <=> Arrives /\ Comer.atom
           /\ Follows' => px'.dest = Comer.dest
           /\ pa'.atom <=> pq.atom
<1>1. Follows' <=> Arrives /\ pa.atom
  BY AcceptedNext
<1>2. Arrives => AcceptedPa = pa /\ Comer.dest = pa.dest /\ (Comer.atom <=> pa.atom)
  BY AcceptedIs, ComerIs
<1>3. px' = AcceptedPa /\ pa' = pq
  BY ClockIs
<1>4. QED
  BY <1>1, <1>2, <1>3

(* Without a load the line keeps its packets and the packet that arrives joins it. *)
LEMMA KeptLine ==
    ASSUME NEW n, Now(n), Clock, ~LoadData(full),
           Arrives \/ Follows => n < LastEntry - 1 /\ Entry1Active(full) /\ activeD1
    PROVE  /\ ~(Arrives \/ Follows) => LineInv(n)'
           /\ Arrives \/ Follows => LineInv(n + 1)' /\ n + 1 \in 0 .. LastEntry - 1
           /\ n > 0 => entries'[2] = entries[2]
           /\ n = 0 /\ (Arrives \/ Follows) => entries'[2].pkt = Comer
<1>1. TypeOK /\ CoreInv /\ CountersAgree /\ CreditInv /\ WordInv /\ LineInv(n) /\ n \in 0 .. LastEntry - 1
  BY DEF Now
<1>2. LastEntry \in Nat /\ 2 <= LastEntry /\ n \in Int /\ 0 <= n /\ n <= LastEntry - 1 /\ 2 \in EntryNumbers
  BY <1>1, PcxAssumption DEF EntryNumbers
<1>3. \A i \in EntryNumbers : entries'[i] = IF (Arrives \/ Follows) /\ i = n + 2
                              THEN [active |-> TRUE, pkt |-> Comer] ELSE entries[i]
  BY <1>1, Kept
<1>4. /\ \A i \in EntryNumbers : entries[i].active <=> i <= n + 1
      /\ \A i \in 2 .. n + 1 : entries[i].pkt.dest \in Dests
      /\ \A i \in 2 .. n + 1 : entries[i].pkt.atom =>
            \/ /\ i < n + 1
               /\ entries[i + 1].pkt.dest = entries[i].pkt.dest /\ ~entries[i + 1].pkt.atom
            \/ i = n + 1 /\ Follows /\ px.dest = entries[i].pkt.dest
      /\ n = 0 => ~entries[2].pkt.atom
  BY <1>1 DEF LineInv
<1>5. \A i \in 2 .. n + 1 : i \in EntryNumbers /\ i # n + 2 /\ entries'[i] = entries[i]
  BY <1>2, <1>3 DEF EntryNumbers
<1>6. CASE ~(Arrives \/ Follows)
  <2>1. \A i \in EntryNumbers : entries'[i] = entries[i]
    BY <1>3, <1>6
  <2>2. \A i \in 2 .. n + 1 : i < n + 1 => i + 1 \in EntryNumbers
    BY <1>2 DEF EntryNumbers
  <2>3. \A i \in 2 .. n + 1 : entries'[i].pkt.atom =>
            /\ i < n + 1
            /\ entries'[i + 1].pkt.dest = entries'[i].pkt.dest /\ ~entries'[i + 1].pkt.atom
    BY <1>4, <1>5, <1>6, <2>1, <2>2
  <2>4. LineInv(n)'
    BY <1>2, <1>4, <1>5, <2>1, <2>3 DEF LineInv
  <2>5. QED
    BY <1>2, <1>6, <2>1, <2>4
<1>7. CASE Arrives \/ Follows
  <2>1. /\ n + 2 \in EntryNumbers /\ n + 1 \in 0 .. LastEntry - 1
        /\ entries'[n + 2] = [active |-> TRUE, pkt |-> Comer]
    <3>1. n + 2 \in EntryNumbers /\ n + 1 \in 0 .. LastEntry - 1
      BY <1>2, <1>7 DEF EntryNumbers
    <3>2. QED
      BY <1>3, <1>7, <3>1
  <2>2. entries'[n + 2].active /\ entries'[n + 2].pkt = Comer
    BY <2>1
  <2>3. ASSUME NEW i \in EntryNumbers
        PROVE  entries'[i].active <=> i <= n + 1 + 1
    <3>1. i \in Int
      BY DEF EntryNumbers
    <3>2. CASE i = n + 2
      BY <1>2, <2>2, <3>2
    <3>3. CASE i # n + 2
      <4>1. entries'[i] = entries[i] /\ (i <= n + 1 + 1 <=> i <= n + 1)
        BY <1>2, <1>3, <3>1, <3>3
      <4>2. QED
        BY <1>4, <4>1
    <3>4. QED
      BY <3>2, <3>3
  <2>4. ASSUME NEW i \in 2 .. n + 1 + 1
        PROVE  entries'[i].pkt.dest \in Dests
    <3>1. CASE i = n + 2
      BY <1>1, <1>7, <2>2, <3>1, ComerIs
    <3>2. CASE i # n + 2
      <4>1. i \in 2 .. n + 1
        BY <1>2, <3>2
      <4>2. QED
        BY <1>4, <1>5, <4>1
    <3>3. QED
      BY <3>1, <3>2
  <2>5. ASSUME NEW i \in 2 .. n + 1 + 1, entries'[i].pkt.atom
        PROVE  \/ /\ i < n + 1 + 1
                  /\ entries'[i + 1].pkt.dest = entries'[i].pkt.dest /\ ~entries'[i + 1].pkt.atom
               \/ i = n + 1 + 1 /\ Follows' /\ px'.dest = entries'[i].pkt.dest
    <3>1. CASE i = n + 2
      <4>1. Comer.atom /\ i = n + 1 + 1
        BY <1>2, <2>2, <2>5, <3>1
      <4>2. Arrives
        BY <1>1, <1>7, <4>1, ComerIs
      <4>3. Follows' /\ px'.dest = Comer.dest
        BY <1>1, <4>1, <4>2, ComerNext
      <4>4. QED
        BY <2>2, <3>1, <4>1, <4>3
    <3>2. CASE i # n + 2
      <4>1. i \in 2 .. n + 1 /\ i < n + 1 + 1
        BY <1>2, <3>2
      <4>2. entries'[i] = entries[i]
        BY <1>5, <4>1
      <4>3. CASE i < n + 1
        <5>1. i + 1 \in 2 .. n + 1 /\ i # n + 1
          BY <1>2, <4>1, <4>3
        <5>2. entries'[i + 1] = entries[i + 1]
          BY <1>5, <5>1
        <5>3. QED
          BY <1>4, <2>5, <4>1, <4>2, <5>1, <5>2
      <4>4. CASE i = n + 1
        <5>1. Follows /\ px.dest = entries[i].pkt.dest
          BY <1>2, <1>4, <2>5, <4>1, <4>2, <4>4
        <5>2. Comer.dest = px.dest /\ ~Comer.atom
          BY <1>1, <5>1, ComerIs
        <5>3. i + 1 = n + 2
          BY <1>2, <4>4
        <5>4. QED
          BY <2>2, <4>1, <4>2, <5>1, <5>2, <5>3
      <4>5. QED
        BY <1>2, <4>1, <4>3, <4>4
    <3>3. QED
      BY <3>1, <3>2
  <2>6. LineInv(n + 1)'
    BY <1>2, <2>3, <2>4, <2>5 DEF LineInv
  <2>7. n > 0 => entries'[2] = entries[2]
    BY <1>2, <1>5
  <2>8. n = 0 => entries'[2].pkt = Comer
    BY <2>2
  <2>9. QED
    BY <1>7, <2>1, <2>6, <2>7, <2>8
<1>8. QED
  BY <1>6, <1>7

(* A load moves the line up: one packet fewer, unless one arrives. *)
LEMMA ShiftedLine ==
    ASSUME NEW n, Now(n), Clock, LoadData(full), n > 0, Entry1Active(full) /\ activeD1
    PROVE  /\ ~(Arrives \/ Follows) => LineInv(n - 1)' /\ n - 1 \in 0 .. LastEntry - 1
           /\ Arrives \/ Follows => LineInv(n)'
           /\ n > 1 => entries'[2] = entries[3]
           /\ n = 1 /\ (Arrives \/ Follows) => entries'[2].pkt = Comer
<1>1. TypeOK /\ CoreInv /\ CountersAgree /\ CreditInv /\ WordInv /\ LineInv(n) /\ n \in 0 .. LastEntry - 1
  BY DEF Now
<1>2. LastEntry \in Nat /\ 2 <= LastEntry /\ n \in Int /\ 1 <= n /\ n <= LastEntry - 1 /\ 2 \in EntryNumbers
  BY <1>1, PcxAssumption DEF EntryNumbers
<1>3. \A i \in EntryNumbers :
        /\ i <= n => entries'[i] = entries[i + 1]
        /\ i = n + 1 /\ (Arrives \/ Follows) => entries'[i] = [active |-> TRUE, pkt |-> Comer]
        /\ i = n + 1 /\ ~(Arrives \/ Follows) => ~entries'[i].active /\ entries'[i].pkt = entries[i].pkt
        /\ i > n + 1 => ~entries'[i].active
  BY <1>1, Shifted
<1>4. /\ \A i \in EntryNumbers : entries[i].active <=> i <= n + 1
      /\ \A i \in 2 .. n + 1 : entries[i].pkt.dest \in Dests
      /\ \A i \in 2 .. n + 1 : entries[i].pkt.atom =>
            \/ /\ i < n + 1
               /\ entries[i + 1].pkt.dest = entries[i].pkt.dest /\ ~entries[i + 1].pkt.atom
            \/ i = n + 1 /\ Follows /\ px.dest = entries[i].pkt.dest
  BY <1>1 DEF LineInv
<1>5. ASSUME NEW i \in 2 .. n
      PROVE  /\ i \in EntryNumbers /\ i + 1 \in 2 .. n + 1 /\ i + 1 \in EntryNumbers
             /\ entries'[i] = entries[i + 1] /\ entries'[i].active
             /\ entries'[i].pkt.dest \in Dests
  <2>1. i \in EntryNumbers /\ i <= n /\ i + 1 \in 2 .. n + 1 /\ i + 1 <= n + 1 /\ i + 1 \in EntryNumbers
    BY <1>2 DEF EntryNumbers
  <2>2. QED
    BY <1>3, <1>4, <2>1
<1>6. n + 1 \in EntryNumbers /\ n + 1 \in 2 .. n + 1
  BY <1>2 DEF EntryNumbers
<1>7. n > 1 => entries'[2] = entries[3]
  <2>1. n > 1 => 2 \in 2 .. n /\ 2 + 1 = 3
    BY <1>2
  <2>2. QED
    BY <1>5, <2>1
<1>8. n = 1 /\ (Arrives \/ Follows) => entries'[2].pkt = Comer
  <2>1. n = 1 => n + 1 = 2
    OBVIOUS
  <2>2. QED
    BY <1>3, <1>6, <2>1
<1>9. CASE ~(Arrives \/ Follows)
  <2>1. n - 1 \in 0 .. LastEntry - 1 /\ n - 1 + 1 = n
    BY <1>2
  <2>2. ASSUME NEW i \in EntryNumbers
        PROVE  entries'[i].active <=> i <= n
    <3>1. i \in Int /\ 2 <= i
      BY DEF EntryNumbers
    <3>2. i <= n => i \in 2 .. n
      BY <1>2, <3>1
    <3>3. ~(i <= n) => i = n + 1 \/ i > n + 1
      BY <1>2, <3>1
    <3>4. QED
      BY <1>3, <1>5, <1>9, <3>2, <3>3
  <2>3. ASSUME NEW i \in 2 .. n, entries'[i].pkt.atom
        PROVE  /\ i < n
               /\ entries'[i + 1].pkt.dest = entries'[i].pkt.dest /\ ~entries'[i + 1].pkt.atom
    <3>1. entries[i + 1].pkt.atom /\ entries'[i] = entries[i + 1] /\ i + 1 \in 2 .. n + 1
      BY <1>5, <2>3
    <3>2. i + 1 < n + 1 /\ entries[i + 1 + 1].pkt.dest = entries[i + 1].pkt.dest /\ ~entries[i + 1 + 1].pkt.atom
      BY <1>4, <1>9, <3>1
    <3>3. i < n /\ i + 1 \in 2 .. n
      BY <1>2, <3>2
    <3>4. entries'[i + 1] = entries[i + 1 + 1]
      BY <1>5, <3>3
    <3>5. QED
      BY <3>1, <3>2, <3>3, <3>4
  <2>4. n - 1 = 0 => ~entries'[2].pkt.atom
    <3>1. SUFFICES ASSUME n = 1 PROVE ~entries'[2].pkt.atom
      BY <1>2
    <3>2. n + 1 = 2 /\ 2 \in 2 .. n + 1 /\ ~(2 < n + 1)
      BY <3>1
    <3>3. ~entries[2].pkt.atom
      BY <1>4, <1>9, <3>2
    <3>4. entries'[2].pkt = entries[2].pkt
      BY <1>2, <1>3, <1>9, <3>2
    <3>5. QED
      BY <3>3, <3>4
  <2>5. \A i \in 2 .. n : entries'[i].pkt.dest \in Dests
    BY <1>5
  <2>6. LineInv(n - 1)'
    BY <2>1, <2>2, <2>3, <2>4, <2>5 DEF LineInv
  <2>7. QED
    BY <1>7, <1>8, <1>9, <2>1, <2>6
<1>10. CASE Arrives \/ Follows
  <2>1. entries'[n + 1].active /\ entries'[n + 1].pkt = Comer
    BY <1>3, <1>6, <1>10
  <2>2. ASSUME NEW i \in EntryNumbers
        PROVE  entries'[i].active <=> i <= n + 1
    <3>1. i \in Int /\ 2 <= i
      BY DEF EntryNumbers
    <3>2. i <= n + 1 => i \in 2 .. n \/ i = n + 1
      BY <1>2, <3>1
    <3>3. ~(i <= n + 1) => i > n + 1
      BY <1>2, <3>1
    <3>4. QED
      BY <1>3, <1>5, <2>1, <3>2, <3>3
  <2>3. \A i \in 2 .. n + 1 : i \in 2 .. n \/ i = n + 1
    BY <1>2
  <2>4. \A i \in 2 .. n + 1 : entries'[i].pkt.dest \in Dests
    BY <1>1, <1>5, <1>10, <2>1, <2>3, ComerIs
  <2>5. ASSUME NEW i \in 2 .. n + 1, entries'[i].pkt.atom
        PROVE  \/ /\ i < n + 1
                  /\ entries'[i + 1].pkt.dest = entries'[i].pkt.dest /\ ~entries'[i + 1].pkt.atom
               \/ i = n + 1 /\ Follows' /\ px'.dest = entries'[i].pkt.dest
    <3>1. CASE i = n + 1
      <4>1. Comer.atom
        BY <2>1, <2>5, <3>1
      <4>2. Arrives
        BY <1>1, <1>10, <4>1, ComerIs
      <4>3. Follows' /\ px'.dest = Comer.dest
        BY <1>1, <4>1, <4>2, ComerNext
      <4>4. QED
        BY <2>1, <3>1, <4>3
    <3>2. CASE i \in 2 .. n
      <4>1. entries[i + 1].pkt.atom /\ entries'[i] = entries[i + 1] /\ i + 1 \in 2 .. n + 1
        BY <1>5, <2>5, <3>2
      <4>2. i < n + 1 /\ i \in Int
        BY <1>2, <3>2
      <4>3. CASE i + 1 < n + 1
        <5>1. entries[i + 1 + 1].pkt.dest = entries[i + 1].pkt.dest /\ ~entries[i + 1 + 1].pkt.atom
          <6>1. i + 1 # n + 1
            BY <1>2, <4>2, <4>3
          <6>2. QED
            BY <1>4, <4>1, <6>1
        <5>2. i + 1 \in 2 .. n
          BY <1>2, <3>2, <4>3
        <5>3. entries'[i + 1] = entries[i + 1 + 1]
          BY <1>5, <5>2
        <5>4. QED
          BY <4>1, <4>2, <5>1, <5>3
      <4>4. CASE i + 1 = n + 1
        <5>1. Follows /\ px.dest = entries[i + 1].pkt.dest
          <6>1. ~(i + 1 < n + 1)
            BY <1>2, <4>4
          <6>2. QED
            BY <1>4, <4>1, <6>1
        <5>2. Comer.dest = px.dest /\ ~Comer.atom
          BY <1>1, <5>1, ComerIs
        <5>3. QED
          BY <2>1, <4>1, <4>2, <4>4, <5>1, <5>2
      <4>5. QED
        BY <1>2, <3>2, <4>3, <4>4
    <3>3. QED
      BY <2>3, <3>1, <3>2
  <2>6. n # 0
    BY <1>2
  <2>7. LineInv(n)'
    BY <2>2, <2>4, <2>5, <2>6 DEF LineInv
  <2>8. QED
    BY <1>7, <1>8, <1>10, <2>7
<1>11. QED
  BY <1>9, <1>10

(* A load from the request in PA leaves the line empty. *)
LEMMA EmptyLine ==
    ASSUME Now(0), Clock, LoadData(full)
    PROVE  LineInv(0)'
<1>1. TypeOK /\ CoreInv /\ LineInv(0)
  BY DEF Now
<1>2. \A i \in EntryNumbers : ~entries'[i].active /\ entries'[i].pkt = entries[i].pkt
  BY <1>1, StaysEmpty
<1>3. 2 \in EntryNumbers /\ \A i \in EntryNumbers : ~(i <= 1)
  BY PcxAssumption DEF EntryNumbers
<1>4. ~entries[2].pkt.atom
  BY <1>1 DEF LineInv
<1>5. QED
  BY <1>2, <1>3, <1>4 DEF LineInv

(* With nothing on the way, a packet arrives next just if PQ has one. *)
LEMMA ComesNext ==
    ASSUME NEW n, Now(n), Clock
    PROVE  /\ AnyReqPq /\ ~Arrives /\ ~Follows => Arrives'
           /\ Arrives' /\ ~Arrives /\ ~Follows => AnyReqPq
           /\ Arrives' => (AcceptedPa'.atom <=> pq.atom) /\ AcceptedPa' = pq
<1>1. TypeOK /\ CoreInv /\ CountersAgree /\ CreditInv /\ WordInv
  BY DEF Now
<1>2. Arrives' => AcceptedPa' = pq
  BY <1>1, AcceptedNext
<1>3. ASSUME NEW d \in Dests, pq.dest = d, ~Arrives, ~Follows
      PROVE  AcceptedPa'.dest = d <=> AnyReqPq
  <2>1. AcceptedPa'.dest = d <=> Full(d) - Count(grant = d) < 2
    BY <1>1, <1>3, AcceptedNext
  <2>2. /\ link[d] \in Int /\ Full(d) \in {0, 1, 2}
        /\ Full(d) = link[d] + Count(AcceptedPa.dest = d) + Count(px.dest = d /\ px.atom)
    BY <1>1, <1>3, LinkFacts
  <2>3. ~(AcceptedPa.dest = d) /\ ~(px.dest = d /\ px.atom)
    BY <1>3, PcxAssumption DEF Arrives, Follows
  <2>4. Full(d) = link[d]
    BY <2>2, <2>3 DEF Count
  <2>5. AnyReqPq <=> (link[d] >= 2 => grant = d)
    BY <1>3, PcxAssumption DEF AnyReqPq, Masked
  <2>6. QED
    BY <2>1, <2>2, <2>4, <2>5 DEF Count
<1>4. pq.dest # NoDest => pq.dest \in Dests
  BY <1>1, RequestTypes DEF TypeOK, CoreTypeOK, Signals
<1>5. AnyReqPq /\ ~Arrives /\ ~Follows => Arrives'
  <2>1. SUFFICES ASSUME AnyReqPq, ~Arrives, ~Follows PROVE Arrives'
    OBVIOUS
  <2>2. PICK d \in Dests : pq.dest = d
    BY <1>4, <2>1 DEF AnyReqPq
  <2>3. AcceptedPa'.dest = d
    BY <1>3, <2>1, <2>2
  <2>4. QED
    BY <2>3, PcxAssumption DEF Arrives
<1>6. Arrives' /\ ~Arrives /\ ~Follows => AnyReqPq
  <2>1. SUFFICES ASSUME Arrives', ~Arrives, ~Follows PROVE AnyReqPq
    OBVIOUS
  <2>2. pq.dest # NoDest /\ AcceptedPa'.dest = pq.dest
    BY <1>2, <2>1 DEF Arrives
  <2>3. PICK d \in Dests : pq.dest = d
    BY <1>4, <2>2
  <2>4. QED
    BY <1>3, <2>1, <2>2, <2>3
<1>7. QED
  BY <1>2, <1>5, <1>6

-----------------------------------------------------------------------------
(* Every state of the machine. *)

InLine == \E n \in 0 .. LastEntry - 1 : LineInv(n) /\ StateInv(n) /\ HalvesInv(n)
Others(d) == Count(SendingTo(d)) + Count(FirstSent(d)) + Count(SecondSent(d))

(* What a grant takes from the count, or an arrival adds, is accounted for. *)
LEMMA CreditNext ==
    ASSUME NEW n, Now(n), Clock,
           \A d \in Dests : Cardinality(Places(d))' + Others(d)' + Count(grant' = d)
                = Cardinality(Places(d)) + Others(d) + Count((Arrives \/ Follows) /\ Comer.dest = d)
    PROVE  CreditInv'
<1>1. TypeOK /\ CoreInv /\ CountersAgree /\ CreditInv /\ WordInv
  BY DEF Now
<1>2. ASSUME NEW d \in Dests
      PROVE  link'[d] = Cardinality(Places(d))' + Others(d)' + Count(grant' = d)
  <2>1. link'[d] = Full(d) - Count(grant = d)
    BY <1>1, LinkStep
  <2>2. Full(d) = link[d] + Count(AcceptedPa.dest = d) + Count(px.dest = d /\ px.atom)
    BY <1>1, LinkFacts
  <2>3. PICK p \in Nat : p = Cardinality(Places(d))
    BY PlacesFinite
  <2>4. PICK o \in Nat : o = Others(d)
    BY DEF Others, Count
  <2>5. link[d] = p + o + Count(grant = d)
    BY <1>1, <2>3, <2>4 DEF CreditInv, Others, Count
  <2>6. Count((Arrives \/ Follows) /\ Comer.dest = d)
           = Count(AcceptedPa.dest = d) + Count(px.dest = d /\ px.atom)
    BY <1>1, ComerIs DEF Count
  <2>7. link'[d] = p + o + Count((Arrives \/ Follows) /\ Comer.dest = d)
    BY <2>1, <2>2, <2>5, <2>6 DEF Count
  <2>8. QED
    BY <1>2, <2>3, <2>4, <2>7
<1>3. ASSUME NEW d \in Dests
      PROVE  link'[d] = Cardinality(Places(d))' + Count(SendingTo(d))' + Count(FirstSent(d))'
                           + Count(SecondSent(d))' + Count(grant' = d)
  <2>1. link'[d] = Cardinality(Places(d))' + Others(d)' + Count(grant' = d)
    BY <1>2
  <2>2. Others(d)' = Count(SendingTo(d))' + Count(FirstSent(d))' + Count(SecondSent(d))'
    BY DEF Others
  <2>3. (IsFiniteSet(Places(d)) /\ Cardinality(Places(d)) \in Nat)'
    BY PlacesFinite, PTL
  <2>4. PICK p \in Nat : p = Cardinality(Places(d))'
    BY <2>3
  <2>5. QED
    BY <2>1, <2>2, <2>4 DEF Count
<1>4. QED
  BY <1>3 DEF CreditInv, Count

(* Nothing leaves the line. *)
LEMMA CreditKept ==
    ASSUME NEW n, Now(n), Clock, ~LoadData(full),
           Arrives \/ Follows => n < LastEntry - 1 /\ Entry1Active(full) /\ activeD1,
           \A d \in Dests : Others(d)' + Count(grant' = d) = Others(d)
    PROVE  CreditInv'
<1>1. TypeOK /\ CoreInv /\ LineInv(n) /\ n \in 0 .. LastEntry - 1
  BY DEF Now
<1>2. ASSUME NEW d \in Dests
      PROVE  Cardinality(Places(d))' + Others(d)' + Count(grant' = d)
                = Cardinality(Places(d)) + Others(d) + Count((Arrives \/ Follows) /\ Comer.dest = d)
  <2>1. Cardinality(Places(d))' = Cardinality(Places(d)) + Count((Arrives \/ Follows) /\ Comer.dest = d)
    BY <1>1, <1>2, PlacesKept
  <2>2. PICK p \in Nat : p = Cardinality(Places(d))
    BY PlacesFinite
  <2>3. PICK o \in Nat : o = Others(d)
    BY DEF Others, Count
  <2>4. PICK q \in Nat : q = Others(d)'
    BY DEF Others, Count
  <2>5. QED
    BY <1>2, <2>1, <2>2, <2>3, <2>4 DEF Count
<1>3. QED
  BY <1>2, CreditNext

(* IDLE: the line is empty. *)
LEMMA IdleStep ==
    ASSUME NEW n, Now(n), Clock, state = "IDLE"
    PROVE  InLine' /\ CreditInv'
<1>1. TypeOK /\ CoreInv /\ CountersAgree /\ CreditInv /\ WordInv /\ LineInv(n) /\ StateInv(n) /\ HalvesInv(n)
      /\ n \in 0 .. LastEntry - 1
  BY DEF Now
<1>2. n = 0 /\ ~Arrives /\ ~Follows /\ ~LoadData(full) /\ ~Sending
  BY <1>1 DEF StateInv, LoadData, Sending
<1>3. ~atomicSecond
  BY <1>1, <1>2 DEF HalvesInv
<1>4. Idle(AnyReqPq, pq.atom) /\ grant' = (IF NextGrant(full, Pending) THEN destD1 ELSE NoDest)
      /\ (atomicSecondD1' <=> atomicSecond)
  BY <1>1, StatesAre
<1>5. /\ state' = IF AnyReqPq THEN "LOAD" ELSE "IDLE"
      /\ (atomicFirst' <=> AnyReqPq /\ pq.atom) /\ ~atomicSecond'
  BY <1>4 DEF Idle
<1>6. LineInv(n)'
  BY <1>2, KeptLine
<1>7. (Arrives' <=> AnyReqPq) /\ ~Follows' /\ (pa'.atom <=> pq.atom)
  BY <1>1, <1>2, ComesNext, ComerNext
<1>8. StateInv(n)'
  BY <1>2, <1>5, <1>7 DEF StateInv, Sending
<1>9. HalvesInv(n)'
  BY <1>3, <1>4, <1>5, <1>7 DEF HalvesInv, Sending
<1>10. ASSUME NEW d \in Dests
       PROVE  Others(d)' + Count(grant' = d) = Others(d)
  <2>1. d # NoDest
    BY PcxAssumption
  <2>2. NextGrant(full, Pending) <=> atomicSecondD1
    BY DEF NextGrant
  <2>3. grant' = d <=> SecondSent(d)
    BY <1>3, <1>4, <2>1, <2>2 DEF SecondSent
  <2>4. ~SendingTo(d) /\ ~FirstSent(d)
    BY <1>2, <1>3 DEF SendingTo, FirstSent
  <2>5. ~SendingTo(d)' /\ ~FirstSent(d)' /\ ~SecondSent(d)'
    BY <1>3, <1>4, <1>5 DEF SendingTo, FirstSent, SecondSent, Sending
  <2>6. Others(d)' = 0 /\ Others(d) = Count(SecondSent(d))
    BY <2>4, <2>5 DEF Others, Count
  <2>7. QED
    BY <2>3, <2>6 DEF Count
<1>11. CreditInv'
  BY <1>2, <1>10, CreditKept
<1>12. QED
  BY <1>1, <1>6, <1>8, <1>9, <1>11 DEF InLine

(* LOAD: entry 1 takes the packet that arrives. *)
LEMMA Takes1 ==
    ASSUME NEW n, Now(n), Clock, state = "LOAD"
    PROVE  /\ n = 0 /\ Arrives /\ ~Follows /\ LoadData(full) /\ ~Sending
           /\ state' = "SHIFT" /\ entry1'.pkt = Comer
<1>1. TypeOK /\ CoreInv /\ LineInv(n) /\ StateInv(n)
  BY DEF Now
<1>2. n = 0 /\ Arrives /\ ~Follows /\ LoadData(full) /\ ~Sending
  BY <1>1 DEF StateInv, LoadData, Sending
<1>3. ~entries[2].active
  <2>1. 2 \in EntryNumbers /\ ~(2 <= n + 1)
    BY <1>2, PcxAssumption DEF EntryNumbers
  <2>2. QED
    BY <1>1, <2>1 DEF LineInv
<1>4. entry1'.pkt = First(AcceptedPa)
  BY <1>2, <1>3, ClockIs DEF EntriesTick, Entry1Next, ShiftData
<1>5. Load
  BY <1>1, StatesAre
<1>6. QED
  BY <1>1, <1>2, <1>4, <1>5, ComerIs DEF Load

(* So entry 1 sends and the line is empty. *)
LEMMA LoadStep ==
    ASSUME NEW n, Now(n), Clock, state = "LOAD"
    PROVE  InLine' /\ CreditInv'
<1>1. TypeOK /\ CoreInv /\ CountersAgree /\ CreditInv /\ WordInv /\ LineInv(n) /\ StateInv(n) /\ HalvesInv(n)
      /\ n \in 0 .. LastEntry - 1
  BY DEF Now
<1>2. n = 0 /\ Arrives /\ ~Follows /\ LoadData(full) /\ ~Sending
  BY <1>1 DEF StateInv, LoadData, Sending
<1>3. ~atomicSecond
  BY <1>1, <1>2 DEF HalvesInv
<1>4. Load /\ grant' = (IF NextGrant(full, Pending) THEN destD1 ELSE NoDest)
      /\ (atomicSecondD1' <=> atomicSecond) /\ (activeD1' <=> Entry1Active(full))
  BY <1>1, StatesAre
<1>5. /\ state' = "SHIFT" /\ count' = 3
      /\ (atomicFirst' <=> atomicFirst) /\ ~atomicSecond'
  BY <1>3, <1>4 DEF Load, StartCount
<1>6. LineInv(n)'
  BY <1>2, EmptyLine
<1>7. Follows' <=> Comer.atom
  BY <1>1, <1>2, ComerNext
<1>8. entry1'.pkt = Comer /\ Comer.dest \in Dests
  <2>1. entry1'.pkt = Comer
    BY Takes1
  <2>2. QED
    BY <1>1, <1>2, <2>1, ComerIs
<1>9. StateInv(n)'
  <2>1. activeD1'
    BY <1>4 DEF Entry1Active
  <2>2. QED
    BY <1>2, <1>5, <1>8, <2>1 DEF StateInv, Sending
<1>10. HalvesInv(n)'
  <2>1. atomicFirst => pa.atom
    BY <1>1 DEF HalvesInv
  <2>2. atomicFirst' => Follows' /\ px'.dest = entry1'.pkt.dest
    BY <1>1, <1>2, <1>5, <1>7, <1>8, <2>1, ComerIs, ComerNext
  <2>3. QED
    BY <1>2, <1>3, <1>4, <1>5, <2>2 DEF HalvesInv, Sending
<1>11. ASSUME NEW d \in Dests
       PROVE  Cardinality(Places(d))' + Others(d)' + Count(grant' = d)
                = Cardinality(Places(d)) + Others(d) + Count((Arrives \/ Follows) /\ Comer.dest = d)
  <2>1. d # NoDest
    BY PcxAssumption
  <2>2. NextGrant(full, Pending) <=> atomicSecondD1
    BY DEF NextGrant
  <2>3. grant' = d <=> SecondSent(d)
    BY <1>3, <1>4, <2>1, <2>2 DEF SecondSent
  <2>4. ~SendingTo(d) /\ ~FirstSent(d)
    BY <1>2, <1>3 DEF SendingTo, FirstSent
  <2>5. (SendingTo(d)' <=> Comer.dest = d) /\ ~FirstSent(d)' /\ ~SecondSent(d)'
    BY <1>3, <1>4, <1>5, <1>8 DEF SendingTo, FirstSent, SecondSent, Sending
  <2>6. Others(d)' = Count(Comer.dest = d) /\ Others(d) = Count(SecondSent(d))
    BY <2>4, <2>5 DEF Others, Count
  <2>7. Cardinality(Places(d))' = 0 /\ Cardinality(Places(d)) = 0
    BY <1>1, <1>2, <1>11, PlacesEmpty
  <2>8. QED
    BY <1>2, <2>3, <2>6, <2>7 DEF Count
<1>12. CreditInv'
  BY <1>11, CreditNext
<1>13. QED
  BY <1>1, <1>6, <1>9, <1>10, <1>12 DEF InLine

(* SHIFT, or the last word while the FIFO is full: entry 1 keeps its packet. *)
LEMMA Holds ==
    ASSUME NEW n, Now(n), Clock, Sending, state = "SHIFT" \/ full
    PROVE  /\ ~LoadData(full) /\ Entry1Active(full) /\ activeD1 /\ entry1.pkt.dest \in Dests
           /\ n \in Int /\ 0 <= n /\ state \in {"SHIFT", "LDWAIT", "WAIT"}
           /\ Arrives \/ Follows => n < LastEntry - 1
           /\ entry1'.pkt = entry1.pkt
           /\ (atomicFirst' <=> atomicFirst) /\ (atomicSecond' <=> atomicSecond)
           /\ state' \in {"SHIFT", "LDWAIT", "WAIT"}
<1>1. TypeOK /\ CoreInv /\ CountersAgree /\ CreditInv /\ LineInv(n) /\ StateInv(n) /\ n \in 0 .. LastEntry - 1
  BY DEF Now
<1>2. /\ ~LoadData(full) /\ Entry1Active(full) /\ activeD1 /\ entry1.pkt.dest \in Dests
      /\ n \in Int /\ 0 <= n /\ state \in {"SHIFT", "LDWAIT", "WAIT"}
  <2>1. state \in {"SHIFT", "LDWAIT", "WAIT"}
    BY DEF Sending
  <2>2. ~LoadData(full) /\ Entry1Active(full)
    BY <2>1 DEF LoadData, Entry1Active
  <2>3. n \in Int /\ 0 <= n
    BY <1>1
  <2>4. QED
    BY <1>1, <2>1, <2>2, <2>3 DEF StateInv
<1>3. Arrives \/ Follows => n < LastEntry - 1
  BY <1>1, <1>2, Room
<1>4. entry1'.pkt = entry1.pkt
  <2>1. entry1 \in [pkt : Packets, pos : 0 .. 3]
    BY <1>1 DEF TypeOK, EntriesTypeOK
  <2>2. entry1' = Entry1Next(LoadData(full), ShiftData(full), AcceptedPa)
    BY ClockIs DEF EntriesTick
  <2>3. QED
    BY <1>2, <2>1, <2>2 DEF Entry1Next
<1>5. /\ (atomicFirst' <=> atomicFirst) /\ (atomicSecond' <=> atomicSecond)
      /\ state' \in {"SHIFT", "LDWAIT", "WAIT"}
  <2>1. CASE state = "SHIFT"
    <3>1. Shift(full, Pending)
      BY <1>1, <2>1, StatesAre
    <3>2. QED
      BY <2>1, <3>1 DEF Shift
  <2>2. CASE state = "LDWAIT" /\ full
    <3>1. LoadWait(full, entries[2].pkt.atom)
      BY <1>1, <2>2, StatesAre
    <3>2. QED
      BY <2>2, <3>1 DEF LoadWait
  <2>3. CASE state = "WAIT" /\ full
    <3>1. Wait(full, Pending)
      BY <1>1, <2>3, StatesAre
    <3>2. QED
      BY <2>3, <3>1 DEF Wait
  <2>4. QED
    BY <1>2, <2>1, <2>2, <2>3
<1>6. QED
  BY <1>2, <1>3, <1>4, <1>5

(* So the line only grows. *)
LEMMA HoldStep ==
    ASSUME NEW n, Now(n), Clock, Sending, state = "SHIFT" \/ full
    PROVE  InLine' /\ CreditInv'
<1>1. TypeOK /\ CoreInv /\ CountersAgree /\ CreditInv /\ WordInv /\ LineInv(n) /\ StateInv(n) /\ HalvesInv(n)
      /\ n \in 0 .. LastEntry - 1
  BY DEF Now
<1>2. /\ ~LoadData(full) /\ Entry1Active(full) /\ activeD1 /\ entry1.pkt.dest \in Dests
      /\ n \in Int /\ 0 <= n /\ state \in {"SHIFT", "LDWAIT", "WAIT"}
      /\ Arrives \/ Follows => n < LastEntry - 1
  BY Holds
<1>4. /\ ~(Arrives \/ Follows) => LineInv(n)'
      /\ Arrives \/ Follows => LineInv(n + 1)' /\ n + 1 \in 0 .. LastEntry - 1
      /\ n > 0 => entries'[2] = entries[2]
      /\ n = 0 /\ (Arrives \/ Follows) => entries'[2].pkt = Comer
  BY <1>2, KeptLine
<1>5. entry1'.pkt = entry1.pkt
  BY Holds
<1>6. entries[2].active <=> n > 0
  <2>1. 2 \in EntryNumbers /\ (2 <= n + 1 <=> n > 0)
    BY <1>2, PcxAssumption DEF EntryNumbers
  <2>2. QED
    BY <1>1, <2>1 DEF LineInv
<1>7. /\ (Follows' <=> Arrives /\ Comer.atom)
      /\ ~Arrives /\ ~Follows => (Arrives' <=> AnyReqPq)
  BY <1>1, ComesNext, ComerNext
<1>8. /\ (atomicFirst' <=> atomicFirst) /\ (atomicSecond' <=> atomicSecond)
      /\ state' \in {"SHIFT", "LDWAIT", "WAIT"}
  BY Holds
<1>9. /\ state' = "LDWAIT" => n > 0 \/ Arrives \/ AnyReqPq
      /\ state' = "WAIT" => n = 0 /\ ~Arrives /\ ~Follows /\ ~AnyReqPq /\ ~atomicFirst
  <2>1. CASE state = "SHIFT"
    <3>1. Shift(full, Pending)
      BY <1>1, <2>1, StatesAre
    <3>2. /\ state' = "LDWAIT" => Pending
          /\ state' = "WAIT" => ~Pending /\ ~(count > 1)
      BY <2>1, <3>1 DEF Shift
    <3>3. /\ Follows => n > 0 \/ count = 3
          /\ atomicFirst => n > 0 \/ count = 3
      BY <1>1, <2>1 DEF StateInv, HalvesInv, Sending
    <3>4. ~(count > 1) => count # 3
      OBVIOUS
    <3>5. Pending <=> n > 0 \/ Arrives \/ AnyReqPq
      BY <1>6 DEF Pending
    <3>6. ~(n > 0) => n = 0
      BY <1>2
    <3>7. QED
      BY <3>2, <3>3, <3>4, <3>5, <3>6
  <2>2. CASE state = "LDWAIT" /\ full
    <3>1. LoadWait(full, entries[2].pkt.atom)
      BY <1>1, <2>2, StatesAre
    <3>2. state' = "LDWAIT"
      BY <2>2, <3>1 DEF LoadWait
    <3>3. n > 0 \/ Arrives
      BY <1>1, <2>2 DEF StateInv
    <3>4. QED
      BY <3>2, <3>3
  <2>3. CASE state = "WAIT" /\ full
    <3>1. Wait(full, Pending)
      BY <1>1, <2>3, StatesAre
    <3>2. state' = IF Pending THEN "LDWAIT" ELSE "WAIT"
      BY <2>3, <3>1 DEF Wait
    <3>3. n = 0 /\ ~Arrives /\ ~Follows /\ ~atomicFirst
      BY <1>1, <2>3 DEF StateInv, HalvesInv
    <3>4. Pending <=> AnyReqPq
      BY <1>6, <3>3 DEF Pending
    <3>5. QED
      BY <3>2, <3>3, <3>4
  <2>4. QED
    BY <1>2, <2>1, <2>2, <2>3
<1>10. PICK k \in 0 .. LastEntry - 1 :
          /\ LineInv(k)' /\ (k > 0 <=> n > 0 \/ Arrives \/ Follows) /\ (k = 0 <=> ~(k > 0))
  <2>1. CASE Arrives \/ Follows
    <3>1. LineInv(n + 1)' /\ n + 1 \in 0 .. LastEntry - 1 /\ n + 1 > 0 /\ n + 1 # 0
      BY <1>2, <1>4, <2>1
    <3>2. QED
      BY <2>1, <3>1
  <2>2. CASE ~(Arrives \/ Follows)
    <3>1. LineInv(n)' /\ (n = 0 <=> ~(n > 0))
      BY <1>2, <1>4, <2>2
    <3>2. QED
      BY <1>1, <2>2, <3>1
  <2>3. QED
    BY <2>1, <2>2
<1>11. activeD1' /\ destD1' = entry1.pkt.dest
  BY <1>1, <1>2, StatesAre
<1>12. StateInv(k)'
  <2>1. Follows' => k > 0
    BY <1>7, <1>10
  <2>2. state' = "LDWAIT" => k > 0 \/ Arrives'
    BY <1>7, <1>9, <1>10
  <2>3. state' = "WAIT" => k = 0 /\ ~Arrives' /\ ~Follows'
    <3>1. SUFFICES ASSUME state' = "WAIT" PROVE k = 0 /\ ~Arrives' /\ ~Follows'
      OBVIOUS
    <3>2. n = 0 /\ ~Arrives /\ ~Follows /\ ~AnyReqPq
      BY <1>9, <3>1
    <3>3. ~(n > 0)
      BY <3>2
    <3>4. QED
      BY <1>7, <1>10, <3>2, <3>3
  <2>4. QED
    BY <1>2, <1>5, <1>8, <1>11, <2>1, <2>2, <2>3 DEF StateInv, Sending
<1>13. HalvesInv(k)'
  <2>1. atomicFirst => k > 0 /\ entries'[2].pkt.dest = entry1.pkt.dest /\ ~entries'[2].pkt.atom
    <3>1. SUFFICES ASSUME atomicFirst
                   PROVE  k > 0 /\ entries'[2].pkt.dest = entry1.pkt.dest /\ ~entries'[2].pkt.atom
      OBVIOUS
    <3>2. \/ n > 0 /\ entries[2].pkt.dest = entry1.pkt.dest /\ ~entries[2].pkt.atom
          \/ n = 0 /\ Follows /\ px.dest = entry1.pkt.dest
      BY <1>1, <3>1 DEF HalvesInv
    <3>3. CASE n > 0 /\ entries[2].pkt.dest = entry1.pkt.dest /\ ~entries[2].pkt.atom
      BY <1>4, <1>10, <3>3
    <3>4. CASE n = 0 /\ Follows /\ px.dest = entry1.pkt.dest
      <4>1. Comer.dest = px.dest /\ ~Comer.atom
        BY <1>1, <3>4, ComerIs
      <4>2. QED
        BY <1>4, <1>10, <3>4, <4>1
    <3>5. QED
      BY <3>2, <3>3, <3>4
  <2>2. atomicSecondD1' <=> atomicSecond
    BY <1>1, StatesAre
  <2>3. atomicFirst' => state' \in {"SHIFT", "LDWAIT"}
    BY <1>8, <1>9
  <2>4. atomicSecond => ~atomicFirst
    BY <1>1 DEF HalvesInv
  <2>5. QED
    BY <1>5, <1>8, <2>1, <2>2, <2>3, <2>4 DEF HalvesInv, Sending
<1>14. ASSUME NEW d \in Dests
       PROVE  Others(d)' + Count(grant' = d) = Others(d)
  <2>1. d # NoDest
    BY PcxAssumption
  <2>2. /\ grant' = IF NextGrant(full, Pending) THEN destD1 ELSE NoDest
        /\ (atomicSecondD1' <=> atomicSecond)
    BY <1>1, StatesAre
  <2>3. NextGrant(full, Pending) <=> atomicSecondD1 /\ ~atomicSecond
    <3>1. CASE state = "SHIFT"
      <4>1. atomicSecondD1 /\ ~atomicSecond => count = 3
        BY <1>1, <3>1 DEF HalvesInv
      <4>2. count = 3 => count > 1
        OBVIOUS
      <4>3. QED
        BY <3>1, <4>1, <4>2 DEF NextGrant
    <3>2. CASE state \in {"LDWAIT", "WAIT"} /\ full
      <4>1. ~(atomicSecondD1 /\ ~atomicSecond)
        BY <1>1, <3>2 DEF HalvesInv
      <4>2. QED
        BY <3>2, <4>1 DEF NextGrant
    <3>3. QED
      BY <1>2, <3>1, <3>2
  <2>4. grant' = d <=> SecondSent(d)
    BY <2>1, <2>2, <2>3 DEF SecondSent
  <2>5. (SendingTo(d)' <=> SendingTo(d)) /\ (FirstSent(d)' <=> FirstSent(d)) /\ ~SecondSent(d)'
    BY <1>5, <1>8, <2>2 DEF SendingTo, FirstSent, SecondSent, Sending
  <2>6. QED
    BY <2>4, <2>5 DEF Others, Count
<1>15. CreditInv'
  BY <1>2, <1>14, CreditKept
<1>16. QED
  BY <1>10, <1>12, <1>13, <1>15 DEF InLine

(* The last word out with nothing behind it. *)
LEMMA WaitStep ==
    ASSUME NEW n, Now(n), Clock, state = "WAIT", ~full
    PROVE  InLine' /\ CreditInv'
<1>1. TypeOK /\ CoreInv /\ CountersAgree /\ CreditInv /\ WordInv /\ LineInv(n) /\ StateInv(n) /\ HalvesInv(n)
      /\ n \in 0 .. LastEntry - 1
  BY DEF Now
<1>2. /\ n = 0 /\ ~Arrives /\ ~Follows /\ ~LoadData(full) /\ ~atomicFirst
      /\ destD1 = entry1.pkt.dest /\ entry1.pkt.dest \in Dests
  BY <1>1 DEF StateInv, HalvesInv, LoadData, Sending
<1>3. LineInv(n)'
  BY <1>2, KeptLine
<1>4. Wait(full, Pending) /\ grant' = (IF NextGrant(full, Pending) THEN destD1 ELSE NoDest)
      /\ (atomicSecondD1' <=> atomicSecond) /\ destD1' = entry1.pkt.dest
  BY <1>1, StatesAre
<1>5. Pending <=> AnyReqPq
  <2>1. 2 \in EntryNumbers /\ ~(2 <= n + 1)
    BY <1>2, PcxAssumption DEF EntryNumbers
  <2>2. ~entries[2].active
    BY <1>1, <2>1 DEF LineInv
  <2>3. QED
    BY <1>2, <2>2 DEF Pending
<1>6. /\ state' = IF AnyReqPq THEN "LOAD" ELSE "IDLE"
      /\ ~atomicFirst' /\ ~atomicSecond'
  <2>1. state' = IF Pending THEN "LOAD" ELSE "IDLE"
    BY <1>4 DEF Wait
  <2>2. atomicFirst' = FALSE /\ atomicSecond' = (Pending /\ atomicFirst)
    BY <1>4 DEF Wait
  <2>3. QED
    BY <1>2, <1>5, <2>1, <2>2
<1>7. (Arrives' <=> AnyReqPq) /\ ~Follows'
  BY <1>1, <1>2, ComesNext, ComerNext
<1>8. StateInv(n)'
  BY <1>2, <1>6, <1>7 DEF StateInv, Sending
<1>9. HalvesInv(n)'
  BY <1>6, <1>7 DEF HalvesInv, Sending
<1>10. ASSUME NEW d \in Dests
       PROVE  Others(d)' + Count(grant' = d) = Others(d)
  <2>1. grant' = destD1
    BY <1>2, <1>4 DEF NextGrant
  <2>2. ~SecondSent(d)
    BY <1>1 DEF HalvesInv, SecondSent
  <2>3. SendingTo(d) <=> entry1.pkt.dest = d
    BY DEF SendingTo, Sending
  <2>4. SecondSent(d)' <=> FirstSent(d)
    BY <1>4, <1>6 DEF SecondSent, FirstSent
  <2>5. ~SendingTo(d)' /\ ~FirstSent(d)'
    BY <1>6 DEF SendingTo, FirstSent, Sending
  <2>6. QED
    BY <1>2, <2>1, <2>2, <2>3, <2>4, <2>5 DEF Others, Count
<1>11. CreditInv'
  BY <1>2, <1>10, CreditKept
<1>12. QED
  BY <1>1, <1>3, <1>8, <1>9, <1>11 DEF InLine

(* The last word out and the next packet loaded behind it, *)
LEMMA Loads ==
    ASSUME NEW n, Now(n), Clock, state = "LDWAIT", ~full
    PROVE  /\ LoadData(full) /\ ~ShiftData(full) /\ activeD1 /\ Entry1Active(full)
           /\ (n > 0 \/ Arrives) /\ (Follows => n > 0) /\ n \in Int /\ 0 <= n
           /\ destD1 = entry1.pkt.dest /\ entry1.pkt.dest \in Dests
           /\ state' = "SHIFT" /\ count' = 3
           /\ (atomicFirst' <=> entries[2].pkt.atom) /\ (atomicSecond' <=> atomicFirst)
           /\ entry1'.pkt = IF n > 0 THEN entries[2].pkt ELSE Comer
<1>1. TypeOK /\ CoreInv /\ LineInv(n) /\ StateInv(n) /\ n \in 0 .. LastEntry - 1
  BY DEF Now
<1>2. /\ LoadData(full) /\ ~ShiftData(full) /\ activeD1 /\ Entry1Active(full)
      /\ (n > 0 \/ Arrives) /\ (Follows => n > 0) /\ n \in Int /\ 0 <= n
      /\ destD1 = entry1.pkt.dest /\ entry1.pkt.dest \in Dests
  <2>1. LoadData(full) /\ ~ShiftData(full) /\ Entry1Active(full)
    BY DEF LoadData, ShiftData, Entry1Active
  <2>2. n \in Int /\ 0 <= n
    BY <1>1
  <2>3. QED
    BY <1>1, <2>1, <2>2 DEF StateInv, Sending
<1>3. /\ state' = "SHIFT" /\ count' = 3
      /\ (atomicFirst' <=> entries[2].pkt.atom) /\ (atomicSecond' <=> atomicFirst)
  <2>1. LoadWait(full, entries[2].pkt.atom)
    BY <1>1, StatesAre
  <2>2. QED
    BY <2>1 DEF LoadWait, StartCount
<1>4. entries[2].active <=> n > 0
  <2>1. 2 \in EntryNumbers /\ (2 <= n + 1 <=> n > 0)
    BY <1>2, PcxAssumption DEF EntryNumbers
  <2>2. QED
    BY <1>1, <2>1 DEF LineInv
<1>5. entry1'.pkt = IF n > 0 THEN entries[2].pkt ELSE First(AcceptedPa)
  <2>1. entry1' = [pkt |-> IF entries[2].active THEN entries[2].pkt ELSE First(AcceptedPa), pos |-> 0]
    BY <1>2, ClockIs DEF EntriesTick, Entry1Next
  <2>2. QED
    BY <1>4, <2>1
<1>6. ~(n > 0) => First(AcceptedPa) = Comer
  BY <1>1, <1>2, ComerIs
<1>7. QED
  BY <1>2, <1>3, <1>5, <1>6

(* so that the line moves up. *)
LEMMA LoadWaitStep ==
    ASSUME NEW n, Now(n), Clock, state = "LDWAIT", ~full
    PROVE  InLine' /\ CreditInv'
<1>1. TypeOK /\ CoreInv /\ CountersAgree /\ CreditInv /\ WordInv /\ LineInv(n) /\ StateInv(n) /\ HalvesInv(n)
      /\ n \in 0 .. LastEntry - 1
  BY DEF Now
<1>2. /\ LoadData(full) /\ ~ShiftData(full) /\ activeD1 /\ Entry1Active(full)
      /\ (n > 0 \/ Arrives) /\ (Follows => n > 0) /\ n \in Int /\ 0 <= n
      /\ destD1 = entry1.pkt.dest /\ entry1.pkt.dest \in Dests
  BY Loads
<1>3. /\ grant' = (IF NextGrant(full, Pending) THEN destD1 ELSE NoDest)
      /\ (atomicSecondD1' <=> atomicSecond) /\ destD1' = entry1.pkt.dest /\ (activeD1' <=> Entry1Active(full))
  BY <1>1, StatesAre
<1>4. /\ state' = "SHIFT" /\ count' = 3
      /\ (atomicFirst' <=> entries[2].pkt.atom) /\ (atomicSecond' <=> atomicFirst)
  BY Loads
<1>6. entry1'.pkt = IF n > 0 THEN entries[2].pkt ELSE Comer
  BY Loads
<1>7. atomicFirst => n > 0 /\ entries[2].pkt.dest = entry1.pkt.dest /\ ~entries[2].pkt.atom
  BY <1>1 DEF HalvesInv, Sending
<1>8. ~(atomicSecondD1 /\ ~atomicSecond) /\ (atomicSecond => ~atomicFirst)
  BY <1>1 DEF HalvesInv
<1>10. entry1'.pkt.dest \in Dests
  <2>1. CASE n > 0
    <3>1. 2 \in 2 .. n + 1
      BY <1>2, <2>1
    <3>2. entries[2].pkt.dest \in Dests
      BY <1>1, <3>1 DEF LineInv
    <3>3. QED
      BY <1>6, <2>1, <3>2
  <2>2. CASE ~(n > 0)
    <3>1. Arrives /\ entry1'.pkt = Comer
      BY <1>2, <1>6, <2>2
    <3>2. QED
      BY <1>1, <3>1, ComerIs
  <2>3. QED
    BY <2>1, <2>2
<1>11. PICK k \in 0 .. LastEntry - 1 :
         /\ LineInv(k)'
         /\ entries[2].pkt.atom =>
               k > 0 /\ entries'[2].pkt.dest = entry1'.pkt.dest /\ ~entries'[2].pkt.atom
  <2>1. CASE n = 0
    <3>1. LineInv(0)' /\ ~entries[2].pkt.atom
      BY <1>1, <1>2, <2>1, EmptyLine DEF LineInv
    <3>2. QED
      BY <1>1, <2>1, <3>1
  <2>2. CASE n > 0 /\ (Arrives \/ Follows)
    <3>1. LineInv(n)' /\ (n > 1 => entries'[2] = entries[3]) /\ (n = 1 => entries'[2].pkt = Comer)
      BY <1>2, <2>2, ShiftedLine
    <3>2. ASSUME entries[2].pkt.atom
          PROVE  entries'[2].pkt.dest = entry1'.pkt.dest /\ ~entries'[2].pkt.atom
      <4>1. 2 \in 2 .. n + 1 /\ 2 + 1 = 3 /\ (2 < n + 1 <=> n > 1) /\ (2 = n + 1 <=> n = 1)
        BY <1>2, <2>2
      <4>2. \/ n > 1 /\ entries[3].pkt.dest = entries[2].pkt.dest /\ ~entries[3].pkt.atom
            \/ n = 1 /\ Follows /\ px.dest = entries[2].pkt.dest
        BY <1>1, <3>2, <4>1 DEF LineInv
      <4>3. CASE n > 1 /\ entries[3].pkt.dest = entries[2].pkt.dest /\ ~entries[3].pkt.atom
        BY <1>6, <2>2, <3>1, <4>3
      <4>4. CASE n = 1 /\ Follows /\ px.dest = entries[2].pkt.dest
        <5>1. Comer.dest = px.dest /\ ~Comer.atom
          BY <1>1, <4>4, ComerIs
        <5>2. QED
          BY <1>6, <2>2, <3>1, <4>4, <5>1
      <4>5. QED
        BY <4>2, <4>3, <4>4
    <3>3. QED
      BY <1>1, <2>2, <3>1, <3>2
  <2>3. CASE n > 0 /\ ~(Arrives \/ Follows)
    <3>1. LineInv(n - 1)' /\ n - 1 \in 0 .. LastEntry - 1 /\ (n > 1 => entries'[2] = entries[3])
      BY <1>2, <2>3, ShiftedLine
    <3>3. ASSUME entries[2].pkt.atom
          PROVE  n - 1 > 0 /\ entries'[2].pkt.dest = entry1'.pkt.dest /\ ~entries'[2].pkt.atom
      <4>1. 2 \in 2 .. n + 1 /\ 2 + 1 = 3 /\ (2 < n + 1 <=> n > 1) /\ (n > 1 <=> n - 1 > 0)
        BY <1>2, <2>3
      <4>2. n > 1 /\ entries[3].pkt.dest = entries[2].pkt.dest /\ ~entries[3].pkt.atom
        BY <1>1, <2>3, <3>3, <4>1 DEF LineInv
      <4>3. QED
        BY <1>6, <2>3, <3>1, <4>1, <4>2
    <3>4. QED
      BY <3>1, <3>3
  <2>4. QED
    BY <1>2, <2>1, <2>2, <2>3
<1>12. StateInv(k)'
  <2>1. Follows' => k > 0 \/ count' = 3
    BY <1>4
  <2>2. activeD1'
    BY <1>2, <1>3
  <2>3. QED
    BY <1>4, <1>10, <2>1, <2>2 DEF StateInv, Sending
<1>13. HalvesInv(k)'
  <2>1. atomicFirst' => k > 0 /\ entries'[2].pkt.dest = entry1'.pkt.dest /\ ~entries'[2].pkt.atom
    BY <1>4, <1>11
  <2>2. atomicSecond' => ~atomicFirst'
    BY <1>4, <1>7
  <2>3. QED
    BY <1>4, <2>1, <2>2 DEF HalvesInv, Sending
<1>14. ASSUME NEW d \in Dests
       PROVE  Others(d)' + Count(grant' = d) = Others(d) + Count(entry1'.pkt.dest = d)
  <2>1. d # NoDest
    BY PcxAssumption
  <2>2. ~SecondSent(d) /\ (SendingTo(d) <=> entry1.pkt.dest = d)
    BY <1>8 DEF SecondSent, SendingTo, Sending
  <2>3. SendingTo(d)' <=> entry1'.pkt.dest = d
    BY <1>4 DEF SendingTo, Sending
  <2>4. grant' = IF atomicFirst THEN NoDest ELSE destD1
    BY <1>3 DEF NextGrant
  <2>5. CASE atomicFirst
    <3>1. ~FirstSent(d) /\ ~SecondSent(d)' /\ grant' # d
      BY <1>3, <1>4, <1>8, <2>1, <2>4, <2>5 DEF FirstSent, SecondSent
    <3>2. FirstSent(d)' <=> entry1.pkt.dest = d
      BY <1>4, <1>6, <1>7, <2>5 DEF FirstSent
    <3>3. QED
      BY <2>2, <2>3, <3>1, <3>2 DEF Others, Count
  <2>6. CASE ~atomicFirst
    <3>1. grant' = d <=> entry1.pkt.dest = d
      BY <1>2, <2>4, <2>6
    <3>2. ~FirstSent(d)' /\ (SecondSent(d)' <=> FirstSent(d))
      BY <1>3, <1>4, <2>6 DEF FirstSent, SecondSent
    <3>3. QED
      BY <2>2, <2>3, <3>1, <3>2 DEF Others, Count
  <2>7. QED
    BY <2>5, <2>6
<1>15. ASSUME NEW d \in Dests
       PROVE  Cardinality(Places(d))' + Others(d)' + Count(grant' = d)
                = Cardinality(Places(d)) + Others(d) + Count((Arrives \/ Follows) /\ Comer.dest = d)
  <2>1. Others(d)' + Count(grant' = d) = Others(d) + Count(entry1'.pkt.dest = d)
    BY <1>14
  <2>2. PICK p \in Nat : p = Cardinality(Places(d))
    BY PlacesFinite
  <2>3. PICK o \in Nat : o = Others(d)
    BY DEF Others, Count
  <2>4. PICK q \in Nat : q = Others(d)'
    BY DEF Others, Count
  <2>5. CASE n > 0
    <3>1. Cardinality(Places(d))' = Cardinality(Places(d)) - Count(entries[2].pkt.dest = d)
                                       + Count((Arrives \/ Follows) /\ Comer.dest = d)
      BY <1>1, <1>2, <1>15, <2>5, PlacesShifted
    <3>2. entry1'.pkt = entries[2].pkt
      BY <1>6, <2>5
    <3>3. QED
      BY <2>1, <2>2, <2>3, <2>4, <3>1, <3>2 DEF Count
  <2>6. CASE ~(n > 0)
    <3>1. n = 0 /\ Arrives /\ entry1'.pkt = Comer
      BY <1>2, <1>6, <2>6
    <3>2. Cardinality(Places(d))' = 0 /\ Cardinality(Places(d)) = 0
      BY <1>1, <1>2, <1>15, <3>1, PlacesEmpty
    <3>3. QED
      BY <2>1, <2>3, <2>4, <3>1, <3>2 DEF Count
  <2>7. QED
    BY <2>5, <2>6
<1>16. CreditInv'
  BY <1>15, CreditNext
<1>17. QED
  BY <1>11, <1>12, <1>13, <1>16 DEF InLine

-----------------------------------------------------------------------------
(* The parts of the inductive invariant. *)
LEMMA IInvIs == IInv <=> TypeOK /\ CoreInv /\ CountersAgree /\ CreditInv /\ WordInv /\ InLine
BY DEF IInv, InLine

(* Nothing has been sent. *)
LEMMA InitInv == Init => IInv
<1> SUFFICES ASSUME Init PROVE IInv
  OBVIOUS
<1>1. TypeOK /\ WordInv
  BY InitTypes
<1>2. /\ pq = NoRequest /\ full0 = {} /\ full1 = {} /\ pa = NoRequest /\ px = NoRequest
      /\ \A d \in Dests : link[d] = 0
      /\ state = "IDLE" /\ grant = NoDest
      /\ ~atomicFirst /\ ~atomicSecond /\ ~atomicSecondD1
      /\ \A i \in EntryNumbers : entries[i] = Inactive
  BY DEF Init, CoreInit, EntriesInit, SmInit
<1>3. NoRequest.dest = NoDest /\ ~NoRequest.atom /\ NoDest \notin Dests
  BY RequestTypes, PcxAssumption
<1>4. ~Arrives /\ ~Follows
  BY <1>1, <1>2, <1>3, AcceptedIs DEF Follows
<1>5. CoreInv
  BY <1>2, <1>3, <1>4 DEF CoreInv
<1>6. CountersAgree
  BY <1>2, <1>3, <1>4 DEF CountersAgree, Arrives, Count
<1>7. Inactive.active = FALSE /\ (Inactive.pkt.atom <=> FALSE)
  BY <1>3 DEF Inactive, First
<1>8. CreditInv
  <2>1. SUFFICES ASSUME NEW d \in Dests
                 PROVE  link[d] = Cardinality(Places(d)) + Count(SendingTo(d)) + Count(FirstSent(d))
                                    + Count(SecondSent(d)) + Count(grant = d)
    BY DEF CreditInv
  <2>2. Places(d) = {}
    BY <1>2, <1>7 DEF Places
  <2>3. Cardinality(Places(d)) = 0
    BY <2>2, FS_EmptySet
  <2>4. ~SendingTo(d) /\ ~FirstSent(d) /\ ~SecondSent(d) /\ grant # d
    BY <1>2, <1>3 DEF SendingTo, FirstSent, SecondSent, Sending
  <2>5. QED
    BY <1>2, <2>3, <2>4 DEF Count
<1>9. LineInv(0) /\ StateInv(0) /\ HalvesInv(0) /\ 0 \in 0 .. LastEntry - 1
  <2>1. 2 \in EntryNumbers /\ \A i \in EntryNumbers : ~(i <= 1)
    BY PcxAssumption DEF EntryNumbers
  <2>2. LineInv(0)
    BY <1>2, <1>7, <2>1 DEF LineInv
  <2>3. StateInv(0) /\ HalvesInv(0)
    BY <1>2, <1>4 DEF StateInv, HalvesInv, Sending
  <2>4. 0 \in 0 .. LastEntry - 1
    BY PcxAssumption
  <2>5. QED
    BY <2>2, <2>3, <2>4
<1>10. InLine
  BY <1>9 DEF InLine
<1>11. QED
  BY <1>1, <1>5, <1>6, <1>8, <1>10, IInvIs

(* A clock edge keeps it, from every state of the machine. *)
LEMMA ClockInv ==
    ASSUME IInv, Clock
    PROVE  IInv'
<1>1. TypeOK /\ CoreInv /\ CountersAgree /\ CreditInv /\ WordInv /\ InLine
  BY IInvIs
<1>2. PICK n \in 0 .. LastEntry - 1 : LineInv(n) /\ StateInv(n) /\ HalvesInv(n)
  BY <1>1 DEF InLine
<1>3. Now(n)
  BY <1>1, <1>2 DEF Now
<1>4. state \in {"IDLE", "LOAD", "SHIFT", "LDWAIT", "WAIT"}
  BY <1>1 DEF TypeOK, SmTypeOK
<1>5. InLine' /\ CreditInv'
  <2>1. CASE state = "IDLE"
    BY <1>3, <2>1, IdleStep
  <2>2. CASE state = "LOAD"
    BY <1>3, <2>2, LoadStep
  <2>3. CASE state = "SHIFT" \/ (state \in {"LDWAIT", "WAIT"} /\ full)
    BY <1>3, <2>3, HoldStep DEF Sending
  <2>4. CASE state = "LDWAIT" /\ ~full
    BY <1>3, <2>4, LoadWaitStep
  <2>5. CASE state = "WAIT" /\ ~full
    BY <1>3, <2>5, WaitStep
  <2>6. QED
    BY <1>4, <2>1, <2>2, <2>3, <2>4, <2>5
<1>6. TypeOK' /\ WordInv' /\ CoreInv' /\ CountersAgree'
  BY <1>1, TypeStep, WordStep, CoreStep
<1>7. (IInv <=> TypeOK /\ CoreInv /\ CountersAgree /\ CreditInv /\ WordInv /\ InLine)'
  BY IInvIs, PTL
<1>8. QED
  BY <1>5, <1>6, <1>7

(* Nothing changes. *)
LEMMA StutterInv ==
    ASSUME IInv, UNCHANGED vars
    PROVE  IInv'
<1>1. UNCHANGED <<state, count, dataWrite, control, grant, atomicFirst, atomicSecond,
                  atomicSecondD1, destD1, activeD1, entry1, entries, pq, full0, full1,
                  pa, px, link, full>>
  BY DEF vars, coreVars, entryVars, smVars
<1>2. TypeOK' /\ WordInv'
  BY TypesStutter DEF IInv
<1>3. AcceptedPa' = AcceptedPa
  BY <1>1 DEF AcceptedPa, Masked
<1>4. (Arrives' <=> Arrives) /\ (Follows' <=> Follows)
  BY <1>1, <1>3 DEF Arrives, Follows
<1>5. CoreInv' /\ CountersAgree'
  BY <1>1, <1>3, <1>4 DEF IInv, CoreInv, CountersAgree
<1>6. CreditInv'
  BY <1>1 DEF IInv, CreditInv, Places, SendingTo, FirstSent, SecondSent, Sending
<1>7. ASSUME NEW n \in 0 .. LastEntry - 1, LineInv(n), StateInv(n), HalvesInv(n)
      PROVE  LineInv(n)' /\ StateInv(n)' /\ HalvesInv(n)'
  BY <1>1, <1>4, <1>7 DEF LineInv, StateInv, HalvesInv, Sending
<1>8. QED
  BY <1>2, <1>5, <1>6, <1>7 DEF IInv

(* All of it, always. *)
THEOREM Inductive == Spec => []IInv
<1>1. IInv /\ [Next]_vars => IInv'
  BY ClockInv, StutterInv DEF Next
<1>2. QED
  BY <1>1, InitInv, PTL DEF Spec

(***************************************************************************)
(* The link counter of the bridge (pcx2mb_link_ctr) and the queue monitor  *)
(* of the core (lsu_pcx_qmon) agree on every destination, in every cycle:  *)
(* an atomic's second half is counted once by each, and granted once.      *)
(***************************************************************************)
THEOREM CountersStayEqual == Spec => []CountersAgree
<1>1. IInv => CountersAgree
  BY DEF IInv
<1>2. QED
  BY <1>1, Inductive, PTL

(***************************************************************************)
(* The request that the core squashes in PQ is the one that the bridge     *)
(* drops in PA, and no other is (pcx2mb_link_ctr, lsu_qctl1).              *)
(***************************************************************************)
THEOREM SquashedAreDropped == Spec => DropsAgree
<1>1. IInv /\ [Next]_vars => [pq.dest # NoDest => (Squash(grant) <=> AcceptedPa'.dest = NoDest)]_vars
  <2> SUFFICES ASSUME IInv, Clock, pq.dest # NoDest
               PROVE  Squash(grant) <=> AcceptedPa'.dest = NoDest
    BY DEF Next
  <2>1. TypeOK /\ CoreInv /\ CountersAgree /\ CreditInv /\ WordInv
    BY DEF IInv
  <2>2. QED
    BY <2>1, DropStep
<1>2. QED
  BY <1>1, Inductive, PTL DEF Spec, DropsAgree

-----------------------------------------------------------------------------
(* The line as a sequence. *)

(* A function on 1 .. m is a sequence. *)
LEMMA SeqOf ==
    ASSUME NEW S, NEW m \in Nat, NEW f \in [1 .. m -> S]
    PROVE  f \in Seq(S) /\ Len(f) = m
<1>1. f \in Seq(S)
  BY SeqDef
<1>2. QED
  BY <1>1, LenProperties

(* One more at the end. *)
LEMMA OneMore ==
    ASSUME NEW S, NEW m \in Nat, NEW f \in [1 .. m -> S], NEW g \in [1 .. m + 1 -> S],
           \A i \in 1 .. m : g[i] = f[i]
    PROVE  g = f \o <<g[m + 1]>>
<1>1. f \in Seq(S) /\ Len(f) = m /\ g \in Seq(S) /\ Len(g) = m + 1
  BY SeqOf
<1>2. PICK last : last = g[m + 1]
  OBVIOUS
<1>3. last \in S
  BY <1>2
<1>4. PICK one : one = <<last>>
  OBVIOUS
<1>5. one \in Seq(S) /\ Len(one) = 1 /\ one[1] = last
  BY <1>3, <1>4
<1>6. /\ f \o one \in Seq(S) /\ Len(f \o one) = m + 1
      /\ \A i \in 1 .. m + 1 : (f \o one)[i] = IF i <= m THEN f[i] ELSE one[i - m]
  <2>1. /\ f \o one \in Seq(S)
        /\ Len(f \o one) = Len(f) + Len(one)
        /\ \A i \in 1 .. Len(f) + Len(one) : (f \o one)[i] = IF i <= Len(f) THEN f[i] ELSE one[i - Len(f)]
    BY <1>1, <1>5, ConcatProperties, Zenon
  <2>2. QED
    BY <1>1, <1>5, <2>1
<1>7. ASSUME NEW i \in 1 .. m + 1
      PROVE  g[i] = (f \o one)[i]
  <2>1. CASE i <= m
    BY <1>6, <2>1
  <2>2. CASE ~(i <= m)
    <3>1. i = m + 1 /\ i - m = 1
      BY <2>2
    <3>2. QED
      BY <1>2, <1>5, <1>6, <2>2, <3>1
  <2>3. QED
    BY <2>1, <2>2
<1>8. g = f \o one
  BY <1>1, <1>6, <1>7, SeqEqual
<1>9. QED
  BY <1>2, <1>4, <1>8

(* One more at the beginning. *)
LEMMA OneBefore ==
    ASSUME NEW S, NEW m \in Nat, NEW f \in [1 .. m -> S], NEW g \in [1 .. m + 1 -> S],
           NEW e, g[1] = e, \A i \in 1 .. m : g[i + 1] = f[i]
    PROVE  g = <<e>> \o f
<1>1. f \in Seq(S) /\ Len(f) = m /\ g \in Seq(S) /\ Len(g) = m + 1
  BY SeqOf
<1>3. e \in S
  OBVIOUS
<1>4. PICK one : one = <<e>>
  OBVIOUS
<1>5. one \in Seq(S) /\ Len(one) = 1 /\ one[1] = e
  BY <1>3, <1>4
<1>6. /\ one \o f \in Seq(S) /\ Len(one \o f) = 1 + m
      /\ \A i \in 1 .. 1 + m : (one \o f)[i] = IF i <= 1 THEN one[i] ELSE f[i - 1]
  <2>1. /\ one \o f \in Seq(S)
        /\ Len(one \o f) = Len(one) + Len(f)
        /\ \A i \in 1 .. Len(one) + Len(f) : (one \o f)[i] = IF i <= Len(one) THEN one[i] ELSE f[i - Len(one)]
    BY <1>1, <1>5, ConcatProperties, Zenon
  <2>2. QED
    BY <1>1, <1>5, <2>1
<1>7. ASSUME NEW i \in 1 .. m + 1
      PROVE  g[i] = (one \o f)[i]
  <2>1. CASE i <= 1
    <3>1. i = 1 /\ i \in 1 .. 1 + m
      BY <2>1
    <3>2. QED
      BY <1>5, <1>6, <2>1, <3>1
  <2>2. CASE ~(i <= 1)
    <3>1. i - 1 \in 1 .. m /\ i - 1 + 1 = i /\ i \in 1 .. 1 + m
      BY <2>2
    <3>2. QED
      BY <1>6, <2>2, <3>1
  <2>3. QED
    BY <2>1, <2>2
<1>8. g = one \o f
  BY <1>1, <1>6, <1>7, SeqEqual
<1>9. QED
  BY <1>4, <1>8

Line == [i \in 1 .. Queued |-> entries[i + 1].pkt]
Lead == IF Sending THEN <<entry1.pkt>> ELSE <<>>
Taken == IF Arrives \/ Follows THEN <<Comer>> ELSE <<>>

(* A line of n packets. *)
LEMMA LineIs ==
    ASSUME NEW n
    PROVE  n \in 0 .. LastEntry - 1 /\ TypeOK /\ LineInv(n) =>
              /\ Queued = n /\ Line = [i \in 1 .. n |-> entries[i + 1].pkt]
              /\ Line \in [1 .. n -> Packets] /\ Line \in Seq(Packets)
<1> SUFFICES ASSUME n \in 0 .. LastEntry - 1, TypeOK, LineInv(n)
             PROVE  /\ Queued = n /\ Line = [i \in 1 .. n |-> entries[i + 1].pkt]
                    /\ Line \in [1 .. n -> Packets] /\ Line \in Seq(Packets)
  OBVIOUS
<1>1. LastEntry \in Nat /\ n \in Nat /\ n + 1 <= LastEntry
  BY PcxAssumption
<1>2. {i \in EntryNumbers : entries[i].active} = 2 .. n + 1
  BY <1>1 DEF LineInv, EntryNumbers
<1>3. Cardinality(2 .. n + 1) = n
  <2>1. Cardinality(2 .. n + 1) = IF 2 > n + 1 THEN 0 ELSE n + 1 - 2 + 1
    BY <1>1, FS_Interval
  <2>2. QED
    BY <1>1, <2>1
<1>4. Queued = n
  BY <1>2, <1>3 DEF Queued
<1>5. \A i \in 1 .. n : entries[i + 1].pkt \in Packets
  <2>1. \A i \in 1 .. n : i + 1 \in EntryNumbers
    BY <1>1 DEF EntryNumbers
  <2>2. QED
    BY <2>1 DEF TypeOK, EntriesTypeOK
<1>6. Line = [i \in 1 .. n |-> entries[i + 1].pkt]
  BY <1>4 DEF Line
<1>7. Line \in [1 .. n -> Packets]
  BY <1>5, <1>6
<1>8. QED
  BY <1>1, <1>4, <1>6, <1>7, SeqOf

(* The same after a step. *)
LEMMA LineNext ==
    ASSUME NEW n \in 0 .. LastEntry - 1, TypeOK', LineInv(n)'
    PROVE  /\ Line' = [i \in 1 .. n |-> entries'[i + 1].pkt]
           /\ Line' \in [1 .. n -> Packets] /\ Line' \in Seq(Packets)
<1>1. (n \in 0 .. LastEntry - 1 /\ TypeOK /\ LineInv(n) =>
              /\ Queued = n /\ Line = [i \in 1 .. n |-> entries[i + 1].pkt]
              /\ Line \in [1 .. n -> Packets] /\ Line \in Seq(Packets))'
  BY LineIs, PTL
<1>2. QED
  BY <1>1

(* No line. *)
LEMMA NoLine ==
    ASSUME TypeOK, LineInv(0)
    PROVE  Line = <<>>
<1>1. 0 \in 0 .. LastEntry - 1
  BY PcxAssumption
<1>2. Line \in [1 .. 0 -> Packets]
  BY <1>1, LineIs
<1>3. Line \in Seq(Packets) /\ Len(Line) = 0
  BY <1>2, SeqOf
<1>4. QED
  BY <1>3, EmptySeq

(* What is taken. *)
LEMMA TakenIs ==
    ASSUME TypeOK, CoreInv
    PROVE  /\ Taken \in Seq(Packets) /\ Lead \in Seq(Packets)
           /\ Arrives \/ Follows => Taken = <<Comer>> /\ Comer \in Packets
           /\ ~(Arrives \/ Follows) => Taken = <<>>
<1>1. Comer \in Packets
  BY ComerIs
<1>2. entry1.pkt \in Packets
  BY DEF TypeOK, EntriesTypeOK
<1>3. QED
  BY <1>1, <1>2, EmptySeq DEF Taken, Lead

(* Without a load, the packet taken goes to the end, *)
LEMMA LineKept ==
    ASSUME NEW n, Now(n), Clock, ~LoadData(full),
           Arrives \/ Follows => n < LastEntry - 1 /\ Entry1Active(full) /\ activeD1
    PROVE  Line' = Line \o Taken
<1>1. TypeOK /\ CoreInv /\ CountersAgree /\ CreditInv /\ WordInv /\ LineInv(n) /\ n \in 0 .. LastEntry - 1 /\ TypeOK'
  BY TypeStep DEF Now
<1>2. /\ Line = [i \in 1 .. n |-> entries[i + 1].pkt]
      /\ Line \in [1 .. n -> Packets] /\ Line \in Seq(Packets)
  BY <1>1, LineIs
<1>3. LastEntry \in Nat /\ n \in Nat /\ n <= LastEntry - 1 /\ n + 1 + 1 = n + 2
  BY <1>1, PcxAssumption
<1>4. \A i \in EntryNumbers : entries'[i] = IF (Arrives \/ Follows) /\ i = n + 2
                              THEN [active |-> TRUE, pkt |-> Comer] ELSE entries[i]
  BY <1>1, Kept
<1>5. \A i \in 1 .. n : entries'[i + 1] = entries[i + 1]
  <2>1. \A i \in 1 .. n : i + 1 \in EntryNumbers /\ i + 1 # n + 2
    BY <1>3 DEF EntryNumbers
  <2>2. QED
    BY <1>4, <2>1
<1>6. CASE Arrives \/ Follows
  <2>1. LineInv(n + 1)' /\ n + 1 \in 0 .. LastEntry - 1
    BY <1>6, KeptLine
  <2>2. /\ Line' = [i \in 1 .. n + 1 |-> entries'[i + 1].pkt]
        /\ Line' \in [1 .. n + 1 -> Packets]
    BY <1>1, <2>1, LineNext
  <2>3. \A i \in 1 .. n : Line'[i] = Line[i]
    BY <1>2, <1>3, <1>5, <2>2
  <2>4. Line' = Line \o <<Line'[n + 1]>>
    <3>1. Line \in [1 .. n -> Packets] /\ Line' \in [1 .. n + 1 -> Packets] /\ n \in Nat
      BY <1>2, <1>3, <2>2
    <3>2. QED
      BY <2>3, <3>1, OneMore, Zenon
  <2>5. Line'[n + 1] = Comer
    <3>1. n + 2 \in EntryNumbers /\ n + 1 \in 1 .. n + 1
      BY <1>3, <1>6, PcxAssumption DEF EntryNumbers
    <3>2. entries'[n + 2].pkt = Comer
      BY <1>4, <1>6, <3>1
    <3>3. QED
      BY <1>3, <2>2, <3>1, <3>2
  <2>6. QED
    BY <1>1, <1>6, <2>4, <2>5, TakenIs
<1>7. CASE ~(Arrives \/ Follows)
  <2>1. LineInv(n)'
    BY <1>7, KeptLine
  <2>2. Line' = [i \in 1 .. n |-> entries'[i + 1].pkt]
    BY <1>1, <2>1, LineNext
  <2>3. Line' = Line
    BY <1>2, <1>5, <2>2
  <2>4. QED
    BY <1>1, <1>2, <1>7, <2>3, TakenIs, ConcatEmptySeq
<1>8. QED
  BY <1>6, <1>7

(* with one, the first of the line goes to entry 1. *)
LEMMA LineShifted ==
    ASSUME NEW n, Now(n), Clock, LoadData(full), n > 0, Entry1Active(full) /\ activeD1
    PROVE  <<entries[2].pkt>> \o Line' = Line \o Taken
<1>1. TypeOK /\ CoreInv /\ CountersAgree /\ CreditInv /\ WordInv /\ LineInv(n) /\ n \in 0 .. LastEntry - 1 /\ TypeOK'
  BY TypeStep DEF Now
<1>2. /\ Line = [i \in 1 .. n |-> entries[i + 1].pkt]
      /\ Line \in [1 .. n -> Packets] /\ Line \in Seq(Packets)
  BY <1>1, LineIs
<1>3. LastEntry \in Nat /\ n \in Nat /\ 1 <= n /\ n <= LastEntry - 1
  BY <1>1, PcxAssumption
<1>4. \A i \in EntryNumbers :
        /\ i <= n => entries'[i] = entries[i + 1]
        /\ i = n + 1 /\ (Arrives \/ Follows) => entries'[i] = [active |-> TRUE, pkt |-> Comer]
  BY <1>1, Shifted
<1>5. Line[1] = entries[2].pkt
  BY <1>2, <1>3
<1>6. CASE Arrives \/ Follows
  <2> DEFINE G == [i \in 1 .. n + 1 |-> IF i <= n THEN entries[i + 1].pkt ELSE Comer]
  <2>1. LineInv(n)'
    BY <1>6, ShiftedLine
  <2>2. /\ Line' = [i \in 1 .. n |-> entries'[i + 1].pkt]
        /\ Line' \in [1 .. n -> Packets]
    BY <1>1, <2>1, LineNext
  <2>3. Comer \in Packets /\ Taken = <<Comer>>
    BY <1>1, <1>6, TakenIs
  <2>4. /\ G \in [1 .. n + 1 -> Packets] /\ G[1] = Line[1] /\ G[n + 1] = Comer
        /\ \A i \in 1 .. n : G[i] = Line[i]
    <3>1. \A i \in 1 .. n : entries[i + 1].pkt \in Packets
      BY <1>2
    <3>2. \A i \in 1 .. n + 1 : i <= n => i \in 1 .. n
      BY <1>3
    <3>3. 1 <= n /\ 1 \in 1 .. n + 1 /\ n + 1 \in 1 .. n + 1 /\ ~(n + 1 <= n) /\ 1 \in 1 .. n
      BY <1>3
    <3>4. \A i \in 1 .. n : i <= n /\ i \in 1 .. n + 1
      BY <1>3
    <3>5. QED
      BY <1>2, <2>3, <3>1, <3>2, <3>3, <3>4
  <2>5. \A i \in 1 .. n : G[i + 1] = Line'[i]
    <3>1. SUFFICES ASSUME NEW i \in 1 .. n PROVE G[i + 1] = Line'[i]
      OBVIOUS
    <3>2. i + 1 \in EntryNumbers /\ i + 1 \in 1 .. n + 1
      BY <1>3 DEF EntryNumbers
    <3>3. CASE i + 1 <= n
      <4>1. entries'[i + 1] = entries[i + 1 + 1]
        BY <1>4, <3>2, <3>3
      <4>2. QED
        BY <2>2, <3>2, <3>3, <4>1
    <3>4. CASE ~(i + 1 <= n)
      <4>1. i + 1 = n + 1
        BY <1>3, <3>4
      <4>2. entries'[i + 1].pkt = Comer
        BY <1>4, <1>6, <3>2, <4>1
      <4>3. QED
        BY <2>2, <3>2, <3>4, <4>2
    <3>5. QED
      BY <3>3, <3>4
  <2> HIDE DEF G
  <2>6. G = Line \o <<G[n + 1]>>
    <3>1. Line \in [1 .. n -> Packets] /\ G \in [1 .. n + 1 -> Packets] /\ n \in Nat
      BY <1>2, <1>3, <2>4
    <3>2. \A i \in 1 .. n : G[i] = Line[i]
      BY <2>4
    <3>3. QED
      BY <3>1, <3>2, OneMore, Zenon
  <2>7. G = <<entries[2].pkt>> \o Line'
    <3>1. Line' \in [1 .. n -> Packets] /\ G \in [1 .. n + 1 -> Packets] /\ n \in Nat
      BY <1>3, <2>2, <2>4
    <3>2. G[1] = entries[2].pkt
      BY <1>5, <2>4
    <3>3. QED
      BY <2>5, <3>1, <3>2, OneBefore
  <2>8. QED
    BY <1>5, <2>3, <2>4, <2>6, <2>7
<1>7. CASE ~(Arrives \/ Follows)
  <2>1. LineInv(n - 1)' /\ n - 1 \in 0 .. LastEntry - 1
    BY <1>7, ShiftedLine
  <2>2. PICK k \in Nat : k = n - 1 /\ n = k + 1
    BY <1>3
  <2>3. /\ Line' = [i \in 1 .. k |-> entries'[i + 1].pkt]
        /\ Line' \in [1 .. k -> Packets]
    BY <1>1, <2>1, <2>2, LineNext
  <2>4. \A i \in 1 .. k : Line[i + 1] = Line'[i]
    <3>1. SUFFICES ASSUME NEW i \in 1 .. k PROVE Line[i + 1] = Line'[i]
      OBVIOUS
    <3>2. i + 1 \in EntryNumbers /\ i + 1 \in 1 .. n /\ i + 1 <= n
      BY <1>3, <2>2 DEF EntryNumbers
    <3>3. entries'[i + 1] = entries[i + 1 + 1]
      BY <1>4, <3>2
    <3>4. QED
      BY <1>2, <2>3, <3>2, <3>3
  <2>5. Line \in [1 .. k + 1 -> Packets]
    BY <1>2, <2>2
  <2>6. Line = <<entries[2].pkt>> \o Line'
    <3>1. Line' \in [1 .. k -> Packets] /\ k \in Nat
      BY <2>3
    <3>2. Line[1] = entries[2].pkt
      BY <1>5
    <3>3. QED
      BY <2>4, <2>5, <3>1, <3>2, OneBefore
  <2>7. QED
    BY <1>1, <1>2, <1>7, <2>6, TakenIs, ConcatEmptySeq
<1>8. QED
  BY <1>6, <1>7

-----------------------------------------------------------------------------
(* The abstract link. *)

Words == IF Sending THEN entry1.pos ELSE 0
Front == Lead \o Line
Coming == IF Follows THEN <<Second(px)>> ELSE <<>>
Halved == IF Arrives /\ pa.atom THEN <<Second(pa)>> ELSE <<>>

(* The packets of a request. *)
LEMMA PacketsAre ==
    ASSUME NEW r
    PROVE  /\ r.dest = NoDest => PacketsOf(r) = <<>>
           /\ r.dest # NoDest /\ r.atom => PacketsOf(r) = <<First(r), Second(r)>>
           /\ r.dest # NoDest /\ ~r.atom => PacketsOf(r) = <<First(r)>>
BY DEF PacketsOf

(* Two at the end are one after the other. *)
LEMMA Pair ==
    ASSUME NEW S, NEW s \in Seq(S), NEW a \in S, NEW b \in S
    PROVE  s \o <<a, b>> = (s \o <<a>>) \o <<b>>
<1>1. PICK u : u = <<a>>
  OBVIOUS
<1>2. PICK v : v = <<b>>
  OBVIOUS
<1>3. PICK w : w = <<a, b>>
  OBVIOUS
<1>4. u \in Seq(S) /\ Len(u) = 1 /\ u[1] = a
  BY <1>1
<1>5. v \in Seq(S) /\ Len(v) = 1 /\ v[1] = b
  BY <1>2
<1>6. w \in Seq(S) /\ Len(w) = 2 /\ w[1] = a /\ w[2] = b
  BY <1>3
<1>7. /\ u \o v \in Seq(S)
      /\ Len(u \o v) = Len(u) + Len(v)
      /\ \A i \in 1 .. Len(u) + Len(v) : (u \o v)[i] = IF i <= Len(u) THEN u[i] ELSE v[i - Len(u)]
  BY <1>4, <1>5, ConcatProperties, Zenon
<1>8. Len(u \o v) = 2 /\ (u \o v)[1] = a /\ (u \o v)[2] = b
  BY <1>4, <1>5, <1>7
<1>9. u \o v = w
  <2>1. \A i \in 1 .. 2 : i = 1 \/ i = 2
    OBVIOUS
  <2>2. \A i \in 1 .. 2 : (u \o v)[i] = w[i]
    BY <1>6, <1>8, <2>1
  <2>3. QED
    BY <1>6, <1>7, <1>8, <2>2, SeqEqual
<1>10. (s \o u) \o v = s \o (u \o v)
  <2>1. s \in Seq(S) /\ u \in Seq(S) /\ v \in Seq(S)
    BY <1>4, <1>5
  <2>2. QED
    BY <2>1, ConcatAssociative
<1>11. QED
  BY <1>1, <1>2, <1>3, <1>9, <1>10, Zenon

(* Taking off the first. *)
LEMMA TailOff ==
    ASSUME NEW S, NEW e \in S, NEW s \in Seq(S)
    PROVE  <<e>> \o s # <<>> /\ Tail(<<e>> \o s) = s
<1>1. PICK one : one = <<e>>
  OBVIOUS
<1>2. one \in Seq(S) /\ Len(one) = 1
  BY <1>1
<1>3. s \in Seq(S) /\ Len(s) \in Nat
  BY LenProperties
<1>4. /\ one \o s \in Seq(S)
      /\ Len(one \o s) = Len(one) + Len(s)
      /\ \A i \in 1 .. Len(one) + Len(s) : (one \o s)[i] = IF i <= Len(one) THEN one[i] ELSE s[i - Len(one)]
  BY <1>2, <1>3, ConcatProperties, Zenon
<1>5. PICK w : w = one \o s
  OBVIOUS
<1>6. /\ w \in Seq(S) /\ Len(w) = 1 + Len(s)
      /\ \A i \in 1 .. Len(s) : w[i + 1] = s[i]
  <2>1. w \in Seq(S) /\ Len(w) = 1 + Len(s)
    BY <1>2, <1>4, <1>5
  <2>2. ASSUME NEW i \in 1 .. Len(s) PROVE w[i + 1] = s[i]
    <3>1. i + 1 \in 1 .. Len(one) + Len(s) /\ ~(i + 1 <= Len(one)) /\ i + 1 - Len(one) = i
      BY <1>2, <1>3
    <3>2. QED
      BY <1>4, <1>5, <3>1
  <2>3. QED
    BY <2>1, <2>2
<1>7. w # <<>>
  BY <1>3, <1>6, EmptySeq
<1>8. /\ Tail(w) \in Seq(S) /\ Len(Tail(w)) = Len(w) - 1
      /\ \A i \in 1 .. Len(Tail(w)) : Tail(w)[i] = w[i + 1]
  BY <1>6, <1>7, HeadTailProperties
<1>9. Len(Tail(w)) = Len(s)
  BY <1>3, <1>6, <1>8
<1>10. \A i \in 1 .. Len(s) : Tail(w)[i] = s[i]
  BY <1>6, <1>8, <1>9
<1>11. Tail(w) = s
  BY <1>3, <1>8, <1>9, <1>10, SeqEqual
<1>12. QED
  BY <1>1, <1>5, <1>7, <1>11

(* What has been taken, in the order taken. *)
LEMMA HeldIs ==
    ASSUME TypeOK, CoreInv, NEW n \in 0 .. LastEntry - 1, LineInv(n)
    PROVE  /\ Held = (Front \o Taken) \o Halved
           /\ Lead \in Seq(Packets) /\ Line \in Seq(Packets) /\ Front \in Seq(Packets)
           /\ Taken \in Seq(Packets) /\ Halved \in Seq(Packets)
<1>1. Lead \in Seq(Packets) /\ Line \in Seq(Packets) /\ Taken \in Seq(Packets)
  BY LineIs, TakenIs
<1>2. Front \in Seq(Packets)
  BY <1>1, ConcatProperties DEF Front
<1>3. Second(pa) \in Packets /\ First(pa) \in Packets
  BY AcceptedIs, RequestTypes
<1>4. Halved \in Seq(Packets)
  BY <1>3, EmptySeq DEF Halved
<1>5. Held = (Front \o Coming) \o PacketsOf(AcceptedPa)
  BY DEF Held, Front, Lead, Line, Coming, Follows
<1>6. Held = (Front \o Taken) \o Halved
  <2>1. CASE Arrives
    <3>1. ~Follows /\ AcceptedPa = pa /\ pa.dest # NoDest /\ Comer = First(pa)
      BY <2>1, AcceptedIs, ComerIs, PcxAssumption DEF Arrives
    <3>2. Front \o Coming = Front /\ Taken = <<First(pa)>>
      BY <1>2, <2>1, <3>1, TakenIs, ConcatEmptySeq DEF Coming
    <3>3. CASE pa.atom
      <4>1. PacketsOf(AcceptedPa) = <<First(pa), Second(pa)>> /\ Halved = <<Second(pa)>>
        BY <2>1, <3>1, <3>3, PacketsAre DEF Halved
      <4>2. Front \o <<First(pa), Second(pa)>> = (Front \o <<First(pa)>>) \o <<Second(pa)>>
        BY <1>2, <1>3, Pair
      <4>3. QED
        BY <1>5, <3>2, <4>1, <4>2
    <3>4. CASE ~pa.atom
      <4>1. PacketsOf(AcceptedPa) = <<First(pa)>> /\ Halved = <<>>
        BY <2>1, <3>1, <3>4, PacketsAre DEF Halved
      <4>2. Front \o Taken \in Seq(Packets)
        BY <1>1, <1>2, ConcatProperties
      <4>3. (Front \o Taken) \o <<>> = Front \o Taken
        BY <4>2, ConcatEmptySeq
      <4>4. QED
        BY <1>5, <3>2, <4>1, <4>3
    <3>5. QED
      BY <3>3, <3>4
  <2>2. CASE ~Arrives
    <3>1. PacketsOf(AcceptedPa) = <<>> /\ Halved = <<>>
      BY <2>2, PacketsAre DEF Halved, Arrives
    <3>2. Coming = Taken
      BY <2>2, ComerIs DEF Coming, Taken
    <3>3. QED
      BY <1>5, <3>1, <3>2
  <2>3. QED
    BY <2>1, <2>2
<1>7. QED
  BY <1>1, <1>2, <1>4, <1>6

(* What the core sends next. *)
Sent == IF Arrives' THEN pq ELSE NoRequest

(* It goes behind all there is. *)
LEMMA HeldNext ==
    ASSUME NEW n, Now(n), Clock
    PROVE  /\ Held' = (Front' \o Halved) \o PacketsOf(Sent)
           /\ Sent \in Lines /\ (Arrives' => Sent = pq) /\ (Arrives' <=> Sent.dest # NoDest)
<1>1. TypeOK /\ WordInv /\ CoreInv /\ CountersAgree /\ CreditInv
  BY DEF Now
<1>2. Held' = (Front' \o Coming') \o PacketsOf(AcceptedPa')
  BY DEF Held, Front, Lead, Line, Coming, Follows
<1>3. Coming' = Halved
  <2>1. Follows' <=> Arrives /\ pa.atom
    BY <1>1, AcceptedNext
  <2>2. Arrives => px' = pa
    BY <1>1, ClockIs, AcceptedIs
  <2>3. Coming' = IF Follows' THEN <<Second(px')>> ELSE <<>>
    BY DEF Coming
  <2>4. QED
    BY <2>1, <2>2, <2>3 DEF Halved
<1>4. (Arrives' => AcceptedPa' = pq) /\ (Arrives' <=> AcceptedPa'.dest # NoDest)
  BY <1>1, AcceptedNext DEF Arrives
<1>5. PacketsOf(AcceptedPa') = PacketsOf(Sent)
  <2>1. CASE Arrives'
    BY <1>4, <2>1 DEF Sent
  <2>2. CASE ~Arrives'
    <3>1. AcceptedPa'.dest = NoDest
      BY <1>4, <2>2
    <3>2. Sent = NoRequest /\ NoRequest.dest = NoDest
      BY <2>2, RequestTypes DEF Sent
    <3>3. QED
      BY <3>1, <3>2, PacketsAre
  <2>3. QED
    BY <2>1, <2>2
<1>6. Sent \in Lines
  BY <1>1, RequestTypes DEF Sent, TypeOK, CoreTypeOK
<1>7. Arrives' <=> Sent.dest # NoDest
  BY <1>4, RequestTypes DEF Sent
<1>8. QED
  BY <1>2, <1>3, <1>5, <1>6, <1>7 DEF Sent

(* What leaves. *)
Kept1 == Words' = Words /\ Front' = Front \o Taken
Word1 == Sending /\ Words < 3 /\ Words' = Words + 1 /\ Front' = Front \o Taken
Last1 == Sending /\ Words = 3 /\ Words' = 0 /\ Front' = Line \o Taken

(* A clock leaves the front as it is, sends a word of its first packet, or the last one. *)
LEMMA FrontStep ==
    ASSUME NEW n, Now(n), Clock
    PROVE  Kept1 \/ Word1 \/ Last1
<1>1. TypeOK /\ CoreInv /\ CountersAgree /\ CreditInv /\ WordInv /\ LineInv(n) /\ StateInv(n) /\ HalvesInv(n)
      /\ n \in 0 .. LastEntry - 1 /\ TypeOK'
  BY TypeStep DEF Now
<1>2. Lead \in Seq(Packets) /\ Line \in Seq(Packets) /\ Taken \in Seq(Packets) /\ Front \in Seq(Packets)
  BY <1>1, HeldIs
<1>3. /\ entry1' = Entry1Next(LoadData(full), ShiftData(full), AcceptedPa)
      /\ entry1 \in [pkt : Packets, pos : 0 .. 3] /\ entry1' \in [pkt : Packets, pos : 0 .. 3]
  BY <1>1, ClockIs DEF EntriesTick, TypeOK, EntriesTypeOK
<1>4. <<>> \in Seq(Packets) /\ <<>> \o <<>> = <<>>
  BY EmptySeq, ConcatEmptySeq
<1>5. CASE state = "IDLE"
  <2>1. n = 0 /\ ~Arrives /\ ~Follows /\ ~LoadData(full) /\ ~Sending
    BY <1>1, <1>5 DEF StateInv, LoadData, Sending
  <2>2. Idle(AnyReqPq, pq.atom)
    BY <1>1, <1>5, StatesAre
  <2>3. ~Sending'
    BY <2>2 DEF Idle, Sending
  <2>4. Line' = Line \o Taken
    BY <2>1, LineKept
  <2>5. Front' = Line' /\ Front = Line /\ Words' = 0 /\ Words = 0
    <3>1. Lead' = <<>> /\ Lead = <<>>
      BY <2>1, <2>3 DEF Lead
    <3>2. Line' \in Seq(Packets)
      BY <1>2, <2>4, ConcatProperties
    <3>3. <<>> \o Line' = Line' /\ <<>> \o Line = Line
      BY <1>2, <3>2, ConcatEmptySeq
    <3>4. QED
      BY <2>1, <2>3, <3>1, <3>3 DEF Front, Words
  <2>6. QED
    BY <2>4, <2>5 DEF Kept1
<1>6. CASE state = "LOAD"
  <2>1. n = 0 /\ Arrives /\ LoadData(full) /\ ~Sending /\ state' = "SHIFT" /\ entry1'.pkt = Comer
    BY <1>6, Takes1
  <2>2. LineInv(0)'
    BY <2>1, EmptyLine
  <2>3. Line = <<>> /\ Line' = <<>>
    <3>1. (TypeOK /\ LineInv(0) => Line = <<>>)'
      BY NoLine, PTL
    <3>2. QED
      BY <1>1, <2>1, <2>2, <3>1, NoLine
  <2>4. Lead = <<>> /\ Lead' = <<Comer>> /\ Taken = <<Comer>>
    BY <2>1 DEF Lead, Sending, Taken
  <2>5. Words = 0 /\ Words' = 0
    <3>1. entry1'.pos = 0
      BY <1>3, <1>6, <2>1 DEF Entry1Next, ShiftData
    <3>2. QED
      BY <2>1, <3>1 DEF Words
  <2>6. Front' = Taken \o <<>> /\ Front = <<>>
    BY <1>4, <2>3, <2>4 DEF Front
  <2>7. Taken \o <<>> = Taken /\ <<>> \o Taken = Taken
    BY <1>2, ConcatEmptySeq
  <2>8. QED
    BY <2>5, <2>6, <2>7 DEF Kept1
<1>7. CASE Sending /\ (state = "SHIFT" \/ full)
  <2>1. /\ ~LoadData(full) /\ Entry1Active(full) /\ activeD1
        /\ Arrives \/ Follows => n < LastEntry - 1
        /\ entry1'.pkt = entry1.pkt /\ state' \in {"SHIFT", "LDWAIT", "WAIT"}
    BY <1>7, Holds
  <2>2. Line' = Line \o Taken
    BY <2>1, LineKept
  <2>3. Lead' = Lead /\ Sending'
    BY <1>7, <2>1 DEF Lead, Sending
  <2>4. Front' = Front \o Taken
    <3>1. (Lead \o Line) \o Taken = Lead \o (Line \o Taken)
      BY <1>2, ConcatAssociative
    <3>2. QED
      BY <2>2, <2>3, <3>1 DEF Front
  <2>5. CASE ShiftData(full)
    <3>1. state = "SHIFT" /\ entry1.pos \in 0 .. 2
      BY <1>1, <2>5, PcxAssumption DEF ShiftData, WordInv
    <3>2. entry1'.pos = entry1.pos + 1
      BY <1>3, <2>5, <3>1 DEF Entry1Next
    <3>3. Words = entry1.pos /\ Words' = entry1'.pos
      BY <1>7, <2>3 DEF Words
    <3>4. Words < 3 /\ Words' = Words + 1
      BY <3>1, <3>2, <3>3
    <3>5. QED
      BY <1>7, <2>4, <3>4 DEF Word1
  <2>6. CASE ~ShiftData(full)
    <3>1. entry1' = entry1
      BY <1>3, <2>1, <2>6 DEF Entry1Next
    <3>2. Words' = Words
      BY <1>7, <2>3, <3>1 DEF Words
    <3>3. QED
      BY <2>4, <3>2 DEF Kept1
  <2>7. QED
    BY <2>5, <2>6
<1>8. CASE state = "LDWAIT" /\ ~full
  <2>1. /\ LoadData(full) /\ ~ShiftData(full) /\ activeD1 /\ Entry1Active(full)
        /\ (n > 0 \/ Arrives) /\ n \in Int /\ 0 <= n /\ state' = "SHIFT"
        /\ entry1'.pkt = IF n > 0 THEN entries[2].pkt ELSE Comer
    BY <1>8, Loads
  <2>2. Sending /\ Sending' /\ Words = 3 /\ Words' = 0
    <3>1. Sending /\ Sending' /\ entry1.pos = 3
      BY <1>1, <1>8, <2>1 DEF Sending, WordInv
    <3>2. entry1'.pos = 0
      BY <1>3, <2>1 DEF Entry1Next
    <3>3. QED
      BY <3>1, <3>2 DEF Words
  <2>3. Front' = <<entry1'.pkt>> \o Line'
    BY <2>2 DEF Front, Lead
  <2>4. CASE n > 0
    <3>1. <<entries[2].pkt>> \o Line' = Line \o Taken
      BY <2>1, <2>4, LineShifted
    <3>2. QED
      BY <2>1, <2>2, <2>3, <2>4, <3>1 DEF Last1
  <2>5. CASE ~(n > 0)
    <3>1. n = 0 /\ Arrives
      BY <2>1, <2>5
    <3>2. LineInv(0)'
      BY <2>1, <3>1, EmptyLine
    <3>3. Line = <<>> /\ Line' = <<>>
      <4>1. (TypeOK /\ LineInv(0) => Line = <<>>)'
        BY NoLine, PTL
      <4>2. QED
        BY <1>1, <3>1, <3>2, <4>1, NoLine
    <3>4. Taken = <<Comer>> /\ entry1'.pkt = Comer
      BY <2>1, <2>5, <3>1 DEF Taken
    <3>5. Taken \o <<>> = Taken /\ <<>> \o Taken = Taken
      BY <1>2, ConcatEmptySeq
    <3>6. QED
      BY <2>2, <2>3, <3>3, <3>4, <3>5 DEF Last1
  <2>6. QED
    BY <2>4, <2>5
<1>9. CASE state = "WAIT" /\ ~full
  <2>1. n = 0 /\ ~Arrives /\ ~Follows /\ ~LoadData(full)
    BY <1>1, <1>9 DEF StateInv, LoadData
  <2>2. Wait(full, Pending)
    BY <1>1, <1>9, StatesAre
  <2>3. ~Sending' /\ Sending /\ entry1.pos = 3
    BY <1>1, <1>9, <2>2 DEF Wait, Sending, WordInv
  <2>4. Words = 3 /\ Words' = 0
    BY <2>3 DEF Words
  <2>5. Line' = Line \o Taken
    BY <2>1, LineKept
  <2>6. Front' = Line'
    <3>1. Lead' = <<>>
      BY <2>3 DEF Lead
    <3>2. Line' \in Seq(Packets)
      BY <1>2, <2>5, ConcatProperties
    <3>3. <<>> \o Line' = Line'
      BY <3>2, ConcatEmptySeq
    <3>4. QED
      BY <3>1, <3>3 DEF Front
  <2>7. QED
    BY <2>3, <2>4, <2>5, <2>6 DEF Last1
<1>10. QED
  BY <1>1, <1>5, <1>6, <1>7, <1>8, <1>9 DEF Sending, TypeOK, SmTypeOK

(* Where a sequence has packets for a destination. *)
At(q, d) == {i \in DOMAIN q : q[i].dest = d}

(* The packets of a sequence for one destination are finitely many. *)
LEMMA AtFinite ==
    ASSUME NEW s \in Seq(Packets), NEW d
    PROVE  IsFiniteSet(At(s, d)) /\ Cardinality(At(s, d)) \in Nat /\ At(s, d) \subseteq 1 .. Len(s)
<1>1. DOMAIN s = 1 .. Len(s) /\ Len(s) \in Nat
  BY LenProperties
<1>2. IsFiniteSet(1 .. Len(s))
  BY <1>1, FS_Interval
<1>3. At(s, d) \subseteq 1 .. Len(s)
  BY <1>1 DEF At
<1>4. IsFiniteSet(At(s, d))
  BY <1>2, <1>3, FS_Subset
<1>5. QED
  BY <1>3, <1>4, FS_CardinalityType

(* Moving a set by any distance keeps its size. *)
LEMMA MovedBy ==
    ASSUME NEW S, S \subseteq Int, IsFiniteSet(S), NEW m \in Int
    PROVE  /\ IsFiniteSet({i \in Int : i - m \in S})
           /\ Cardinality({i \in Int : i - m \in S}) = Cardinality(S)
<1> DEFINE T == {i \in Int : i - m \in S}
           f == [i \in S |-> i + m]
<1>1. f \in [S -> T]
  <2>1. ASSUME NEW i \in S PROVE i + m \in T
    <3>1. i \in Int /\ i + m - m = i
      BY S \subseteq Int
    <3>2. QED
      BY <3>1
  <2>2. QED
    BY <2>1
<1>2. \A a, b \in S : f[a] = f[b] => a = b
  <2>1. SUFFICES ASSUME NEW a \in S, NEW b \in S, f[a] = f[b] PROVE a = b
    OBVIOUS
  <2>2. a + m = b + m /\ a \in Int /\ b \in Int
    BY <2>1
  <2>3. QED
    BY <2>2
<1>3. \A t \in T : \E s \in S : f[s] = t
  <2>1. SUFFICES ASSUME NEW t \in T PROVE t - m \in S /\ f[t - m] = t
    OBVIOUS
  <2>2. t - m \in S /\ t - m + m = t
    BY <2>1
  <2>3. QED
    BY <2>2
<1>4. f \in Bijection(S, T)
  BY <1>1, <1>2, <1>3 DEF Bijection, Injection, Surjection, IsInjective
<1>5. ExistsBijection(S, T)
  BY <1>4 DEF ExistsBijection
<1> HIDE DEF T, f
<1>6. IsFiniteSet(T) /\ Cardinality(T) = Cardinality(S)
  BY <1>5, FS_Bijection
<1>7. QED
  BY <1>6 DEF T

(* Counting is additive. *)
LEMMA AtConcat ==
    ASSUME NEW s \in Seq(Packets), NEW t \in Seq(Packets), NEW d
    PROVE  Cardinality(At(s \o t, d)) = Cardinality(At(s, d)) + Cardinality(At(t, d))
<1> DEFINE T == {i \in Int : i - Len(s) \in At(t, d)}
<1>1. /\ IsFiniteSet(At(s, d)) /\ At(s, d) \subseteq 1 .. Len(s)
      /\ IsFiniteSet(At(t, d)) /\ At(t, d) \subseteq 1 .. Len(t)
      /\ Len(s) \in Nat /\ Len(t) \in Nat
  BY AtFinite, LenProperties
<1>2. IsFiniteSet(T) /\ Cardinality(T) = Cardinality(At(t, d))
  <2>1. At(t, d) \subseteq Int /\ Len(s) \in Int
    BY <1>1
  <2>2. QED
    BY <1>1, <2>1, MovedBy
<1>3. /\ s \o t \in Seq(Packets)
      /\ Len(s \o t) = Len(s) + Len(t)
      /\ \A i \in 1 .. Len(s) + Len(t) : (s \o t)[i] = IF i <= Len(s) THEN s[i] ELSE t[i - Len(s)]
  BY ConcatProperties
<1>4. DOMAIN (s \o t) = 1 .. Len(s) + Len(t) /\ DOMAIN s = 1 .. Len(s) /\ DOMAIN t = 1 .. Len(t)
  BY <1>3, LenProperties
<1>5. \A i \in At(s, d) : i \in 1 .. Len(s) + Len(t) /\ i <= Len(s) /\ s[i].dest = d
  BY <1>1 DEF At
<1>6. \A i \in T : i \in 1 .. Len(s) + Len(t) /\ ~(i <= Len(s)) /\ t[i - Len(s)].dest = d
  <2>1. SUFFICES ASSUME NEW i \in T
                 PROVE  i \in 1 .. Len(s) + Len(t) /\ ~(i <= Len(s)) /\ t[i - Len(s)].dest = d
    OBVIOUS
  <2>2. i \in Int /\ i - Len(s) \in At(t, d)
    OBVIOUS
  <2>3. i - Len(s) \in 1 .. Len(t) /\ t[i - Len(s)].dest = d
    BY <1>1, <2>2 DEF At
  <2>4. QED
    BY <1>1, <2>2, <2>3
<1>7. ASSUME NEW i \in 1 .. Len(s) + Len(t), (s \o t)[i].dest = d
      PROVE  i \in At(s, d) \/ i \in T
  <2>1. CASE i <= Len(s)
    <3>1. i \in 1 .. Len(s) /\ s[i].dest = d
      BY <1>1, <1>3, <1>7, <2>1
    <3>2. QED
      BY <1>4, <3>1 DEF At
  <2>2. CASE ~(i <= Len(s))
    <3>1. i - Len(s) \in 1 .. Len(t) /\ t[i - Len(s)].dest = d /\ i \in Int
      BY <1>1, <1>3, <1>7, <2>2
    <3>2. QED
      BY <1>4, <3>1 DEF At
  <2>3. QED
    BY <2>1, <2>2
<1> HIDE DEF T
<1>8. At(s \o t, d) = At(s, d) \union T
  <2>1. At(s \o t, d) = {i \in 1 .. Len(s) + Len(t) : (s \o t)[i].dest = d}
    BY <1>4 DEF At
  <2>2. \A i \in At(s, d) : (s \o t)[i].dest = d
    BY <1>3, <1>5
  <2>3. \A i \in T : (s \o t)[i].dest = d
    BY <1>3, <1>6
  <2>4. QED
    BY <1>5, <1>6, <1>7, <2>1, <2>2, <2>3
<1>9. At(s, d) \cap T = {}
  BY <1>5, <1>6
<1>10. Cardinality(At(s, d) \union T)
         = Cardinality(At(s, d)) + Cardinality(T) - Cardinality(At(s, d) \cap T)
  BY <1>1, <1>2, FS_Union
<1>11. Cardinality(At(s, d) \cap T) = 0
  BY <1>9, FS_EmptySet
<1>12. Cardinality(At(s, d)) \in Nat /\ Cardinality(T) \in Nat
  BY <1>1, <1>2, FS_CardinalityType
<1>13. QED
  BY <1>2, <1>8, <1>10, <1>11, <1>12

(* A sequence of one packet. *)
LEMMA AtOne ==
    ASSUME NEW p \in Packets, NEW d
    PROVE  Cardinality(At(<<p>>, d)) = Count(p.dest = d)
<1>1. PICK q : q = <<p>>
  OBVIOUS
<1>2. DOMAIN q = {1} /\ q[1] = p
  BY <1>1
<1>3. CASE p.dest = d
  <2>1. At(q, d) = {1}
    BY <1>2, <1>3 DEF At
  <2>2. Cardinality({1}) = 1
    BY FS_Singleton
  <2>3. QED
    BY <1>1, <1>3, <2>1, <2>2 DEF Count
<1>4. CASE p.dest # d
  <2>1. At(q, d) = {}
    BY <1>2, <1>4 DEF At
  <2>2. QED
    BY <1>1, <1>4, <2>1, FS_EmptySet DEF Count
<1>5. QED
  BY <1>3, <1>4

(* The empty sequence. *)
LEMMA AtNone ==
    ASSUME NEW d
    PROVE  Cardinality(At(<<>>, d)) = 0
<1>1. At(<<>>, d) = {}
  BY DEF At
<1>2. QED
  BY <1>1, FS_EmptySet

(* In the line as in the buffer. *)
LEMMA AtLine ==
    ASSUME TypeOK, NEW n \in 0 .. LastEntry - 1, LineInv(n), NEW d
    PROVE  Cardinality(At(Line, d)) = Cardinality(Places(d))
<1>1. /\ Line = [i \in 1 .. n |-> entries[i + 1].pkt]
      /\ LastEntry \in Nat /\ n \in Nat /\ n + 1 <= LastEntry
  BY LineIs, PcxAssumption
<1>2. IsFiniteSet(Places(d)) /\ Places(d) \subseteq Int
  BY PlacesFinite DEF EntryNumbers
<1>3. \A i \in EntryNumbers : entries[i].active <=> i <= n + 1
  BY DEF LineInv
<1>4. At(Line, d) = {i \in Int : i + 1 \in Places(d)}
  <2>1. At(Line, d) = {i \in 1 .. n : entries[i + 1].pkt.dest = d}
    BY <1>1 DEF At
  <2>2. \A i \in Int : i + 1 \in EntryNumbers /\ i + 1 <= n + 1 <=> i \in 1 .. n
    BY <1>1 DEF EntryNumbers
  <2>3. \A i \in Int : i + 1 \in Places(d) <=> i \in 1 .. n /\ entries[i + 1].pkt.dest = d
    BY <1>3, <2>2 DEF Places
  <2>4. 1 .. n \subseteq Int
    OBVIOUS
  <2>5. QED
    BY <2>1, <2>3, <2>4
<1>5. QED
  BY <1>2, <1>4, MovedSet

(* A request of two packets in PA is accepted. *)
LEMMA AtomicAccepted ==
    ASSUME TypeOK, CoreInv, CountersAgree, CreditInv, NEW d \in Dests
    PROVE  pa.dest = d /\ pa.atom <=> AcceptedPa.dest = d /\ pa.atom
<1>1. AcceptedPa.dest = d <=> pa.dest = d /\ ~Masked(d)
  BY AcceptedIs
<1>2. SUFFICES ASSUME pa.dest = d, pa.atom PROVE ~Masked(d)
  BY <1>1
<1>3. Full(d) = 1
  <2>1. d \in full0 /\ d \notin full1
    BY <1>2 DEF CoreInv
  <2>2. QED
    BY <2>1 DEF Full, Count
<1>4. link[d] \in Int /\ Full(d) = link[d] + Count(AcceptedPa.dest = d) + Count(px.dest = d /\ px.atom)
  BY LinkFacts
<1>5. link[d] < 2
  BY <1>3, <1>4 DEF Count
<1>6. QED
  BY <1>4, <1>5 DEF Masked

(* The credits given out are for the packets held and those to be granted. *)
LEMMA CreditOfHeld ==
    ASSUME NEW n, Now(n), NEW d \in Dests
    PROVE  /\ Counted(d) = Cardinality(At(Held, d)) + Count(FirstSent(d)) + Count(SecondSent(d))
                             + Count(grant = d)
           /\ Cardinality(At(Held, d)) \in Nat
<1>1. TypeOK /\ CoreInv /\ CountersAgree /\ CreditInv /\ LineInv(n) /\ n \in 0 .. LastEntry - 1
  BY DEF Now
<1>2. /\ Held = (Front \o Taken) \o Halved /\ Front = Lead \o Line
      /\ Lead \in Seq(Packets) /\ Line \in Seq(Packets) /\ Front \in Seq(Packets)
      /\ Taken \in Seq(Packets) /\ Halved \in Seq(Packets)
  BY <1>1, HeldIs DEF Front
<1>3. PICK p \in Nat : p = Cardinality(Places(d))
  BY PlacesFinite
<1>4. Cardinality(At(Lead, d)) = Count(SendingTo(d))
  <2>1. entry1.pkt \in Packets
    BY <1>1 DEF TypeOK, EntriesTypeOK
  <2>2. QED
    BY <2>1, AtOne, AtNone DEF Lead, SendingTo, Count
<1>5. Cardinality(At(Line, d)) = p
  BY <1>1, <1>3, AtLine
<1>6. Cardinality(At(Taken, d)) = Count((Arrives \/ Follows) /\ Comer.dest = d)
  BY <1>1, TakenIs, AtOne, AtNone DEF Count
<1>7. Cardinality(At(Halved, d)) = Count(pa.dest = d /\ pa.atom)
  <2>1. Second(pa) \in Packets /\ Second(pa).dest = pa.dest
    BY <1>1, AcceptedIs, RequestTypes DEF Second
  <2>2. Arrives /\ pa.atom /\ pa.dest = d <=> pa.dest = d /\ pa.atom
    BY <1>1, AtomicAccepted, PcxAssumption DEF Arrives
  <2>3. QED
    BY <2>1, <2>2, AtOne, AtNone DEF Halved, Count
<1>8. Cardinality(At(Front, d)) = Count(SendingTo(d)) + p
  BY <1>2, <1>4, <1>5, AtConcat
<1>9. Cardinality(At(Front \o Taken, d)) = Cardinality(At(Front, d)) + Cardinality(At(Taken, d))
      /\ Front \o Taken \in Seq(Packets)
  <2>1. Front \in Seq(Packets) /\ Taken \in Seq(Packets)
    BY <1>2
  <2>2. Front \o Taken \in Seq(Packets)
    BY <2>1, ConcatProperties
  <2>3. QED
    BY <2>1, <2>2, AtConcat
<1>10. Cardinality(At(Held, d)) = Cardinality(At(Front \o Taken, d)) + Cardinality(At(Halved, d))
  BY <1>2, <1>9, AtConcat
<1>11. Cardinality(At(Held, d)) = Count(SendingTo(d)) + p
          + Count((Arrives \/ Follows) /\ Comer.dest = d) + Count(pa.dest = d /\ pa.atom)
  BY <1>6, <1>7, <1>8, <1>9, <1>10
<1>12. Count((Arrives \/ Follows) /\ Comer.dest = d)
          = Count(AcceptedPa.dest = d) + Count(px.dest = d /\ px.atom)
  BY <1>1, ComerIs DEF Count
<1>13. link[d] = p + Count(SendingTo(d)) + Count(FirstSent(d)) + Count(SecondSent(d)) + Count(grant = d)
  BY <1>1, <1>3 DEF CreditInv
<1>14. /\ Full(d) = link[d] + Count(AcceptedPa.dest = d) + Count(px.dest = d /\ px.atom)
       /\ Counted(d) = Full(d) + Count(pa.dest = d /\ pa.atom)
  BY <1>1, LinkFacts DEF Counted, Full
<1>15. QED
  BY <1>11, <1>12, <1>13, <1>14 DEF Count

(* Credits: a grant gives one back, a request takes one for each packet. *)
LEMMA AccountStep ==
    ASSUME NEW n, Now(n), Clock, NEW d \in Dests
    PROVE  /\ Counted(d)' = Counted(d) - Count(d = grant)
                              + (IF d = Sent.dest THEN Len(PacketsOf(Sent)) ELSE 0)
           /\ Counted(d)' \in Int /\ Counted(d)' <= 2
<1>1. TypeOK /\ WordInv /\ CoreInv /\ CountersAgree /\ CreditInv /\ CoreInv' /\ CountersAgree'
      /\ pq \in Lines /\ d # NoDest
  BY CoreStep, PcxAssumption DEF Now, TypeOK, CoreTypeOK
<1>2. Counted(d) = Full(d) + Count(pa.dest = d /\ pa.atom)
  BY DEF Counted, Full
<1>3. Counted(d)' = Full(d)' + Count(pq.dest = d /\ pq.atom)
  <2>1. pa' = pq
    BY ClockIs
  <2>2. Counted(d)' = Full(d)' + Count(pa'.dest = d /\ pa'.atom)
    BY DEF Counted, Full, Count
  <2>3. QED
    BY <2>1, <2>2
<1>4. Full(d)' = link'[d] + Count(AcceptedPa'.dest = d) + Count(px'.dest = d /\ px'.atom)
  BY <1>1 DEF CountersAgree, Full, Count
<1>5. link'[d] = Full(d) - Count(grant = d) /\ Full(d) \in {0, 1, 2}
  BY <1>1, LinkStep, LinkFacts
<1>6. px'.dest = d /\ px'.atom <=> pa.dest = d /\ pa.atom
  BY <1>1, AcceptedNext, AtomicAccepted
<1>7. AcceptedPa'.dest = d <=> Sent.dest = d
  <2>1. Arrives' => Sent = pq /\ AcceptedPa' = pq
    BY <1>1, AcceptedNext, HeldNext
  <2>2. ~Arrives' => Sent.dest = NoDest /\ AcceptedPa'.dest = NoDest
    BY HeldNext DEF Arrives
  <2>3. QED
    BY <1>1, <2>1, <2>2
<1>8. pq.dest = d /\ pq.atom => AcceptedPa'.dest = d
  <2>1. SUFFICES ASSUME pq.dest = d, pq.atom PROVE Full(d) - Count(grant = d) < 2
    BY <1>1, AcceptedNext
  <2>2. d \notin full0 /\ d \notin full1
    BY <1>1, <2>1 DEF CoreInv
  <2>3. Full(d) = 0
    BY <2>2 DEF Full, Count
  <2>4. QED
    BY <2>3 DEF Count
<1>9. Sent.dest = d => Len(PacketsOf(Sent)) = 1 + Count(pq.dest = d /\ pq.atom)
  <2>1. SUFFICES ASSUME Sent.dest = d PROVE Len(PacketsOf(Sent)) = 1 + Count(pq.dest = d /\ pq.atom)
    OBVIOUS
  <2>2. Sent = pq /\ pq.dest # NoDest
    BY <1>1, <2>1, HeldNext
  <2>3. CASE pq.atom
    <3>1. PacketsOf(Sent) = <<First(pq), Second(pq)>>
      BY <2>2, <2>3, PacketsAre
    <3>2. QED
      BY <2>1, <2>2, <2>3, <3>1 DEF Count
  <2>4. CASE ~pq.atom
    <3>1. PacketsOf(Sent) = <<First(pq)>>
      BY <2>2, <2>4, PacketsAre
    <3>2. QED
      BY <2>1, <2>2, <2>4, <3>1 DEF Count
  <2>5. QED
    BY <2>3, <2>4
<1>10. Counted(d)' = Counted(d) - Count(d = grant) + Count(Sent.dest = d) + Count(pq.dest = d /\ pq.atom)
  BY <1>2, <1>3, <1>4, <1>5, <1>6, <1>7 DEF Count
<1>11. Counted(d)' = Counted(d) - Count(d = grant)
                              + (IF d = Sent.dest THEN Len(PacketsOf(Sent)) ELSE 0)
  <2>1. Counted(d) \in Int
    BY DEF Counted, Count
  <2>2. CASE Sent.dest = d
    <3>1. PICK c \in Int : c = Counted(d) - Count(d = grant)
      BY <2>1 DEF Count
    <3>2. PICK h \in Int : h = Count(pq.dest = d /\ pq.atom)
      BY DEF Count
    <3>3. Count(Sent.dest = d) = 1
      BY <2>2 DEF Count
    <3>4. Counted(d)' = c + 1 + h
      BY <1>10, <3>1, <3>2, <3>3
    <3>5. Len(PacketsOf(Sent)) = 1 + h
      BY <1>9, <2>2, <3>2
    <3>6. c + 1 + h = c + (1 + h)
      OBVIOUS
    <3>7. QED
      BY <2>2, <3>1, <3>4, <3>5, <3>6
  <2>3. CASE Sent.dest # d
    <3>1. ~(pq.dest = d /\ pq.atom)
      BY <1>7, <1>8, <2>3
    <3>2. QED
      BY <1>10, <2>1, <2>3, <3>1 DEF Count
  <2>4. QED
    BY <2>2, <2>3
<1>12. Counted(d)' \in Int /\ Counted(d)' <= 2
  <2>1. pa' = pq
    BY ClockIs
  <2>2. pq.dest = d /\ pq.atom => d \in full0' /\ d \notin full1'
    BY <1>1, <2>1 DEF CoreInv
  <2>3. Full(d)' = Count(d \in full0') + Count(d \in full1')
    BY DEF Full, Count
  <2>4. QED
    BY <1>3, <2>2, <2>3 DEF Count
<1>13. QED
  BY <1>11, <1>12

(* A word or a packet leaves, or nothing does. *)
LEMMA OutStep ==
    ASSUME NEW n, Now(n), Clock
    PROVE  \E q \in {Held, IF Held = <<>> THEN Held ELSE Tail(Held)} :
              /\ \/ Words' = Words /\ q = Held
                 \/ Held # <<>> /\ Words < 3 /\ Words' = Words + 1 /\ q = Held
                 \/ Held # <<>> /\ Words = 3 /\ Words' = 0 /\ q = Tail(Held)
              /\ Held' = q \o PacketsOf(Sent)
<1>1. TypeOK /\ CoreInv /\ LineInv(n) /\ n \in 0 .. LastEntry - 1
  BY DEF Now
<1>2. Held = (Front \o Taken) \o Halved /\ Front = Lead \o Line
  BY <1>1, HeldIs DEF Front
<1>3. /\ Lead \in Seq(Packets) /\ Line \in Seq(Packets) /\ Front \in Seq(Packets)
      /\ Taken \in Seq(Packets) /\ Halved \in Seq(Packets)
  BY <1>1, HeldIs
<1>4. Held' = (Front' \o Halved) \o PacketsOf(Sent)
  BY HeldNext
<1>5. CASE Front' = Front \o Taken
  <2>1. Held' = Held \o PacketsOf(Sent)
    BY <1>2, <1>4, <1>5
  <2>2. CASE Kept1
    BY <2>1, <2>2 DEF Kept1
  <2>3. CASE Sending /\ Words < 3 /\ Words' = Words + 1
    <3>1. Held # <<>>
      <4>1. Lead # <<>>
        BY <2>3 DEF Lead
      <4>2. Front # <<>>
        BY <1>2, <1>3, <4>1, ConcatEqualIffEmpty
      <4>3. Front \o Taken # <<>> /\ Front \o Taken \in Seq(Packets)
        BY <1>3, <4>2, ConcatEqualIffEmpty, ConcatProperties
      <4>4. QED
        BY <1>2, <1>3, <4>3, ConcatEqualIffEmpty
    <3>2. QED
      BY <2>1, <2>3, <3>1
  <2>4. CASE Last1
    <3>1. Len(Front') = Len(Line) + Len(Taken)
      BY <1>3, <2>4, ConcatProperties DEF Last1
    <3>2. Len(Lead) = 1
      BY <2>4 DEF Last1, Lead
    <3>3. Len(Front) = 1 + Len(Line)
      BY <1>2, <1>3, <3>2, ConcatProperties
    <3>4. Len(Front \o Taken) = Len(Front) + Len(Taken)
      BY <1>3, ConcatProperties
    <3>5. Len(Line) \in Nat /\ Len(Taken) \in Nat
      BY <1>3, LenProperties
    <3>6. QED
      BY <1>5, <3>1, <3>3, <3>4, <3>5
  <2>5. QED
    BY <2>2, <2>3, <2>4, FrontStep DEF Word1
<1>6. CASE Last1
  <2>1. PICK rest \in Seq(Packets) : rest = (Line \o Taken) \o Halved
    <3>1. Line \o Taken \in Seq(Packets)
      BY <1>3, ConcatProperties
    <3>2. (Line \o Taken) \o Halved \in Seq(Packets)
      BY <1>3, <3>1, ConcatProperties
    <3>3. QED
      BY <3>2
  <2>2. Lead = <<entry1.pkt>> /\ entry1.pkt \in Packets
    BY <1>1, <1>6 DEF Last1, Lead, TypeOK, EntriesTypeOK
  <2>3. Held = Lead \o rest
    <3>1. Line \o Taken \in Seq(Packets)
      BY <1>3, ConcatProperties
    <3>7. Lead \in Seq(Packets) /\ Line \in Seq(Packets) /\ Taken \in Seq(Packets)
      BY <1>3
    <3>4. (Lead \o Line) \o Taken = Lead \o (Line \o Taken)
      BY <3>7, ConcatAssociative
    <3>2. PICK u : u = Line \o Taken
      OBVIOUS
    <3>3. Lead \in Seq(Packets) /\ u \in Seq(Packets) /\ Halved \in Seq(Packets)
      BY <1>3, <3>1, <3>2
    <3>5. (Lead \o u) \o Halved = Lead \o (u \o Halved)
      BY <3>3, ConcatAssociative
    <3>6. QED
      BY <1>2, <2>1, <3>2, <3>4, <3>5
  <2>4. Held # <<>> /\ Tail(Held) = rest
    BY <1>3, <2>1, <2>2, <2>3, TailOff
  <2>5. Held' = rest \o PacketsOf(Sent)
    BY <1>4, <1>6, <2>1 DEF Last1
  <2>6. QED
    BY <1>6, <2>4, <2>5 DEF Last1
<1>7. QED
  BY <1>5, <1>6, FrontStep DEF Kept1, Word1

(* Requests and packets of the link are those of the bridge. *)
LEMMA LinkPackets == Link!Lines = Lines /\ \A r : Link!PacketsOf(r) = PacketsOf(r)
<1>1. Link!Lines = Lines
  BY DEF Link!Lines, Lines, Link!Requests, Requests, Link!NoRequest, NoRequest
<1>2. \A r : Link!First(r) = First(r) /\ Link!Second(r) = Second(r)
  BY DEF Link!First, First, Link!Second, Second
<1>3. \A r : Link!PacketsOf(r) = PacketsOf(r)
  BY <1>2, Zenon DEF Link!PacketsOf, PacketsOf
<1>4. QED
  BY <1>1, <1>3

(* Nothing is held at first. *)
LEMMA InitMaps == Init => Link!Init
<1> SUFFICES ASSUME Init PROVE Link!Init
  OBVIOUS
<1>1. IInv
  BY InitInv
<1>2. /\ state = "IDLE" /\ px = NoRequest /\ pa = NoRequest /\ full0 = {} /\ full1 = {}
      /\ \A i \in EntryNumbers : ~entries[i].active
  BY DEF Init, CoreInit, SmInit, EntriesInit, Inactive
<1>3. PICK n \in 0 .. LastEntry - 1 : LineInv(n) /\ StateInv(n) /\ HalvesInv(n)
  BY <1>1 DEF IInv
<1>4. TypeOK /\ CoreInv /\ LineInv(n) /\ n = 0 /\ ~Arrives /\ ~Follows /\ ~Sending
  BY <1>1, <1>2, <1>3 DEF IInv, StateInv, Sending
<1>5. Line = <<>> /\ Lead = <<>> /\ Taken = <<>> /\ Halved = <<>>
  BY <1>4, NoLine DEF Lead, Taken, Halved
<1>6. <<>> \o <<>> = <<>>
  BY EmptySeq, ConcatEmptySeq
<1>7. Held = <<>>
  BY <1>3, <1>4, <1>5, <1>6, HeldIs DEF Front
<1>8. \A d \in Dests : Counted(d) = 0
  <2>1. \A d \in Dests : d # NoDest
    BY PcxAssumption
  <2>2. QED
    BY <1>2, <2>1, RequestTypes DEF Counted, Count
<1>9. QED
  BY <1>4, <1>7, <1>8 DEF Link!Init

(* A clock edge is a step of the link. *)
LEMMA ClockMaps ==
    ASSUME IInv, Clock
    PROVE  Link!Next
<1>1. PICK n : Now(n)
  BY DEF IInv, Now
<1>2. PICK q \in {Held, IF Held = <<>> THEN Held ELSE Tail(Held)} :
              /\ \/ Words' = Words /\ q = Held
                 \/ Held # <<>> /\ Words < 3 /\ Words' = Words + 1 /\ q = Held
                 \/ Held # <<>> /\ Words = 3 /\ Words' = 0 /\ q = Tail(Held)
              /\ Held' = q \o PacketsOf(Sent)
  BY <1>1, OutStep
<1>3. Link!WordOut(q)
  BY <1>2 DEF Link!WordOut, Words
<1>4. grant \in Dests \union {NoDest}
  BY DEF IInv, TypeOK, SmTypeOK
<1>5. Sent \in Lines
  BY <1>1, HeldNext
<1>6. Link!Account(grant, Sent)
  <2>1. grant # NoDest => Counted(grant) > Link!InQueue(grant)
    <3>1. SUFFICES ASSUME NEW d \in Dests, grant = d
                   PROVE  Counted(d) > Link!InQueue(d)
      BY <1>4
    <3>2. Counted(d) = Cardinality(At(Held, d)) + Count(FirstSent(d)) + Count(SecondSent(d)) + 1
          /\ Cardinality(At(Held, d)) \in Nat
      BY <1>1, <3>1, CreditOfHeld DEF Count
    <3>3. Link!InQueue(d) = Cardinality(At(Held, d))
      <4>1. \A S : Link!Cardinality(S) = Cardinality(S)
        BY Zenon DEF Link!Cardinality, Cardinality
      <4>2. QED
        BY <4>1 DEF Link!InQueue, At
    <3>4. QED
      BY <3>2, <3>3 DEF Count
  <2>2. \A d \in Dests :
           /\ Counted(d)' = Counted(d) - Count(d = grant)
                              + (IF d = Sent.dest THEN Len(PacketsOf(Sent)) ELSE 0)
           /\ Counted(d)' <= 2
    BY <1>1, AccountStep
  <2>3. QED
    BY <1>4, <2>1, <2>2, LinkPackets DEF Link!Account, Count
<1>7. QED
  BY <1>2, <1>3, <1>4, <1>5, <1>6, LinkPackets DEF Link!Next

(***************************************************************************)
(* The bridge is the link that the core counts on (PcxLink): every packet  *)
(* that the core counts as sent reaches the FIFO once, whole, in the order *)
(* sent and with an atomic's halves together; one that the core takes back *)
(* never does; a credit comes back only for a packet that has left, and    *)
(* never more than two packets of a destination are on the way.            *)
(***************************************************************************)
THEOREM BridgeIsLink == Spec => ImplementsLink
<1>1. ASSUME IInv, [Next]_vars
      PROVE  [Link!Next]_<<Held, IF Sending THEN entry1.pos ELSE 0, [d \in Dests |-> Counted(d)]>>
  <2>1. CASE Clock
    BY <1>1, <2>1, ClockMaps
  <2>2. CASE UNCHANGED vars
    <3>1. UNCHANGED <<state, entry1, entries, full0, full1, pa, px, link>>
      BY <2>2 DEF vars, coreVars, entryVars, smVars
    <3>2. Held' = Held
      BY <3>1 DEF Held, Sending, Queued, AcceptedPa, Masked, PacketsOf, First, Second
    <3>3. (IF Sending THEN entry1.pos ELSE 0)' = IF Sending THEN entry1.pos ELSE 0
      BY <3>1 DEF Sending
    <3>4. [d \in Dests |-> Counted(d)]' = [d \in Dests |-> Counted(d)]
      BY <3>1 DEF Counted, Count
    <3>5. QED
      BY <3>2, <3>3, <3>4
  <2>3. QED
    BY <1>1, <2>1, <2>2 DEF Next
<1>2. QED
  BY <1>1, InitMaps, Inductive, PTL DEF Spec, ImplementsLink, Link!Spec
=============================================================================
