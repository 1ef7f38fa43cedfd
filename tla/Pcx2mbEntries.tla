--------------------------- MODULE Pcx2mbEntries ----------------------------
(***************************************************************************)
(* The buffer of pcx2mb: entry 1, the shift register that feeds the FIFO,  *)
(* and the chain of entries 2.. (pcx2mb_entry) behind it.                  *)
(***************************************************************************)
EXTENDS PcxBase

VARIABLES
    entry1,   \* packet being sent, and how many words have been shifted out
    entries   \* entries 2 .. LastEntry

entryVars == <<entry1, entries>>

EntriesTypeOK ==
    /\ entry1 \in [pkt : Packets, pos : 0 .. 3]
    /\ entries \in [EntryNumbers -> [active : BOOLEAN, pkt : Packets]]

EntriesInit ==
    /\ entry1 = [pkt |-> First(NoRequest), pos |-> 0]
    /\ entries = [i \in EntryNumbers |-> Inactive]

Previous(i) == IF i = LastEntry THEN Inactive ELSE entries[i + 1]

(* The entry that a packet arriving in this cycle belongs in. *)
Takes(i, load, nextActive) ==
    nextActive /\ IF load THEN entries[i].active /\ ~Previous(i).active
                          ELSE ~entries[i].active

(* Mutation of EntryNext: a load does not make room for the arriving packet. *)
EntryNextNoShift(i, load, nextActive, pa, px) ==
    IF load /\ Previous(i).active THEN Previous(i)
    ELSE IF pa.dest # NoDest /\ nextActive /\ ~load /\ ~entries[i].active
         THEN [active |-> TRUE, pkt |-> First(pa)]
    ELSE IF px.dest # NoDest /\ px.atom /\ Takes(i, load, nextActive)
         THEN [active |-> TRUE, pkt |-> Second(px)]
    ELSE [entries[i] EXCEPT !.active = @ /\ ~load]

(***************************************************************************)
(* pcx2mb_entry: shift on a load; else take the packet of the request in   *)
(* PA; else the second half of the atomic in PX; else keep, a load         *)
(* emptying the entry.  pa and px have NoDest where nothing is accepted.   *)
(***************************************************************************)
EntryNext(i, load, nextActive, pa, px) ==
    IF load /\ Previous(i).active THEN Previous(i)
    ELSE IF pa.dest # NoDest /\ Takes(i, load, nextActive)
         THEN [active |-> TRUE, pkt |-> First(pa)]
    ELSE IF px.dest # NoDest /\ px.atom /\ Takes(i, load, nextActive)
         THEN [active |-> TRUE, pkt |-> Second(px)]
    ELSE [entries[i] EXCEPT !.active = @ /\ ~load]

(* Entry 1 shifts, loads entry 2, or loads the request in PA directly. *)
Entry1Next(load, shift, pa) ==
    CASE shift -> [entry1 EXCEPT !.pos = @ + 1]
      [] ~shift /\ load ->
            [pkt |-> IF entries[2].active THEN entries[2].pkt ELSE First(pa), pos |-> 0]
      [] OTHER -> entry1

(* active12: next_active of entry 2. *)
EntriesTick(load, shift, active12, pa, px) ==
    /\ entry1' = Entry1Next(load, shift, pa)
    /\ entries' = [i \in EntryNumbers |->
          EntryNext(i, load, IF i = 2 THEN active12 ELSE entries[i - 1].active, pa, px)]
=============================================================================
