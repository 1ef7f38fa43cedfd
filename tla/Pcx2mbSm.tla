------------------------------ MODULE Pcx2mbSm ------------------------------
(***************************************************************************)
(* pcx2mb_sm: loads entry 1, shifts its four words into the FIFO whenever  *)
(* the FIFO is not full, and grants the packet to the core when its last   *)
(* word has been accepted.                                                 *)
(***************************************************************************)
EXTENDS PcxBase

VARIABLES
    state, count,        \* curr_state, curr_count
    dataWrite, control,  \* data_write, data_control: the FIFO's write side
    grant,               \* pcx_spc_grant_px
    atomicFirst,         \* entry 1 holds the first half of an atomic
    atomicSecond, atomicSecondD1,
    destD1,              \* entry1_dest_d1
    activeD1             \* entry1_active_d1 (a register of pcx2mb)

smVars == <<state, count, dataWrite, control, grant, atomicFirst,
            atomicSecond, atomicSecondD1, destD1, activeD1>>

StartCount == 3  \* PCX_START_COUNT: a packet has four FIFO words

SmTypeOK ==
    /\ state \in {"IDLE", "LOAD", "SHIFT", "LDWAIT", "WAIT"}
    /\ count \in 0 .. 7
    /\ dataWrite \in BOOLEAN /\ control \in BOOLEAN
    /\ grant \in Dests \union {NoDest} /\ destD1 \in Dests \union {NoDest}
    /\ atomicFirst \in BOOLEAN /\ atomicSecond \in BOOLEAN
    /\ atomicSecondD1 \in BOOLEAN /\ activeD1 \in BOOLEAN

SmInit ==
    /\ state = "IDLE" /\ count = 0 /\ dataWrite = FALSE /\ control = FALSE
    /\ grant = NoDest /\ destD1 = NoDest
    /\ atomicFirst = FALSE /\ atomicSecond = FALSE
    /\ atomicSecondD1 = FALSE /\ activeD1 = FALSE

(* Mutation of ShiftData: the FIFO's full is ignored. *)
ShiftAlways(full) == state = "SHIFT"

LoadData(full) == state = "LOAD" \/ (state = "LDWAIT" /\ ~full)
ShiftData(full) == state = "SHIFT" /\ ~full
Entry1Active(full) == state # "IDLE" \/ (dataWrite /\ full)
WriteWord(full) == dataWrite /\ ~full

Idle(anyPq, atomPq) ==
    /\ state = "IDLE"
    /\ state' = IF anyPq THEN "LOAD" ELSE "IDLE"
    /\ atomicFirst' = (anyPq /\ atomPq)
    /\ atomicSecond' = FALSE
    /\ count' = 0 /\ dataWrite' = FALSE /\ control' = FALSE

Load ==
    /\ state = "LOAD"
    /\ state' = "SHIFT" /\ count' = StartCount
    /\ dataWrite' = TRUE /\ control' = TRUE
    /\ UNCHANGED <<atomicFirst, atomicSecond>>

(* Mutation of Shift: the control bit drops while the FIFO is full. *)
ShiftDroppingControl(full, pending) ==
    /\ state = "SHIFT"
    /\ IF full THEN UNCHANGED <<state, count>>
       ELSE /\ count' = count - 1
            /\ state' = IF count > 1 THEN "SHIFT" ELSE IF pending THEN "LDWAIT" ELSE "WAIT"
    /\ control' = FALSE
    /\ dataWrite' = TRUE
    /\ UNCHANGED <<atomicFirst, atomicSecond>>

(* The words before the last; pending: another packet is or will be there. *)
Shift(full, pending) ==
    /\ state = "SHIFT"
    /\ IF full THEN UNCHANGED <<state, count>>
       ELSE /\ count' = count - 1
            /\ state' = IF count > 1 THEN "SHIFT" ELSE IF pending THEN "LDWAIT" ELSE "WAIT"
    /\ control' = (full /\ count = StartCount)
    /\ dataWrite' = TRUE
    /\ UNCHANGED <<atomicFirst, atomicSecond>>

(* The last word, the next packet ready: load it once the word is taken. *)
LoadWait(full, entry2Atom) ==
    /\ state = "LDWAIT"
    /\ dataWrite' = TRUE
    /\ IF full
       THEN control' = FALSE /\ UNCHANGED <<state, count, atomicFirst, atomicSecond>>
       ELSE /\ state' = "SHIFT" /\ count' = StartCount /\ control' = TRUE
            /\ atomicFirst' = entry2Atom /\ atomicSecond' = atomicFirst

(* The last word, nothing behind it. *)
Wait(full, pending) ==
    /\ state = "WAIT"
    /\ control' = FALSE
    /\ dataWrite' = full
    /\ IF full
       THEN /\ state' = IF pending THEN "LDWAIT" ELSE "WAIT"
            /\ UNCHANGED <<count, atomicFirst, atomicSecond>>
       ELSE /\ state' = IF pending THEN "LOAD" ELSE "IDLE"
            /\ count' = (count + 7) % 8
            /\ atomicFirst' = FALSE
            /\ atomicSecond' = (pending /\ atomicFirst)

(* Mutation of NextGrant: the second grant of an atomic is left out. *)
NextGrantOnce(full, pending) ==
    CASE state = "LDWAIT" -> ~full /\ ~atomicFirst
      [] state = "WAIT" -> ~full /\ (pending => ~atomicFirst)
      [] OTHER -> FALSE

(* next_grant: for the packet just accepted, or the first half before it. *)
NextGrant(full, pending) ==
    CASE state \in {"IDLE", "LOAD"} -> atomicSecondD1
      [] state = "SHIFT" -> atomicSecondD1 /\ ~atomicSecond /\ (full \/ count > 1)
      [] state = "LDWAIT" -> ~full /\ ~atomicFirst
      [] state = "WAIT" -> ~full /\ (pending => ~atomicFirst)

SmTick(anyPq, anyPa, atomPq, full, dest1, entry2) ==
    LET pending == entry2.active \/ anyPa \/ anyPq
    IN  /\ \/ Idle(anyPq, atomPq)
           \/ Load
           \/ Shift(full, pending)
           \/ LoadWait(full, entry2.pkt.atom)
           \/ Wait(full, pending)
        /\ grant' = IF NextGrant(full, pending) THEN destD1 ELSE NoDest
        /\ atomicSecondD1' = atomicSecond
        /\ destD1' = dest1
        /\ activeD1' = Entry1Active(full)
=============================================================================
