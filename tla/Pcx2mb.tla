------------------------------- MODULE Pcx2mb -------------------------------
(***************************************************************************)
(* pcx2mb with the core in front of it and the FIFO behind it, one step    *)
(* per clock edge.  The FIFO is full in any cycle it likes.                *)
(***************************************************************************)
EXTENDS PcxCore, Pcx2mbEntries, Pcx2mbSm

VARIABLES
    pa,    \* req_dest_pa_raw, req_atom_pa and the data lines, stage PA
    px,    \* req_dest_px, req_atom_px, stage PX
    link,  \* link_count_pa by destination
    full   \* fsl_pcx_m_full

vars == <<coreVars, entryVars, smVars, pa, px, link, full>>

TypeOK ==
    /\ CoreTypeOK /\ EntriesTypeOK /\ SmTypeOK
    /\ pa \in Lines
    /\ px \in [dest : Dests \union {NoDest}, atom : BOOLEAN, data : Data]
    /\ link \in [Dests -> 0 .. 3]
    /\ full \in BOOLEAN

Init ==
    /\ CoreInit /\ EntriesInit /\ SmInit
    /\ pa = NoRequest /\ px = NoRequest
    /\ link = [d \in Dests |-> 0]
    /\ full \in BOOLEAN

(* request_mask_pa: two packets for the destination are unanswered. *)
Masked(d) == link[d] >= 2

(* any_req_pq: the request in PQ, unless masked and no grant comes. *)
AnyReqPq == pq.dest # NoDest /\ (Masked(pq.dest) => grant = pq.dest)

(* Mutation of AcceptedPa: the speculative third request is not dropped. *)
AcceptedUnmasked == pa

(* req_dest_pa: the request in PA, dropped while its destination is masked. *)
AcceptedPa ==
    IF pa.dest # NoDest /\ Masked(pa.dest) THEN [pa EXCEPT !.dest = NoDest] ELSE pa

(* Mutation of LinkNext: the second half of an atomic is not counted. *)
LinkNextHalf(d) ==
    LET inc == AcceptedPa.dest = d
        dec == grant = d
    IN  CASE inc /\ ~dec /\ ~Masked(d) -> link[d] + 1
          [] dec /\ ~inc -> (link[d] + 3) % 4
          [] OTHER -> link[d]

(* pcx2mb_link_ctr: up for an accepted packet, down for a grant. *)
LinkNext(d) ==
    LET inc == AcceptedPa.dest = d \/ (px.dest = d /\ px.atom)
        dec == grant = d
    IN  CASE inc /\ ~dec /\ ~Masked(d) -> link[d] + 1
          [] dec /\ ~inc -> (link[d] + 3) % 4
          [] OTHER -> link[d]

Clock ==
    /\ CoreTick(pa, grant)
    /\ pa' = pq
    /\ px' = AcceptedPa
    /\ link' = [d \in Dests |-> LinkNext(d)]
    /\ EntriesTick(LoadData(full), ShiftData(full),
                   Entry1Active(full) /\ activeD1, AcceptedPa, px)
    /\ SmTick(AnyReqPq, AcceptedPa.dest # NoDest, pq.atom, full,
              entry1.pkt.dest, entries[2])
    /\ full' \in BOOLEAN

Next == Clock
Spec == Init /\ [][Next]_vars

(***************************************************************************)
(* Something is in flight, so that a clock edge with room in the FIFO      *)
(* changes a register.  Fairness: the clock does not stop then, and the    *)
(* reader of the FIFO makes room in it again and again.                    *)
(***************************************************************************)
Busy == state # "IDLE" \/ pq # NoRequest \/ pa # NoRequest \/ grant # NoDest
            \/ atomicSecondD1
FairSpec == Spec /\ WF_vars(Clock /\ Busy /\ ~full) /\ []<>~full

-----------------------------------------------------------------------------
(***************************************************************************)
(* The abstract link this implements.                                      *)
(***************************************************************************)

(* Entry 1 holds a packet whose last word the FIFO has not accepted. *)
Sending == state \in {"SHIFT", "LDWAIT", "WAIT"}

(* The active entries are the first ones behind entry 1. *)
Queued == Cardinality({i \in EntryNumbers : entries[i].active})

(* Packets accepted from the core, oldest first, up to those on its lines. *)
Held ==
    (IF Sending THEN <<entry1.pkt>> ELSE <<>>)
      \o [i \in 1 .. Queued |-> entries[i + 1].pkt]
      \o (IF px.dest # NoDest /\ px.atom THEN <<Second(px)>> ELSE <<>>)
      \o PacketsOf(AcceptedPa)

Count(P) == IF P THEN 1 ELSE 0

(* Packets the core counts as sent and not granted. *)
Counted(d) ==
    Count(d \in full0) + Count(d \in full1) + Count(pa.dest = d /\ pa.atom)

Link == INSTANCE PcxLink WITH
    queue <- Held,
    words <- IF Sending THEN entry1.pos ELSE 0,
    credit <- [d \in Dests |-> Counted(d)]

(***************************************************************************)
(* Every packet the core counts as sent reaches the FIFO once, whole, in   *)
(* order, with an atomic's halves together; one that the core takes back   *)
(* (the speculative third) never does; and each grant is for a packet the  *)
(* FIFO has accepted.                                                      *)
(***************************************************************************)
ImplementsLink == Link!Spec

(***************************************************************************)
(* The control bit marks the first word of a packet and no other, also     *)
(* when the FIFO refuses words in between.                                 *)
(***************************************************************************)
ControlMarksFirst == WriteWord(full) => Sending /\ (control <=> entry1.pos = 0)

(***************************************************************************)
(* The link counter of the bridge and the queue monitor of the core agree  *)
(* on every destination although they count in different stages.           *)
(***************************************************************************)
CountersAgree ==
    \A d \in Dests :
        Count(d \in full0) + Count(d \in full1)
          = link[d] + Count(AcceptedPa.dest = d) + Count(px.dest = d /\ px.atom)

(***************************************************************************)
(* The bridge drops a request in PA exactly when the core squashed it in   *)
(* PQ and will send it again ("it must be dropped, because the core will   *)
(* re-send it", pcx2mb_link_ctr): none is lost, none is sent twice.        *)
(***************************************************************************)
DropsAgree ==
    [][pq.dest # NoDest => (Squash(grant) <=> AcceptedPa'.dest = NoDest)]_vars

(***************************************************************************)
(* Once the core sends nothing more to a destination, all its credits come *)
(* back for good, also the second of an atomic, if only the FIFO is        *)
(* emptied again and again; so no queue stays full for ever.               *)
(***************************************************************************)
CreditsReturn == \A d \in Dests : <>[](pq.dest # d) => <>[](d \notin full0)
=============================================================================
