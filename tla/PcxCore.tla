------------------------------ MODULE PcxCore -------------------------------
(***************************************************************************)
(* The core's side of the request path: the queue monitors (lsu_pcx_qmon,  *)
(* one per destination, two packets each) and the selection of the next    *)
(* request (lsu_qctl1), which may speculate that a third packet fits.      *)
(***************************************************************************)
EXTENDS PcxBase

VARIABLES
    pq,      \* the request in stage PQ: spc_pcx_req_pq, spc_pcx_atom_pq
    full0,   \* destinations whose entry0_full is set: the oldest packet
    full1    \* destinations whose entry1_full is set: the youngest packet

coreVars == <<pq, full0, full1>>

CoreTypeOK == pq \in Lines /\ full0 \in SUBSET Dests /\ full1 \in SUBSET Dests

CoreInit == pq = NoRequest /\ full0 = {} /\ full1 = {}

(***************************************************************************)
(* spc_pcx_req_update_w2: a packet counts in its PQ cycle; pa is the       *)
(* request one cycle later, when the second half of an atomic counts.      *)
(***************************************************************************)
SendToPcx(pa, d) == pq.dest = d \/ (pa.dest = d /\ pa.atom)

(* Mutation of MaySelect: an atomic needs one entry only. *)
MaySelectAnyAtomic(pa, r) == ~pq.atom /\ r.dest \notin full1

(***************************************************************************)
(* A request is selected for PQ: never right behind an atomic, and only if *)
(* its queue looks writable (qwrite), which does not yet count the request *)
(* now in PQ.  An atomic waits until both entries are free (2entry_avail). *)
(***************************************************************************)
MaySelect(pa, r) ==
    /\ ~pq.atom
    /\ r.dest \notin full1
    /\ r.atom => r.dest \notin full0 /\ ~SendToPcx(pa, r.dest)

(* pcx_req_squash: the request in PQ found its queue full and no grant. *)
Squash(grant) == pq.dest \in full1 /\ pq.dest # grant

(* The monitors take the packets sent and the grant of this cycle. *)
Monitors(pa, grant) ==
    LET sent == {d \in Dests : SendToPcx(pa, d)}
        granted == {d \in Dests : d = grant}
        en0 == (full1 \intersect granted) \union (sent \ (full0 \ granted))
        en1 == (full0 \intersect sent) \ (granted \ full1)
    IN  /\ full0' = en0 \union (full0 \ granted)
        /\ full1' = en1 \union (full1 \ granted)

CoreTick(pa, grant) ==
    /\ Monitors(pa, grant)
    /\ \/ pq' = NoRequest
       \/ \E r \in Requests : MaySelect(pa, r) /\ pq' = r
=============================================================================
