------------------------------- MODULE Dcache -------------------------------
(***************************************************************************)
(* The data array bw_r_dcd as the PLC sees it: an access presented in E is *)
(* flopped into M, done there, and read data is available in WB, two       *)
(* cycles after E.                                                         *)
(*                                                                         *)
(* A way is taken to travel with its address, as plc_checker presents the  *)
(* two together.  The array itself selects the way of a read in WB, by     *)
(* dcache_rsel_way_wb, since plc_wrapper sets alt_mx_sel to 0: the way     *)
(* would have to be held back for two cycles.  The instance in lsu.v does  *)
(* not connect the checker's way to that input, so nothing says by whom.   *)
(***************************************************************************)
EXTENDS PlcBase

VARIABLES
    mem,  \* contents of the array
    m,    \* the access in the M stage
    wb    \* dcache_rdata_wb, the ddata input of the checker

cacheVars == <<mem, m, wb>>

NoAccess == [op |-> "none", slot |-> ZeroSlot, val |-> 0]
ReadOf(s) == [op |-> "read", slot |-> s, val |-> 0]
WriteOf(s, v) == [op |-> "write", slot |-> s, val |-> v]

CacheTypeOK ==
    /\ mem \in [Slots -> Values]
    /\ m \in [op : {"none", "read", "write"}, slot : Slots, val : Values]
    /\ wb \in Values

CacheInit == mem \in [Slots -> Values] /\ m = NoAccess /\ wb = 0

(* e is the access in E.  Read data is zero in a cycle without a read. *)
CacheTick(e) ==
    /\ m' = e
    /\ wb' = IF m.op = "read" THEN mem[m.slot] ELSE 0
    /\ mem' = IF m.op = "write" THEN [mem EXCEPT ![m.slot] = m.val] ELSE mem
=============================================================================
