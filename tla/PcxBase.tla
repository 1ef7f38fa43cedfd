------------------------------ MODULE PcxBase -------------------------------
(***************************************************************************)
(* Data of the request path from the core to the FIFO (pcx2mb): requests,  *)
(* the packets they are made of, and entries of the bridge's buffer.       *)
(***************************************************************************)
EXTENDS Naturals, Sequences, FiniteSets

CONSTANTS
    Dests,     \* request lines of the core, five in the code
    NoDest,    \* no request line raised
    Data,      \* payloads
    LastEntry  \* number of the last buffer entry, 10 in the code

(* The buffer has a place for each packet that the core may have sent. *)
ASSUME PcxAssumption ==
    /\ NoDest \notin Dests
    /\ Data # {}
    /\ LastEntry \in Nat /\ LastEntry >= 2
    /\ IsFiniteSet(Dests) /\ 2 * Cardinality(Dests) <= LastEntry

(* What the core puts on its request, atomic and data lines. *)
Requests == [dest : Dests, atom : BOOLEAN, data : Data]
NoRequest == [dest |-> NoDest, atom |-> FALSE, data |-> CHOOSE d \in Data : TRUE]
Lines == Requests \union {NoRequest}

(***************************************************************************)
(* The bridge splits an atomic request into two packets, sent by the core  *)
(* in consecutive cycles; the atomic bit is set in the first only.         *)
(***************************************************************************)
Packets == [dest : Dests \union {NoDest}, atom : BOOLEAN, data : Data, part : {1, 2}]
First(r) == [dest |-> r.dest, atom |-> r.atom, data |-> r.data, part |-> 1]
Second(r) == [dest |-> r.dest, atom |-> FALSE, data |-> r.data, part |-> 2]

PacketsOf(r) ==
    CASE r.dest = NoDest -> <<>>
      [] r.dest # NoDest /\ r.atom -> <<First(r), Second(r)>>
      [] OTHER -> <<First(r)>>

EntryNumbers == 2 .. LastEntry
Inactive == [active |-> FALSE, pkt |-> First(NoRequest)]
=============================================================================
