------------------------------ MODULE PlcList -------------------------------
(***************************************************************************)
(* plc_list: the registered tuples, the parity of the stores to each       *)
(* (store_counter), the decision to start a check, and the fetch pointer   *)
(* that feeds the checker.  The *_done, fetch_none and req_error outputs   *)
(* are left open by plc_wrapper; only store_done is used, and kept.        *)
(***************************************************************************)
EXTENDS PlcBase

VARIABLES
    list,          \* list and ways: the tuples by index
    size,          \* entries in use
    fetchPtr,      \* next index to fetch
    fetchTuple,    \* fetch_addr_tuple and fetch_way_tuple
    storeCounter,  \* indices whose store parity is odd
    storeDone,     \* a store was seen in the last cycle
    checkFlag      \* plc_check_flag

listVars == <<list, size, fetchPtr, fetchTuple, storeCounter, storeDone, checkFlag>>

ListTypeOK ==
    /\ list \in [Indices -> Tuples]
    /\ size \in Indices
    /\ fetchPtr \in Indices
    /\ fetchTuple \in Tuples
    /\ storeCounter \in SUBSET Indices
    /\ storeDone \in BOOLEAN
    /\ checkFlag \in BOOLEAN

ListInit ==
    /\ list = [i \in Indices |-> ZeroTuple]
    /\ size = 0 /\ fetchPtr = 0 /\ fetchTuple = ZeroTuple
    /\ storeCounter = {} /\ storeDone = FALSE /\ checkFlag = FALSE

(***************************************************************************)
(* The parallel search.  The second comparison is of the whole two-way     *)
(* field of the entry with one way number, so it holds only of entries     *)
(* whose first way is 0.  Entries not in use hold zeros and are searched   *)
(* like the others.                                                        *)
(***************************************************************************)
Matches(t, s) ==
    \/ t.orig.addr = s.addr /\ t.orig.way = s.way
    \/ t.dup.addr = s.addr /\ t.orig.way = 0 /\ t.dup.way = s.way

SearchResult(s) == {g \in Indices : Matches(list[g], s)}

Toggle(S, T) == (S \ T) \union (T \ S)

ListFull == size = ListCap - 1
LastFlag == fetchPtr = size

(* Mutations of Add: list_full not consulted; a size register one bit wider. *)
AddIgnoringFull(addFlag, addTuple) ==
    IF addFlag
    THEN list' = [list EXCEPT ![size] = addTuple] /\ size' = (size + 1) % ListCap
    ELSE UNCHANGED <<list, size>>

AddUnwrapped(addFlag, addTuple) ==
    IF addFlag /\ size < ListCap
    THEN list' = [list EXCEPT ![size] = addTuple] /\ size' = size + 1
    ELSE UNCHANGED <<list, size>>

Add(addFlag, addTuple) ==
    IF addFlag /\ ~ListFull
    THEN list' = [list EXCEPT ![size] = addTuple] /\ size' = (size + 1) % ListCap
    ELSE UNCHANGED <<list, size>>

(* Mutation of Fetch: the pointer starts past the second tuple. *)
FetchSkipping(fetchFlag) ==
    \/ checkFlag /\ fetchTuple' = list[0] /\ fetchPtr' = 2
    \/ /\ ~checkFlag /\ fetchFlag /\ ~LastFlag
       /\ fetchTuple' = list[fetchPtr]
       /\ fetchPtr' = (fetchPtr + 1) % ListCap
    \/ ~checkFlag /\ fetchFlag /\ LastFlag /\ fetchPtr' = 0 /\ UNCHANGED fetchTuple
    \/ ~checkFlag /\ ~fetchFlag /\ UNCHANGED <<fetchTuple, fetchPtr>>

Fetch(fetchFlag) ==
    \/ /\ checkFlag
       /\ fetchTuple' = list[0]
       /\ fetchPtr' = 1
    \/ /\ ~checkFlag /\ fetchFlag /\ ~LastFlag
       /\ fetchTuple' = list[fetchPtr]
       /\ fetchPtr' = (fetchPtr + 1) % ListCap
    \/ /\ ~checkFlag /\ fetchFlag /\ LastFlag
       /\ fetchPtr' = 0
       /\ UNCHANGED fetchTuple
    \/ /\ ~checkFlag /\ ~fetchFlag
       /\ UNCHANGED <<fetchTuple, fetchPtr>>

Store(storeFlag, bus) ==
    /\ storeDone' = storeFlag
    /\ storeCounter' = IF storeFlag THEN Toggle(storeCounter, SearchResult(bus))
                                    ELSE storeCounter

(* Mutations of RaiseCheck: store_done not required; the store in progress *)
(* not counted.                                                            *)
RaiseWithoutStore(bus) ==
    checkFlag' = /\ SearchResult(bus) # {}
                 /\ Toggle(storeCounter, SearchResult(bus)) = {}

RaiseOnOldCount(bus) ==
    checkFlag' = (storeDone /\ SearchResult(bus) # {} /\ storeCounter = {})

(* Decided in the cycle after a store, from the bus of that later cycle. *)
RaiseCheck(bus) ==
    checkFlag' = /\ storeDone
                 /\ SearchResult(bus) # {}
                 /\ Toggle(storeCounter, SearchResult(bus)) = {}

ListTick(addFlag, addTuple, storeFlag, bus, fetchFlag) ==
    /\ Add(addFlag, addTuple)
    /\ Fetch(fetchFlag)
    /\ Store(storeFlag, bus)
    /\ RaiseCheck(bus)

ListReset ==
    /\ list' = [i \in Indices |-> ZeroTuple]
    /\ size' = 0 /\ fetchPtr' = 0 /\ fetchTuple' = ZeroTuple
    /\ storeCounter' = {} /\ storeDone' = FALSE /\ checkFlag' = FALSE
=============================================================================
