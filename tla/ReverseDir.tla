----------------------------- MODULE ReverseDir -----------------------------
(***************************************************************************)
(* The reverse directory of one core (mbfw_reverse_dir.c): the firmware's  *)
(* picture of which line each way of that core's L1 caches holds.  A       *)
(* directory is a function of set and way to a tag.  An address is counted *)
(* in 16-byte granules, so that granule a is one data-cache line and the   *)
(* instruction-cache line of a is made of two granules.                    *)
(***************************************************************************)
EXTENDS Integers, FiniteSetsExt

CONSTANTS
  L1_CACHE_N_WAYS,   \* 4 in the firmware
  N_SETS             \* ICACHE_N_SETS = DCACHE_N_SETS, 128 in the firmware

ASSUME DirAssumption == L1_CACHE_N_WAYS \in Nat \ {0} /\ N_SETS \in Nat \ {0}

Way == 0 .. L1_CACHE_N_WAYS - 1
Set == 0 .. N_SETS - 1
INVALID_TAG == -1
NoWay == -1

ICACHE_INDEX(a) == (a \div 2) % N_SETS
ICACHE_TAG(a)   == (a \div 2) \div N_SETS
DCACHE_INDEX(a) == a % N_SETS
DCACHE_TAG(a)   == a \div N_SETS

\* The directory of a core whose caches hold nothing.
init_l1_reverse_dir == [s \in Set |-> [w \in Way |-> INVALID_TAG]]

\* (Mutant: the whole address is kept as the tag.)
AddIcacheAddress(dir, a, w) == [dir EXCEPT ![ICACHE_INDEX(a)][w] = a]

add_icache_line(dir, a, w) == [dir EXCEPT ![ICACHE_INDEX(a)][w] = ICACHE_TAG(a)]
add_dcache_line(dir, a, w) == [dir EXCEPT ![DCACHE_INDEX(a)][w] = DCACHE_TAG(a)]

\* The ways are scanned downwards and the first match is returned.
HighestMatch(ways, tag) ==
  LET hits == {w \in Way : ways[w] = tag}
  IN  IF hits = {} THEN NoWay ELSE Max(hits)

search_icache(dir, a) == HighestMatch(dir[ICACHE_INDEX(a)], ICACHE_TAG(a))
search_dcache(dir, a) == HighestMatch(dir[DCACHE_INDEX(a)], DCACHE_TAG(a))

\* The same scan, forgetting the way it finds (and only that way).
Forget(dir, s, w) == IF w = NoWay THEN dir ELSE [dir EXCEPT ![s][w] = INVALID_TAG]
invalidate_icache(dir, a) == Forget(dir, ICACHE_INDEX(a), search_icache(dir, a))
invalidate_dcache(dir, a) == Forget(dir, DCACHE_INDEX(a), search_dcache(dir, a))

icache_invalidate_all_ways(dir, a) == [dir EXCEPT ![ICACHE_INDEX(a)] = [w \in Way |-> INVALID_TAG]]
dcache_invalidate_all_ways(dir, a) == [dir EXCEPT ![DCACHE_INDEX(a)] = [w \in Way |-> INVALID_TAG]]

\* Directories of an instruction and of a data cache for addresses in A.
IDirectory(A) == [Set -> [Way -> {INVALID_TAG} \cup {ICACHE_TAG(a) : a \in A}]]
DDirectory(A) == [Set -> [Way -> {INVALID_TAG} \cup {DCACHE_TAG(a) : a \in A}]]
=============================================================================
