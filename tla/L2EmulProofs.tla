---------------------------- MODULE L2EmulProofs ----------------------------
(***************************************************************************)
(* TLAPS proofs about L2Emul, for every number of cores, sets and ways,    *)
(* every choice of lines, and any number of requests and replies under     *)
(* way.                                                                    *)
(***************************************************************************)
EXTENDS L2Emul, SequenceTheorems, FiniteSetTheorems, WellFoundedInduction, TLAPS

-----------------------------------------------------------------------------
(* Lines and their places in a cache. *)

(* A number is known by its quotient and its remainder. *)
LEMMA Division ==
    ASSUME NEW a \in Nat, NEW b \in Nat, NEW n \in Nat \ {0}
    PROVE  /\ a % n \in 0 .. n - 1 /\ a \div n \in Nat
           /\ a % n = b % n /\ a \div n = b \div n => a = b
<1>1. a = n * (a \div n) + (a % n) /\ b = n * (b \div n) + (b % n)
  OBVIOUS
<1>2. a % n \in 0 .. n - 1 /\ a \div n \in Nat
  OBVIOUS
<1>3. QED
  BY <1>1, <1>2

(* The data line at a has one set and tag, *)
LEMMA DataPlace ==
    ASSUME NEW a \in Nat, NEW b \in Nat
    PROVE  /\ DCACHE_INDEX(a) \in Set /\ DCACHE_TAG(a) \in Nat /\ DCACHE_TAG(a) # INVALID_TAG
           /\ DCACHE_INDEX(a) = DCACHE_INDEX(b) /\ DCACHE_TAG(a) = DCACHE_TAG(b) => a = b
<1>1. N_SETS \in Nat \ {0}
  BY DirAssumption
<1>2. /\ a % N_SETS \in 0 .. N_SETS - 1 /\ a \div N_SETS \in Nat
      /\ a % N_SETS = b % N_SETS /\ a \div N_SETS = b \div N_SETS => a = b
  BY <1>1, Division
<1>3. \A n \in Nat : n # -1
  OBVIOUS
<1>4. QED
  BY Zenon, <1>2, <1>3 DEF DCACHE_INDEX, DCACHE_TAG, Set, INVALID_TAG

(* and so has the instruction line that contains a. *)
LEMMA InstrPlace ==
    ASSUME NEW a \in Nat, NEW b \in Nat
    PROVE  /\ ICACHE_INDEX(a) \in Set /\ ICACHE_TAG(a) \in Nat /\ ICACHE_TAG(a) # INVALID_TAG
           /\ ICACHE_INDEX(a) = ICACHE_INDEX(b) /\ ICACHE_TAG(a) = ICACHE_TAG(b) <=> ILine(a) = ILine(b)
           /\ b % 2 = 0 => ILine(b) = b /\ ILine(b + 1) = b
           /\ ILine(a) % 2 = 0 /\ ILine(a) \in Nat /\ (a = ILine(a) \/ a = ILine(a) + 1)
<1>1. /\ a = 2 * (a \div 2) + (a % 2) /\ b = 2 * (b \div 2) + (b % 2)
      /\ a % 2 \in {0, 1} /\ b % 2 \in {0, 1} /\ a \div 2 \in Nat /\ b \div 2 \in Nat
  OBVIOUS
<1>2. ILine(a) = 2 * (a \div 2) /\ ILine(b) = 2 * (b \div 2)
  BY <1>1 DEF ILine
<1>3. /\ ICACHE_INDEX(a) \in Set /\ ICACHE_TAG(a) \in Nat
      /\ ICACHE_INDEX(a) = ICACHE_INDEX(b) /\ ICACHE_TAG(a) = ICACHE_TAG(b) => a \div 2 = b \div 2
  <2>1. N_SETS \in Nat \ {0}
    BY DirAssumption
  <2>2. PICK i \in Nat, j \in Nat : i = a \div 2 /\ j = b \div 2
    BY <1>1
  <2>3. /\ i % N_SETS \in 0 .. N_SETS - 1 /\ i \div N_SETS \in Nat
        /\ i % N_SETS = j % N_SETS /\ i \div N_SETS = j \div N_SETS => i = j
    BY <2>1, Division
  <2>4. QED
    BY Zenon, <2>2, <2>3 DEF ICACHE_INDEX, ICACHE_TAG, Set
<1>4. a \div 2 = b \div 2 => ICACHE_INDEX(a) = ICACHE_INDEX(b) /\ ICACHE_TAG(a) = ICACHE_TAG(b)
  BY DEF ICACHE_INDEX, ICACHE_TAG
<1>5. a \div 2 = b \div 2 <=> ILine(a) = ILine(b)
  BY <1>1, <1>2
<1>6. b % 2 = 0 => ILine(b) = b /\ ILine(b + 1) = b
  BY DEF ILine
<1>7. ILine(a) % 2 = 0 /\ ILine(a) \in Nat /\ (a = ILine(a) \/ a = ILine(a) + 1)
  BY <1>1, <1>2
<1>8. ICACHE_TAG(a) # INVALID_TAG
  BY <1>3 DEF INVALID_TAG
<1>9. QED
  BY <1>3, <1>4, <1>5, <1>6, <1>7, <1>8

(* Lines are numbers. *)
LEMMA LinesAre ==
    /\ Lines \subseteq Nat /\ Empty \notin Nat /\ Empty # 0
    /\ \A a \in FetchLines : a \in Lines /\ a + 1 \in Lines /\ a % 2 = 0
    /\ \A a \in LoadLines : a \in Lines
    /\ \A a \in StoreLines : a \in Lines
<1>1. LoadLines \subseteq Nat /\ FetchLines \subseteq Nat /\ StoreLines \subseteq Nat
  BY L2Assumption
<1>2. \A a \in FetchLines : a \in Nat /\ a + 1 \in Nat
  BY <1>1
<1>3. Lines \subseteq Nat
  BY <1>1, <1>2 DEF Lines
<1>4. \A a \in FetchLines : a \in Lines /\ a + 1 \in Lines /\ a % 2 = 0
  BY L2Assumption DEF Lines
<1>5. Empty \notin Nat /\ Empty # 0
  BY DEF Empty
<1>6. QED
  BY <1>3, <1>4, <1>5 DEF Lines

-----------------------------------------------------------------------------
(* Searching a directory. *)

(* A set of numbers has a least one, *)
LEMMA Least ==
    ASSUME NEW S \in SUBSET Nat, S # {}
    PROVE  \E x \in S : \A y \in S : x <= y
<1> DEFINE R == {xy \in Nat \X Nat : xy[1] < xy[2]}
<1>1. OpToRel(<, Nat) = R
  BY DEF OpToRel
<1>2. IsWellFoundedOn(R, Nat)
  BY <1>1, NatLessThanWellFounded
<1>3. PICK x \in S : \A y \in S : ~(<<y, x>> \in R)
  <2> HIDE DEF R
  <2>1. QED
    BY <1>2, WFMin
<1>4. \A y \in S : y < x => <<y, x>> \in R
  OBVIOUS
<1>5. \A y \in S : y \in Nat /\ x \in Nat /\ ~(y < x)
  <2> HIDE DEF R
  <2>1. QED
    BY <1>3, <1>4
<1>6. QED
  BY <1>5

(* so that a set with 0 and with the successors of its members has them all, *)
LEMMA Induct ==
    ASSUME NEW L \in Nat, NEW S, 0 \in S, \A n \in 1 .. L : n - 1 \in S => n \in S
    PROVE  \A n \in 0 .. L : n \in S
<1> DEFINE T == {n \in 0 .. L : n \notin S}
<1> SUFFICES ASSUME T # {} PROVE FALSE
  OBVIOUS
<1>1. PICK m \in T : \A k \in T : m <= k
  <2>1. T \in SUBSET Nat
    OBVIOUS
  <2> HIDE DEF T
  <2>2. QED
    BY <2>1, Least
<1>2. m \in 1 .. L /\ m - 1 \in 0 .. L /\ m - 1 < m /\ m \in Int /\ m \notin S
  BY <1>1
<1>3. m - 1 \in S
  BY <1>1, <1>2
<1>4. QED
  BY <1>2, <1>3

(* and a set of ways has a greatest. *)
LEMMA Greatest ==
    ASSUME NEW S \in SUBSET Way, S # {}
    PROVE  Max(S) \in S
<1>1. L1_CACHE_N_WAYS \in Nat
  BY DirAssumption
<1> DEFINE T == {n \in Nat : L1_CACHE_N_WAYS - n \in S}
<1>2. T # {}
  <2>1. PICK w \in S : TRUE
    OBVIOUS
  <2>2. w \in Int /\ L1_CACHE_N_WAYS - w \in Nat /\ L1_CACHE_N_WAYS - (L1_CACHE_N_WAYS - w) = w
    BY <1>1, <2>1 DEF Way
  <2>3. QED
    BY <2>1, <2>2
<1>3. PICK n \in T : \A y \in T : n <= y
  <2>1. T \in SUBSET Nat
    OBVIOUS
  <2> HIDE DEF T
  <2>2. QED
    BY <1>2, <2>1, Least
<1>4. \A w \in S : w \in Int /\ L1_CACHE_N_WAYS - w \in Nat /\ L1_CACHE_N_WAYS - (L1_CACHE_N_WAYS - w) = w
  BY <1>1 DEF Way
<1>5. \A w \in S : n <= L1_CACHE_N_WAYS - w
  BY <1>3, <1>4
<1>6. L1_CACHE_N_WAYS - n \in S /\ \A w \in S : L1_CACHE_N_WAYS - n >= w
  BY <1>1, <1>3, <1>4, <1>5
<1>7. QED
  BY <1>6 DEF Max

(* What a scan of a set returns. *)
LEMMA Scan ==
    ASSUME NEW ways, NEW tag, NEW w, w = HighestMatch(ways, tag)
    PROVE  /\ w \in Way \cup {NoWay} /\ NoWay \notin Way
           /\ w = NoWay <=> \A v \in Way : ways[v] # tag
           /\ w # NoWay => w \in Way /\ ways[w] = tag
<1> DEFINE hits == {v \in Way : ways[v] = tag}
<1>1. NoWay \notin Way
  BY DEF NoWay, Way
<1>2. hits # {} => Max(hits) \in hits
  <2>1. hits \in SUBSET Way
    OBVIOUS
  <2> HIDE DEF hits
  <2>2. QED
    BY <2>1, Greatest
<1>3. w = IF hits = {} THEN NoWay ELSE Max(hits)
  BY Zenon DEF HighestMatch
<1>4. QED
  BY <1>1, <1>2, <1>3

-----------------------------------------------------------------------------
(* Changing a directory or a cache. *)

(* g is f with y in some ways of a set. *)
Sets(f, g, x, ways, y) ==
  \A z \in Set, v \in Way : g[z][v] = IF z = x /\ v \in ways THEN y ELSE f[z][v]
Ways(w) == IF w = NoWay THEN {} ELSE {w}

(* No line is in two ways of a set. *)
Unique(dir) ==
  \A x \in Set, v, w \in Way : dir[x][v] = dir[x][w] /\ dir[x][v] # INVALID_TAG => v = w

Found(dir, x, t) == \E w \in Way : dir[x][w] = t

(* One way is changed, *)
LEMMA SetWay ==
    ASSUME NEW T, NEW f \in [Set -> [Way -> T]], NEW x \in Set, NEW w \in Way, NEW y \in T
    PROVE  /\ [f EXCEPT ![x][w] = y] \in [Set -> [Way -> T]]
           /\ Sets(f, [f EXCEPT ![x][w] = y], x, {w}, y)
<1>1. [f EXCEPT ![x][w] = y] = [f EXCEPT ![x] = [f[x] EXCEPT ![w] = y]]
  OBVIOUS
<1>2. PICK r : r = [f[x] EXCEPT ![w] = y]
  OBVIOUS
<1>3. r \in [Way -> T] /\ \A v \in Way : r[v] = IF v = w THEN y ELSE f[x][v]
  BY <1>2
<1>4. [f EXCEPT ![x][w] = y] = [f EXCEPT ![x] = r]
  BY <1>1, <1>2
<1>5. /\ [f EXCEPT ![x] = r] \in [Set -> [Way -> T]]
      /\ \A z \in Set : [f EXCEPT ![x] = r][z] = IF z = x THEN r ELSE f[z]
  BY <1>3
<1>6. QED
  BY <1>3, <1>4, <1>5 DEF Sets

(* one or none, *)
LEMMA PutIs ==
    ASSUME NEW T, NEW f \in [Set -> [Way -> T]], NEW x \in Set, NEW w \in Way \cup {NoWay}, NEW y \in T
    PROVE  Put(f, x, w, y) \in [Set -> [Way -> T]] /\ Sets(f, Put(f, x, w, y), x, Ways(w), y)
<1>1. CASE w = NoWay
  BY <1>1 DEF Put, Sets, Ways
<1>2. CASE w # NoWay
  BY <1>2, SetWay DEF Put, Ways
<1>3. QED
  BY <1>1, <1>2

(* the directory forgets a way it has found, or nothing, *)
LEMMA ForgetIs ==
    ASSUME NEW T, NEW f \in [Set -> [Way -> T]], NEW x \in Set, NEW w \in Way \cup {NoWay}, INVALID_TAG \in T
    PROVE  Forget(f, x, w) \in [Set -> [Way -> T]] /\ Sets(f, Forget(f, x, w), x, Ways(w), INVALID_TAG)
<1>1. CASE w = NoWay
  BY <1>1 DEF Forget, Sets, Ways
<1>2. CASE w # NoWay
  BY <1>2, SetWay DEF Forget, Ways
<1>3. QED
  BY <1>1, <1>2

(* or all. *)
LEMMA ClearIs ==
    ASSUME NEW T, NEW f \in [Set -> [Way -> T]], NEW x \in Set, NEW y \in T
    PROVE  /\ [f EXCEPT ![x] = [w \in Way |-> y]] \in [Set -> [Way -> T]]
           /\ Sets(f, [f EXCEPT ![x] = [w \in Way |-> y]], x, Way, y)
<1>1. PICK r : r = [w \in Way |-> y]
  OBVIOUS
<1>2. r \in [Way -> T] /\ \A v \in Way : r[v] = y
  BY <1>1
<1>3. /\ [f EXCEPT ![x] = r] \in [Set -> [Way -> T]]
      /\ \A z \in Set : [f EXCEPT ![x] = r][z] = IF z = x THEN r ELSE f[z]
  BY <1>2
<1>4. QED
  BY <1>1, <1>2, <1>3 DEF Sets

(* What is forgotten was found, and nothing is found that was not. *)
LEMMA Forgotten ==
    ASSUME NEW f, NEW g, NEW x \in Set, NEW ways, Sets(f, g, x, ways, INVALID_TAG), Unique(f)
    PROVE  /\ Unique(g)
           /\ \A z \in Set : \A t : t # INVALID_TAG /\ Found(g, z, t) => Found(f, z, t)
BY DEF Sets, Unique, Found

(* A search that finds a line, and forgets it, has forgotten all of it. *)
LEMMA ForgetFound ==
    ASSUME NEW f, NEW g, NEW x \in Set, NEW t, t # INVALID_TAG, NEW w, w = HighestMatch(f[x], t),
           Sets(f, g, x, Ways(w), INVALID_TAG), Unique(f)
    PROVE  ~Found(g, x, t)
<1>1. w = NoWay <=> \A v \in Way : f[x][v] # t
  BY Scan
<1>2. w # NoWay => w \in Way /\ f[x][w] = t
  BY Scan
<1>3. CASE w = NoWay
  BY <1>1, <1>3 DEF Sets, Found, Ways
<1>4. CASE w # NoWay
  BY <1>2, <1>4 DEF Sets, Found, Ways, Unique
<1>5. QED
  BY <1>3, <1>4

(* A line is added where it is, or is nowhere else. *)
OnlyIn(dir, x, t, w) == \A v \in Way : dir[x][v] = t => v = w

(* No line is in two ways after it was added to the way that had it, or to any when none had. *)
LEMMA AddIs ==
    ASSUME NEW f, NEW g, NEW x, NEW w, NEW t, Unique(f), OnlyIn(f, x, t, w), Sets(f, g, x, {w}, t)
    PROVE  Unique(g)
BY DEF Sets, Unique, OnlyIn

(* A search succeeds if the line is there. *)
LEMMA Searches ==
    ASSUME NEW dir, NEW a
    PROVE  /\ search_dcache(dir, a) # NoWay <=> Found(dir, DCACHE_INDEX(a), DCACHE_TAG(a))
           /\ search_icache(dir, a) # NoWay <=> Found(dir, ICACHE_INDEX(a), ICACHE_TAG(a))
           /\ search_dcache(dir, a) \in Way \cup {NoWay} /\ search_icache(dir, a) \in Way \cup {NoWay}
<1>1. /\ HighestMatch(dir[DCACHE_INDEX(a)], DCACHE_TAG(a)) # NoWay
           <=> Found(dir, DCACHE_INDEX(a), DCACHE_TAG(a))
      /\ HighestMatch(dir[DCACHE_INDEX(a)], DCACHE_TAG(a)) \in Way \cup {NoWay}
  BY Scan DEF Found
<1>2. /\ HighestMatch(dir[ICACHE_INDEX(a)], ICACHE_TAG(a)) # NoWay
           <=> Found(dir, ICACHE_INDEX(a), ICACHE_TAG(a))
      /\ HighestMatch(dir[ICACHE_INDEX(a)], ICACHE_TAG(a)) \in Way \cup {NoWay}
  BY Scan DEF Found
<1>3. QED
  BY <1>1, <1>2 DEF search_dcache, search_icache

-----------------------------------------------------------------------------
(* A directory and the cache it mirrors. *)

MirrorsD(dir, cache) ==
  \A x \in Set, w \in Way :
    IF cache[x][w].a = Empty THEN dir[x][w] = INVALID_TAG
    ELSE DCACHE_INDEX(cache[x][w].a) = x /\ dir[x][w] = DCACHE_TAG(cache[x][w].a)
MirrorsI(dir, cache) ==
  \A x \in Set, w \in Way :
    IF cache[x][w].a = Empty THEN dir[x][w] = INVALID_TAG
    ELSE ICACHE_INDEX(cache[x][w].a) = x /\ dir[x][w] = ICACHE_TAG(cache[x][w].a)

(* It still does when both give up or take the same line. *)
LEMMA MirrorsKept ==
    ASSUME NEW dir, NEW dirN, NEW cache, NEW cacheN, NEW x, NEW ways, NEW t, NEW y,
           Sets(dir, dirN, x, ways, t), Sets(cache, cacheN, x, ways, y)
    PROVE  /\ MirrorsD(dir, cache) /\ (IF y.a = Empty THEN t = INVALID_TAG
                                       ELSE DCACHE_INDEX(y.a) = x /\ t = DCACHE_TAG(y.a))
                => MirrorsD(dirN, cacheN)
           /\ MirrorsI(dir, cache) /\ (IF y.a = Empty THEN t = INVALID_TAG
                                       ELSE ICACHE_INDEX(y.a) = x /\ t = ICACHE_TAG(y.a))
                => MirrorsI(dirN, cacheN)
BY DEF Sets, MirrorsD, MirrorsI

(* What a search finds is there. *)
LEMMA DataThere ==
    ASSUME NEW dir, NEW cache \in Cache, MirrorsD(dir, cache), NEW a \in Lines
    PROVE  /\ \A w \in Way : dir[DCACHE_INDEX(a)][w] = DCACHE_TAG(a)
                               <=> cache[DCACHE_INDEX(a)][w].a = a
           /\ \A x \in Set, w \in Way : cache[x][w].a = a => x = DCACHE_INDEX(a)
           /\ search_dcache(dir, a) # NoWay => cache[DCACHE_INDEX(a)][search_dcache(dir, a)].a = a
           /\ search_dcache(dir, a) = NoWay => \A x \in Set, w \in Way : cache[x][w].a # a
<1>1. Lines \subseteq Nat /\ Empty \notin Nat
  BY LinesAre
<1>2. \A x \in Set, w \in Way : cache[x][w].a \in Lines \cup {Empty}
  BY DEF Cache, Copies
<1>3. DCACHE_INDEX(a) \in Set /\ DCACHE_TAG(a) # INVALID_TAG /\ a # Empty
  BY <1>1, DataPlace
<1>4. \A b \in Lines : DCACHE_INDEX(b) = DCACHE_INDEX(a) /\ DCACHE_TAG(b) = DCACHE_TAG(a) => b = a
  BY <1>1, DataPlace
<1>5. \A w \in Way : dir[DCACHE_INDEX(a)][w] = DCACHE_TAG(a) <=> cache[DCACHE_INDEX(a)][w].a = a
  BY <1>2, <1>3, <1>4 DEF MirrorsD
<1>6. \A x \in Set, w \in Way : cache[x][w].a = a => x = DCACHE_INDEX(a)
  BY <1>3 DEF MirrorsD
<1>7. /\ search_dcache(dir, a) # NoWay =>
           search_dcache(dir, a) \in Way /\ dir[DCACHE_INDEX(a)][search_dcache(dir, a)] = DCACHE_TAG(a)
      /\ search_dcache(dir, a) = NoWay => \A w \in Way : dir[DCACHE_INDEX(a)][w] # DCACHE_TAG(a)
  BY Scan DEF search_dcache
<1>8. QED
  BY <1>5, <1>6, <1>7

(* The same for instruction caches, whose lines are two granules long. *)
LEMMA InstrThere ==
    ASSUME NEW dir, NEW cache \in Cache, MirrorsI(dir, cache), NEW a \in Lines,
           \A x \in Set, w \in Way : cache[x][w].a \in FetchLines \cup {Empty}
    PROVE  /\ \A w \in Way : dir[ICACHE_INDEX(a)][w] = ICACHE_TAG(a)
                               <=> cache[ICACHE_INDEX(a)][w].a = ILine(a)
           /\ \A x \in Set, w \in Way : cache[x][w].a = ILine(a) => x = ICACHE_INDEX(a)
           /\ search_icache(dir, a) = NoWay => \A x \in Set, w \in Way : cache[x][w].a # ILine(a)
<1>1. Lines \subseteq Nat /\ Empty \notin Nat
  BY LinesAre
<1>2. \A b \in FetchLines : b \in Nat /\ b % 2 = 0
  BY <1>1, LinesAre
<1>3. ICACHE_INDEX(a) \in Set /\ ICACHE_TAG(a) # INVALID_TAG /\ ILine(a) # Empty
  BY <1>1, InstrPlace
<1>4. \A b \in FetchLines :
        ICACHE_INDEX(b) = ICACHE_INDEX(a) /\ ICACHE_TAG(b) = ICACHE_TAG(a) <=> b = ILine(a)
  <2> TAKE b \in FetchLines
  <2>1. b \in Nat /\ b % 2 = 0 /\ a \in Nat
    BY <1>1, <1>2
  <2>2. ICACHE_INDEX(b) = ICACHE_INDEX(a) /\ ICACHE_TAG(b) = ICACHE_TAG(a) <=> ILine(b) = ILine(a)
    BY <2>1, InstrPlace
  <2>3. ILine(b) = b
    BY <2>1, InstrPlace
  <2>4. QED
    BY <2>2, <2>3
<1>5. \A w \in Way : dir[ICACHE_INDEX(a)][w] = ICACHE_TAG(a) <=> cache[ICACHE_INDEX(a)][w].a = ILine(a)
  BY <1>3, <1>4 DEF MirrorsI
<1>6. \A x \in Set, w \in Way : cache[x][w].a = ILine(a) => x = ICACHE_INDEX(a)
  BY <1>3, <1>4 DEF MirrorsI
<1>7. search_icache(dir, a) = NoWay => \A w \in Way : dir[ICACHE_INDEX(a)][w] # ICACHE_TAG(a)
  BY Scan DEF search_icache
<1>8. QED
  BY <1>5, <1>6, <1>7

-----------------------------------------------------------------------------
(* Applying replies. *)

(* r gives the caches after each of the first n replies. *)
Run(r, st, ms, n) == r = [k \in 0 .. n |-> IF k = 0 THEN st ELSE Apply(r[k - 1], ms[k])]

(* What replaying n replies is, step by step, *)
LEMMA RunIs ==
    ASSUME NEW r, NEW st, NEW ms, NEW n \in Nat
    PROVE  Run(r, st, ms, n) =>
             r[0] = st /\ \A k \in 1 .. n : k - 1 \in 0 .. n /\ k \in 0 .. n /\ r[k] = Apply(r[k - 1], ms[k])
<1> SUFFICES ASSUME Run(r, st, ms, n)
             PROVE  r[0] = st /\ \A k \in 1 .. n :
                                   k - 1 \in 0 .. n /\ k \in 0 .. n /\ r[k] = Apply(r[k - 1], ms[k])
  OBVIOUS
<1>1. 0 \in 0 .. n /\ \A k \in 1 .. n : k - 1 \in 0 .. n /\ k \in 0 .. n /\ k # 0
  OBVIOUS
<1>2. \A k \in 0 .. n : r[k] = IF k = 0 THEN st ELSE Apply(r[k - 1], ms[k])
  BY Zenon DEF Run
<1>3. r[0] = st
  BY <1>1, <1>2
<1>4. \A k \in 1 .. n : r[k] = Apply(r[k - 1], ms[k])
  BY <1>1, <1>2
<1>5. QED
  BY <1>1, <1>3, <1>4

(* and that there is such a function. *)
LEMMA RunExists ==
    ASSUME NEW st, NEW ms, NEW n \in Nat
    PROVE  \E r : Run(r, st, ms, n)
<1> DEFINE S == {m \in Nat : ~\E r : Run(r, st, ms, m)}
<1> SUFFICES ASSUME S # {} PROVE FALSE
  OBVIOUS
<1>1. PICK m \in S : \A k \in S : m <= k
  <2>1. S \in SUBSET Nat
    OBVIOUS
  <2> HIDE DEF S
  <2>2. QED
    BY <2>1, Least
<1>2. CASE m = 0
  <2>1. PICK r : r = [k \in 0 .. 0 |-> st]
    OBVIOUS
  <2>2. \A k \in 0 .. 0 : k = 0
    OBVIOUS
  <2>3. [k \in 0 .. 0 |-> IF k = 0 THEN st ELSE Apply(r[k - 1], ms[k])] = [k \in 0 .. 0 |-> st]
    BY <2>2
  <2>4. Run(r, st, ms, 0)
    BY <2>1, <2>3 DEF Run
  <2>5. QED
    BY <1>1, <1>2, <2>4
<1>3. CASE m # 0
  <2>1. m \in Nat /\ m - 1 \in Nat /\ m - 1 < m /\ ~\E r : Run(r, st, ms, m)
    BY <1>1, <1>3
  <2>2. PICK r : Run(r, st, ms, m - 1)
    <3>1. m - 1 \notin S
      BY <1>1, <2>1
    <3>2. QED
      BY <2>1, <3>1
  <2>3. r[0] = st /\ \A k \in 1 .. m - 1 : r[k] = Apply(r[k - 1], ms[k])
    BY <2>1, <2>2, RunIs
  <2>4. PICK q : q = [k \in 0 .. m |-> IF k = m THEN Apply(r[m - 1], ms[m]) ELSE r[k]]
    OBVIOUS
  <2>5. /\ \A k \in 0 .. m : q[k] = IF k = m THEN Apply(r[m - 1], ms[m]) ELSE r[k]
        /\ DOMAIN q = 0 .. m
    BY <2>4
  <2>6. /\ \A k \in 0 .. m : k # 0 => k - 1 \in 0 .. m /\ k - 1 # m
        /\ \A k \in 0 .. m : k # 0 /\ k # m => k \in 1 .. m - 1
        /\ m - 1 \in 0 .. m /\ m - 1 # m /\ 0 \in 0 .. m
    BY <2>1
  <2>7. \A k \in 0 .. m : k # 0 => q[k - 1] = r[k - 1]
    BY <2>5, <2>6
  <2>8. \A k \in 0 .. m : q[k] = IF k = 0 THEN st ELSE Apply(q[k - 1], ms[k])
    <3> TAKE k \in 0 .. m
    <3>1. CASE k = 0
      BY <1>3, <2>3, <2>5, <3>1
    <3>2. CASE k = m
      BY <1>3, <2>5, <2>7, <3>2
    <3>3. CASE k # 0 /\ k # m
      BY <2>3, <2>5, <2>6, <2>7, <3>3
    <3>4. QED
      BY <3>1, <3>2, <3>3
  <2>9. Run(q, st, ms, m)
    BY <2>4, <2>5, <2>8, Zenon DEF Run
  <2>10. QED
    BY <2>1, <2>9
<1>4. QED
  BY <1>2, <1>3

(* The definition of Replay means what it says. *)
LEMMA ReplayIs ==
    ASSUME NEW st, NEW ms, Len(ms) \in Nat
    PROVE  /\ Replay(st, ms)[0] = st
           /\ \A k \in 1 .. Len(ms) :
                k - 1 \in 0 .. Len(ms) /\ k \in 0 .. Len(ms) /\ Replay(st, ms)[k] = Apply(Replay(st, ms)[k - 1], ms[k])
<1>1. PICK n \in Nat : n = Len(ms)
  OBVIOUS
<1>2. \E r : Run(r, st, ms, n)
  BY RunExists
<1>3. PICK q : q = Replay(st, ms)
  OBVIOUS
<1>4. q = CHOOSE r : Run(r, st, ms, n)
  BY <1>1, <1>3, Zenon DEF Replay, Run
<1>5. Run(q, st, ms, n)
  BY <1>2, <1>4, Zenon
<1>6. QED
  BY <1>1, <1>3, <1>5, RunIs


(* One reply more at the end, *)
LEMMA ReplayAppend ==
    ASSUME NEW st, NEW M, NEW ms \in Seq(M), NEW m \in M
    PROVE  /\ \A n \in 0 .. Len(ms) : Replay(st, Append(ms, m))[n] = Replay(st, ms)[n]
           /\ Replay(st, Append(ms, m))[Len(Append(ms, m))] = Apply(Replay(st, ms)[Len(ms)], m)
<1>1. PICK L \in Nat : L = Len(ms)
  OBVIOUS
<1>2. PICK ns : ns = Append(ms, m)
  OBVIOUS
<1>3. Len(ns) = L + 1 /\ (\A k \in 1 .. L : ns[k] = ms[k]) /\ ns[L + 1] = m
  BY <1>1, <1>2
<1>4. PICK r, q : r = Replay(st, ms) /\ q = Replay(st, ns)
  OBVIOUS
<1>5. r[0] = st /\ \A k \in 1 .. L : r[k] = Apply(r[k - 1], ms[k])
  BY <1>1, <1>4, ReplayIs
<1>6. q[0] = st /\ \A k \in 1 .. L + 1 : q[k] = Apply(q[k - 1], ns[k])
  <2>1. Len(ns) \in Nat
    BY <1>3
  <2>2. QED
    BY <1>3, <1>4, <2>1, ReplayIs
<1>7. \A k \in 1 .. L : k \in 1 .. L + 1 /\ L + 1 \in 1 .. L + 1 /\ L + 1 - 1 = L
  OBVIOUS
<1>8. \A n \in 0 .. L : n \in {k \in 0 .. L : q[k] = r[k]}
  <2> DEFINE S == {k \in 0 .. L : q[k] = r[k]}
  <2>1. 0 \in S
    BY <1>5, <1>6
  <2>2. \A n \in 1 .. L : n - 1 \in S => n \in S
    BY <1>3, <1>5, <1>6, <1>7
  <2> HIDE DEF S
  <2>3. \A n \in 0 .. L : n \in S
    BY <2>1, <2>2, Induct
  <2>4. QED
    BY <2>3 DEF S
<1>9. q[L + 1] = Apply(r[L], m)
  <2>1. L + 1 \in 1 .. L + 1 /\ L + 1 - 1 = L /\ L \in 0 .. L
    OBVIOUS
  <2>2. q[L] = r[L]
    BY <1>8, <2>1
  <2>3. QED
    BY <1>3, <1>6, <2>1, <2>2
<1>10. QED
  BY <1>1, <1>2, <1>3, <1>4, <1>8, <1>9

(* and one less at the front. *)
LEMMA ReplayTail ==
    ASSUME NEW st, NEW M, NEW ms \in Seq(M), ms # <<>>
    PROVE  /\ Len(Tail(ms)) + 1 = Len(ms) /\ Len(Tail(ms)) \in Nat
           /\ \A n \in 0 .. Len(Tail(ms)) : Replay(Apply(st, Head(ms)), Tail(ms))[n] = Replay(st, ms)[n + 1]
<1>0. Tail(ms) \in Seq(M)
  BY HeadTailProperties
<1>1. PICK ns \in Seq(M) : ns = Tail(ms)
  BY <1>0
<1>2. PICK L \in Nat : L = Len(ns)
  OBVIOUS
<1>3. Len(ms) = L + 1 /\ (\A k \in 1 .. L : ns[k] = ms[k + 1]) /\ Head(ms) = ms[1]
  BY <1>1, <1>2
<1>4. PICK r, q : r = Replay(st, ms) /\ q = Replay(Apply(st, Head(ms)), ns)
  OBVIOUS
<1>5. q[0] = Apply(st, ms[1]) /\ \A k \in 1 .. L : q[k] = Apply(q[k - 1], ns[k])
  BY <1>2, <1>3, <1>4, ReplayIs
<1>6. r[0] = st /\ \A k \in 1 .. L + 1 : r[k] = Apply(r[k - 1], ms[k])
  <2>1. PICK K \in Nat : K = L + 1
    OBVIOUS
  <2>2. K = Len(ms)
    BY <1>3, <2>1
  <2>4. r[0] = st /\ \A k \in 1 .. K : r[k] = Apply(r[k - 1], ms[k])
    BY <1>4, <2>2, ReplayIs
  <2>3. QED
    BY <2>1, <2>4
<1>7. \A n \in 0 .. L : n \in {k \in 0 .. L : q[k] = r[k + 1]}
  <2> DEFINE S == {k \in 0 .. L : q[k] = r[k + 1]}
  <2>1. 0 \in S
    BY <1>5, <1>6
  <2>2. \A n \in 1 .. L : n - 1 \in S => n \in S
    <3> SUFFICES ASSUME NEW n \in 1 .. L, n - 1 \in S PROVE n \in S
      OBVIOUS
    <3>1. q[n - 1] = r[n - 1 + 1] /\ n - 1 + 1 = n /\ n + 1 \in 1 .. L + 1 /\ n + 1 - 1 = n /\ n \in 0 .. L
      OBVIOUS
    <3>2. q[n] = Apply(r[n], ms[n + 1]) /\ r[n + 1] = Apply(r[n], ms[n + 1])
      BY <1>3, <1>5, <1>6, <3>1
    <3>3. QED
      BY <3>1, <3>2
  <2> HIDE DEF S
  <2>3. \A n \in 0 .. L : n \in S
    BY <2>1, <2>2, Induct
  <2>4. QED
    BY <2>3 DEF S
<1>8. QED
  BY <1>1, <1>2, <1>3, <1>4, <1>7

-----------------------------------------------------------------------------
(* What one reply does to the caches of its core. *)

Caches == [d : Cache, i : Cache]

(* A reply names what its type needs. *)
Valid(msg) ==
  /\ msg \in Replies
  /\ msg.typ = "load" => msg.a \in LoadLines /\ msg.w \in Way
  /\ msg.typ = "ifill_1" => msg.a \in FetchLines
Evicts == {"inv_ack", "atomic_ack", "evict_inv"}

(* What follows from it for the fields of a reply. *)
LEMMA ReplyFacts ==
    ASSUME NEW msg, Valid(msg)
    PROVE  /\ msg.a \in Nat /\ msg.w \in Way \cup {NoWay} /\ msg.dw \in Way \cup {NoWay}
           /\ msg.iw \in Way \cup {NoWay} /\ msg.m \in Marks
           /\ DCACHE_INDEX(msg.a) \in Set /\ ICACHE_INDEX(msg.a) \in Set
           /\ msg.typ = "ifill_1" => DCACHE_INDEX(msg.a + 1) \in Set
           /\ NoCopy \in Copies /\ NoCopy.a = Empty /\ NoCopy.m = Fresh
           /\ msg.typ \in {"load", "ifill_1"} => [a |-> msg.a, m |-> msg.m] \in Copies
<1>1. Lines \subseteq Nat
  BY LinesAre
<1>2. /\ msg.a \in Nat /\ msg.w \in Way \cup {NoWay} /\ msg.dw \in Way \cup {NoWay}
      /\ msg.iw \in Way \cup {NoWay} /\ msg.m \in Marks
  <2>1. /\ msg.a \in Lines \cup {0} /\ msg.w \in Way \cup {NoWay} /\ msg.dw \in Way \cup {NoWay}
        /\ msg.iw \in Way \cup {NoWay} /\ msg.m \in Marks
    BY Zenon DEF Valid, Replies
  <2>2. \A x \in Lines \cup {0} : x \in Nat
    BY <1>1
  <2>3. QED
    BY <2>1, <2>2, Zenon
<1>3. msg.a + 1 \in Nat
  BY <1>2
<1>4. DCACHE_INDEX(msg.a) \in Set /\ ICACHE_INDEX(msg.a) \in Set /\ DCACHE_INDEX(msg.a + 1) \in Set
  BY <1>2, <1>3, DataPlace, InstrPlace
<1>5. NoCopy \in Copies /\ NoCopy.a = Empty /\ NoCopy.m = Fresh
  BY DEF NoCopy, Copies, Marks, Fresh
<1>6. msg.typ \in {"load", "ifill_1"} => [a |-> msg.a, m |-> msg.m] \in Copies
  BY <1>2, LinesAre DEF Valid, Copies
<1>7. QED
  BY <1>2, <1>4, <1>5, <1>6

(* A copy brought up to date is one of the same line. *)
LEMMA UpdatedIs ==
    ASSUME NEW y \in Copies, NEW a
    PROVE  /\ Updated(y, a) \in Copies /\ Updated(y, a).a = y.a
           /\ y.a = a => Updated(y, a).m = IF y.m > 0 THEN y.m - 1 ELSE y.m
           /\ y.a # a => Updated(y, a).m = Stale
<1>1. y.a \in Lines \cup {Empty} /\ y.m \in Marks
  BY DEF Copies
<1>2. y.m \in Int /\ (y.m > 0 => y.m - 1 \in Nat)
  BY <1>1 DEF Marks, Stale, Zeroed
<1>3. Stale \in Marks /\ (IF y.m > 0 THEN y.m - 1 ELSE y.m) \in Marks
  BY <1>1, <1>2 DEF Marks
<1>4. \A m \in Marks : [y EXCEPT !.m = m] \in Copies /\ [y EXCEPT !.m = m].a = y.a /\ [y EXCEPT !.m = m].m = m
  BY DEF Copies
<1>5. Updated(y, a) = [y EXCEPT !.m = IF y.a # a THEN Stale ELSE IF y.m > 0 THEN y.m - 1 ELSE y.m]
  BY DEF Updated
<1>6. QED
  BY <1>3, <1>4, <1>5

(* The caches put together. *)
LEMMA PairIs ==
    ASSUME NEW d \in Cache, NEW i \in Cache, NEW new, new = [d |-> d, i |-> i]
    PROVE  new \in Caches /\ new.d = d /\ new.i = i
BY DEF Caches

(* one cache of the pair replaced, *)
LEMMA WithD ==
    ASSUME NEW d \in Cache, NEW st \in Caches, NEW new, new = [st EXCEPT !.d = d]
    PROVE  new \in Caches /\ new.d = d /\ new.i = st.i
BY DEF Caches

(* or the other. *)
LEMMA WithI ==
    ASSUME NEW i \in Cache, NEW st \in Caches, NEW new, new = [st EXCEPT !.i = i]
    PROVE  new \in Caches /\ new.d = st.d /\ new.i = i
BY DEF Caches

(* The sets and ways that each type of reply changes. *)
Applied(st, msg, new) ==
  LET dx == DCACHE_INDEX(msg.a)
      ix == ICACHE_INDEX(msg.a)
      fill == [a |-> msg.a, m |-> msg.m]
  IN  /\ new \in Caches
      /\ msg.typ = "load" =>
           Sets(st.d, new.d, dx, {msg.w}, fill) /\ Sets(st.i, new.i, ix, Ways(msg.iw), NoCopy)
      /\ msg.typ = "ifill_0" => Sets(st.d, new.d, dx, Ways(msg.dw), NoCopy) /\ new.i = st.i
      /\ msg.typ = "ifill_1" =>
           /\ Sets(st.d, new.d, DCACHE_INDEX(msg.a + 1), Ways(msg.dw), NoCopy)
           /\ Sets(st.i, new.i, ix, Ways(msg.w), fill)
      /\ msg.typ \in Evicts =>
           Sets(st.d, new.d, dx, Ways(msg.dw), NoCopy) /\ Sets(st.i, new.i, ix, Ways(msg.iw), NoCopy)
      /\ msg.typ = "inv_all_d" => Sets(st.d, new.d, dx, Way, NoCopy) /\ new.i = st.i
      /\ msg.typ = "inv_all_i" => new.d = st.d /\ Sets(st.i, new.i, ix, Way, NoCopy)
      /\ msg.typ = "store_ack" =>
           /\ \A x \in Set, w \in Way :
                new.d[x][w] = IF x = dx /\ w \in Ways(msg.dw) THEN Updated(st.d[x][w], msg.a) ELSE st.d[x][w]
           /\ Sets(st.i, new.i, ix, Ways(msg.iw), NoCopy)
      /\ msg.typ \in {"no_fill", "atomic_load"} => new = st

(* It is what Apply does. *)
LEMMA ApplyIs ==
    ASSUME NEW st \in Caches, NEW msg, Valid(msg), NEW new, new = Apply(st, msg)
    PROVE  Applied(st, msg, new)
<1> DEFINE dx == DCACHE_INDEX(msg.a)
           ix == ICACHE_INDEX(msg.a)
           fill == [a |-> msg.a, m |-> msg.m]
<1>1. /\ msg.w \in Way \cup {NoWay} /\ msg.dw \in Way \cup {NoWay} /\ msg.iw \in Way \cup {NoWay}
      /\ dx \in Set /\ ix \in Set
      /\ msg.typ = "ifill_1" => DCACHE_INDEX(msg.a + 1) \in Set
      /\ NoCopy \in Copies
      /\ msg.typ \in {"load", "ifill_1"} => fill \in Copies
  BY ReplyFacts
<1>2. st.d \in [Set -> [Way -> Copies]] /\ st.i \in [Set -> [Way -> Copies]]
  BY DEF Caches, Cache
<1>5. /\ \A x \in Set, w \in Way \cup {NoWay}, y \in Copies :
           Put(st.d, x, w, y) \in Cache /\ Sets(st.d, Put(st.d, x, w, y), x, Ways(w), y)
      /\ \A x \in Set, w \in Way \cup {NoWay}, y \in Copies :
           Put(st.i, x, w, y) \in Cache /\ Sets(st.i, Put(st.i, x, w, y), x, Ways(w), y)
  BY <1>2, PutIs DEF Cache
<1>6. msg.typ \in {"load", "ifill_0", "ifill_1", "store_ack", "inv_ack", "atomic_ack", "evict_inv",
                   "inv_all_d", "inv_all_i", "no_fill", "atomic_load"}
  BY DEF Valid, Replies, Final
<1> HIDE DEF dx, ix, fill
<1>7. CASE msg.typ = "load"
  <2>1. new = [d |-> Put(st.d, dx, msg.w, fill), i |-> Put(st.i, ix, msg.iw, NoCopy)]
    BY <1>7 DEF Apply, dx, ix, fill
  <2>2. Ways(msg.w) = {msg.w}
    BY <1>7, Scan DEF Valid, Ways
  <2>3. QED
    <3>1. PICK d \in Cache, i \in Cache : d = Put(st.d, dx, msg.w, fill) /\ i = Put(st.i, ix, msg.iw, NoCopy)
      BY <1>1, <1>5, <1>7
    <3>2. new \in Caches /\ new.d = d /\ new.i = i
      <4>1. new = [d |-> d, i |-> i]
        BY <2>1, <3>1, Zenon
      <4>2. QED
        BY <4>1, PairIs
    <3>3. Sets(st.d, new.d, dx, {msg.w}, fill) /\ Sets(st.i, new.i, ix, Ways(msg.iw), NoCopy)
      BY <1>1, <1>5, <1>7, <2>2, <3>1, <3>2
    <3>4. QED
      BY <1>7, <3>2, <3>3 DEF Applied, dx, ix, fill, Evicts
<1>8. CASE msg.typ = "ifill_0"
  <2>1. new = [st EXCEPT !.d = Put(st.d, dx, msg.dw, NoCopy)]
    BY <1>8 DEF Apply, dx
  <2>2. QED
    <3>0. PICK d \in Cache : d = Put(st.d, dx, msg.dw, NoCopy)
      BY <1>1, <1>5
    <3>1. new \in Caches /\ new.d = Put(st.d, dx, msg.dw, NoCopy) /\ new.i = st.i
      <4>1. new = [st EXCEPT !.d = d]
        BY <2>1, <3>0, Zenon
      <4>2. QED
        BY <3>0, <4>1, WithD
    <3>2. Sets(st.d, new.d, dx, Ways(msg.dw), NoCopy)
      BY <1>1, <1>5, <3>1
    <3>3. QED
      BY <1>8, <3>1, <3>2 DEF Applied, dx, Evicts
<1>9. CASE msg.typ = "ifill_1"
  <2>1. new = [d |-> Put(st.d, DCACHE_INDEX(msg.a + 1), msg.dw, NoCopy), i |-> Put(st.i, ix, msg.w, fill)]
    BY <1>9 DEF Apply, ix, fill
  <2>2. QED
    <3>1. PICK hx \in Set : hx = DCACHE_INDEX(msg.a + 1)
      BY <1>1, <1>9
    <3>0. PICK d \in Cache, i \in Cache : d = Put(st.d, hx, msg.dw, NoCopy) /\ i = Put(st.i, ix, msg.w, fill)
      BY <1>1, <1>5, <1>9, <3>1
    <3>2. /\ new \in Caches /\ new.d = Put(st.d, hx, msg.dw, NoCopy) /\ new.i = Put(st.i, ix, msg.w, fill)
      <4>1. new = [d |-> d, i |-> i]
        BY <2>1, <3>0, <3>1, Zenon
      <4>2. QED
        BY <3>0, <4>1, PairIs
    <3>3. Sets(st.d, new.d, hx, Ways(msg.dw), NoCopy) /\ Sets(st.i, new.i, ix, Ways(msg.w), fill)
      BY <1>1, <1>5, <1>9, <3>1, <3>2
    <3>4. QED
      BY <1>9, <3>1, <3>2, <3>3 DEF Applied, ix, fill, Evicts
<1>10. CASE msg.typ \in Evicts
  <2>1. new = [d |-> Put(st.d, dx, msg.dw, NoCopy), i |-> Put(st.i, ix, msg.iw, NoCopy)]
    BY <1>10 DEF Apply, Applied, Evicts, dx, ix
  <2>2. QED
    <3>0. PICK d \in Cache, i \in Cache : d = Put(st.d, dx, msg.dw, NoCopy) /\ i = Put(st.i, ix, msg.iw, NoCopy)
      BY <1>1, <1>5
    <3>1. new \in Caches /\ new.d = Put(st.d, dx, msg.dw, NoCopy) /\ new.i = Put(st.i, ix, msg.iw, NoCopy)
      <4>1. new = [d |-> d, i |-> i]
        BY <2>1, <3>0, Zenon
      <4>2. QED
        BY <3>0, <4>1, PairIs
    <3>2. Sets(st.d, new.d, dx, Ways(msg.dw), NoCopy) /\ Sets(st.i, new.i, ix, Ways(msg.iw), NoCopy)
      BY <1>1, <1>5, <3>1
    <3>3. QED
      BY <1>10, <3>1, <3>2 DEF Applied, dx, ix, Evicts
<1>11. CASE msg.typ = "inv_all_d"
  <2>1. new = [st EXCEPT !.d = [st.d EXCEPT ![dx] = [w \in Way |-> NoCopy]]]
    BY <1>11 DEF Apply, dx
  <2>2. /\ [st.d EXCEPT ![dx] = [w \in Way |-> NoCopy]] \in Cache
        /\ Sets(st.d, [st.d EXCEPT ![dx] = [w \in Way |-> NoCopy]], dx, Way, NoCopy)
    BY <1>1, <1>2, ClearIs DEF Cache
  <2>3. QED
    <3>1. PICK c \in Cache : c = [st.d EXCEPT ![dx] = [w \in Way |-> NoCopy]]
      BY <2>2
    <3>2. new = [st EXCEPT !.d = c]
      BY <2>1, <3>1, Zenon
    <3>3. new \in Caches /\ new.d = c /\ new.i = st.i
      BY <3>2, WithD
    <3>4. Sets(st.d, new.d, dx, Way, NoCopy)
      BY <2>2, <3>1, <3>3
    <3>5. QED
      BY <1>11, <3>3, <3>4 DEF Applied, dx, Evicts
<1>12. CASE msg.typ = "inv_all_i"
  <2>1. new = [st EXCEPT !.i = [st.i EXCEPT ![ix] = [w \in Way |-> NoCopy]]]
    BY <1>12 DEF Apply, ix
  <2>2. /\ [st.i EXCEPT ![ix] = [w \in Way |-> NoCopy]] \in Cache
        /\ Sets(st.i, [st.i EXCEPT ![ix] = [w \in Way |-> NoCopy]], ix, Way, NoCopy)
    BY <1>1, <1>2, ClearIs DEF Cache
  <2>3. QED
    <3>1. PICK c \in Cache : c = [st.i EXCEPT ![ix] = [w \in Way |-> NoCopy]]
      BY <2>2
    <3>2. new = [st EXCEPT !.i = c]
      BY <2>1, <3>1, Zenon
    <3>3. new \in Caches /\ new.i = c /\ new.d = st.d
      BY <3>2, WithI
    <3>4. Sets(st.i, new.i, ix, Way, NoCopy)
      BY <2>2, <3>1, <3>3
    <3>5. QED
      BY <1>12, <3>3, <3>4 DEF Applied, ix, Evicts
<1>13. CASE msg.typ = "store_ack"
  <2>1. PICK d : d = IF msg.dw = NoWay THEN st.d ELSE [st.d EXCEPT ![dx][msg.dw] = Updated(st.d[dx][msg.dw], msg.a)]
    OBVIOUS
  <2>2. new = [d |-> d, i |-> Put(st.i, ix, msg.iw, NoCopy)]
    BY <1>13, <2>1 DEF Apply, dx, ix
  <2>3. /\ d \in Cache
        /\ \A x \in Set, w \in Way :
             d[x][w] = IF x = dx /\ w \in Ways(msg.dw) THEN Updated(st.d[x][w], msg.a) ELSE st.d[x][w]
    <3>1. CASE msg.dw = NoWay
      BY <1>2, <2>1, <3>1 DEF Ways, Cache
    <3>2. CASE msg.dw # NoWay
      <4>1. msg.dw \in Way /\ Ways(msg.dw) = {msg.dw} /\ st.d[dx][msg.dw] \in Copies
        BY <1>1, <1>2, <3>2 DEF Ways
      <4>2. PICK y \in Copies : y = Updated(st.d[dx][msg.dw], msg.a)
        BY <4>1, UpdatedIs
      <4>3. d = [st.d EXCEPT ![dx][msg.dw] = y]
        BY <2>1, <3>2, <4>2
      <4>4. d \in [Set -> [Way -> Copies]] /\ Sets(st.d, d, dx, {msg.dw}, y)
        BY <1>1, <1>2, <4>1, <4>3, SetWay
      <4>5. QED
        BY <4>1, <4>2, <4>4 DEF Sets, Cache
    <3>3. QED
      BY <3>1, <3>2
  <2>4. QED
    <3>0. PICK i \in Cache : i = Put(st.i, ix, msg.iw, NoCopy)
      BY <1>1, <1>5
    <3>1. new \in Caches /\ new.d = d /\ new.i = Put(st.i, ix, msg.iw, NoCopy)
      <4>1. new = [d |-> d, i |-> i]
        BY <2>2, <3>0, Zenon
      <4>2. QED
        BY <2>3, <3>0, <4>1, PairIs
    <3>2. Sets(st.i, new.i, ix, Ways(msg.iw), NoCopy)
      BY <1>1, <1>5, <3>1
    <3>3. QED
      BY <1>13, <2>3, <3>1, <3>2 DEF Applied, dx, ix, Evicts
<1>14. CASE msg.typ \in {"no_fill", "atomic_load"}
  BY <1>14 DEF Apply, Applied, Evicts
<1>15. QED
  BY <1>6, <1>7, <1>8, <1>9, <1>10, <1>11, <1>12, <1>13, <1>14 DEF Evicts

-----------------------------------------------------------------------------
(* The inductive invariant, first of one core: its directories dd and id,  *)
(* the replies q that are under way to it, and its caches st.              *)

(* The caches once the replies have arrived. *)
End(st, q) == Replay(st, q)[Len(q)]

(* The acknowledgement of a store finds a copy of the line that waits for it. *)
Acks(st, q) ==
  \A n \in 1 .. Len(q) : q[n].typ = "store_ack" /\ q[n].dw # NoWay =>
    /\ Replay(st, q)[n - 1].d[DCACHE_INDEX(q[n].a)][q[n].dw].a = q[n].a
    /\ Replay(st, q)[n - 1].d[DCACHE_INDEX(q[n].a)][q[n].dw].m # 0

FetchedOnly(cache) == \A x \in Set, w \in Way : cache[x][w].a \in FetchLines \cup {Empty}

CoreOK(dd, id, q, st) ==
  /\ dd \in DDirectory(Lines) /\ id \in IDirectory(Lines)
  /\ Unique(dd) /\ Unique(id)
  /\ q \in Seq(Replies) /\ \A n \in 1 .. Len(q) : Valid(q[n])
  /\ st \in Caches /\ FetchedOnly(st.i)
  /\ Acks(st, q)
  /\ MirrorsD(dd, End(st, q).d) /\ MirrorsI(id, End(st, q).i)

UpToDate(end) ==
  \A x \in Set, w \in Way : end.d[x][w].m = Fresh /\ end.i[x][w].m \in {Fresh, Zeroed}

(* What the requests p of a core ask for is not there yet, or there in the *)
(* same way, and what two of them ask for is not the same, or the same way.*)
Wanted(dd, id, p) ==
  /\ p \in Seq(Requests)
  /\ \A n \in 1 .. Len(p) : p[n].op = "LOAD" =>
       /\ p[n].a \in LoadLines
       /\ \A v \in Way : dd[DCACHE_INDEX(p[n].a)][v] = DCACHE_TAG(p[n].a) => v = p[n].w
  /\ \A n \in 1 .. Len(p) : p[n].op = "IFILL" =>
       /\ p[n].a \in FetchLines
       /\ \A v \in Way : id[ICACHE_INDEX(p[n].a)][v] # ICACHE_TAG(p[n].a)
  /\ \A m, n \in 1 .. Len(p) : p[m].op = "LOAD" /\ p[n].op = "LOAD" /\ p[m].a = p[n].a => p[m].w = p[n].w
  /\ \A m, n \in 1 .. Len(p) : p[m].op = "IFILL" /\ p[n].op = "IFILL" /\ p[m].a = p[n].a => m = n

(* The same for all cores, of a state s as the handlers see it. *)
World == [ddir : [Core -> DDirectory(Lines)], idir : [Core -> IDirectory(Lines)],
          cpx : [Core -> Seq(Replies)], l1d : [Core -> Cache], l1i : [Core -> Cache]]
CachesOf(s, k) == [d |-> s.l1d[k], i |-> s.l1i[k]]
EndOf(s, k)    == End(CachesOf(s, k), s.cpx[k])
OK(s, k)       == CoreOK(s.ddir[k], s.idir[k], s.cpx[k], CachesOf(s, k))
Apart(s) == \A a \in Lines, c, k \in Core :
  search_dcache(s.ddir[c], a) # NoWay => search_icache(s.idir[k], a) = NoWay

Good(s) == s \in World /\ (\A k \in Core : OK(s, k)) /\ Apart(s) /\ \A k \in Core : UpToDate(EndOf(s, k))

IInv ==
  /\ Good(Here)
  /\ pcx \in [Core -> Seq(Requests)] /\ \A k \in Core : Wanted(ddir[k], idir[k], pcx[k])

-----------------------------------------------------------------------------
(* Where the copies come from. *)

(* The lines of new are those of st or of one of the replies in M. *)
Came(st, M, new) ==
  /\ new \in Caches
  /\ \A x \in Set, w \in Way :
       \/ new.d[x][w].a = st.d[x][w].a
       \/ new.d[x][w].a = Empty
       \/ \E msg \in M : msg.typ = "load" /\ new.d[x][w].a = msg.a /\ msg.w = w
  /\ \A x \in Set, w \in Way :
       \/ new.i[x][w].a = st.i[x][w].a
       \/ new.i[x][w].a = Empty
       \/ \E msg \in M : msg.typ = "ifill_1" /\ new.i[x][w].a = msg.a /\ msg.w = w

(* One reply fills one way at most. *)
LEMMA ApplyFills ==
    ASSUME NEW st \in Caches, NEW msg, Valid(msg), NEW new, new = Apply(st, msg)
    PROVE  Came(st, {msg}, new)
<1> DEFINE dx == DCACHE_INDEX(msg.a)
           ix == ICACHE_INDEX(msg.a)
           fill == [a |-> msg.a, m |-> msg.m]
<1>1. msg.typ \in {"load", "ifill_0", "ifill_1", "store_ack", "inv_ack", "atomic_ack", "evict_inv",
                   "inv_all_d", "inv_all_i", "no_fill", "atomic_load"}
  BY DEF Valid, Replies, Final
<1>0. Applied(st, msg, new)
  BY ApplyIs
<1>2. new \in Caches
  BY <1>0 DEF Applied
<1>3. fill.a = msg.a /\ NoCopy.a = Empty
  BY DEF NoCopy
<1>4. \A w : Ways(w) \subseteq {w}
  BY DEF Ways
<1>5. CASE msg.typ = "load"
  <2>1. Sets(st.d, new.d, dx, {msg.w}, fill) /\ Sets(st.i, new.i, ix, Ways(msg.iw), NoCopy)
    BY <1>5, Zenon, <1>0 DEF Applied
  <2>2. QED
    BY <1>2, <1>3, <1>5, <2>1 DEF Sets, Came
<1>6. CASE msg.typ = "ifill_0"
  <2>1. Sets(st.d, new.d, dx, Ways(msg.dw), NoCopy) /\ new.i = st.i
    BY <1>6, Zenon, <1>0 DEF Applied
  <2>2. QED
    BY <1>2, <1>3, <2>1 DEF Sets, Came
<1>7. CASE msg.typ = "ifill_1"
  <2>1. /\ Sets(st.d, new.d, DCACHE_INDEX(msg.a + 1), Ways(msg.dw), NoCopy)
        /\ Sets(st.i, new.i, ix, Ways(msg.w), fill)
    BY <1>7, Zenon, <1>0 DEF Applied
  <2>2. QED
    BY <1>2, <1>3, <1>4, <1>7, <2>1 DEF Sets, Came
<1>8. CASE msg.typ \in Evicts
  <2>1. Sets(st.d, new.d, dx, Ways(msg.dw), NoCopy) /\ Sets(st.i, new.i, ix, Ways(msg.iw), NoCopy)
    BY <1>8, Zenon, <1>0 DEF Applied
  <2>2. QED
    BY <1>2, <1>3, <2>1 DEF Sets, Came
<1>9. CASE msg.typ = "inv_all_d"
  <2>1. Sets(st.d, new.d, dx, Way, NoCopy) /\ new.i = st.i
    BY <1>9, Zenon, <1>0 DEF Applied
  <2>2. QED
    BY <1>2, <1>3, <2>1 DEF Sets, Came
<1>10. CASE msg.typ = "inv_all_i"
  <2>1. new.d = st.d /\ Sets(st.i, new.i, ix, Way, NoCopy)
    BY <1>10, Zenon, <1>0 DEF Applied
  <2>2. QED
    BY <1>2, <1>3, <2>1 DEF Sets, Came
<1>11. CASE msg.typ = "store_ack"
  <2>1. /\ \A x \in Set, w \in Way :
             new.d[x][w] = IF x = dx /\ w \in Ways(msg.dw) THEN Updated(st.d[x][w], msg.a) ELSE st.d[x][w]
        /\ Sets(st.i, new.i, ix, Ways(msg.iw), NoCopy)
    BY <1>11, Zenon, <1>0 DEF Applied
  <2>2. \A x \in Set, w \in Way : new.d[x][w].a = st.d[x][w].a
    <3> TAKE x \in Set, w \in Way
    <3>1. st.d[x][w] \in Copies
      BY DEF Caches, Cache
    <3>2. Updated(st.d[x][w], msg.a).a = st.d[x][w].a
      BY <3>1, UpdatedIs
    <3>3. QED
      BY <2>1, <3>2
  <2>4. QED
    BY <1>2, <1>3, <2>1, <2>2 DEF Sets, Came
<1>12. CASE msg.typ \in {"no_fill", "atomic_load"}
  <2>1. new = st
    BY <1>12, Zenon, <1>0 DEF Applied
  <2>2. QED
    BY <1>2, <2>1 DEF Came
<1>13. QED
  BY <1>1, <1>5, <1>6, <1>7, <1>8, <1>9, <1>10, <1>11, <1>12 DEF Evicts

(* Any copy was there before the replies, or was filled by one of them. *)
LEMMA Origin ==
    ASSUME NEW st \in Caches, NEW ms, Len(ms) \in Nat, \A n \in 1 .. Len(ms) : Valid(ms[n])
    PROVE  \A n \in 0 .. Len(ms) : Came(st, {ms[m] : m \in 1 .. Len(ms)}, Replay(st, ms)[n])
<1>1. PICK L \in Nat : L = Len(ms)
  OBVIOUS
<1>2. PICK r : r = Replay(st, ms)
  OBVIOUS
<1>3. r[0] = st /\ \A k \in 1 .. L : k \in 0 .. L /\ k - 1 \in 0 .. L /\ r[k] = Apply(r[k - 1], ms[k])
  BY <1>1, <1>2, ReplayIs
<1>4. PICK M : M = {ms[m] : m \in 1 .. L}
  OBVIOUS
<1> DEFINE S == {n \in 0 .. L : Came(st, M, r[n])}
<1>5. 0 \in S
  BY <1>3 DEF Came
<1>6. \A n \in 1 .. L : n - 1 \in S => n \in S
  <2> SUFFICES ASSUME NEW n \in 1 .. L, n - 1 \in S PROVE n \in S
    OBVIOUS
  <2>1. Came(st, M, r[n - 1]) /\ r[n] = Apply(r[n - 1], ms[n]) /\ Valid(ms[n]) /\ n \in 0 .. L /\ ms[n] \in M
    BY <1>1, <1>3, <1>4
  <2>2. PICK p, q, msg : p = r[n - 1] /\ q = r[n] /\ msg = ms[n]
    OBVIOUS
  <2>3. Came(st, M, p) /\ q = Apply(p, msg) /\ Valid(msg) /\ msg \in M
    BY <2>1, <2>2
  <2>4. Came(p, {msg}, q)
    <3>1. p \in Caches
      BY <2>3 DEF Came
    <3>2. QED
      BY <2>3, <3>1, ApplyFills
  <2>5. Came(st, M, q)
    BY <2>3, <2>4 DEF Came
  <2>6. QED
    BY <2>1, <2>2, <2>5
<1> HIDE DEF S
<1>7. \A n \in 0 .. L : n \in S
  BY <1>5, <1>6, Induct
<1>8. QED
  BY <1>1, <1>2, <1>4, <1>7 DEF S

(* The instruction caches hold fetched lines only. *)
LEMMA EndTyped ==
    ASSUME NEW st \in Caches, NEW q \in Seq(Replies), \A n \in 1 .. Len(q) : Valid(q[n]), FetchedOnly(st.i)
    PROVE  End(st, q) \in Caches /\ FetchedOnly(End(st, q).i)
<1>1. Len(q) \in Nat /\ Len(q) \in 0 .. Len(q)
  OBVIOUS
<1>2. PICK end : end = End(st, q)
  OBVIOUS
<1>3. Came(st, {q[m] : m \in 1 .. Len(q)}, end)
  BY <1>1, <1>2, Origin DEF End
<1>4. \A m \in 1 .. Len(q) : q[m].typ = "ifill_1" => q[m].a \in FetchLines
  BY DEF Valid
<1>5. QED
  BY <1>2, <1>3, <1>4 DEF Came, FetchedOnly

-----------------------------------------------------------------------------
(* Writing memory marks copies in caches and in replies alike: D and I give *)
(* the new marks of data and instruction copies by line and old mark.       *)

Lower(m) == IF m > 0 THEN m - 1 ELSE m

Marking(D, I) ==
  /\ \A a \in Lines \cup {Empty}, m \in Marks : D[a][m] \in Marks /\ I[a][m] \in Marks
  /\ \A m \in Marks : D[Empty][m] = m /\ I[Empty][m] = m
  /\ \A a \in Lines, m \in Marks : m # 0 => D[a][m] # 0 /\ D[a][Lower(m)] = Lower(D[a][m])

MarkedCopy(y, yN, F)    == yN.a = y.a /\ yN.m = F[y.a][y.m]
MarkedCache(f, fN, F)   == \A x \in Set, w \in Way : MarkedCopy(f[x][w], fN[x][w], F)
Marked(st, stN, D, I)   == MarkedCache(st.d, stN.d, D) /\ MarkedCache(st.i, stN.i, I)
MarkedReply(msg, msgN, D, I) ==
  /\ Valid(msg) /\ Valid(msgN)
  /\ msgN.typ = msg.typ /\ msgN.a = msg.a /\ msgN.w = msg.w /\ msgN.dw = msg.dw /\ msgN.iw = msg.iw
  /\ msg.typ = "load" => msgN.m = D[msg.a][msg.m]
  /\ msg.typ = "ifill_1" => msgN.m = I[msg.a][msg.m]

(* What is set alike stays marked alike. *)
LEMMA SetsMarked ==
    ASSUME NEW f, NEW fN, NEW g, NEW gN, NEW x, NEW ways, NEW y, NEW yN, NEW F,
           Sets(f, g, x, ways, y), Sets(fN, gN, x, ways, yN), MarkedCache(f, fN, F), MarkedCopy(y, yN, F)
    PROVE  MarkedCache(g, gN, F)
BY DEF Sets, MarkedCache

(* The acknowledgement of an earlier store is not disturbed, *)
LEMMA MarkUpdated ==
    ASSUME NEW D, NEW I, Marking(D, I), NEW y \in Copies, NEW yN \in Copies, MarkedCopy(y, yN, D),
           NEW a \in Lines, y.a = a, y.m # 0
    PROVE  MarkedCopy(Updated(y, a), Updated(yN, a), D)
<1>1. /\ Updated(y, a).a = a /\ Updated(y, a).m = Lower(y.m)
      /\ Updated(yN, a).a = a /\ Updated(yN, a).m = Lower(yN.m)
  BY UpdatedIs DEF MarkedCopy, Lower
<1>2. y.m \in Marks
  BY DEF Copies
<1>3. QED
  BY <1>1, <1>2 DEF MarkedCopy, Marking

(* nor is any other reply. *)
LEMMA MarkApply ==
    ASSUME NEW D, NEW I, Marking(D, I), NEW st \in Caches, NEW stN \in Caches, Marked(st, stN, D, I),
           NEW msg, NEW msgN, MarkedReply(msg, msgN, D, I),
           msg.typ = "store_ack" /\ msg.dw # NoWay =>
             /\ st.d[DCACHE_INDEX(msg.a)][msg.dw].a = msg.a
             /\ st.d[DCACHE_INDEX(msg.a)][msg.dw].m # 0,
           NEW new, new = Apply(st, msg), NEW newN, newN = Apply(stN, msgN)
    PROVE  Marked(new, newN, D, I)
<1> DEFINE dx == DCACHE_INDEX(msg.a)
           ix == ICACHE_INDEX(msg.a)
           fill == [a |-> msg.a, m |-> msg.m]
           fillN == [a |-> msgN.a, m |-> msgN.m]
<1>0. msg.typ \in {"load", "ifill_0", "ifill_1", "store_ack", "inv_ack", "atomic_ack", "evict_inv",
                   "inv_all_d", "inv_all_i", "no_fill", "atomic_load"}
  BY DEF MarkedReply, Valid, Replies, Final
<1>1. Applied(st, msg, new) /\ Applied(stN, msgN, newN)
  BY ApplyIs DEF MarkedReply
<1>2. msgN.typ = msg.typ /\ msgN.a = msg.a /\ msgN.w = msg.w /\ msgN.dw = msg.dw /\ msgN.iw = msg.iw
  BY DEF MarkedReply
<1>3. MarkedCopy(NoCopy, NoCopy, D) /\ MarkedCopy(NoCopy, NoCopy, I)
  <2>1. Fresh \in Marks /\ NoCopy.a = Empty /\ NoCopy.m = Fresh
    BY DEF Marks, Fresh, NoCopy
  <2>2. QED
    BY <2>1 DEF MarkedCopy, Marking
<1>4. MarkedCache(st.d, stN.d, D) /\ MarkedCache(st.i, stN.i, I)
  BY DEF Marked
<1>5. msg.typ = "load" => MarkedCopy(fill, fillN, D)
  BY <1>2 DEF MarkedCopy, MarkedReply
<1>6. msg.typ = "ifill_1" => MarkedCopy(fill, fillN, I)
  BY <1>2 DEF MarkedCopy, MarkedReply
<1>7. CASE msg.typ = "load"
  <2>1. Sets(st.d, new.d, dx, {msg.w}, fill) /\ Sets(st.i, new.i, ix, Ways(msg.iw), NoCopy)
    BY <1>1, <1>7, Zenon DEF Applied
  <2>2. Sets(stN.d, newN.d, dx, {msg.w}, fillN) /\ Sets(stN.i, newN.i, ix, Ways(msg.iw), NoCopy)
    <3>1. /\ Sets(stN.d, newN.d, DCACHE_INDEX(msgN.a), {msgN.w}, fillN)
          /\ Sets(stN.i, newN.i, ICACHE_INDEX(msgN.a), Ways(msgN.iw), NoCopy)
      BY <1>1, <1>2, <1>7, Zenon DEF Applied
    <3>2. QED
      BY <1>2, <3>1
  <2> HIDE DEF dx, ix, fill, fillN
  <2>3. QED
    BY <1>3, <1>4, <1>5, <1>7, <2>1, <2>2, SetsMarked DEF Marked
<1>8. CASE msg.typ = "ifill_0"
  <2>1. Sets(st.d, new.d, dx, Ways(msg.dw), NoCopy) /\ new.i = st.i
    BY <1>1, <1>8, Zenon DEF Applied
  <2>2. Sets(stN.d, newN.d, dx, Ways(msg.dw), NoCopy) /\ newN.i = stN.i
    <3>1. Sets(stN.d, newN.d, DCACHE_INDEX(msgN.a), Ways(msgN.dw), NoCopy) /\ newN.i = stN.i
      BY <1>1, <1>2, <1>8, Zenon DEF Applied
    <3>2. QED
      BY <1>2, <3>1
  <2> HIDE DEF dx, ix, fill, fillN
  <2>3. QED
    BY <1>3, <1>4, <2>1, <2>2, SetsMarked DEF Marked
<1>9. CASE msg.typ = "ifill_1"
  <2>1. /\ Sets(st.d, new.d, DCACHE_INDEX(msg.a + 1), Ways(msg.dw), NoCopy)
        /\ Sets(st.i, new.i, ix, Ways(msg.w), fill)
    BY <1>1, <1>9, Zenon DEF Applied
  <2>2. /\ Sets(stN.d, newN.d, DCACHE_INDEX(msg.a + 1), Ways(msg.dw), NoCopy)
        /\ Sets(stN.i, newN.i, ix, Ways(msg.w), fillN)
    <3>1. /\ Sets(stN.d, newN.d, DCACHE_INDEX(msgN.a + 1), Ways(msgN.dw), NoCopy)
          /\ Sets(stN.i, newN.i, ICACHE_INDEX(msgN.a), Ways(msgN.w), fillN)
      BY <1>1, <1>2, <1>9, Zenon DEF Applied
    <3>2. QED
      BY <1>2, <3>1
  <2> HIDE DEF dx, ix, fill, fillN
  <2>3. QED
    BY <1>3, <1>4, <1>6, <1>9, <2>1, <2>2, SetsMarked DEF Marked
<1>10. CASE msg.typ \in Evicts
  <2>1. Sets(st.d, new.d, dx, Ways(msg.dw), NoCopy) /\ Sets(st.i, new.i, ix, Ways(msg.iw), NoCopy)
    BY <1>1, <1>10, Zenon DEF Applied
  <2>2. Sets(stN.d, newN.d, dx, Ways(msg.dw), NoCopy) /\ Sets(stN.i, newN.i, ix, Ways(msg.iw), NoCopy)
    <3>1. /\ Sets(stN.d, newN.d, DCACHE_INDEX(msgN.a), Ways(msgN.dw), NoCopy)
          /\ Sets(stN.i, newN.i, ICACHE_INDEX(msgN.a), Ways(msgN.iw), NoCopy)
      BY <1>1, <1>2, <1>10, Zenon DEF Applied
    <3>2. QED
      BY <1>2, <3>1
  <2> HIDE DEF dx, ix, fill, fillN
  <2>3. QED
    BY <1>3, <1>4, <2>1, <2>2, SetsMarked DEF Marked
<1>11. CASE msg.typ = "inv_all_d"
  <2>1. Sets(st.d, new.d, dx, Way, NoCopy) /\ new.i = st.i
    BY <1>1, <1>11, Zenon DEF Applied
  <2>2. Sets(stN.d, newN.d, dx, Way, NoCopy) /\ newN.i = stN.i
    <3>1. Sets(stN.d, newN.d, DCACHE_INDEX(msgN.a), Way, NoCopy) /\ newN.i = stN.i
      BY <1>1, <1>2, <1>11, Zenon DEF Applied
    <3>2. QED
      BY <1>2, <3>1
  <2> HIDE DEF dx, ix, fill, fillN
  <2>3. QED
    BY <1>3, <1>4, <2>1, <2>2, SetsMarked DEF Marked
<1>12. CASE msg.typ = "inv_all_i"
  <2>1. new.d = st.d /\ Sets(st.i, new.i, ix, Way, NoCopy)
    BY <1>1, <1>12, Zenon DEF Applied
  <2>2. newN.d = stN.d /\ Sets(stN.i, newN.i, ix, Way, NoCopy)
    <3>1. newN.d = stN.d /\ Sets(stN.i, newN.i, ICACHE_INDEX(msgN.a), Way, NoCopy)
      BY <1>1, <1>2, <1>12, Zenon DEF Applied
    <3>2. QED
      BY <1>2, <3>1
  <2> HIDE DEF dx, ix, fill, fillN
  <2>3. QED
    BY <1>3, <1>4, <2>1, <2>2, SetsMarked DEF Marked
<1>13. CASE msg.typ = "store_ack"
  <2>1. /\ \A x \in Set, w \in Way :
             new.d[x][w] = IF x = dx /\ w \in Ways(msg.dw) THEN Updated(st.d[x][w], msg.a) ELSE st.d[x][w]
        /\ Sets(st.i, new.i, ix, Ways(msg.iw), NoCopy)
    BY <1>1, <1>13, Zenon DEF Applied
  <2>2. /\ \A x \in Set, w \in Way :
             newN.d[x][w] = IF x = dx /\ w \in Ways(msg.dw) THEN Updated(stN.d[x][w], msg.a) ELSE stN.d[x][w]
        /\ Sets(stN.i, newN.i, ix, Ways(msg.iw), NoCopy)
    <3>1. /\ \A x \in Set, w \in Way :
               newN.d[x][w] = IF x = DCACHE_INDEX(msgN.a) /\ w \in Ways(msgN.dw)
                              THEN Updated(stN.d[x][w], msgN.a) ELSE stN.d[x][w]
          /\ Sets(stN.i, newN.i, ICACHE_INDEX(msgN.a), Ways(msgN.iw), NoCopy)
      BY <1>1, <1>2, <1>13, Zenon DEF Applied
    <3>2. QED
      BY <1>2, <3>1
  <2> HIDE DEF dx, ix, fill, fillN
  <2>3. MarkedCache(st.d, stN.d, D) /\ MarkedCache(new.i, newN.i, I)
    BY <1>3, <1>4, <2>1, <2>2, SetsMarked
  <2>4. ASSUME NEW x \in Set, NEW w \in Way
        PROVE  MarkedCopy(new.d[x][w], newN.d[x][w], D)
    <3>1. MarkedCopy(st.d[x][w], stN.d[x][w], D)
      BY <1>4 DEF MarkedCache
    <3>2. CASE x = dx /\ w \in Ways(msg.dw)
      <4>1. msg.dw # NoWay /\ w = msg.dw
        BY <3>2 DEF Ways
      <4>2. st.d[x][w].a = msg.a /\ st.d[x][w].m # 0
        BY <1>13, <3>2, <4>1 DEF dx
      <4>3. st.d[x][w] \in Copies /\ stN.d[x][w] \in Copies
        BY DEF Caches, Cache
      <4>4. msg.a \in Lines
        <5>1. msg.a \in Nat
          BY ReplyFacts DEF MarkedReply
        <5>2. st.d[x][w].a \in Lines \cup {Empty}
          BY <4>3 DEF Copies
        <5>3. QED
          BY <4>2, <5>1, <5>2, LinesAre
      <4>5. MarkedCopy(Updated(st.d[x][w], msg.a), Updated(stN.d[x][w], msg.a), D)
        BY <3>1, <4>2, <4>3, <4>4, MarkUpdated
      <4>6. QED
        BY <2>1, <2>2, <3>2, <4>5
    <3>3. CASE ~(x = dx /\ w \in Ways(msg.dw))
      BY <2>1, <2>2, <3>1, <3>3
    <3>4. QED
      BY <3>2, <3>3
  <2>5. QED
    BY <2>3, <2>4 DEF Marked, MarkedCache
<1>14. CASE msg.typ \in {"no_fill", "atomic_load"}
  <2>1. new = st /\ newN = stN
    BY <1>1, <1>2, <1>14, Zenon DEF Applied
  <2>2. QED
    BY <2>1
<1>15. QED
  BY <1>0, <1>7, <1>8, <1>9, <1>10, <1>11, <1>12, <1>13, <1>14 DEF Evicts

(* The directory still mirrors the caches, *)
LEMMA MirrorsMarked ==
    ASSUME NEW dir, NEW f, NEW fN, NEW F, MarkedCache(f, fN, F)
    PROVE  /\ MirrorsD(dir, f) => MirrorsD(dir, fN)
           /\ MirrorsI(dir, f) => MirrorsI(dir, fN)
BY DEF MarkedCache, MarkedCopy, MirrorsD, MirrorsI

(* and what the caches will hold is marked as what they hold now. *)
LEMMA MarkCore ==
    ASSUME NEW D, NEW I, Marking(D, I), NEW dd, NEW id, NEW q, NEW st, CoreOK(dd, id, q, st),
           NEW stN \in Caches, Marked(st, stN, D, I),
           NEW qN \in Seq(Replies), Len(qN) = Len(q), \A n \in 1 .. Len(q) : MarkedReply(q[n], qN[n], D, I)
    PROVE  CoreOK(dd, id, qN, stN) /\ Marked(End(st, q), End(stN, qN), D, I)
<1>0. q \in Seq(Replies) /\ st \in Caches /\ (\A n \in 1 .. Len(q) : Valid(q[n])) /\ Acks(st, q)
  BY DEF CoreOK
<1>1. PICK L \in Nat : L = Len(q)
  BY <1>0
<1>2. PICK r, rN : r = Replay(st, q) /\ rN = Replay(stN, qN)
  OBVIOUS
<1>3. /\ r[0] = st /\ \A k \in 1 .. L : k \in 0 .. L /\ k - 1 \in 0 .. L /\ r[k] = Apply(r[k - 1], q[k])
      /\ rN[0] = stN /\ \A k \in 1 .. L : rN[k] = Apply(rN[k - 1], qN[k])
  BY <1>1, <1>2, ReplayIs
<1>4. \A n \in 1 .. Len(qN) : Valid(qN[n])
  BY DEF MarkedReply
<1>5. \A n \in 0 .. L : r[n] \in Caches /\ rN[n] \in Caches
  <2>1. \A n \in 0 .. L : Came(st, {q[m] : m \in 1 .. Len(q)}, r[n])
    BY <1>0, <1>1, <1>2, Origin
  <2>2. \A n \in 0 .. L : Came(stN, {qN[m] : m \in 1 .. Len(qN)}, rN[n])
    BY <1>1, <1>2, <1>4, Origin
  <2>3. QED
    BY <2>1, <2>2 DEF Came
<1>6. \A n \in 1 .. L : q[n].typ = "store_ack" /\ q[n].dw # NoWay =>
        /\ r[n - 1].d[DCACHE_INDEX(q[n].a)][q[n].dw].a = q[n].a
        /\ r[n - 1].d[DCACHE_INDEX(q[n].a)][q[n].dw].m # 0
  BY <1>0, <1>1, <1>2 DEF Acks
<1> DEFINE S == {n \in 0 .. L : Marked(r[n], rN[n], D, I)}
<1>7. 0 \in S
  BY <1>3
<1>8. \A n \in 1 .. L : n - 1 \in S => n \in S
  <2> SUFFICES ASSUME NEW n \in 1 .. L, n - 1 \in S PROVE n \in S
    OBVIOUS
  <2>1. PICK p, pN, msg, msgN : p = r[n - 1] /\ pN = rN[n - 1] /\ msg = q[n] /\ msgN = qN[n]
    OBVIOUS
  <2>2. PICK new, newN : new = r[n] /\ newN = rN[n]
    OBVIOUS
  <2>3. /\ p \in Caches /\ pN \in Caches /\ Marked(p, pN, D, I) /\ MarkedReply(msg, msgN, D, I)
        /\ new = Apply(p, msg) /\ newN = Apply(pN, msgN)
    BY <1>1, <1>3, <1>5, <2>1, <2>2
  <2>4. msg.typ = "store_ack" /\ msg.dw # NoWay =>
          p.d[DCACHE_INDEX(msg.a)][msg.dw].a = msg.a /\ p.d[DCACHE_INDEX(msg.a)][msg.dw].m # 0
    BY <1>6, <2>1
  <2>5. Marked(new, newN, D, I)
    BY <2>3, <2>4, MarkApply
  <2>6. QED
    BY <2>2, <2>5
<1> HIDE DEF S
<1>9. \A n \in 0 .. L : n \in S
  BY <1>7, <1>8, Induct
<1>10. \A n \in 0 .. L : Marked(r[n], rN[n], D, I)
  BY <1>9 DEF S
<1>11. PICK end, endN : end = r[L] /\ endN = rN[L] /\ end = End(st, q) /\ endN = End(stN, qN)
  <2>1. End(st, q) = r[L] /\ End(stN, qN) = rN[L]
    BY <1>1, <1>2, Zenon DEF End
  <2>2. QED
    BY <2>1, Zenon
<1>12. Marked(end, endN, D, I)
  <2>1. L \in 0 .. L
    OBVIOUS
  <2>2. QED
    BY <1>10, <1>11, <2>1
<1>13. MirrorsD(dd, endN.d) /\ MirrorsI(id, endN.i)
  <2>1. MirrorsD(dd, end.d) /\ MirrorsI(id, end.i)
    BY <1>11 DEF CoreOK
  <2>2. QED
    BY <1>12, <2>1, MirrorsMarked DEF Marked
<1>14. FetchedOnly(stN.i)
  BY DEF CoreOK, FetchedOnly, Marked, MarkedCache, MarkedCopy
<1>15. Acks(stN, qN)
  <2> SUFFICES ASSUME NEW n \in 1 .. L, qN[n].typ = "store_ack", qN[n].dw # NoWay
               PROVE  /\ rN[n - 1].d[DCACHE_INDEX(qN[n].a)][qN[n].dw].a = qN[n].a
                      /\ rN[n - 1].d[DCACHE_INDEX(qN[n].a)][qN[n].dw].m # 0
    BY <1>1, <1>2 DEF Acks
  <2>1. PICK p, pN, msg, msgN : p = r[n - 1] /\ pN = rN[n - 1] /\ msg = q[n] /\ msgN = qN[n]
    OBVIOUS
  <2>2. p \in Caches /\ Marked(p, pN, D, I) /\ MarkedReply(msg, msgN, D, I)
    BY <1>1, <1>3, <1>5, <1>10, <2>1
  <2>3. PICK x, w : x = DCACHE_INDEX(msg.a) /\ w = msg.dw
    OBVIOUS
  <2>4. /\ msgN.a = msg.a /\ msgN.dw = w /\ DCACHE_INDEX(msgN.a) = x
        /\ x \in Set /\ w \in Way
    BY <2>1, <2>2, <2>3, ReplyFacts DEF MarkedReply
  <2>5. p.d[x][w].a = msg.a /\ p.d[x][w].m # 0
    BY <1>6, <2>1, <2>2, <2>3 DEF MarkedReply
  <2>6. MarkedCopy(p.d[x][w], pN.d[x][w], D)
    BY <2>2, <2>4 DEF Marked, MarkedCache
  <2>7. msg.a \in Lines /\ p.d[x][w].m \in Marks
    <3>1. p.d[x][w] \in Copies
      BY <2>2, <2>4 DEF Caches, Cache
    <3>2. p.d[x][w].a \in Lines \cup {Empty} /\ p.d[x][w].m \in Marks
      BY <3>1 DEF Copies
    <3>3. msg.a \in Nat
      BY <2>2, ReplyFacts DEF MarkedReply
    <3>4. QED
      BY <2>5, <3>2, <3>3, LinesAre
  <2>8. pN.d[x][w].a = msgN.a /\ pN.d[x][w].m # 0
    BY <2>4, <2>5, <2>6, <2>7 DEF MarkedCopy, Marking
  <2>9. QED
    BY <2>1, <2>4, <2>8
<1>16. QED
  BY <1>4, <1>11, <1>12, <1>13, <1>14, <1>15 DEF CoreOK

-----------------------------------------------------------------------------
(* Sending a reply to one core. *)

(* In general the directories have to follow what the reply does, and the *)
(* acknowledgement of a store has to find its copy.                       *)
LEMMA SendIs ==
    ASSUME NEW dd, NEW id, NEW q, NEW st, CoreOK(dd, id, q, st), NEW msg, Valid(msg),
           NEW end, end = End(st, q), NEW new, new = Apply(end, msg),
           msg.typ = "store_ack" /\ msg.dw # NoWay =>
             /\ end.d[DCACHE_INDEX(msg.a)][msg.dw].a = msg.a
             /\ end.d[DCACHE_INDEX(msg.a)][msg.dw].m # 0,
           NEW ddN \in DDirectory(Lines), NEW idN \in IDirectory(Lines), Unique(ddN), Unique(idN),
           MirrorsD(ddN, new.d), MirrorsI(idN, new.i)
    PROVE  CoreOK(ddN, idN, Append(q, msg), st) /\ End(st, Append(q, msg)) = new
<1>1. q \in Seq(Replies) /\ (\A n \in 1 .. Len(q) : Valid(q[n])) /\ msg \in Replies /\ Acks(st, q)
  BY DEF CoreOK, Valid
<1>2. PICK L \in Nat : L = Len(q)
  BY <1>1
<1>3. PICK qN \in Seq(Replies) : qN = Append(q, msg)
  <2>1. q \in Seq(Replies) /\ msg \in Replies
    BY <1>1
  <2>2. Append(q, msg) \in Seq(Replies)
    BY <2>1, AppendProperties
  <2>3. QED
    BY <2>2
<1>4. Len(qN) = L + 1 /\ (\A n \in 1 .. L : qN[n] = q[n]) /\ qN[L + 1] = msg
  BY <1>1, <1>2, <1>3
<1>5. PICK r, rN : r = Replay(st, q) /\ rN = Replay(st, qN)
  OBVIOUS
<1>6. (\A n \in 0 .. L : rN[n] = r[n]) /\ rN[Len(qN)] = Apply(r[L], msg)
  BY <1>1, <1>2, <1>3, <1>5, ReplayAppend
<1>7. end = r[L]
  BY <1>2, <1>5, Zenon DEF End
<1>8. End(st, qN) = new
  <2>1. End(st, qN) = rN[Len(qN)]
    BY <1>5, Zenon DEF End
  <2>2. QED
    BY <1>6, <1>7, <2>1, Zenon
<1>9. \A n \in 1 .. Len(qN) : n \in 1 .. L \/ n = L + 1
  BY <1>4
<1>10. \A n \in 1 .. Len(qN) : Valid(qN[n])
  BY <1>1, <1>2, <1>4, <1>9
<1>11. Acks(st, qN)
  <2> SUFFICES ASSUME NEW n \in 1 .. Len(qN), qN[n].typ = "store_ack", qN[n].dw # NoWay
               PROVE  /\ rN[n - 1].d[DCACHE_INDEX(qN[n].a)][qN[n].dw].a = qN[n].a
                      /\ rN[n - 1].d[DCACHE_INDEX(qN[n].a)][qN[n].dw].m # 0
    BY <1>5 DEF Acks
  <2>1. CASE n \in 1 .. L
    <3>1. n - 1 \in 0 .. L /\ n \in 1 .. Len(q)
      BY <1>2, <2>1
    <3>2. rN[n - 1] = r[n - 1] /\ qN[n] = q[n]
      BY <1>4, <1>6, <2>1, <3>1
    <3>3. QED
      BY <1>1, <1>5, <3>1, <3>2 DEF Acks
  <2>2. CASE n = L + 1
    <3>1. n - 1 = L /\ L \in 0 .. L
      BY <2>2
    <3>2. rN[n - 1] = end /\ qN[n] = msg
      BY <1>4, <1>6, <1>7, <2>2, <3>1
    <3>3. QED
      BY <3>2
  <2>3. QED
    BY <1>9, <2>1, <2>2
<1>12. CoreOK(ddN, idN, qN, st)
  BY <1>8, <1>10, <1>11 DEF CoreOK
<1>13. QED
  BY <1>3, <1>8, <1>12

(* Mostly a reply takes lines away. *)
Within(f, g) == \A x \in Set, w \in Way : g[x][w] = f[x][w] \/ g[x][w] = INVALID_TAG
Fewer(e, f) ==
  \A x \in Set, w \in Way :
    (f.d[x][w] = e.d[x][w] \/ f.d[x][w] = NoCopy) /\ (f.i[x][w] = e.i[x][w] \/ f.i[x][w] = NoCopy)
Cleared(dd, id, q, ddN, idN, qN, st) ==
  CoreOK(ddN, idN, qN, st) /\ Within(dd, ddN) /\ Within(id, idN) /\ Fewer(End(st, q), End(st, qN))

(* A reply that empties the ways the directory has just given up. *)
LEMMA ClearingSent ==
    ASSUME NEW dd, NEW id, NEW q, NEW st, CoreOK(dd, id, q, st), NEW msg, Valid(msg), msg.typ # "store_ack",
           NEW end, end = End(st, q), NEW new, new = Apply(end, msg),
           NEW dx \in Set, NEW ix \in Set, NEW dways, NEW iways,
           Sets(end.d, new.d, dx, dways, NoCopy), Sets(end.i, new.i, ix, iways, NoCopy),
           NEW ddN \in DDirectory(Lines), NEW idN \in IDirectory(Lines),
           Sets(dd, ddN, dx, dways, INVALID_TAG), Sets(id, idN, ix, iways, INVALID_TAG)
    PROVE  Cleared(dd, id, q, ddN, idN, Append(q, msg), st) /\ End(st, Append(q, msg)) = new
<1>1. Unique(dd) /\ Unique(id) /\ MirrorsD(dd, end.d) /\ MirrorsI(id, end.i)
  BY DEF CoreOK
<1>2. Unique(ddN) /\ Unique(idN)
  BY <1>1, Forgotten
<1>3. NoCopy.a = Empty
  BY DEF NoCopy
<1>4. MirrorsD(ddN, new.d)
  BY <1>1, <1>3, MirrorsKept
<1>5. MirrorsI(idN, new.i)
  BY <1>1, <1>3, MirrorsKept
<1>6. CoreOK(ddN, idN, Append(q, msg), st) /\ End(st, Append(q, msg)) = new
  BY <1>2, <1>4, <1>5, SendIs
<1>7. Within(dd, ddN) /\ Within(id, idN) /\ Fewer(end, new)
  BY DEF Sets, Within, Fewer
<1>8. QED
  BY <1>6, <1>7 DEF Cleared

(* Taking lines away twice is taking them away, and nothing else is found or out of date after it. *)
LEMMA ClearedKept ==
    ASSUME NEW dd, NEW id, NEW q, NEW st, NEW dd1, NEW id1, NEW q1, Cleared(dd, id, q, dd1, id1, q1, st)
    PROVE  /\ \A dd2, id2, q2 : Cleared(dd1, id1, q1, dd2, id2, q2, st) => Cleared(dd, id, q, dd2, id2, q2, st)
           /\ \A x \in Set : \A t : t # INVALID_TAG /\ Found(dd1, x, t) => Found(dd, x, t)
           /\ \A x \in Set : \A t : t # INVALID_TAG /\ Found(id1, x, t) => Found(id, x, t)
           /\ UpToDate(End(st, q)) => UpToDate(End(st, q1))
<1>1. /\ \A x \in Set : \A t : t # INVALID_TAG /\ Found(dd1, x, t) => Found(dd, x, t)
      /\ \A x \in Set : \A t : t # INVALID_TAG /\ Found(id1, x, t) => Found(id, x, t)
  BY DEF Cleared, Within, Found
<1>2. UpToDate(End(st, q)) => UpToDate(End(st, q1))
  <2>1. PICK e, e1 : e = End(st, q) /\ e1 = End(st, q1)
    OBVIOUS
  <2>2. Fewer(e, e1) /\ NoCopy.m = Fresh
    BY <2>1 DEF Cleared, NoCopy
  <2>3. UpToDate(e) => UpToDate(e1)
    BY <2>2 DEF Fewer, UpToDate
  <2>4. QED
    BY <2>1, <2>3
<1>3. ASSUME NEW dd2, NEW id2, NEW q2, Cleared(dd1, id1, q1, dd2, id2, q2, st)
      PROVE  Cleared(dd, id, q, dd2, id2, q2, st)
  <2>1. PICK e, e1, e2 : e = End(st, q) /\ e1 = End(st, q1) /\ e2 = End(st, q2)
    OBVIOUS
  <2>2. Fewer(e, e1) /\ Fewer(e1, e2)
    BY <1>3, <2>1 DEF Cleared
  <2>3. Fewer(e, e2)
    BY <2>2 DEF Fewer
  <2>4. Within(dd, dd2) /\ Within(id, id2)
    BY <1>3 DEF Cleared, Within
  <2>5. QED
    BY <1>3, <2>1, <2>3, <2>4 DEF Cleared
<1>4. QED
  BY <1>1, <1>2, <1>3

(* Taking nothing away. *)
LEMMA ClearedNot ==
    ASSUME NEW dd, NEW id, NEW q, NEW st, CoreOK(dd, id, q, st)
    PROVE  Cleared(dd, id, q, dd, id, q, st)
BY DEF Cleared, Within, Fewer

(* What a search finds is forgotten in its directory and invalidated in its *)
(* cache: the line is gone from both.                                        *)
LEMMA EvictSent ==
    ASSUME NEW dd, NEW id, NEW q, NEW st, CoreOK(dd, id, q, st), NEW a \in Lines,
           NEW dw, dw = NoWay \/ dw = search_dcache(dd, a), NEW iw, iw = NoWay \/ iw = search_icache(id, a),
           NEW typ \in Evicts, NEW msg, msg = Reply(typ, a, NoWay, dw, iw),
           NEW ddN, ddN = Forget(dd, DCACHE_INDEX(a), dw), NEW idN, idN = Forget(id, ICACHE_INDEX(a), iw)
    PROVE  /\ Cleared(dd, id, q, ddN, idN, Append(q, msg), st)
           /\ dw = search_dcache(dd, a) => search_dcache(ddN, a) = NoWay
           /\ iw = search_icache(id, a) => search_icache(idN, a) = NoWay
<1>1. a \in Nat
  BY LinesAre
<1>2. PICK dx \in Set, ix \in Set : dx = DCACHE_INDEX(a) /\ ix = ICACHE_INDEX(a)
  BY <1>1, DataPlace, InstrPlace
<1>3. DCACHE_TAG(a) # INVALID_TAG /\ ICACHE_TAG(a) # INVALID_TAG
  BY <1>1, DataPlace, InstrPlace
<1>4. dw \in Way \cup {NoWay} /\ iw \in Way \cup {NoWay}
  BY Searches
<1>5. Valid(msg) /\ msg.typ = typ /\ msg.a = a /\ msg.dw = dw /\ msg.iw = iw
  <2>1. Fresh \in Marks
    BY DEF Fresh, Marks
  <2>2. typ \in {"inv_ack", "atomic_ack", "evict_inv"}
    BY DEF Evicts
  <2>3. msg = [typ |-> typ, a |-> a, w |-> NoWay, dw |-> dw, iw |-> iw, m |-> Fresh]
    BY DEF Reply
  <2>4. msg \in Replies
    BY <1>4, <2>1, <2>2, <2>3 DEF Replies, Final
  <2>5. QED
    BY <2>2, <2>3, <2>4 DEF Valid
<1>6. PICK end : end = End(st, q)
  OBVIOUS
<1>7. PICK new : new = Apply(end, msg)
  OBVIOUS
<1>8. end \in Caches
  BY <1>6, EndTyped DEF CoreOK
<1>9. Sets(end.d, new.d, dx, Ways(dw), NoCopy) /\ Sets(end.i, new.i, ix, Ways(iw), NoCopy)
  <2>1. Applied(end, msg, new)
    BY <1>5, <1>7, <1>8, ApplyIs
  <2>2. msg.typ \in Evicts
    BY <1>5
  <2>3. /\ Sets(end.d, new.d, DCACHE_INDEX(msg.a), Ways(msg.dw), NoCopy)
        /\ Sets(end.i, new.i, ICACHE_INDEX(msg.a), Ways(msg.iw), NoCopy)
    BY <2>1, <2>2, Zenon DEF Applied
  <2>4. QED
    BY <1>2, <1>5, <2>3
<1>10. /\ ddN \in DDirectory(Lines) /\ Sets(dd, ddN, dx, Ways(dw), INVALID_TAG)
       /\ idN \in IDirectory(Lines) /\ Sets(id, idN, ix, Ways(iw), INVALID_TAG)
  <2>1. dd \in [Set -> [Way -> {INVALID_TAG} \cup {DCACHE_TAG(b) : b \in Lines}]]
    BY DEF CoreOK, DDirectory
  <2>2. id \in [Set -> [Way -> {INVALID_TAG} \cup {ICACHE_TAG(b) : b \in Lines}]]
    BY DEF CoreOK, IDirectory
  <2>3. INVALID_TAG \in {INVALID_TAG} \cup {DCACHE_TAG(b) : b \in Lines}
    OBVIOUS
  <2>4. INVALID_TAG \in {INVALID_TAG} \cup {ICACHE_TAG(b) : b \in Lines}
    OBVIOUS
  <2>5. /\ ddN \in [Set -> [Way -> {INVALID_TAG} \cup {DCACHE_TAG(b) : b \in Lines}]]
        /\ Sets(dd, ddN, dx, Ways(dw), INVALID_TAG)
    BY <1>2, <1>4, <2>1, <2>3, ForgetIs
  <2>6. /\ idN \in [Set -> [Way -> {INVALID_TAG} \cup {ICACHE_TAG(b) : b \in Lines}]]
        /\ Sets(id, idN, ix, Ways(iw), INVALID_TAG)
    BY <1>2, <1>4, <2>2, <2>4, ForgetIs
  <2>7. QED
    BY <2>5, <2>6 DEF DDirectory, IDirectory
<1>11. msg.typ # "store_ack"
  BY <1>5 DEF Evicts
<1>12. Cleared(dd, id, q, ddN, idN, Append(q, msg), st)
  BY <1>5, <1>6, <1>7, <1>9, <1>10, <1>11, ClearingSent
<1>13. Unique(dd) /\ Unique(id)
  BY DEF CoreOK
<1>14. ASSUME dw = search_dcache(dd, a) PROVE search_dcache(ddN, a) = NoWay
  <2>1. dw = HighestMatch(dd[dx], DCACHE_TAG(a))
    BY <1>2, <1>14 DEF search_dcache
  <2>2. ~Found(ddN, dx, DCACHE_TAG(a))
    BY <1>3, <1>10, <1>13, <2>1, ForgetFound
  <2>3. QED
    BY <1>2, <2>2, Searches
<1>15. ASSUME iw = search_icache(id, a) PROVE search_icache(idN, a) = NoWay
  <2>1. iw = HighestMatch(id[ix], ICACHE_TAG(a))
    BY <1>2, <1>15 DEF search_icache
  <2>2. ~Found(idN, ix, ICACHE_TAG(a))
    BY <1>3, <1>10, <1>13, <2>1, ForgetFound
  <2>3. QED
    BY <1>2, <2>2, Searches
<1>16. QED
  BY <1>12, <1>14, <1>15

(* The other replies that only take away. *)
LEMMA ClearSent ==
    ASSUME NEW dd, NEW id, NEW q, NEW st, CoreOK(dd, id, q, st), NEW a \in Lines \cup {0},
           NEW msg, NEW ddN, NEW idN,
           \/ \E typ \in {"no_fill", "atomic_load"} :
                msg = Reply(typ, a, NoWay, NoWay, NoWay) /\ ddN = dd /\ idN = id
           \/ msg = Reply("inv_all_d", a, NoWay, NoWay, NoWay) /\ ddN = dcache_invalidate_all_ways(dd, a) /\ idN = id
           \/ msg = Reply("inv_all_i", a, NoWay, NoWay, NoWay) /\ ddN = dd /\ idN = icache_invalidate_all_ways(id, a)
    PROVE  Cleared(dd, id, q, ddN, idN, Append(q, msg), st)
<1>1. a \in Nat
  BY LinesAre
<1>2. PICK dx \in Set, ix \in Set : dx = DCACHE_INDEX(a) /\ ix = ICACHE_INDEX(a)
  BY <1>1, DataPlace, InstrPlace
<1>3. Valid(msg) /\ msg.a = a /\ msg.typ # "store_ack"
  <2>1. Fresh \in Marks
    BY DEF Fresh, Marks
  <2>2. PICK typ \in {"no_fill", "atomic_load", "inv_all_d", "inv_all_i"} :
          msg = [typ |-> typ, a |-> a, w |-> NoWay, dw |-> NoWay, iw |-> NoWay, m |-> Fresh]
    BY DEF Reply
  <2>3. msg \in Replies
    BY <2>1, <2>2 DEF Replies, Final
  <2>4. QED
    BY <2>2, <2>3 DEF Valid
<1>4. PICK end : end = End(st, q)
  OBVIOUS
<1>5. PICK new : new = Apply(end, msg)
  OBVIOUS
<1>6. end \in Caches
  BY <1>4, EndTyped DEF CoreOK
<1>7. Applied(end, msg, new)
  BY <1>3, <1>5, <1>6, ApplyIs
<1>8. /\ dd \in [Set -> [Way -> {INVALID_TAG} \cup {DCACHE_TAG(b) : b \in Lines}]]
      /\ id \in [Set -> [Way -> {INVALID_TAG} \cup {ICACHE_TAG(b) : b \in Lines}]]
  BY DEF CoreOK, DDirectory, IDirectory
<1>9. \A f : Sets(f, f, dx, {}, NoCopy) /\ Sets(f, f, ix, {}, NoCopy)
          /\ Sets(f, f, dx, {}, INVALID_TAG) /\ Sets(f, f, ix, {}, INVALID_TAG)
  BY DEF Sets
<1>10. dd \in DDirectory(Lines) /\ id \in IDirectory(Lines)
  BY DEF CoreOK
<1>11. CASE msg.typ \in {"no_fill", "atomic_load"}
  <2>1. ddN = dd /\ idN = id
    BY <1>11 DEF Reply
  <2>2. new = end
    BY <1>7, <1>11, Zenon DEF Applied
  <2>3. Sets(end.d, new.d, dx, {}, NoCopy) /\ Sets(end.i, new.i, ix, {}, NoCopy)
    BY <1>9, <2>2
  <2>4. Sets(dd, ddN, dx, {}, INVALID_TAG) /\ Sets(id, idN, ix, {}, INVALID_TAG)
    BY <1>9, <2>1
  <2>5. QED
    BY <1>3, <1>4, <1>5, <1>10, <2>1, <2>3, <2>4, ClearingSent
<1>12. CASE msg.typ = "inv_all_d"
  <2>1. ddN = [dd EXCEPT ![dx] = [w \in Way |-> INVALID_TAG]] /\ idN = id
    BY <1>2, <1>12 DEF Reply, dcache_invalidate_all_ways
  <2>2. Sets(end.d, new.d, dx, Way, NoCopy) /\ new.i = end.i
    <3>1. Sets(end.d, new.d, DCACHE_INDEX(msg.a), Way, NoCopy) /\ new.i = end.i
      BY <1>7, <1>12, Zenon DEF Applied
    <3>2. QED
      BY <1>2, <1>3, <3>1
  <2>3. ddN \in DDirectory(Lines) /\ Sets(dd, ddN, dx, Way, INVALID_TAG)
    <3>1. INVALID_TAG \in {INVALID_TAG} \cup {DCACHE_TAG(b) : b \in Lines}
      OBVIOUS
    <3>2. QED
      BY <1>8, <2>1, <3>1, ClearIs DEF DDirectory
  <2>4. Sets(end.i, new.i, ix, {}, NoCopy) /\ Sets(id, idN, ix, {}, INVALID_TAG)
    BY <1>9, <2>1, <2>2
  <2>5. QED
    BY <1>3, <1>4, <1>5, <1>10, <2>1, <2>2, <2>3, <2>4, ClearingSent
<1>13. CASE msg.typ = "inv_all_i"
  <2>1. ddN = dd /\ idN = [id EXCEPT ![ix] = [w \in Way |-> INVALID_TAG]]
    BY <1>2, <1>13 DEF Reply, icache_invalidate_all_ways
  <2>2. new.d = end.d /\ Sets(end.i, new.i, ix, Way, NoCopy)
    <3>1. new.d = end.d /\ Sets(end.i, new.i, ICACHE_INDEX(msg.a), Way, NoCopy)
      BY <1>7, <1>13, Zenon DEF Applied
    <3>2. QED
      BY <1>2, <1>3, <3>1
  <2>3. idN \in IDirectory(Lines) /\ Sets(id, idN, ix, Way, INVALID_TAG)
    <3>1. INVALID_TAG \in {INVALID_TAG} \cup {ICACHE_TAG(b) : b \in Lines}
      OBVIOUS
    <3>2. QED
      BY <1>8, <2>1, <3>1, ClearIs DEF IDirectory
  <2>4. Sets(end.d, new.d, dx, {}, NoCopy) /\ Sets(dd, ddN, dx, {}, INVALID_TAG)
    BY <1>9, <2>1, <2>2
  <2>5. QED
    BY <1>3, <1>4, <1>5, <1>10, <2>1, <2>2, <2>3, <2>4, ClearingSent
<1>14. QED
  BY <1>11, <1>12, <1>13 DEF Reply

(* What a directory holds when a search has forgotten what it has found. *)
LEMMA ForgetData ==
    ASSUME NEW dd \in DDirectory(Lines), Unique(dd), NEW a \in Lines, NEW dw, dw = search_dcache(dd, a),
           NEW ddN, ddN = Forget(dd, DCACHE_INDEX(a), dw)
    PROVE  /\ ddN \in DDirectory(Lines) /\ Unique(ddN) /\ dw \in Way \cup {NoWay}
           /\ Sets(dd, ddN, DCACHE_INDEX(a), Ways(dw), INVALID_TAG) /\ Within(dd, ddN)
           /\ search_dcache(ddN, a) = NoWay
<1>1. a \in Nat
  BY LinesAre
<1>2. PICK dx \in Set : dx = DCACHE_INDEX(a)
  BY <1>1, DataPlace
<1>3. dw \in Way \cup {NoWay} /\ DCACHE_TAG(a) # INVALID_TAG
  BY <1>1, Searches, DataPlace
<1>4. ddN \in DDirectory(Lines) /\ Sets(dd, ddN, dx, Ways(dw), INVALID_TAG)
  <2>1. dd \in [Set -> [Way -> {INVALID_TAG} \cup {DCACHE_TAG(b) : b \in Lines}]]
    BY DEF DDirectory
  <2>2. INVALID_TAG \in {INVALID_TAG} \cup {DCACHE_TAG(b) : b \in Lines}
    OBVIOUS
  <2>3. QED
    BY <1>2, <1>3, <2>1, <2>2, ForgetIs DEF DDirectory
<1>5. Unique(ddN)
  BY <1>4, Forgotten
<1>6. Within(dd, ddN)
  BY <1>4 DEF Sets, Within
<1>7. ~Found(ddN, dx, DCACHE_TAG(a))
  <2>1. dw = HighestMatch(dd[dx], DCACHE_TAG(a))
    BY <1>2 DEF search_dcache
  <2>2. QED
    BY <1>3, <1>4, <2>1, ForgetFound
<1>8. search_dcache(ddN, a) = NoWay
  BY <1>2, <1>7, Searches
<1>9. QED
  BY <1>2, <1>3, <1>4, <1>5, <1>6, <1>8

(* The same for an instruction directory. *)
LEMMA ForgetInstr ==
    ASSUME NEW id \in IDirectory(Lines), Unique(id), NEW a \in Lines, NEW iw, iw = search_icache(id, a),
           NEW idN, idN = Forget(id, ICACHE_INDEX(a), iw)
    PROVE  /\ idN \in IDirectory(Lines) /\ Unique(idN) /\ iw \in Way \cup {NoWay}
           /\ Sets(id, idN, ICACHE_INDEX(a), Ways(iw), INVALID_TAG) /\ Within(id, idN)
           /\ search_icache(idN, a) = NoWay
<1>1. a \in Nat
  BY LinesAre
<1>2. PICK ix \in Set : ix = ICACHE_INDEX(a)
  BY <1>1, InstrPlace
<1>3. iw \in Way \cup {NoWay} /\ ICACHE_TAG(a) # INVALID_TAG
  BY <1>1, Searches, InstrPlace
<1>4. idN \in IDirectory(Lines) /\ Sets(id, idN, ix, Ways(iw), INVALID_TAG)
  <2>1. id \in [Set -> [Way -> {INVALID_TAG} \cup {ICACHE_TAG(b) : b \in Lines}]]
    BY DEF IDirectory
  <2>2. INVALID_TAG \in {INVALID_TAG} \cup {ICACHE_TAG(b) : b \in Lines}
    OBVIOUS
  <2>3. QED
    BY <1>2, <1>3, <2>1, <2>2, ForgetIs DEF IDirectory
<1>5. Unique(idN)
  BY <1>4, Forgotten
<1>6. Within(id, idN)
  BY <1>4 DEF Sets, Within
<1>7. ~Found(idN, ix, ICACHE_TAG(a))
  <2>1. iw = HighestMatch(id[ix], ICACHE_TAG(a))
    BY <1>2 DEF search_icache
  <2>2. QED
    BY <1>3, <1>4, <2>1, ForgetFound
<1>8. search_icache(idN, a) = NoWay
  BY <1>2, <1>7, Searches
<1>9. QED
  BY <1>2, <1>3, <1>4, <1>5, <1>6, <1>8

(* Each half of a line that is fetched: the data cache gives it up. *)
LEMMA HalfSent ==
    ASSUME NEW dd, NEW id, NEW q, NEW st, CoreOK(dd, id, q, st), NEW a \in Lines, NEW line, NEW typ,
           \/ typ = "ifill_0" /\ line = a
           \/ typ = "ifill_1" /\ line \in FetchLines /\ a = line + 1,
           NEW dw, dw = search_dcache(dd, a), NEW msg, msg = Reply(typ, line, NoWay, dw, NoWay),
           NEW ddN, ddN = Forget(dd, DCACHE_INDEX(a), dw)
    PROVE  /\ Cleared(dd, id, q, ddN, id, Append(q, msg), st)
           /\ search_dcache(ddN, a) = NoWay
<1>1. a \in Nat
  BY LinesAre
<1>2. PICK dx \in Set : dx = DCACHE_INDEX(a)
  BY <1>1, DataPlace
<1>3. dd \in DDirectory(Lines) /\ Unique(dd) /\ id \in IDirectory(Lines)
  BY DEF CoreOK
<1>4. /\ ddN \in DDirectory(Lines) /\ dw \in Way \cup {NoWay}
      /\ Sets(dd, ddN, dx, Ways(dw), INVALID_TAG) /\ search_dcache(ddN, a) = NoWay
  BY <1>2, <1>3, ForgetData
<1>5. /\ msg.typ = typ /\ msg.a = line /\ msg.w = NoWay /\ msg.dw = dw
      /\ Valid(msg) /\ msg.typ # "store_ack"
  <2>1. Fresh \in Marks
    BY DEF Fresh, Marks
  <2>2. typ \in {"ifill_0", "ifill_1"} /\ line \in Lines
    BY LinesAre
  <2>3. msg = [typ |-> typ, a |-> line, w |-> NoWay, dw |-> dw, iw |-> NoWay, m |-> Fresh]
    BY DEF Reply
  <2>4. msg \in Replies
    BY <1>4, <2>1, <2>2, <2>3 DEF Replies, Final
  <2>5. QED
    BY <2>2, <2>3, <2>4 DEF Valid
<1>6. PICK end : end = End(st, q)
  OBVIOUS
<1>7. PICK new : new = Apply(end, msg)
  OBVIOUS
<1>8. end \in Caches
  BY <1>6, EndTyped DEF CoreOK
<1>9. Applied(end, msg, new)
  BY <1>5, <1>7, <1>8, ApplyIs
<1>10. PICK ix \in Set : ix = ICACHE_INDEX(msg.a)
  BY <1>5, ReplyFacts
<1>11. \A f, y : Sets(f, f, ix, {}, y)
  BY DEF Sets
<1>12. \E y : Sets(end.d, new.d, dx, Ways(dw), NoCopy) /\ Sets(end.i, new.i, ix, {}, y)
  <2>1. CASE typ = "ifill_0"
    <3>1. Sets(end.d, new.d, DCACHE_INDEX(msg.a), Ways(msg.dw), NoCopy) /\ new.i = end.i
      BY <1>5, <1>9, <2>1, Zenon DEF Applied
    <3>2. QED
      BY <1>2, <1>5, <1>11, <2>1, <3>1
  <2>2. CASE typ = "ifill_1"
    <3>1. /\ Sets(end.d, new.d, DCACHE_INDEX(msg.a + 1), Ways(msg.dw), NoCopy)
          /\ Sets(end.i, new.i, ICACHE_INDEX(msg.a), Ways(msg.w), [a |-> msg.a, m |-> msg.m])
      BY <1>5, <1>9, <2>2, Zenon DEF Applied
    <3>2. Ways(msg.w) = {}
      BY <1>5 DEF Ways
    <3>3. DCACHE_INDEX(msg.a + 1) = dx
      BY <1>2, <1>5, <2>2
    <3>4. QED
      BY <1>5, <1>10, <3>1, <3>2, <3>3
  <2>3. QED
    BY <2>1, <2>2
<1>13. Sets(end.i, new.i, ix, {}, NoCopy)
  BY <1>12 DEF Sets
<1>14. Cleared(dd, id, q, ddN, id, Append(q, msg), st)
  BY <1>3, <1>4, <1>5, <1>6, <1>7, <1>11, <1>12, <1>13, ClearingSent
<1>15. QED
  BY <1>4, <1>14

(* A line is added to a directory that has it in no other way. *)
LEMMA AddData ==
    ASSUME NEW dd \in DDirectory(Lines), Unique(dd), NEW a \in Lines, NEW w \in Way,
           OnlyIn(dd, DCACHE_INDEX(a), DCACHE_TAG(a), w),
           NEW ddN, ddN = add_dcache_line(dd, a, w)
    PROVE  /\ ddN \in DDirectory(Lines) /\ Unique(ddN)
           /\ Sets(dd, ddN, DCACHE_INDEX(a), {w}, DCACHE_TAG(a))
<1>1. a \in Nat
  BY LinesAre
<1>2. PICK x, t : x = DCACHE_INDEX(a) /\ t = DCACHE_TAG(a)
  OBVIOUS
<1>3. x \in Set
  BY <1>1, <1>2, DataPlace
<1>4. PICK T : T = {INVALID_TAG} \cup {DCACHE_TAG(b) : b \in Lines} /\ DDirectory(Lines) = [Set -> [Way -> T]]
  BY DEF DDirectory
<1>5. t \in T /\ dd \in [Set -> [Way -> T]]
  BY <1>2, <1>4
<1>6. ddN = [dd EXCEPT ![x][w] = t]
  BY <1>2 DEF add_dcache_line
<1>7. OnlyIn(dd, x, t, w)
  BY <1>2 DEF OnlyIn
<1>8. ddN \in [Set -> [Way -> T]] /\ Sets(dd, ddN, x, {w}, t)
  <2>1. [dd EXCEPT ![x][w] = t] \in [Set -> [Way -> T]] /\ Sets(dd, [dd EXCEPT ![x][w] = t], x, {w}, t)
    BY <1>3, <1>5, SetWay
  <2>2. QED
    BY <1>6, <2>1, Zenon
<1>9. Unique(ddN)
  BY <1>7, <1>8, AddIs
<1>10. QED
  BY <1>2, <1>4, <1>8, <1>9

(* The same for an instruction directory. *)
LEMMA AddInstr ==
    ASSUME NEW id \in IDirectory(Lines), Unique(id), NEW a \in Lines, NEW w \in Way,
           OnlyIn(id, ICACHE_INDEX(a), ICACHE_TAG(a), w),
           NEW idN, idN = add_icache_line(id, a, w)
    PROVE  /\ idN \in IDirectory(Lines) /\ Unique(idN)
           /\ Sets(id, idN, ICACHE_INDEX(a), {w}, ICACHE_TAG(a))
<1>1. a \in Nat
  BY LinesAre
<1>2. PICK x, t : x = ICACHE_INDEX(a) /\ t = ICACHE_TAG(a)
  OBVIOUS
<1>3. x \in Set
  BY <1>1, <1>2, InstrPlace
<1>4. PICK T : T = {INVALID_TAG} \cup {ICACHE_TAG(b) : b \in Lines} /\ IDirectory(Lines) = [Set -> [Way -> T]]
  BY DEF IDirectory
<1>5. t \in T /\ id \in [Set -> [Way -> T]]
  BY <1>2, <1>4
<1>6. idN = [id EXCEPT ![x][w] = t]
  BY <1>2 DEF add_icache_line
<1>7. OnlyIn(id, x, t, w)
  BY <1>2 DEF OnlyIn
<1>8. idN \in [Set -> [Way -> T]] /\ Sets(id, idN, x, {w}, t)
  <2>1. [id EXCEPT ![x][w] = t] \in [Set -> [Way -> T]] /\ Sets(id, [id EXCEPT ![x][w] = t], x, {w}, t)
    BY <1>3, <1>5, SetWay
  <2>2. QED
    BY <1>6, <2>1, Zenon
<1>9. Unique(idN)
  BY <1>7, <1>8, AddIs
<1>10. QED
  BY <1>2, <1>4, <1>8, <1>9

(* A line that is loaded is taken from the instruction cache. *)
LEMMA LoadSent ==
    ASSUME NEW dd, NEW id, NEW q, NEW st, CoreOK(dd, id, q, st), UpToDate(End(st, q)), NEW a \in LoadLines,
           NEW w \in Way, OnlyIn(dd, DCACHE_INDEX(a), DCACHE_TAG(a), w),
           NEW iw, iw = search_icache(id, a), NEW msg, msg = Reply("load", a, w, NoWay, iw),
           NEW ddN, ddN = add_dcache_line(dd, a, w), NEW idN, idN = Forget(id, ICACHE_INDEX(a), iw)
    PROVE  /\ CoreOK(ddN, idN, Append(q, msg), st) /\ UpToDate(End(st, Append(q, msg)))
           /\ Sets(dd, ddN, DCACHE_INDEX(a), {w}, DCACHE_TAG(a))
           /\ Within(id, idN) /\ search_icache(idN, a) = NoWay
<1>1. a \in Nat /\ a \in Lines /\ a # Empty
  BY LinesAre
<1>2. PICK dx \in Set, ix \in Set : dx = DCACHE_INDEX(a) /\ ix = ICACHE_INDEX(a)
  BY <1>1, DataPlace, InstrPlace
<1>3. /\ dd \in DDirectory(Lines) /\ Unique(dd) /\ id \in IDirectory(Lines) /\ Unique(id)
      /\ q \in Seq(Replies) /\ st \in Caches
  BY DEF CoreOK
<1>4. /\ idN \in IDirectory(Lines) /\ Unique(idN) /\ iw \in Way \cup {NoWay}
      /\ Sets(id, idN, ix, Ways(iw), INVALID_TAG) /\ Within(id, idN)
      /\ search_icache(idN, a) = NoWay
  BY <1>1, <1>2, <1>3, ForgetInstr
<1>5. ddN \in DDirectory(Lines) /\ Unique(ddN) /\ Sets(dd, ddN, dx, {w}, DCACHE_TAG(a))
  BY <1>1, <1>2, <1>3, AddData
<1>7. /\ msg.typ = "load" /\ msg.a = a /\ msg.w = w /\ msg.iw = iw /\ msg.m = Fresh
      /\ Valid(msg)
  <2>1. Fresh \in Marks
    BY DEF Fresh, Marks
  <2>2. msg = [typ |-> "load", a |-> a, w |-> w, dw |-> NoWay, iw |-> iw, m |-> Fresh]
    BY DEF Reply
  <2>3. msg \in Replies
    BY <1>1, <1>4, <2>1, <2>2 DEF Replies, Final
  <2>4. QED
    BY <2>2, <2>3 DEF Valid
<1>8. PICK end, new : end = End(st, q) /\ new = Apply(end, msg)
  OBVIOUS
<1>9. end \in Caches
  BY <1>8, EndTyped DEF CoreOK
<1>10. PICK fill : fill = [a |-> msg.a, m |-> msg.m]
  OBVIOUS
<1>11. Sets(end.d, new.d, dx, {w}, fill) /\ Sets(end.i, new.i, ix, Ways(iw), NoCopy)
  <2>1. Applied(end, msg, new)
    BY <1>7, <1>8, <1>9, ApplyIs
  <2>2. /\ Sets(end.d, new.d, DCACHE_INDEX(msg.a), {msg.w}, [a |-> msg.a, m |-> msg.m])
        /\ Sets(end.i, new.i, ICACHE_INDEX(msg.a), Ways(msg.iw), NoCopy)
    BY <1>7, <2>1, Zenon DEF Applied
  <2>3. QED
    BY <1>2, <1>7, <1>10, <2>2
<1>12. fill.a = a /\ fill.m = Fresh /\ NoCopy.a = Empty /\ NoCopy.m = Fresh
  BY <1>7, <1>10 DEF NoCopy
<1>13. MirrorsD(dd, end.d) /\ MirrorsI(id, end.i)
  BY <1>8 DEF CoreOK
<1>14. MirrorsD(ddN, new.d)
  BY <1>1, <1>2, <1>5, <1>11, <1>12, <1>13, MirrorsKept
<1>15. MirrorsI(idN, new.i)
  BY <1>4, <1>11, <1>12, <1>13, MirrorsKept
<1>16. CoreOK(ddN, idN, Append(q, msg), st) /\ End(st, Append(q, msg)) = new
  BY <1>4, <1>5, <1>7, <1>8, <1>14, <1>15, SendIs
<1>17. UpToDate(new)
  BY <1>8, <1>11, <1>12 DEF UpToDate, Sets
<1>18. QED
  BY <1>2, <1>4, <1>5, <1>16, <1>17

(* A line that is fetched has its second half taken from the data cache. *)
LEMMA FillSent ==
    ASSUME NEW dd, NEW id, NEW q, NEW st, CoreOK(dd, id, q, st), UpToDate(End(st, q)), NEW a \in FetchLines,
           NEW w \in Way, \A v \in Way : id[ICACHE_INDEX(a)][v] # ICACHE_TAG(a),
           NEW dw, dw = search_dcache(dd, a + 1), NEW msg, msg = Reply("ifill_1", a, w, dw, NoWay),
           NEW ddN, ddN = Forget(dd, DCACHE_INDEX(a + 1), dw), NEW idN, idN = add_icache_line(id, a, w)
    PROVE  /\ CoreOK(ddN, idN, Append(q, msg), st) /\ UpToDate(End(st, Append(q, msg)))
           /\ Sets(id, idN, ICACHE_INDEX(a), {w}, ICACHE_TAG(a))
           /\ Within(dd, ddN) /\ search_dcache(ddN, a + 1) = NoWay
<1>1. a \in Nat /\ a \in Lines /\ a # Empty /\ a + 1 \in Lines /\ a + 1 \in Nat
  BY LinesAre
<1>2. PICK hx \in Set, ix \in Set : hx = DCACHE_INDEX(a + 1) /\ ix = ICACHE_INDEX(a)
  BY <1>1, DataPlace, InstrPlace
<1>3. /\ dd \in DDirectory(Lines) /\ Unique(dd) /\ id \in IDirectory(Lines) /\ Unique(id)
      /\ q \in Seq(Replies) /\ st \in Caches
  BY DEF CoreOK
<1>4. /\ ddN \in DDirectory(Lines) /\ Unique(ddN) /\ dw \in Way \cup {NoWay}
      /\ Sets(dd, ddN, hx, Ways(dw), INVALID_TAG) /\ Within(dd, ddN)
      /\ search_dcache(ddN, a + 1) = NoWay
  BY <1>1, <1>2, <1>3, ForgetData
<1>5. idN \in IDirectory(Lines) /\ Unique(idN) /\ Sets(id, idN, ix, {w}, ICACHE_TAG(a))
  <2>1. OnlyIn(id, ICACHE_INDEX(a), ICACHE_TAG(a), w)
    BY DEF OnlyIn
  <2>2. QED
    BY <1>1, <1>2, <1>3, <2>1, AddInstr
<1>7. /\ msg.typ = "ifill_1" /\ msg.a = a /\ msg.w = w /\ msg.dw = dw /\ msg.m = Fresh
      /\ Valid(msg)
  <2>1. Fresh \in Marks
    BY DEF Fresh, Marks
  <2>2. msg = [typ |-> "ifill_1", a |-> a, w |-> w, dw |-> dw, iw |-> NoWay, m |-> Fresh]
    BY DEF Reply
  <2>3. msg \in Replies
    BY <1>1, <1>4, <2>1, <2>2 DEF Replies, Final
  <2>4. QED
    BY <2>2, <2>3 DEF Valid
<1>8. PICK end, new : end = End(st, q) /\ new = Apply(end, msg)
  OBVIOUS
<1>9. end \in Caches
  BY <1>8, EndTyped DEF CoreOK
<1>10. PICK fill : fill = [a |-> msg.a, m |-> msg.m]
  OBVIOUS
<1>11. Sets(end.d, new.d, hx, Ways(dw), NoCopy) /\ Sets(end.i, new.i, ix, {w}, fill)
  <2>1. Applied(end, msg, new)
    BY <1>7, <1>8, <1>9, ApplyIs
  <2>2. /\ Sets(end.d, new.d, DCACHE_INDEX(msg.a + 1), Ways(msg.dw), NoCopy)
        /\ Sets(end.i, new.i, ICACHE_INDEX(msg.a), Ways(msg.w), [a |-> msg.a, m |-> msg.m])
    BY <1>7, <2>1, Zenon DEF Applied
  <2>3. Ways(w) = {w}
    BY Scan DEF Ways
  <2>4. QED
    BY <1>2, <1>7, <1>10, <2>2, <2>3
<1>12. fill.a = a /\ fill.m = Fresh /\ NoCopy.a = Empty /\ NoCopy.m = Fresh
  BY <1>7, <1>10 DEF NoCopy
<1>13. MirrorsD(dd, end.d) /\ MirrorsI(id, end.i)
  BY <1>8 DEF CoreOK
<1>14. MirrorsD(ddN, new.d)
  BY <1>4, <1>11, <1>12, <1>13, MirrorsKept
<1>15. MirrorsI(idN, new.i)
  BY <1>1, <1>2, <1>5, <1>11, <1>12, <1>13, MirrorsKept
<1>16. CoreOK(ddN, idN, Append(q, msg), st) /\ End(st, Append(q, msg)) = new
  BY <1>4, <1>5, <1>7, <1>8, <1>14, <1>15, SendIs
<1>17. UpToDate(new)
  BY <1>8, <1>11, <1>12 DEF UpToDate, Sets
<1>18. QED
  BY <1>2, <1>4, <1>5, <1>16, <1>17

(* After a line is written only its own copies are not up to date. *)
Nearly(end, a) ==
  \A x \in Set, w \in Way :
    /\ end.d[x][w].m = Fresh \/ end.d[x][w].a = a
    /\ end.i[x][w].m \in {Fresh, Zeroed} \/ end.i[x][w].a = ILine(a)

(* It stays so when lines are taken away. *)
LEMMA NearlyKept ==
    ASSUME NEW e, NEW f, Fewer(e, f), NEW a, Nearly(e, a)
    PROVE  Nearly(f, a)
<1>1. NoCopy.m = Fresh
  BY DEF NoCopy
<1>2. QED
  BY <1>1 DEF Nearly, Fewer

(* When those are gone, *)
LEMMA GoneUpToDate ==
    ASSUME NEW dd, NEW id, NEW q, NEW st, CoreOK(dd, id, q, st), NEW a \in Lines,
           NEW end, end = End(st, q), Nearly(end, a),
           search_dcache(dd, a) = NoWay, search_icache(id, a) = NoWay
    PROVE  UpToDate(end)
<1>1. end.d \in Cache /\ end.i \in Cache /\ FetchedOnly(end.i)
  <2>1. end \in Caches /\ FetchedOnly(end.i)
    BY EndTyped DEF CoreOK
  <2>2. QED
    BY <2>1 DEF Caches
<1>2. MirrorsD(dd, end.d) /\ MirrorsI(id, end.i)
  BY DEF CoreOK
<1>3. \A x \in Set, w \in Way : end.d[x][w].a # a
  BY <1>1, <1>2, DataThere
<1>4. \A x \in Set, w \in Way : end.i[x][w].a # ILine(a)
  BY <1>1, <1>2, InstrThere DEF FetchedOnly
<1>5. QED
  BY <1>3, <1>4 DEF Nearly, UpToDate

(* or brought up to date by the acknowledgement, all is. *)
LEMMA StoreAckSent ==
    ASSUME NEW dd, NEW id, NEW q, NEW st, CoreOK(dd, id, q, st), NEW a \in Lines,
           NEW end, end = End(st, q), Nearly(end, a),
           \A x \in Set, w \in Way : end.d[x][w].a = a => end.d[x][w].m = 1,
           search_dcache(dd, a) # NoWay => search_icache(id, a) = NoWay,
           NEW dw, dw = search_dcache(dd, a), NEW iw, iw = IF dw = NoWay THEN search_icache(id, a) ELSE NoWay,
           NEW msg, msg = Reply("store_ack", a, NoWay, dw, iw), NEW idN, idN = Forget(id, ICACHE_INDEX(a), iw)
    PROVE  /\ CoreOK(dd, idN, Append(q, msg), st) /\ UpToDate(End(st, Append(q, msg)))
           /\ Within(id, idN)
<1>1. a \in Nat
  BY LinesAre
<1>2. PICK dx \in Set, ix \in Set : dx = DCACHE_INDEX(a) /\ ix = ICACHE_INDEX(a)
  BY <1>1, DataPlace, InstrPlace
<1>3. /\ dd \in DDirectory(Lines) /\ Unique(dd) /\ id \in IDirectory(Lines) /\ Unique(id)
      /\ q \in Seq(Replies) /\ st \in Caches
      /\ MirrorsD(dd, end.d) /\ MirrorsI(id, end.i)
  BY DEF CoreOK
<1>4. end \in Caches /\ end.d \in Cache /\ end.i \in Cache /\ FetchedOnly(end.i)
  <2>1. end \in Caches /\ FetchedOnly(end.i)
    BY EndTyped DEF CoreOK
  <2>2. QED
    BY <2>1 DEF Caches
<1>5. /\ idN \in IDirectory(Lines) /\ Unique(idN) /\ iw \in Way \cup {NoWay}
      /\ Sets(id, idN, ix, Ways(iw), INVALID_TAG) /\ Within(id, idN)
      /\ search_icache(idN, a) = NoWay
  <2>1. CASE dw = NoWay
    <3>1. iw = search_icache(id, a)
      BY <2>1
    <3>2. QED
      BY <1>2, <1>3, <3>1, ForgetInstr
  <2>2. CASE dw # NoWay
    <3>1. iw = NoWay /\ idN = id
      BY <2>2 DEF Forget
    <3>2. Sets(id, id, ix, Ways(NoWay), INVALID_TAG) /\ Within(id, id)
      BY DEF Sets, Ways, Within
    <3>3. QED
      BY <1>3, <2>2, <3>1, <3>2
  <2>3. QED
    BY <2>1, <2>2
<1>6. dw \in Way \cup {NoWay}
  BY Searches
<1>7. msg.typ = "store_ack" /\ msg.a = a /\ msg.dw = dw /\ msg.iw = iw /\ Valid(msg)
  <2>1. Fresh \in Marks
    BY DEF Fresh, Marks
  <2>2. msg = [typ |-> "store_ack", a |-> a, w |-> NoWay, dw |-> dw, iw |-> iw, m |-> Fresh]
    BY DEF Reply
  <2>3. msg \in Replies
    BY <1>5, <1>6, <2>1, <2>2 DEF Replies, Final
  <2>4. QED
    BY <2>2, <2>3 DEF Valid
<1>8. PICK new : new = Apply(end, msg)
  OBVIOUS
<1>9. /\ \A x \in Set, w \in Way :
           new.d[x][w] = IF x = dx /\ w \in Ways(dw) THEN Updated(end.d[x][w], a) ELSE end.d[x][w]
      /\ Sets(end.i, new.i, ix, Ways(iw), NoCopy)
  <2>1. Applied(end, msg, new)
    BY <1>4, <1>7, <1>8, ApplyIs
  <2>2. /\ \A x \in Set, w \in Way :
             new.d[x][w] = IF x = DCACHE_INDEX(msg.a) /\ w \in Ways(msg.dw)
                           THEN Updated(end.d[x][w], msg.a) ELSE end.d[x][w]
        /\ Sets(end.i, new.i, ICACHE_INDEX(msg.a), Ways(msg.iw), NoCopy)
    BY <1>7, <2>1, Zenon DEF Applied
  <2>3. QED
    BY <1>2, <1>7, <2>2
<1>10. dw # NoWay => dw \in Way /\ end.d[dx][dw].a = a /\ end.d[dx][dw].m = 1
  <2>1. dw # NoWay => end.d[DCACHE_INDEX(a)][search_dcache(dd, a)].a = a
    BY <1>3, <1>4, DataThere
  <2>2. QED
    BY <1>2, <1>6, <2>1
<1>11. \A x \in Set, w \in Way : end.d[x][w].a = a => dw # NoWay /\ x = dx /\ w = dw
  <2> SUFFICES ASSUME NEW x \in Set, NEW w \in Way, end.d[x][w].a = a PROVE dw # NoWay /\ x = dx /\ w = dw
    OBVIOUS
  <2>1. /\ \A v \in Way : dd[DCACHE_INDEX(a)][v] = DCACHE_TAG(a) <=> end.d[DCACHE_INDEX(a)][v].a = a
        /\ x = DCACHE_INDEX(a) /\ dw # NoWay
    BY <1>3, <1>4, DataThere
  <2>2. dd[dx][w] = DCACHE_TAG(a) /\ dd[dx][dw] = DCACHE_TAG(a) /\ x = dx
    BY <1>2, <1>10, <2>1
  <2>3. DCACHE_TAG(a) # INVALID_TAG
    BY <1>1, DataPlace
  <2>4. QED
    BY <1>2, <1>3, <1>10, <2>1, <2>2, <2>3 DEF Unique
<1>12. dw # NoWay => Updated(end.d[dx][dw], a).a = a /\ Updated(end.d[dx][dw], a).m = Fresh
  <2> SUFFICES ASSUME dw # NoWay PROVE Updated(end.d[dx][dw], a).a = a /\ Updated(end.d[dx][dw], a).m = Fresh
    OBVIOUS
  <2>1. PICK y : y = end.d[dx][dw]
    OBVIOUS
  <2>2. y \in Copies /\ y.a = a /\ y.m = 1
    BY <1>2, <1>4, <1>10, <2>1 DEF Cache
  <2>3. Updated(y, a).a = a /\ Updated(y, a).m = 0
    BY <2>2, UpdatedIs
  <2>4. QED
    BY <2>1, <2>3 DEF Fresh
<1>13. \A x \in Set, w \in Way : new.d[x][w].a = end.d[x][w].a /\ new.d[x][w].m = Fresh
  <2> SUFFICES ASSUME NEW x \in Set, NEW w \in Way
               PROVE  new.d[x][w].a = end.d[x][w].a /\ new.d[x][w].m = Fresh
    OBVIOUS
  <2>1. CASE x = dx /\ w \in Ways(dw)
    <3>1. dw # NoWay /\ w = dw
      BY <2>1 DEF Ways
    <3>2. QED
      BY <1>9, <1>10, <1>12, <2>1, <3>1
  <2>2. CASE ~(x = dx /\ w \in Ways(dw))
    <3>1. new.d[x][w] = end.d[x][w]
      BY <1>9, <2>2
    <3>2. end.d[x][w].a # a
      BY <1>11, <2>2 DEF Ways
    <3>3. QED
      BY <3>1, <3>2 DEF Nearly
  <2>3. QED
    BY <2>1, <2>2
<1>14. MirrorsD(dd, new.d)
  BY <1>3, <1>13 DEF MirrorsD
<1>15. NoCopy.a = Empty /\ NoCopy.m = Fresh
  BY DEF NoCopy
<1>16. MirrorsI(idN, new.i)
  BY <1>3, <1>5, <1>9, <1>15, MirrorsKept
<1>17. /\ CoreOK(dd, idN, Append(q, msg), st) /\ End(st, Append(q, msg)) = new
  <2>1. msg.typ = "store_ack" /\ msg.dw # NoWay =>
          /\ end.d[DCACHE_INDEX(msg.a)][msg.dw].a = msg.a
          /\ end.d[DCACHE_INDEX(msg.a)][msg.dw].m # 0
    BY <1>2, <1>7, <1>10
  <2>2. QED
    BY <1>3, <1>5, <1>7, <1>8, <1>14, <1>16, <2>1, SendIs
<1>18. \A x \in Set, w \in Way : new.i[x][w].m \in {Fresh, Zeroed}
  <2>1. new.i \in Cache /\ FetchedOnly(new.i)
    <3>1. new \in Caches
      <4>1. Applied(end, msg, new)
        BY <1>4, <1>7, <1>8, ApplyIs
      <4>2. QED
        BY <4>1 DEF Applied
    <3>2. FetchedOnly(new.i)
      BY <1>4, <1>9, <1>15 DEF FetchedOnly, Sets
    <3>3. QED
      BY <3>1, <3>2 DEF Caches
  <2>2. \A x \in Set, w \in Way : new.i[x][w].a # ILine(a)
    BY <1>5, <1>16, <2>1, InstrThere DEF FetchedOnly
  <2>3. \A x \in Set, w \in Way : new.i[x][w] = end.i[x][w] \/ new.i[x][w] = NoCopy
    BY <1>9 DEF Sets
  <2>4. QED
    BY <1>15, <2>2, <2>3 DEF Nearly
<1>19. UpToDate(End(st, Append(q, msg)))
  BY <1>13, <1>17, <1>18 DEF UpToDate
<1>20. QED
  BY <1>5, <1>17, <1>19

-----------------------------------------------------------------------------
(* Invalidating the caches of the other cores. *)

(* One of them. *)
LEMMA DataEvicted ==
    ASSUME NEW dd, NEW id, NEW q, NEW st, CoreOK(dd, id, q, st), NEW a \in Lines,
           NEW w, w = search_dcache(dd, a), NEW ddN, ddN = invalidate_dcache(dd, a),
           NEW qN, qN = IF w = NoWay THEN q ELSE Append(q, DEvict(a, w))
    PROVE  Cleared(dd, id, q, ddN, id, qN, st) /\ search_dcache(ddN, a) = NoWay
<1>1. ddN = Forget(dd, DCACHE_INDEX(a), w)
  BY DEF invalidate_dcache
<1>2. CASE w = NoWay
  <2>1. ddN = dd /\ qN = q
    BY <1>1, <1>2 DEF Forget
  <2>2. QED
    BY <1>2, <2>1, ClearedNot
<1>3. CASE w # NoWay
  <2>1. PICK typ, msg : typ = "evict_inv" /\ msg = Reply(typ, a, NoWay, w, NoWay) /\ qN = Append(q, msg)
    BY <1>3 DEF DEvict
  <2>2. typ \in Evicts /\ id = Forget(id, ICACHE_INDEX(a), NoWay)
    BY <2>1 DEF Evicts, Forget
  <2>3. Cleared(dd, id, q, ddN, id, Append(q, msg), st) /\ search_dcache(ddN, a) = NoWay
    BY <1>1, <2>1, <2>2, EvictSent
  <2>4. QED
    BY <2>1, <2>3
<1>4. QED
  BY <1>2, <1>3

(* and of an instruction line, to another core. *)
LEMMA InstrEvicted ==
    ASSUME NEW dd, NEW id, NEW q, NEW st, CoreOK(dd, id, q, st), NEW a \in Lines,
           NEW w, w = search_icache(id, a), NEW idN, idN = invalidate_icache(id, a),
           NEW qN, qN = IF w = NoWay THEN q ELSE Append(q, IEvict(a, w))
    PROVE  Cleared(dd, id, q, dd, idN, qN, st) /\ search_icache(idN, a) = NoWay
<1>1. idN = Forget(id, ICACHE_INDEX(a), w)
  BY DEF invalidate_icache
<1>2. CASE w = NoWay
  <2>1. idN = id /\ qN = q
    BY <1>1, <1>2 DEF Forget
  <2>2. QED
    BY <1>2, <2>1, ClearedNot
<1>3. CASE w # NoWay
  <2>1. PICK typ, msg : typ = "evict_inv" /\ msg = Reply(typ, a, NoWay, NoWay, w) /\ qN = Append(q, msg)
    BY <1>3 DEF IEvict
  <2>2. typ \in Evicts /\ dd = Forget(dd, DCACHE_INDEX(a), NoWay)
    BY <2>1 DEF Evicts, Forget
  <2>3. Cleared(dd, id, q, dd, idN, Append(q, msg), st) /\ search_icache(idN, a) = NoWay
    BY <1>1, <2>1, <2>2, EvictSent
  <2>4. QED
    BY <2>1, <2>3
<1>4. QED
  BY <1>2, <1>3

(* Nothing but lines of cores other than c is taken away. *)
Kept(s, t, c) == t.ddir[c] = s.ddir[c] /\ t.idir[c] = s.idir[c] /\ t.cpx[c] = s.cpx[c]
ClearedAt(s, t, k) ==
  Cleared(s.ddir[k], s.idir[k], s.cpx[k], t.ddir[k], t.idir[k], t.cpx[k], CachesOf(s, k))
Others(s, t, c) ==
  /\ t \in World /\ t.l1d = s.l1d /\ t.l1i = s.l1i /\ Kept(s, t, c)
  /\ \A k \in Core : k # c => ClearedAt(s, t, k)

(* What invalidate_other_dcache does to the other cores, *)
LEMMA InvalidateData ==
    ASSUME NEW s \in World, NEW c \in Core, \A k \in Core : k # c => OK(s, k), NEW a \in Lines,
           NEW t, t = invalidate_other_dcache(s, c, a)
    PROVE  /\ Others(s, t, c) /\ t.idir = s.idir
           /\ \A k \in Core : k # c => search_dcache(t.ddir[k], a) = NoWay
<1> DEFINE way(k) == IF k = c THEN NoWay ELSE search_dcache(s.ddir[k], a)
           D == [k \in Core |-> IF k = c THEN s.ddir[k] ELSE invalidate_dcache(s.ddir[k], a)]
           Q == [k \in Core |-> IF way(k) = NoWay THEN s.cpx[k] ELSE Append(s.cpx[k], DEvict(a, way(k)))]
<1>1. t = [s EXCEPT !.ddir = D, !.cpx = Q]
  BY DEF invalidate_other_dcache
<1>2. /\ s.ddir \in [Core -> DDirectory(Lines)] /\ s.idir \in [Core -> IDirectory(Lines)]
      /\ s.cpx \in [Core -> Seq(Replies)]
  BY DEF World
<1>3. D[c] = s.ddir[c] /\ Q[c] = s.cpx[c]
  OBVIOUS
<1>4. ASSUME NEW k \in Core, k # c
      PROVE  /\ Cleared(s.ddir[k], s.idir[k], s.cpx[k], D[k], s.idir[k], Q[k], CachesOf(s, k))
             /\ search_dcache(D[k], a) = NoWay
  <2>1. CoreOK(s.ddir[k], s.idir[k], s.cpx[k], CachesOf(s, k))
    BY <1>4 DEF OK
  <2>2. PICK w : w = search_dcache(s.ddir[k], a)
    OBVIOUS
  <2>3. /\ D[k] = invalidate_dcache(s.ddir[k], a)
        /\ Q[k] = IF w = NoWay THEN s.cpx[k] ELSE Append(s.cpx[k], DEvict(a, w))
    BY <1>4, <2>2
  <2> HIDE DEF D, Q
  <2>4. QED
    BY <2>1, <2>2, <2>3, DataEvicted
<1>5. D \in [Core -> DDirectory(Lines)] /\ Q \in [Core -> Seq(Replies)]
  <2>1. ASSUME NEW k \in Core PROVE D[k] \in DDirectory(Lines) /\ Q[k] \in Seq(Replies)
    <3>1. CASE k = c
      BY <1>2, <1>3, <3>1
    <3>2. CASE k # c
      <4> HIDE DEF D, Q
      <4>1. QED
        BY <1>4, <3>2 DEF Cleared, CoreOK
    <3>3. QED
      BY <3>1, <3>2
  <2>2. D = [k \in Core |-> D[k]] /\ Q = [k \in Core |-> Q[k]]
    OBVIOUS
  <2> HIDE DEF D, Q
  <2>3. QED
    BY <2>1, <2>2
<1> HIDE DEF D, Q
<1>6. t \in World /\ t.ddir = D /\ t.idir = s.idir /\ t.cpx = Q /\ t.l1d = s.l1d /\ t.l1i = s.l1i
  <2>1. PICK d \in [Core -> DDirectory(Lines)], q \in [Core -> Seq(Replies)] : d = D /\ q = Q
    BY <1>5
  <2>2. t = [s EXCEPT !.ddir = d, !.cpx = q]
    BY <1>1, <2>1, Zenon
  <2>3. t \in World /\ t.ddir = d /\ t.idir = s.idir /\ t.cpx = q /\ t.l1d = s.l1d /\ t.l1i = s.l1i
    BY <2>1, <2>2 DEF World
  <2>4. QED
    BY <2>1, <2>3
<1>7. QED
  BY <1>3, <1>4, <1>6 DEF Others, Kept, ClearedAt

(* what invalidate_other_icache does, *)
LEMMA InvalidateInstr ==
    ASSUME NEW s \in World, NEW c \in Core, \A k \in Core : k # c => OK(s, k), NEW a \in Lines,
           NEW t, t = invalidate_other_icache(s, c, a)
    PROVE  /\ Others(s, t, c) /\ t.ddir = s.ddir
           /\ \A k \in Core : k # c => search_icache(t.idir[k], a) = NoWay
<1> DEFINE way(k) == IF k = c THEN NoWay ELSE search_icache(s.idir[k], a)
           I == [k \in Core |-> IF k = c THEN s.idir[k] ELSE invalidate_icache(s.idir[k], a)]
           Q == [k \in Core |-> IF way(k) = NoWay THEN s.cpx[k] ELSE Append(s.cpx[k], IEvict(a, way(k)))]
<1>1. t = [s EXCEPT !.idir = I, !.cpx = Q]
  BY DEF invalidate_other_icache
<1>2. /\ s.ddir \in [Core -> DDirectory(Lines)] /\ s.idir \in [Core -> IDirectory(Lines)]
      /\ s.cpx \in [Core -> Seq(Replies)]
  BY DEF World
<1>3. I[c] = s.idir[c] /\ Q[c] = s.cpx[c]
  OBVIOUS
<1>4. ASSUME NEW k \in Core, k # c
      PROVE  /\ Cleared(s.ddir[k], s.idir[k], s.cpx[k], s.ddir[k], I[k], Q[k], CachesOf(s, k))
             /\ search_icache(I[k], a) = NoWay
  <2>1. CoreOK(s.ddir[k], s.idir[k], s.cpx[k], CachesOf(s, k))
    BY <1>4 DEF OK
  <2>2. PICK w : w = search_icache(s.idir[k], a)
    OBVIOUS
  <2>3. /\ I[k] = invalidate_icache(s.idir[k], a)
        /\ Q[k] = IF w = NoWay THEN s.cpx[k] ELSE Append(s.cpx[k], IEvict(a, w))
    BY <1>4, <2>2
  <2> HIDE DEF I, Q
  <2>4. QED
    BY <2>1, <2>2, <2>3, InstrEvicted
<1>5. I \in [Core -> IDirectory(Lines)] /\ Q \in [Core -> Seq(Replies)]
  <2>1. ASSUME NEW k \in Core PROVE I[k] \in IDirectory(Lines) /\ Q[k] \in Seq(Replies)
    <3>1. CASE k = c
      BY <1>2, <1>3, <3>1
    <3>2. CASE k # c
      <4> HIDE DEF I, Q
      <4>1. QED
        BY <1>4, <3>2 DEF Cleared, CoreOK
    <3>3. QED
      BY <3>1, <3>2
  <2>2. I = [k \in Core |-> I[k]] /\ Q = [k \in Core |-> Q[k]]
    OBVIOUS
  <2> HIDE DEF I, Q
  <2>3. QED
    BY <2>1, <2>2
<1> HIDE DEF I, Q
<1>6. t \in World /\ t.ddir = s.ddir /\ t.idir = I /\ t.cpx = Q /\ t.l1d = s.l1d /\ t.l1i = s.l1i
  <2>1. PICK i \in [Core -> IDirectory(Lines)], q \in [Core -> Seq(Replies)] : i = I /\ q = Q
    BY <1>5
  <2>2. t = [s EXCEPT !.idir = i, !.cpx = q]
    BY <1>1, <2>1, Zenon
  <2>3. t \in World /\ t.ddir = s.ddir /\ t.idir = i /\ t.cpx = q /\ t.l1d = s.l1d /\ t.l1i = s.l1i
    BY <2>1, <2>2 DEF World
  <2>4. QED
    BY <2>1, <2>3
<1>7. QED
  BY <1>3, <1>4, <1>6 DEF Others, Kept, ClearedAt

(* Where no line is in both, the cache that is tried second is not needed *)
(* when the first has the line.                                            *)
LEMMA InvalidateBoth ==
    ASSUME NEW s \in World, NEW c \in Core, \A k \in Core : k # c => OK(s, k), NEW a \in Lines, Apart(s),
           NEW t, t = invalidate_other_cache(s, c, a)
    PROVE  /\ Others(s, t, c)
           /\ \A k \in Core : k # c => search_dcache(t.ddir[k], a) = NoWay /\ search_icache(t.idir[k], a) = NoWay
<1> DEFINE inD(k) == k # c /\ search_dcache(s.ddir[k], a) # NoWay
           inI(k) == k # c /\ ~inD(k) /\ search_icache(s.idir[k], a) # NoWay
           D == [k \in Core |-> IF inD(k) THEN invalidate_dcache(s.ddir[k], a) ELSE s.ddir[k]]
           I == [k \in Core |-> IF inI(k) THEN invalidate_icache(s.idir[k], a) ELSE s.idir[k]]
           Q == [k \in Core |->
                  CASE inD(k) -> Append(s.cpx[k], DEvict(a, search_dcache(s.ddir[k], a)))
                    [] inI(k) -> Append(s.cpx[k], IEvict(a, search_icache(s.idir[k], a)))
                    [] OTHER  -> s.cpx[k]]
<1>1. t = [s EXCEPT !.ddir = D, !.idir = I, !.cpx = Q]
  BY DEF invalidate_other_cache
<1>2. /\ s.ddir \in [Core -> DDirectory(Lines)] /\ s.idir \in [Core -> IDirectory(Lines)]
      /\ s.cpx \in [Core -> Seq(Replies)]
  BY DEF World
<1>3. D[c] = s.ddir[c] /\ I[c] = s.idir[c] /\ Q[c] = s.cpx[c]
  OBVIOUS
<1>4. ASSUME NEW k \in Core, k # c
      PROVE  /\ Cleared(s.ddir[k], s.idir[k], s.cpx[k], D[k], I[k], Q[k], CachesOf(s, k))
             /\ search_dcache(D[k], a) = NoWay /\ search_icache(I[k], a) = NoWay
  <2>1. CoreOK(s.ddir[k], s.idir[k], s.cpx[k], CachesOf(s, k))
    BY <1>4 DEF OK
  <2>2. PICK dw, iw : dw = search_dcache(s.ddir[k], a) /\ iw = search_icache(s.idir[k], a)
    OBVIOUS
  <2>3. dw # NoWay => iw = NoWay
    BY <2>2 DEF Apart
  <2>4. CASE dw # NoWay
    <3>1. /\ D[k] = invalidate_dcache(s.ddir[k], a) /\ I[k] = s.idir[k]
          /\ Q[k] = IF dw = NoWay THEN s.cpx[k] ELSE Append(s.cpx[k], DEvict(a, dw))
      BY <1>4, <2>2, <2>4
    <3> HIDE DEF D, I, Q
    <3>2. QED
      BY <2>1, <2>2, <2>3, <2>4, <3>1, DataEvicted
  <2>5. CASE dw = NoWay
    <3>1. /\ D[k] = s.ddir[k] /\ I[k] = invalidate_icache(s.idir[k], a)
          /\ Q[k] = IF iw = NoWay THEN s.cpx[k] ELSE Append(s.cpx[k], IEvict(a, iw))
      BY <1>4, <2>2, <2>5 DEF invalidate_icache, Forget
    <3> HIDE DEF D, I, Q
    <3>2. QED
      BY <2>1, <2>2, <2>5, <3>1, InstrEvicted
  <2>6. QED
    BY <2>4, <2>5
<1>5. D \in [Core -> DDirectory(Lines)] /\ I \in [Core -> IDirectory(Lines)] /\ Q \in [Core -> Seq(Replies)]
  <2>1. ASSUME NEW k \in Core PROVE D[k] \in DDirectory(Lines) /\ I[k] \in IDirectory(Lines) /\ Q[k] \in Seq(Replies)
    <3>1. CASE k = c
      BY <1>2, <1>3, <3>1
    <3>2. CASE k # c
      <4> HIDE DEF D, I, Q
      <4>1. QED
        BY <1>4, <3>2 DEF Cleared, CoreOK
    <3>3. QED
      BY <3>1, <3>2
  <2>2. D = [k \in Core |-> D[k]] /\ I = [k \in Core |-> I[k]] /\ Q = [k \in Core |-> Q[k]]
    OBVIOUS
  <2> HIDE DEF D, I, Q
  <2>3. QED
    BY <2>1, <2>2
<1> HIDE DEF D, I, Q
<1>6. t \in World /\ t.ddir = D /\ t.idir = I /\ t.cpx = Q /\ t.l1d = s.l1d /\ t.l1i = s.l1i
  <2>1. PICK d \in [Core -> DDirectory(Lines)], i \in [Core -> IDirectory(Lines)], q \in [Core -> Seq(Replies)] :
          d = D /\ i = I /\ q = Q
    BY <1>5
  <2>2. t = [s EXCEPT !.ddir = d, !.idir = i, !.cpx = q]
    BY <1>1, <2>1, Zenon
  <2>3. t \in World /\ t.ddir = d /\ t.idir = i /\ t.cpx = q /\ t.l1d = s.l1d /\ t.l1i = s.l1i
    BY <2>1, <2>2 DEF World
  <2>4. QED
    BY <2>1, <2>3
<1>7. QED
  BY <1>3, <1>4, <1>6 DEF Others, Kept, ClearedAt

-----------------------------------------------------------------------------
(* From one core to all. *)

(* Lines are only taken away, *)
Clears(s, t) ==
  t \in World /\ t.l1d = s.l1d /\ t.l1i = s.l1i /\ \A k \in Core : ClearedAt(s, t, k)
Shrunk(s, t) == \A k \in Core : Within(s.ddir[k], t.ddir[k]) /\ Within(s.idir[k], t.idir[k])

(* so that no search finds more than before, *)
LEMMA WithinSearch ==
    ASSUME NEW f, NEW g, Within(f, g), NEW a \in Lines
    PROVE  /\ search_dcache(f, a) = NoWay => search_dcache(g, a) = NoWay
           /\ search_icache(f, a) = NoWay => search_icache(g, a) = NoWay
<1>1. a \in Nat
  BY LinesAre
<1>2. /\ DCACHE_INDEX(a) \in Set /\ DCACHE_TAG(a) # INVALID_TAG
      /\ ICACHE_INDEX(a) \in Set /\ ICACHE_TAG(a) # INVALID_TAG
  BY <1>1, DataPlace, InstrPlace
<1>3. \A x \in Set : \A t : t # INVALID_TAG /\ Found(g, x, t) => Found(f, x, t)
  BY DEF Within, Found
<1>4. QED
  BY <1>2, <1>3, Searches

(* and no line comes to be in both kinds of cache. *)
LEMMA ApartKept ==
    ASSUME NEW s, Apart(s), NEW t, Shrunk(s, t)
    PROVE  Apart(t)
<1> SUFFICES ASSUME NEW a \in Lines, NEW c \in Core, NEW k \in Core, search_dcache(t.ddir[c], a) # NoWay
             PROVE  search_icache(t.idir[k], a) = NoWay
  BY DEF Apart
<1>1. Within(s.ddir[c], t.ddir[c]) /\ Within(s.idir[k], t.idir[k])
  BY DEF Shrunk
<1>2. search_dcache(s.ddir[c], a) # NoWay
  BY <1>1, WithinSearch
<1>3. search_icache(s.idir[k], a) = NoWay
  BY <1>2 DEF Apart
<1>4. QED
  BY <1>1, <1>3, WithinSearch

(* What a core keeps when lines are taken away from it, *)
LEMMA ClearedAtIs ==
    ASSUME NEW s, NEW t, NEW k \in Core, t.l1d = s.l1d, t.l1i = s.l1i, ClearedAt(s, t, k)
    PROVE  /\ OK(t, k) /\ Within(s.ddir[k], t.ddir[k]) /\ Within(s.idir[k], t.idir[k])
           /\ Fewer(EndOf(s, k), EndOf(t, k))
           /\ UpToDate(EndOf(s, k)) => UpToDate(EndOf(t, k))
<1>1. PICK st : st = CachesOf(s, k)
  OBVIOUS
<1>2. CachesOf(t, k) = st
  BY <1>1 DEF CachesOf
<1>3. Cleared(s.ddir[k], s.idir[k], s.cpx[k], t.ddir[k], t.idir[k], t.cpx[k], st)
  BY <1>1 DEF ClearedAt
<1>4. EndOf(s, k) = End(st, s.cpx[k]) /\ EndOf(t, k) = End(st, t.cpx[k])
  BY <1>1, <1>2 DEF EndOf
<1>5. UpToDate(EndOf(s, k)) => UpToDate(EndOf(t, k))
  BY <1>3, <1>4, ClearedKept
<1>6. QED
  BY <1>2, <1>3, <1>4, <1>5 DEF Cleared, OK

(* and what all keep, *)
LEMMA ClearsIs ==
    ASSUME NEW s, NEW t, Clears(s, t)
    PROVE  /\ t \in World /\ Shrunk(s, t) /\ \A k \in Core : OK(t, k)
           /\ Apart(s) => Apart(t)
           /\ Good(s) => Good(t)
<1>1. /\ t \in World /\ Shrunk(s, t) /\ \A k \in Core : OK(t, k)
      /\ \A k \in Core : UpToDate(EndOf(s, k)) => UpToDate(EndOf(t, k))
  BY ClearedAtIs DEF Clears, Shrunk
<1>2. Apart(s) => Apart(t)
  BY <1>1, ApartKept
<1>3. QED
  BY <1>1, <1>2 DEF Good

(* which may happen twice. *)
LEMMA ClearsTwice ==
    ASSUME NEW s, NEW t, NEW u, Clears(s, t), Clears(t, u)
    PROVE  Clears(s, u)
<1>1. u \in World /\ u.l1d = s.l1d /\ u.l1i = s.l1i
  BY DEF Clears
<1>2. ASSUME NEW k \in Core PROVE ClearedAt(s, u, k)
  <2>1. PICK st : st = CachesOf(s, k)
    OBVIOUS
  <2>2. CachesOf(t, k) = st
    BY <2>1 DEF CachesOf, Clears
  <2>3. /\ Cleared(s.ddir[k], s.idir[k], s.cpx[k], t.ddir[k], t.idir[k], t.cpx[k], st)
        /\ Cleared(t.ddir[k], t.idir[k], t.cpx[k], u.ddir[k], u.idir[k], u.cpx[k], st)
    BY <2>1, <2>2 DEF Clears, ClearedAt
  <2>4. Cleared(s.ddir[k], s.idir[k], s.cpx[k], u.ddir[k], u.idir[k], u.cpx[k], st)
    BY <2>3, ClearedKept
  <2>5. QED
    BY <2>1, <2>4 DEF ClearedAt
<1>3. QED
  BY <1>1, <1>2 DEF Clears

(* A reply is sent to c. *)
SentTo(t, u, c, d, i, q) ==
  /\ u \in World /\ u.l1d = t.l1d /\ u.l1i = t.l1i
  /\ u.ddir[c] = d /\ u.idir[c] = i /\ u.cpx[c] = q
  /\ \A k \in Core : k # c => u.ddir[k] = t.ddir[k] /\ u.idir[k] = t.idir[k] /\ u.cpx[k] = t.cpx[k]

(* That is what Send does to a state whose directories of c have been changed. *)
LEMMA SentIs ==
    ASSUME NEW t \in World, NEW v \in World, NEW c \in Core, NEW msg \in Replies, v.l1d = t.l1d, v.l1i = t.l1i, v.cpx = t.cpx,
           \A k \in Core : k # c => v.ddir[k] = t.ddir[k] /\ v.idir[k] = t.idir[k],
           NEW u, u = Send(v, c, msg)
    PROVE  SentTo(t, u, c, v.ddir[c], v.idir[c], Append(t.cpx[c], msg))
<1>1. v.cpx \in [Core -> Seq(Replies)]
  BY DEF World
<1>2. PICK q \in Seq(Replies) : q = Append(v.cpx[c], msg)
  <2>1. v.cpx[c] \in Seq(Replies)
    BY <1>1
  <2>2. Append(v.cpx[c], msg) \in Seq(Replies)
    BY <2>1, AppendProperties
  <2>3. QED
    BY <2>2
<1>3. PICK Q \in [Core -> Seq(Replies)] : Q = [v.cpx EXCEPT ![c] = q]
  BY <1>1, <1>2
<1>4. u = [v EXCEPT !.cpx = Q]
  BY <1>2, <1>3 DEF Send
<1>5. u \in World /\ u.cpx = Q /\ u.ddir = v.ddir /\ u.idir = v.idir /\ u.l1d = v.l1d /\ u.l1i = v.l1i
  BY <1>3, <1>4 DEF World
<1>6. Q[c] = q /\ \A k \in Core : k # c => Q[k] = v.cpx[k]
  BY <1>1, <1>3
<1>7. QED
  BY <1>2, <1>5, <1>6 DEF SentTo

(* If the reply takes away what the directories gave up, all keep what they should. *)
LEMMA SentClears ==
    ASSUME NEW t, \A k \in Core : OK(t, k), NEW u, NEW c \in Core, NEW d, NEW i, NEW q, SentTo(t, u, c, d, i, q),
           Cleared(t.ddir[c], t.idir[c], t.cpx[c], d, i, q, CachesOf(t, c))
    PROVE  Clears(t, u)
<1>1. ASSUME NEW k \in Core PROVE ClearedAt(t, u, k)
  <2>1. CASE k = c
    BY <2>1 DEF SentTo, ClearedAt
  <2>2. CASE k # c
    <3>1. u.ddir[k] = t.ddir[k] /\ u.idir[k] = t.idir[k] /\ u.cpx[k] = t.cpx[k]
      BY <2>2 DEF SentTo
    <3>2. CoreOK(t.ddir[k], t.idir[k], t.cpx[k], CachesOf(t, k))
      BY DEF OK
    <3>3. QED
      BY <3>1, <3>2, ClearedNot DEF ClearedAt
  <2>3. QED
    BY <2>1, <2>2
<1>2. QED
  BY <1>1 DEF Clears, SentTo

-----------------------------------------------------------------------------
(* The handlers that only take lines away. *)

(* A reply is typed if its fields are. *)
LEMMA ReplyIs ==
    ASSUME NEW typ \in Final \cup {"atomic_load", "ifill_0", "evict_inv"}, NEW a \in Lines \cup {0},
           NEW w \in Way \cup {NoWay}, NEW dw \in Way \cup {NoWay}, NEW iw \in Way \cup {NoWay}
    PROVE  Reply(typ, a, w, dw, iw) \in Replies
<1>1. Fresh \in Marks
  BY DEF Fresh, Marks
<1>2. QED
  BY <1>1 DEF Reply, Replies

(* A reply that does nothing, *)
LEMMA NothingClears ==
    ASSUME NEW s \in World, \A k \in Core : OK(s, k), NEW c \in Core, NEW a \in Lines \cup {0},
           NEW typ \in {"no_fill", "atomic_load"}, NEW u, u = Send(s, c, Reply(typ, a, NoWay, NoWay, NoWay))
    PROVE  Clears(s, u) /\ u.ddir = s.ddir /\ u.idir = s.idir
<1>1. PICK msg : msg = Reply(typ, a, NoWay, NoWay, NoWay)
  OBVIOUS
<1>2. msg \in Replies
  <2>1. typ \in Final \cup {"atomic_load", "ifill_0", "evict_inv"}
    BY DEF Final
  <2>2. QED
    BY <1>1, <2>1, ReplyIs
<1>3. SentTo(s, u, c, s.ddir[c], s.idir[c], Append(s.cpx[c], msg))
  BY <1>1, <1>2, SentIs
<1>4. CoreOK(s.ddir[c], s.idir[c], s.cpx[c], CachesOf(s, c))
  BY DEF OK
<1>5. Cleared(s.ddir[c], s.idir[c], s.cpx[c], s.ddir[c], s.idir[c], Append(s.cpx[c], msg), CachesOf(s, c))
  BY <1>1, <1>4, ClearSent
<1>6. Clears(s, u)
  BY <1>3, <1>5, SentClears
<1>7. u.ddir = s.ddir /\ u.idir = s.idir
  BY DEF Send, World
<1>8. QED
  BY <1>6, <1>7

(* one that invalidates a set of a data cache, *)
LEMMA LoadInvalidateClears ==
    ASSUME NEW s \in World, \A k \in Core : OK(s, k), NEW c \in Core, NEW a \in Lines,
           NEW u, u = process_load_invalidate(s, c, a)
    PROVE  Clears(s, u)
<1>1. PICK msg : msg = Reply("inv_all_d", a, NoWay, NoWay, NoWay)
  OBVIOUS
<1>2. msg \in Replies
  <2>1. "inv_all_d" \in Final \cup {"atomic_load", "ifill_0", "evict_inv"}
    BY DEF Final
  <2>2. QED
    BY <1>1, <2>1, ReplyIs
<1>3. PICK d : d = dcache_invalidate_all_ways(s.ddir[c], a)
  OBVIOUS
<1>4. CoreOK(s.ddir[c], s.idir[c], s.cpx[c], CachesOf(s, c))
  BY DEF OK
<1>5. Cleared(s.ddir[c], s.idir[c], s.cpx[c], d, s.idir[c], Append(s.cpx[c], msg), CachesOf(s, c))
  BY <1>1, <1>3, <1>4, ClearSent
<1>6. d \in DDirectory(Lines)
  BY <1>5 DEF Cleared, CoreOK
<1>7. PICK v : v = [s EXCEPT !.ddir[c] = d]
  OBVIOUS
<1>8. /\ v \in World /\ v.l1d = s.l1d /\ v.l1i = s.l1i /\ v.cpx = s.cpx /\ v.idir = s.idir
      /\ v.ddir[c] = d /\ \A k \in Core : k # c => v.ddir[k] = s.ddir[k]
  BY <1>6, <1>7 DEF World
<1>9. u = Send(v, c, msg)
  BY <1>1, <1>3, <1>7, Zenon DEF process_load_invalidate
<1>10. SentTo(s, u, c, d, s.idir[c], Append(s.cpx[c], msg))
  <2>1. SentTo(s, u, c, v.ddir[c], v.idir[c], Append(s.cpx[c], msg))
    BY <1>2, <1>8, <1>9, SentIs
  <2>2. QED
    BY <1>8, <2>1
<1>11. QED
  BY <1>5, <1>10, SentClears

(* or of an instruction cache, *)
LEMMA IfillInvalidateClears ==
    ASSUME NEW s \in World, \A k \in Core : OK(s, k), NEW c \in Core, NEW a \in Lines,
           NEW u, u = process_ifill_invalidate(s, c, a)
    PROVE  Clears(s, u)
<1>1. PICK msg : msg = Reply("inv_all_i", a, NoWay, NoWay, NoWay)
  OBVIOUS
<1>2. msg \in Replies
  <2>1. "inv_all_i" \in Final \cup {"atomic_load", "ifill_0", "evict_inv"}
    BY DEF Final
  <2>2. QED
    BY <1>1, <2>1, ReplyIs
<1>3. PICK i : i = icache_invalidate_all_ways(s.idir[c], a)
  OBVIOUS
<1>4. CoreOK(s.ddir[c], s.idir[c], s.cpx[c], CachesOf(s, c))
  BY DEF OK
<1>5. Cleared(s.ddir[c], s.idir[c], s.cpx[c], s.ddir[c], i, Append(s.cpx[c], msg), CachesOf(s, c))
  BY <1>1, <1>3, <1>4, ClearSent
<1>6. i \in IDirectory(Lines)
  BY <1>5 DEF Cleared, CoreOK
<1>7. PICK v : v = [s EXCEPT !.idir[c] = i]
  OBVIOUS
<1>8. /\ v \in World /\ v.l1d = s.l1d /\ v.l1i = s.l1i /\ v.cpx = s.cpx /\ v.ddir = s.ddir
      /\ v.idir[c] = i /\ \A k \in Core : k # c => v.idir[k] = s.idir[k]
  BY <1>6, <1>7 DEF World
<1>9. u = Send(v, c, msg)
  BY <1>1, <1>3, <1>7, Zenon DEF process_ifill_invalidate
<1>10. SentTo(s, u, c, s.ddir[c], i, Append(s.cpx[c], msg))
  <2>1. SentTo(s, u, c, v.ddir[c], v.idir[c], Append(s.cpx[c], msg))
    BY <1>2, <1>8, <1>9, SentIs
  <2>2. QED
    BY <1>8, <2>1
<1>11. QED
  BY <1>5, <1>10, SentClears

(* and one half of a fetch: what it does to the others, to c when it fills *)
(* no way, and what it sends to c.                                          *)
HalfOf(s, u, c, typ, a, line, w) ==
  LET dw == search_dcache(s.ddir[c], a)
      d  == Forget(s.ddir[c], DCACHE_INDEX(a), dw)
  IN  /\ u \in World /\ u.l1d = s.l1d /\ u.l1i = s.l1i /\ u.idir = s.idir
      /\ u.ddir[c] = d /\ u.cpx[c] = Append(s.cpx[c], Reply(typ, line, w, dw, NoWay))
      /\ \A k \in Core : k # c => ClearedAt(s, u, k)
      /\ \A k \in Core : search_dcache(u.ddir[k], a) = NoWay

(* IfillHalf does that. *)
LEMMA HalfIs ==
    ASSUME NEW s \in World, NEW c \in Core, \A k \in Core : k # c => OK(s, k), NEW a \in Lines, NEW line, NEW typ,
           \/ typ = "ifill_0" /\ line = a
           \/ typ = "ifill_1" /\ line \in FetchLines /\ a = line + 1,
           s.ddir[c] \in DDirectory(Lines), Unique(s.ddir[c]),
           NEW w \in Way \cup {NoWay}, NEW u, u = IfillHalf(s, c, typ, a, line, w)
    PROVE  HalfOf(s, u, c, typ, a, line, w)
<1>1. PICK t : t = invalidate_other_dcache(s, c, a)
  OBVIOUS
<1>2. /\ Others(s, t, c) /\ t.idir = s.idir
      /\ \A k \in Core : k # c => search_dcache(t.ddir[k], a) = NoWay
  BY <1>1, InvalidateData
<1>3. /\ t \in World /\ t.l1d = s.l1d /\ t.l1i = s.l1i
      /\ t.ddir[c] = s.ddir[c] /\ t.idir[c] = s.idir[c] /\ t.cpx[c] = s.cpx[c]
  BY <1>2 DEF Others, Kept
<1>4. PICK dw : dw = search_dcache(s.ddir[c], a)
  OBVIOUS
<1>5. PICK d : d = Forget(s.ddir[c], DCACHE_INDEX(a), dw)
  OBVIOUS
<1>6. d \in DDirectory(Lines) /\ dw \in Way \cup {NoWay} /\ search_dcache(d, a) = NoWay
  BY <1>4, <1>5, ForgetData
<1>7. PICK msg : msg = Reply(typ, line, w, dw, NoWay)
  OBVIOUS
<1>8. msg \in Replies
  <2>1. typ \in Final \cup {"atomic_load", "ifill_0", "evict_inv"} /\ line \in Lines \cup {0}
    BY LinesAre DEF Final
  <2>2. QED
    BY <1>6, <1>7, <2>1, ReplyIs
<1>9. PICK v : v = [t EXCEPT !.ddir[c] = d]
  OBVIOUS
<1>10. /\ v \in World /\ v.l1d = t.l1d /\ v.l1i = t.l1i /\ v.cpx = t.cpx /\ v.idir = t.idir
       /\ v.ddir[c] = d /\ \A k \in Core : k # c => v.ddir[k] = t.ddir[k]
  BY <1>3, <1>6, <1>9 DEF World
<1>11. u = Send(v, c, msg)
  <2>1. u = Send([t EXCEPT !.ddir[c] = invalidate_dcache(t.ddir[c], a)], c,
                 Reply(typ, line, w, search_dcache(t.ddir[c], a), NoWay))
    BY <1>1, Zenon DEF IfillHalf
  <2>2. invalidate_dcache(t.ddir[c], a) = d
    BY <1>3, <1>4, <1>5 DEF invalidate_dcache
  <2>3. QED
    BY <1>3, <1>4, <1>7, <1>9, <2>1, <2>2, Zenon
<1>12. SentTo(t, u, c, d, t.idir[c], Append(t.cpx[c], msg))
  <2>1. SentTo(t, u, c, v.ddir[c], v.idir[c], Append(t.cpx[c], msg))
    BY <1>3, <1>8, <1>10, <1>11, SentIs
  <2>2. QED
    BY <1>10, <2>1
<1>13. /\ u \in World /\ u.l1d = s.l1d /\ u.l1i = s.l1i
       /\ u.ddir[c] = d /\ u.cpx[c] = Append(s.cpx[c], msg)
       /\ \A k \in Core : k # c => u.ddir[k] = t.ddir[k] /\ u.idir[k] = t.idir[k] /\ u.cpx[k] = t.cpx[k]
  BY <1>3, <1>12 DEF SentTo
<1>14. u.idir = s.idir
  <2>1. \A k \in Core : u.idir[k] = s.idir[k]
    BY <1>2, <1>12 DEF SentTo
  <2>2. u.idir \in [Core -> IDirectory(Lines)] /\ s.idir \in [Core -> IDirectory(Lines)]
    BY <1>13 DEF World
  <2>3. QED
    BY <2>1, <2>2
<1>15. \A k \in Core : k # c => ClearedAt(s, u, k)
  BY <1>2, <1>13 DEF Others, ClearedAt
<1>16. \A k \in Core : search_dcache(u.ddir[k], a) = NoWay
  BY <1>2, <1>6, <1>13
<1>17. QED
  BY <1>4, <1>5, <1>7, <1>13, <1>14, <1>15, <1>16 DEF HalfOf

(* A half that fills nothing takes lines away only. *)
LEMMA HalfClears ==
    ASSUME NEW s \in World, NEW c \in Core, \A k \in Core : OK(s, k), NEW a \in Lines, NEW line, NEW typ,
           \/ typ = "ifill_0" /\ line = a
           \/ typ = "ifill_1" /\ line \in FetchLines /\ a = line + 1,
           NEW u, u = IfillHalf(s, c, typ, a, line, NoWay)
    PROVE  Clears(s, u)
<1>1. CoreOK(s.ddir[c], s.idir[c], s.cpx[c], CachesOf(s, c))
  BY DEF OK
<1>2. s.ddir[c] \in DDirectory(Lines) /\ Unique(s.ddir[c])
  BY <1>1 DEF CoreOK
<1>3. PICK dw, d : dw = search_dcache(s.ddir[c], a) /\ d = Forget(s.ddir[c], DCACHE_INDEX(a), dw)
  OBVIOUS
<1>4. /\ u \in World /\ u.l1d = s.l1d /\ u.l1i = s.l1i /\ u.idir = s.idir
      /\ u.ddir[c] = d /\ u.cpx[c] = Append(s.cpx[c], Reply(typ, line, NoWay, dw, NoWay))
      /\ \A k \in Core : k # c => ClearedAt(s, u, k)
  <2>1. HalfOf(s, u, c, typ, a, line, NoWay)
    BY <1>2, HalfIs
  <2>2. QED
    BY <1>3, <2>1 DEF HalfOf
<1>5. ClearedAt(s, u, c)
  <2>1. Cleared(s.ddir[c], s.idir[c], s.cpx[c], d, s.idir[c],
                Append(s.cpx[c], Reply(typ, line, NoWay, dw, NoWay)), CachesOf(s, c))
    BY <1>1, <1>3, HalfSent
  <2>2. QED
    BY <1>4, <2>1 DEF ClearedAt
<1>6. QED
  BY <1>4, <1>5 DEF Clears

(* A fetch that is not cacheable. *)
LEMMA IfillNcClears ==
    ASSUME NEW s \in World, NEW c \in Core, \A k \in Core : OK(s, k), NEW a \in FetchLines,
           NEW u, u = process_ifill_nc(s, c, a)
    PROVE  Clears(s, u)
<1>1. a \in Lines /\ a + 1 \in Lines
  BY LinesAre
<1>2. PICK t : t = IfillHalf(s, c, "ifill_0", a, a, NoWay)
  OBVIOUS
<1>3. u = IfillHalf(t, c, "ifill_1", a + 1, a, NoWay)
  BY <1>2 DEF process_ifill_nc, BothHalves
<1>4. Clears(s, t)
  BY <1>1, <1>2, HalfClears
<1>5. t \in World /\ \A k \in Core : OK(t, k)
  BY <1>4, ClearsIs
<1>6. Clears(t, u)
  BY <1>1, <1>3, <1>5, HalfClears
<1>7. QED
  BY <1>4, <1>6, ClearsTwice

(* What answers a store that invalidates. *)
LEMMA InvalidateClears ==
    ASSUME NEW s \in World, NEW c \in Core, \A k \in Core : OK(s, k), Apart(s), NEW a \in Lines,
           NEW typ \in {"inv_ack", "atomic_ack"}, NEW u, u = return_store_ack(s, c, typ, a, TRUE)
    PROVE  /\ Clears(s, u)
           /\ \A k \in Core : search_dcache(u.ddir[k], a) = NoWay /\ search_icache(u.idir[k], a) = NoWay
<1>1. PICK t : t = invalidate_other_cache(s, c, a)
  OBVIOUS
<1>2. /\ Others(s, t, c)
      /\ \A k \in Core : k # c => search_dcache(t.ddir[k], a) = NoWay /\ search_icache(t.idir[k], a) = NoWay
  BY <1>1, InvalidateBoth
<1>3. /\ t \in World /\ t.l1d = s.l1d /\ t.l1i = s.l1i
      /\ t.ddir[c] = s.ddir[c] /\ t.idir[c] = s.idir[c] /\ t.cpx[c] = s.cpx[c]
  BY <1>2 DEF Others, Kept
<1>4. PICK dw, iw : /\ dw = search_dcache(t.ddir[c], a)
                    /\ iw = IF dw = NoWay THEN search_icache(t.idir[c], a) ELSE NoWay
  OBVIOUS
<1>5. PICK d, i, msg : /\ d = Forget(s.ddir[c], DCACHE_INDEX(a), dw) /\ i = Forget(s.idir[c], ICACHE_INDEX(a), iw)
                       /\ msg = Reply(typ, a, NoWay, dw, iw)
  OBVIOUS
<1>6. CoreOK(s.ddir[c], s.idir[c], s.cpx[c], CachesOf(s, c))
  BY DEF OK
<1>7. dw = search_dcache(s.ddir[c], a) /\ (iw = NoWay \/ iw = search_icache(s.idir[c], a))
  BY <1>3, <1>4
<1>8. typ \in Evicts
  BY DEF Evicts
<1>9. /\ Cleared(s.ddir[c], s.idir[c], s.cpx[c], d, i, Append(s.cpx[c], msg), CachesOf(s, c))
      /\ search_dcache(d, a) = NoWay
      /\ iw = search_icache(s.idir[c], a) => search_icache(i, a) = NoWay
  BY <1>5, <1>6, <1>7, <1>8, EvictSent
<1>10. search_icache(i, a) = NoWay
  <2>1. CASE dw = NoWay
    BY <1>3, <1>4, <1>9, <2>1
  <2>2. CASE dw # NoWay
    <3>1. search_icache(s.idir[c], a) = NoWay
      BY <1>7, <2>2 DEF Apart
    <3>2. iw = NoWay
      BY <1>4, <2>2
    <3>3. QED
      BY <1>9, <3>1, <3>2
  <2>3. QED
    BY <2>1, <2>2
<1>11. d \in DDirectory(Lines) /\ i \in IDirectory(Lines)
  BY <1>9 DEF Cleared, CoreOK
<1>12. msg \in Replies
  <2>1. dw \in Way \cup {NoWay} /\ iw \in Way \cup {NoWay}
    BY <1>4, Searches
  <2>2. typ \in Final \cup {"atomic_load", "ifill_0", "evict_inv"}
    BY DEF Final
  <2>3. QED
    BY <1>5, <2>1, <2>2, ReplyIs
<1>13. PICK v : v = [t EXCEPT !.ddir[c] = d, !.idir[c] = i]
  OBVIOUS
<1>14. /\ v \in World /\ v.l1d = t.l1d /\ v.l1i = t.l1i /\ v.cpx = t.cpx
       /\ v.ddir[c] = d /\ v.idir[c] = i
       /\ \A k \in Core : k # c => v.ddir[k] = t.ddir[k] /\ v.idir[k] = t.idir[k]
  BY <1>3, <1>11, <1>13 DEF World
<1>15. u = Send(v, c, msg)
  <2>1. d = invalidate_dcache(t.ddir[c], a)
    BY <1>3, <1>5, <1>7 DEF invalidate_dcache
  <2>2. i = IF dw = NoWay THEN invalidate_icache(t.idir[c], a) ELSE t.idir[c]
    BY <1>3, <1>4, <1>5 DEF invalidate_icache, Forget
  <2>3. u = Send([t EXCEPT !.ddir[c] = invalidate_dcache(t.ddir[c], a),
                           !.idir[c] = IF dw = NoWay THEN invalidate_icache(t.idir[c], a) ELSE t.idir[c]], c,
                 Reply(typ, a, NoWay, dw, iw))
    BY <1>1, <1>4 DEF return_store_ack
  <2>4. QED
    BY <1>5, <1>13, <2>1, <2>2, <2>3, Zenon
<1>16. SentTo(t, u, c, d, i, Append(t.cpx[c], msg))
  <2>1. SentTo(t, u, c, v.ddir[c], v.idir[c], Append(t.cpx[c], msg))
    BY <1>3, <1>12, <1>14, <1>15, SentIs
  <2>2. QED
    BY <1>14, <2>1
<1>17. /\ u \in World /\ u.l1d = s.l1d /\ u.l1i = s.l1i
       /\ u.ddir[c] = d /\ u.idir[c] = i /\ u.cpx[c] = Append(s.cpx[c], msg)
       /\ \A k \in Core : k # c => u.ddir[k] = t.ddir[k] /\ u.idir[k] = t.idir[k] /\ u.cpx[k] = t.cpx[k]
  BY <1>3, <1>16 DEF SentTo
<1>18. ASSUME NEW k \in Core PROVE ClearedAt(s, u, k)
  <2>1. CASE k = c
    BY <1>9, <1>17, <2>1 DEF ClearedAt
  <2>2. CASE k # c
    BY <1>2, <1>17, <2>2 DEF Others, ClearedAt
  <2>3. QED
    BY <2>1, <2>2
<1>19. Clears(s, u)
  BY <1>17, <1>18 DEF Clears
<1>20. QED
  BY <1>2, <1>9, <1>10, <1>17, <1>19

-----------------------------------------------------------------------------
(* Writing memory. *)

(* Marks are given to all copies alike, wherever they are. *)
MarkedWorld(s, t, F, I) ==
  /\ t.ddir = s.ddir /\ t.idir = s.idir
  /\ t.l1d \in [Core -> Cache] /\ t.l1i \in [Core -> Cache] /\ t.cpx \in [Core -> Seq(Replies)]
  /\ \A k \in Core : MarkedCache(s.l1d[k], t.l1d[k], F[k]) /\ MarkedCache(s.l1i[k], t.l1i[k], I)
  /\ \A k \in Core : Len(t.cpx[k]) = Len(s.cpx[k])
  /\ \A k \in Core : \A n \in 1 .. Len(s.cpx[k]) : MarkedReply(s.cpx[k][n], t.cpx[k][n], F[k], I)

(* No core is the worse for it, but for the marks of what its caches will hold. *)
LEMMA MarkedWorldIs ==
    ASSUME NEW s \in World, \A k \in Core : OK(s, k), NEW F, NEW I, \A k \in Core : Marking(F[k], I),
           NEW t, MarkedWorld(s, t, F, I)
    PROVE  \A k \in Core : OK(t, k) /\ Marked(EndOf(s, k), EndOf(t, k), F[k], I)
<1> SUFFICES ASSUME NEW k \in Core PROVE OK(t, k) /\ Marked(EndOf(s, k), EndOf(t, k), F[k], I)
  OBVIOUS
<1>1. PICK st, stN, D : st = CachesOf(s, k) /\ stN = CachesOf(t, k) /\ D = F[k]
  OBVIOUS
<1>2. st.d = s.l1d[k] /\ st.i = s.l1i[k] /\ stN.d = t.l1d[k] /\ stN.i = t.l1i[k] /\ stN \in Caches
  BY <1>1 DEF CachesOf, Caches, MarkedWorld
<1>3. Marked(st, stN, D, I)
  BY <1>1, <1>2 DEF Marked, MarkedWorld
<1>4. PICK q, qN : q = s.cpx[k] /\ qN = t.cpx[k]
  OBVIOUS
<1>5. /\ qN \in Seq(Replies) /\ Len(qN) = Len(q) /\ \A n \in 1 .. Len(q) : MarkedReply(q[n], qN[n], D, I)
      /\ t.ddir = s.ddir /\ t.idir = s.idir
  BY <1>1, <1>4 DEF MarkedWorld
<1>6. CoreOK(s.ddir[k], s.idir[k], q, st) /\ Marking(D, I)
  BY <1>1, <1>4 DEF OK
<1>7. CoreOK(s.ddir[k], s.idir[k], qN, stN) /\ Marked(End(st, q), End(stN, qN), D, I)
  BY <1>2, <1>3, <1>5, <1>6, MarkCore
<1>8. QED
  BY <1>1, <1>4, <1>5, <1>7 DEF OK, EndOf

(* Any marks that depend on the line and the old mark will do. *)
LEMMA MarkedIs ==
    ASSUME NEW F, NEW y \in Copies, NEW m, m = F[y.a][y.m], m \in Marks
    PROVE  [y EXCEPT !.m = m] \in Copies /\ MarkedCopy(y, [y EXCEPT !.m = m], F)
BY DEF Copies, MarkedCopy

(* The same for a reply that carries a copy. *)
LEMMA MarkedReplyIs ==
    ASSUME NEW D, NEW I, NEW msg, Valid(msg), NEW m, m \in Marks,
           msg.typ = "load" => m = D[msg.a][msg.m], msg.typ = "ifill_1" => m = I[msg.a][msg.m],
           NEW new, new = [msg EXCEPT !.m = m]
    PROVE  MarkedReply(msg, new, D, I)
<1>1. new \in Replies
  BY DEF Valid, Replies
<1>2. /\ new.typ = msg.typ /\ new.a = msg.a /\ new.w = msg.w /\ new.dw = msg.dw /\ new.iw = msg.iw /\ new.m = m
  BY DEF Valid, Replies
<1>3. Valid(new)
  BY <1>1, <1>2 DEF Valid
<1>4. QED
  BY <1>2, <1>3 DEF MarkedReply

(* How the marks of data copies change when core c writes a, *)
WriteD(a, own) == [b \in Lines \cup {Empty} |-> [m \in Marks |-> IF b = a THEN Missed(m, own) ELSE m]]
WriteI(a)      == [b \in Lines \cup {Empty} |-> [m \in Marks |-> IF b = ILine(a) THEN Stale ELSE m]]

(* which keeps an owed update owed, *)
LEMMA WriteMarking ==
    ASSUME NEW a \in StoreLines, NEW own
    PROVE  Marking(WriteD(a, own), WriteI(a))
<1>1. a # Empty /\ ILine(a) # Empty /\ a \in Nat
  <2>1. a \in Nat
    BY LinesAre
  <2>2. ILine(a) \in Nat
    BY <2>1, InstrPlace
  <2>3. QED
    BY <2>1, <2>2, LinesAre
<1>2. \A m \in Marks : Missed(m, own) \in Marks
  BY DEF Marks, Missed, Stale, Zeroed
<1>3. Stale \in Marks
  BY DEF Marks
<1>4. /\ \A b \in Lines \cup {Empty}, m \in Marks : WriteD(a, own)[b][m] = IF b = a THEN Missed(m, own) ELSE m
      /\ \A b \in Lines \cup {Empty}, m \in Marks : WriteI(a)[b][m] = IF b = ILine(a) THEN Stale ELSE m
  BY DEF WriteD, WriteI
<1>5. \A m \in Marks : Missed(Lower(m), own) = Lower(Missed(m, own)) \/ m = 0
  BY DEF Marks, Missed, Stale, Zeroed, Lower
<1>6. \A m \in Marks : Lower(m) \in Marks
  BY DEF Marks, Stale, Zeroed, Lower
<1>7. \A m \in Marks : m # 0 => Missed(m, own) # 0
  BY DEF Marks, Missed, Stale, Zeroed
<1>8. QED
  BY <1>1, <1>2, <1>3, <1>4, <1>5, <1>6, <1>7 DEF Marking

(* and what writing is. *)
LEMMA WriteIs ==
    ASSUME NEW s \in World, \A k \in Core : OK(s, k), NEW c \in Core, NEW a \in StoreLines, NEW upd \in BOOLEAN,
           NEW t, t = Write(s, c, a, upd)
    PROVE  /\ t \in World /\ t.ddir = s.ddir /\ t.idir = s.idir
           /\ MarkedWorld(s, t, [k \in Core |-> WriteD(a, upd /\ k = c)], WriteI(a))
<1> DEFINE NewD(k, y) == [y EXCEPT !.m = IF y.a = a THEN Missed(y.m, upd /\ k = c) ELSE y.m]
           NewI(y)    == [y EXCEPT !.m = IF y.a = ILine(a) THEN Stale ELSE y.m]
           NewR(k, msg) == CASE msg.typ = "load"    -> NewD(k, msg)
                             [] msg.typ = "ifill_1" -> NewI(msg)
                             [] OTHER               -> msg
           A == [k \in Core |-> [x \in Set |-> [w \in Way |-> NewD(k, s.l1d[k][x][w])]]]
           B == [k \in Core |-> [x \in Set |-> [w \in Way |-> NewI(s.l1i[k][x][w])]]]
           Q == [k \in Core |-> [n \in DOMAIN s.cpx[k] |-> NewR(k, s.cpx[k][n])]]
           F == [k \in Core |-> WriteD(a, upd /\ k = c)]
           I == WriteI(a)
<1>1. t = [s EXCEPT !.l1d = A, !.l1i = B, !.cpx = Q]
  BY DEF Write, MarkAll
<1>2. \A k \in Core : F[k] = WriteD(a, upd /\ k = c) /\ Marking(F[k], I)
  BY WriteMarking
<1>3. ASSUME NEW k \in Core, NEW b \in Lines \cup {Empty}, NEW m \in Marks
      PROVE  /\ F[k][b][m] = (IF b = a THEN Missed(m, upd /\ k = c) ELSE m) /\ F[k][b][m] \in Marks
             /\ I[b][m] = (IF b = ILine(a) THEN Stale ELSE m) /\ I[b][m] \in Marks
  <2>1. WriteD(a, upd /\ k = c)[b][m] = IF b = a THEN Missed(m, upd /\ k = c) ELSE m
    BY DEF WriteD
  <2>2. WriteI(a)[b][m] = IF b = ILine(a) THEN Stale ELSE m
    BY DEF WriteI
  <2>3. Marking(F[k], I)
    BY <1>2
  <2>4. F[k] = WriteD(a, upd /\ k = c)
    BY <1>2
  <2> HIDE DEF F
  <2>5. QED
    BY <2>1, <2>2, <2>3, <2>4 DEF Marking
<1> HIDE DEF F, I
<1>4. ASSUME NEW k \in Core, NEW y \in Copies
      PROVE  NewD(k, y) \in Copies /\ MarkedCopy(y, NewD(k, y), F[k]) /\ NewI(y) \in Copies /\ MarkedCopy(y, NewI(y), I)
  <2>1. y.a \in Lines \cup {Empty} /\ y.m \in Marks
    BY DEF Copies
  <2>2. PICK m, mi : /\ m = IF y.a = a THEN Missed(y.m, upd /\ k = c) ELSE y.m
                     /\ mi = IF y.a = ILine(a) THEN Stale ELSE y.m
    OBVIOUS
  <2>3. m = F[k][y.a][y.m] /\ m \in Marks /\ mi = I[y.a][y.m] /\ mi \in Marks
    BY <1>3, <2>1, <2>2
  <2>4. NewD(k, y) = [y EXCEPT !.m = m] /\ NewI(y) = [y EXCEPT !.m = mi]
    BY <2>2
  <2> HIDE DEF NewD, NewI
  <2>5. QED
    BY <2>3, <2>4, MarkedIs
<1>5. ASSUME NEW k \in Core, NEW msg, Valid(msg)
      PROVE  MarkedReply(msg, NewR(k, msg), F[k], I)
  <2>1. msg.m \in Marks
    BY <1>5, ReplyFacts
  <2>2. CASE msg.typ = "load"
    <3>1. msg.a \in Lines \cup {Empty}
      BY <1>5, <2>2, ReplyFacts, LinesAre DEF Valid
    <3>2. PICK m : m = IF msg.a = a THEN Missed(msg.m, upd /\ k = c) ELSE msg.m
      OBVIOUS
    <3>3. m = F[k][msg.a][msg.m] /\ m \in Marks
      BY <1>3, <2>1, <3>1, <3>2
    <3>4. NewR(k, msg) = [msg EXCEPT !.m = m]
      BY <2>2, <3>2
    <3> HIDE DEF NewR
    <3>5. QED
      BY <1>5, <2>2, <3>3, <3>4, MarkedReplyIs
  <2>3. CASE msg.typ = "ifill_1"
    <3>1. msg.a \in Lines \cup {Empty}
      BY <1>5, <2>3, ReplyFacts, LinesAre DEF Valid
    <3>2. PICK m : m = IF msg.a = ILine(a) THEN Stale ELSE msg.m
      OBVIOUS
    <3>3. m = I[msg.a][msg.m] /\ m \in Marks
      BY <1>3, <2>1, <3>1, <3>2
    <3>4. NewR(k, msg) = [msg EXCEPT !.m = m]
      BY <2>3, <3>2
    <3> HIDE DEF NewR
    <3>5. QED
      BY <1>5, <2>3, <3>3, <3>4, MarkedReplyIs
  <2>4. CASE msg.typ # "load" /\ msg.typ # "ifill_1"
    <3>1. NewR(k, msg) = msg
      BY <2>4
    <3> HIDE DEF NewR
    <3>2. QED
      BY <1>5, <2>4, <3>1 DEF MarkedReply
  <2>5. QED
    BY <2>2, <2>3, <2>4
<1> HIDE DEF NewD, NewI, NewR
<1>6. ASSUME NEW k \in Core PROVE s.l1d[k] \in [Set -> [Way -> Copies]] /\ s.l1i[k] \in [Set -> [Way -> Copies]]
  BY DEF World, Cache
<1>7. A \in [Core -> [Set -> [Way -> Copies]]] /\ \A k \in Core : MarkedCache(s.l1d[k], A[k], F[k])
  <2>1. \A k \in Core, x \in Set, w \in Way : A[k][x][w] = NewD(k, s.l1d[k][x][w])
    OBVIOUS
  <2>2. \A k \in Core, x \in Set, w \in Way : A[k][x][w] \in Copies /\ MarkedCopy(s.l1d[k][x][w], A[k][x][w], F[k])
    BY <1>4, <1>6, <2>1
  <2>3. A \in [Core -> [Set -> [Way -> Copies]]]
    BY <1>4, <1>6
  <2> HIDE DEF A
  <2>4. QED
    BY <2>2, <2>3 DEF MarkedCache
<1>8. B \in [Core -> [Set -> [Way -> Copies]]] /\ \A k \in Core : MarkedCache(s.l1i[k], B[k], I)
  <2>1. \A k \in Core, x \in Set, w \in Way : B[k][x][w] = NewI(s.l1i[k][x][w])
    OBVIOUS
  <2>2. \A k \in Core, x \in Set, w \in Way : B[k][x][w] \in Copies /\ MarkedCopy(s.l1i[k][x][w], B[k][x][w], I)
    BY <1>4, <1>6, <2>1
  <2>3. B \in [Core -> [Set -> [Way -> Copies]]]
    BY <1>4, <1>6
  <2> HIDE DEF B
  <2>4. QED
    BY <2>2, <2>3 DEF MarkedCache
<1>9. /\ Q \in [Core -> Seq(Replies)]
      /\ \A k \in Core : Len(Q[k]) = Len(s.cpx[k])
      /\ \A k \in Core : \A n \in 1 .. Len(s.cpx[k]) : MarkedReply(s.cpx[k][n], Q[k][n], F[k], I)
  <2>1. ASSUME NEW k \in Core
        PROVE  /\ Q[k] \in Seq(Replies) /\ Len(Q[k]) = Len(s.cpx[k])
               /\ \A n \in 1 .. Len(s.cpx[k]) : MarkedReply(s.cpx[k][n], Q[k][n], F[k], I)
    <3>1. s.cpx[k] \in Seq(Replies) /\ \A n \in 1 .. Len(s.cpx[k]) : Valid(s.cpx[k][n])
      BY DEF OK, CoreOK
    <3>2. PICK L \in Nat : L = Len(s.cpx[k]) /\ DOMAIN s.cpx[k] = 1 .. L
      BY <3>1
    <3>3. Q[k] = [n \in 1 .. L |-> NewR(k, s.cpx[k][n])]
      BY <3>2
    <3>4. \A n \in 1 .. L : MarkedReply(s.cpx[k][n], NewR(k, s.cpx[k][n]), F[k], I)
      BY <1>5, <3>1, <3>2
    <3>5. \A n \in 1 .. L : NewR(k, s.cpx[k][n]) \in Replies
      BY <3>4 DEF MarkedReply, Valid
    <3>6. [n \in 1 .. L |-> NewR(k, s.cpx[k][n])] \in Seq(Replies)
      BY <3>5
    <3> HIDE DEF Q
    <3>7. Len(Q[k]) = L /\ \A n \in 1 .. L : Q[k][n] = NewR(k, s.cpx[k][n])
      BY <3>3
    <3>8. QED
      BY <3>2, <3>3, <3>4, <3>6, <3>7
  <2>2. Q = [k \in Core |-> Q[k]]
    OBVIOUS
  <2> HIDE DEF Q
  <2>3. QED
    BY <2>1, <2>2
<1> HIDE DEF A, B, Q
<1>10. /\ t \in World /\ t.ddir = s.ddir /\ t.idir = s.idir
       /\ t.l1d = A /\ t.l1i = B /\ t.cpx = Q
  <2>1. PICK d \in [Core -> Cache], i \in [Core -> Cache], q \in [Core -> Seq(Replies)] : d = A /\ i = B /\ q = Q
    BY <1>7, <1>8, <1>9 DEF Cache
  <2>2. t = [s EXCEPT !.l1d = d, !.l1i = i, !.cpx = q]
    BY <1>1, <2>1, Zenon
  <2>3. t \in World /\ t.ddir = s.ddir /\ t.idir = s.idir /\ t.l1d = d /\ t.l1i = i /\ t.cpx = q
    BY <2>1, <2>2 DEF World
  <2>4. QED
    BY <2>1, <2>3
<1>11. MarkedWorld(s, t, F, I)
  BY <1>7, <1>8, <1>9, <1>10 DEF MarkedWorld, Cache
<1>12. QED
  BY <1>10, <1>11 DEF F, I

(* How the marks change when the L2 line that starts at a is zeroed, *)
L2Line(a) == a .. a + L2_LINE - 1
ZeroD(a)  == [b \in Lines \cup {Empty} |-> [m \in Marks |-> IF b \in L2Line(a) THEN Stale ELSE m]]
ZeroI(a)  == [b \in Lines \cup {Empty} |-> [m \in Marks |-> IF b \in L2Line(a) /\ m # Stale THEN Zeroed ELSE m]]

(* which keeps an owed update owed, *)
LEMMA ZeroMarking ==
    ASSUME NEW a \in StoreLines
    PROVE  Marking(ZeroD(a), ZeroI(a))
<1>1. a \in Nat /\ L2_LINE \in Nat
  BY LinesAre, L2Assumption
<1>2. Empty \notin L2Line(a)
  BY <1>1 DEF Empty, L2Line
<1>3. Stale \in Marks /\ Zeroed \in Marks /\ Stale # 0 /\ Lower(Stale) = Stale
  BY DEF Marks, Stale, Zeroed, Lower
<1>4. /\ \A b \in Lines \cup {Empty}, m \in Marks : ZeroD(a)[b][m] = IF b \in L2Line(a) THEN Stale ELSE m
      /\ \A b \in Lines \cup {Empty}, m \in Marks :
           ZeroI(a)[b][m] = IF b \in L2Line(a) /\ m # Stale THEN Zeroed ELSE m
  BY DEF ZeroD, ZeroI
<1>5. \A m \in Marks : Lower(m) \in Marks
  BY DEF Marks, Stale, Zeroed, Lower
<1>6. QED
  BY <1>2, <1>3, <1>4, <1>5 DEF Marking

(* and what zeroing is. *)
LEMMA ZeroIs ==
    ASSUME NEW s \in World, \A k \in Core : OK(s, k), NEW a \in StoreLines, NEW t, t = ZeroLine(s, a)
    PROVE  /\ t \in World /\ t.ddir = s.ddir /\ t.idir = s.idir
           /\ MarkedWorld(s, t, [k \in Core |-> ZeroD(a)], ZeroI(a))
<1> DEFINE NewD(k, y) == [y EXCEPT !.m = IF y.a \in L2Line(a) THEN Stale ELSE y.m]
           NewI(y)    == [y EXCEPT !.m = IF y.a \in L2Line(a) /\ y.m # Stale THEN Zeroed ELSE y.m]
           NewR(k, msg) == CASE msg.typ = "load"    -> NewD(k, msg)
                             [] msg.typ = "ifill_1" -> NewI(msg)
                             [] OTHER               -> msg
           A == [k \in Core |-> [x \in Set |-> [w \in Way |-> NewD(k, s.l1d[k][x][w])]]]
           B == [k \in Core |-> [x \in Set |-> [w \in Way |-> NewI(s.l1i[k][x][w])]]]
           Q == [k \in Core |-> [n \in DOMAIN s.cpx[k] |-> NewR(k, s.cpx[k][n])]]
           F == [k \in Core |-> ZeroD(a)]
           I == ZeroI(a)
<1>1. t = [s EXCEPT !.l1d = A, !.l1i = B, !.cpx = Q]
  BY DEF ZeroLine, MarkAll, L2Line
<1>2. \A k \in Core : F[k] = ZeroD(a) /\ Marking(F[k], I)
  BY ZeroMarking
<1>3. ASSUME NEW k \in Core, NEW b \in Lines \cup {Empty}, NEW m \in Marks
      PROVE  /\ F[k][b][m] = (IF b \in L2Line(a) THEN Stale ELSE m) /\ F[k][b][m] \in Marks
             /\ I[b][m] = (IF b \in L2Line(a) /\ m # Stale THEN Zeroed ELSE m) /\ I[b][m] \in Marks
  <2>1. ZeroD(a)[b][m] = IF b \in L2Line(a) THEN Stale ELSE m
    BY DEF ZeroD
  <2>2. ZeroI(a)[b][m] = IF b \in L2Line(a) /\ m # Stale THEN Zeroed ELSE m
    BY DEF ZeroI
  <2>3. Marking(F[k], I)
    BY <1>2
  <2>4. F[k] = ZeroD(a)
    BY <1>2
  <2> HIDE DEF F
  <2>5. QED
    BY <2>1, <2>2, <2>3, <2>4 DEF Marking
<1> HIDE DEF F, I
<1>4. ASSUME NEW k \in Core, NEW y \in Copies
      PROVE  NewD(k, y) \in Copies /\ MarkedCopy(y, NewD(k, y), F[k]) /\ NewI(y) \in Copies /\ MarkedCopy(y, NewI(y), I)
  <2>1. y.a \in Lines \cup {Empty} /\ y.m \in Marks
    BY DEF Copies
  <2>2. PICK m, mi : /\ m = IF y.a \in L2Line(a) THEN Stale ELSE y.m
                     /\ mi = IF y.a \in L2Line(a) /\ y.m # Stale THEN Zeroed ELSE y.m
    OBVIOUS
  <2>3. m = F[k][y.a][y.m] /\ m \in Marks /\ mi = I[y.a][y.m] /\ mi \in Marks
    <3>1. PICK b, o : b = y.a /\ o = y.m
      OBVIOUS
    <3>2. b \in Lines \cup {Empty} /\ o \in Marks
      BY <2>1, <3>1
    <3>3. m = F[k][b][o] /\ m \in Marks /\ mi = I[b][o] /\ mi \in Marks
      BY <1>3, <2>2, <3>1, <3>2
    <3>4. QED
      BY <3>1, <3>3
  <2>4. NewD(k, y) = [y EXCEPT !.m = m] /\ NewI(y) = [y EXCEPT !.m = mi]
    BY <2>2
  <2> HIDE DEF NewD, NewI
  <2>5. QED
    BY <2>3, <2>4, MarkedIs
<1>5. ASSUME NEW k \in Core, NEW msg, Valid(msg)
      PROVE  MarkedReply(msg, NewR(k, msg), F[k], I)
  <2>1. msg.m \in Marks
    BY <1>5, ReplyFacts
  <2>2. CASE msg.typ = "load"
    <3>1. msg.a \in Lines \cup {Empty}
      BY <1>5, <2>2, ReplyFacts, LinesAre DEF Valid
    <3>2. PICK m : m = IF msg.a \in L2Line(a) THEN Stale ELSE msg.m
      OBVIOUS
    <3>3. m = F[k][msg.a][msg.m] /\ m \in Marks
      BY <1>3, <2>1, <3>1, <3>2
    <3>4. NewR(k, msg) = [msg EXCEPT !.m = m]
      BY <2>2, <3>2
    <3> HIDE DEF NewR
    <3>5. QED
      BY <1>5, <2>2, <3>3, <3>4, MarkedReplyIs
  <2>3. CASE msg.typ = "ifill_1"
    <3>1. msg.a \in Lines \cup {Empty}
      BY <1>5, <2>3, ReplyFacts, LinesAre DEF Valid
    <3>2. PICK m : m = IF msg.a \in L2Line(a) /\ msg.m # Stale THEN Zeroed ELSE msg.m
      OBVIOUS
    <3>3. m = I[msg.a][msg.m] /\ m \in Marks
      BY <1>3, <2>1, <3>1, <3>2
    <3>4. NewR(k, msg) = [msg EXCEPT !.m = m]
      BY <2>3, <3>2
    <3> HIDE DEF NewR
    <3>5. QED
      BY <1>5, <2>3, <3>3, <3>4, MarkedReplyIs
  <2>4. CASE msg.typ # "load" /\ msg.typ # "ifill_1"
    <3>1. NewR(k, msg) = msg
      BY <2>4
    <3> HIDE DEF NewR
    <3>2. QED
      BY <1>5, <2>4, <3>1 DEF MarkedReply
  <2>5. QED
    BY <2>2, <2>3, <2>4
<1> HIDE DEF NewD, NewI, NewR
<1>6. ASSUME NEW k \in Core PROVE s.l1d[k] \in [Set -> [Way -> Copies]] /\ s.l1i[k] \in [Set -> [Way -> Copies]]
  BY DEF World, Cache
<1>7. A \in [Core -> [Set -> [Way -> Copies]]] /\ \A k \in Core : MarkedCache(s.l1d[k], A[k], F[k])
  <2>1. \A k \in Core, x \in Set, w \in Way : A[k][x][w] = NewD(k, s.l1d[k][x][w])
    OBVIOUS
  <2>2. \A k \in Core, x \in Set, w \in Way : A[k][x][w] \in Copies /\ MarkedCopy(s.l1d[k][x][w], A[k][x][w], F[k])
    BY <1>4, <1>6, <2>1
  <2>3. A \in [Core -> [Set -> [Way -> Copies]]]
    BY <1>4, <1>6
  <2> HIDE DEF A
  <2>4. QED
    BY <2>2, <2>3 DEF MarkedCache
<1>8. B \in [Core -> [Set -> [Way -> Copies]]] /\ \A k \in Core : MarkedCache(s.l1i[k], B[k], I)
  <2>1. \A k \in Core, x \in Set, w \in Way : B[k][x][w] = NewI(s.l1i[k][x][w])
    OBVIOUS
  <2>2. \A k \in Core, x \in Set, w \in Way : B[k][x][w] \in Copies /\ MarkedCopy(s.l1i[k][x][w], B[k][x][w], I)
    BY <1>4, <1>6, <2>1
  <2>3. B \in [Core -> [Set -> [Way -> Copies]]]
    BY <1>4, <1>6
  <2> HIDE DEF B
  <2>4. QED
    BY <2>2, <2>3 DEF MarkedCache
<1>9. /\ Q \in [Core -> Seq(Replies)]
      /\ \A k \in Core : Len(Q[k]) = Len(s.cpx[k])
      /\ \A k \in Core : \A n \in 1 .. Len(s.cpx[k]) : MarkedReply(s.cpx[k][n], Q[k][n], F[k], I)
  <2>1. ASSUME NEW k \in Core
        PROVE  /\ Q[k] \in Seq(Replies) /\ Len(Q[k]) = Len(s.cpx[k])
               /\ \A n \in 1 .. Len(s.cpx[k]) : MarkedReply(s.cpx[k][n], Q[k][n], F[k], I)
    <3>1. s.cpx[k] \in Seq(Replies) /\ \A n \in 1 .. Len(s.cpx[k]) : Valid(s.cpx[k][n])
      BY DEF OK, CoreOK
    <3>2. PICK L \in Nat : L = Len(s.cpx[k]) /\ DOMAIN s.cpx[k] = 1 .. L
      BY <3>1
    <3>3. Q[k] = [n \in 1 .. L |-> NewR(k, s.cpx[k][n])]
      BY <3>2
    <3>4. \A n \in 1 .. L : MarkedReply(s.cpx[k][n], NewR(k, s.cpx[k][n]), F[k], I)
      BY <1>5, <3>1, <3>2
    <3>5. \A n \in 1 .. L : NewR(k, s.cpx[k][n]) \in Replies
      BY <3>4 DEF MarkedReply, Valid
    <3>6. [n \in 1 .. L |-> NewR(k, s.cpx[k][n])] \in Seq(Replies)
      BY <3>5
    <3> HIDE DEF Q
    <3>7. Len(Q[k]) = L /\ \A n \in 1 .. L : Q[k][n] = NewR(k, s.cpx[k][n])
      BY <3>3
    <3>8. QED
      BY <3>2, <3>3, <3>4, <3>6, <3>7
  <2>2. Q = [k \in Core |-> Q[k]]
    OBVIOUS
  <2> HIDE DEF Q
  <2>3. QED
    BY <2>1, <2>2
<1> HIDE DEF A, B, Q
<1>10. /\ t \in World /\ t.ddir = s.ddir /\ t.idir = s.idir
       /\ t.l1d = A /\ t.l1i = B /\ t.cpx = Q
  <2>1. PICK d \in [Core -> Cache], i \in [Core -> Cache], q \in [Core -> Seq(Replies)] : d = A /\ i = B /\ q = Q
    BY <1>7, <1>8, <1>9 DEF Cache
  <2>2. t = [s EXCEPT !.l1d = d, !.l1i = i, !.cpx = q]
    BY <1>1, <2>1, Zenon
  <2>3. t \in World /\ t.ddir = s.ddir /\ t.idir = s.idir /\ t.l1d = d /\ t.l1i = i /\ t.cpx = q
    BY <2>1, <2>2 DEF World
  <2>4. QED
    BY <2>1, <2>3
<1>11. MarkedWorld(s, t, F, I)
  BY <1>7, <1>8, <1>9, <1>10 DEF MarkedWorld, Cache
<1>12. QED
  BY <1>10, <1>11 DEF F, I

-----------------------------------------------------------------------------
(* What a write leaves to be done. *)

(* The copies that a write leaves behind are those of the line, and those  *)
(* of the storing core miss one store, which its acknowledgement brings.   *)
Written(s, a) ==
  /\ s \in World /\ Apart(s)
  /\ \A k \in Core : OK(s, k) /\ Nearly(EndOf(s, k), a)
Owing(end, a) == \A x \in Set, w \in Way : end.d[x][w].a = a => end.d[x][w].m = 1

(* The caches of a core end up typed. *)
LEMMA EndOfTyped ==
    ASSUME NEW s, NEW k \in Core, OK(s, k), NEW end, end = EndOf(s, k)
    PROVE  /\ end \in Caches /\ FetchedOnly(end.i)
           /\ MirrorsD(s.ddir[k], end.d) /\ MirrorsI(s.idir[k], end.i)
           /\ \A x \in Set, w \in Way : /\ end.d[x][w] \in Copies /\ end.d[x][w].a \in Lines \cup {Empty}
                                        /\ end.i[x][w] \in Copies /\ end.i[x][w].a \in Lines \cup {Empty}
<1>1. PICK q, st : q = s.cpx[k] /\ st = CachesOf(s, k)
  OBVIOUS
<1>2. CoreOK(s.ddir[k], s.idir[k], q, st) /\ end = End(st, q)
  BY <1>1 DEF OK, EndOf
<1>3. end \in Caches /\ FetchedOnly(end.i)
  BY <1>2, EndTyped DEF CoreOK
<1>4. MirrorsD(s.ddir[k], end.d) /\ MirrorsI(s.idir[k], end.i)
  BY <1>2 DEF CoreOK
<1>5. \A x \in Set, w \in Way : end.d[x][w] \in Copies /\ end.i[x][w] \in Copies
  BY <1>3 DEF Caches, Cache
<1>6. \A y \in Copies : y.a \in Lines \cup {Empty}
  BY DEF Copies
<1>7. QED
  BY <1>3, <1>4, <1>5, <1>6

(* Directories that are not written stay apart. *)
LEMMA ApartSame ==
    ASSUME NEW s, NEW t, Apart(s), t.ddir = s.ddir, t.idir = s.idir
    PROVE  Apart(t)
BY DEF Apart

(* A write leaves such a state. *)
LEMMA WriteLeaves ==
    ASSUME NEW s, Good(s), NEW c \in Core, NEW a \in StoreLines, NEW upd \in BOOLEAN,
           NEW t, t = Write(s, c, a, upd)
    PROVE  /\ Written(t, a) /\ t.ddir = s.ddir /\ t.idir = s.idir
           /\ upd => Owing(EndOf(t, c), a)
<1>1. /\ s \in World /\ (\A k \in Core : OK(s, k)) /\ Apart(s)
      /\ \A k \in Core : UpToDate(EndOf(s, k))
  BY DEF Good
<1> DEFINE F == [k \in Core |-> WriteD(a, upd /\ k = c)]
           I == WriteI(a)
<1>2. t \in World /\ t.ddir = s.ddir /\ t.idir = s.idir /\ MarkedWorld(s, t, F, I)
  BY <1>1, WriteIs
<1>3. \A k \in Core : F[k] = WriteD(a, upd /\ k = c) /\ Marking(F[k], I)
  BY WriteMarking
<1> HIDE DEF F, I
<1>4. \A k \in Core : OK(t, k) /\ Marked(EndOf(s, k), EndOf(t, k), F[k], I)
  BY <1>1, <1>2, <1>3, MarkedWorldIs
<1>5. Apart(t)
  BY <1>1, <1>2, ApartSame
<1>6. ASSUME NEW k \in Core, NEW e, e = EndOf(s, k), NEW f, f = EndOf(t, k), NEW x \in Set, NEW w \in Way
      PROVE  /\ f.d[x][w].m = Fresh \/ f.d[x][w].a = a
             /\ f.i[x][w].m \in {Fresh, Zeroed} \/ f.i[x][w].a = ILine(a)
             /\ upd /\ k = c /\ f.d[x][w].a = a => f.d[x][w].m = 1
  <2>1. PICK y, yN, z, zN : y = e.d[x][w] /\ yN = f.d[x][w] /\ z = e.i[x][w] /\ zN = f.i[x][w]
    OBVIOUS
  <2>2. /\ y.a \in Lines \cup {Empty} /\ z.a \in Lines \cup {Empty}
        /\ y.m = 0 /\ z.m \in {0, Zeroed}
    <3>1. UpToDate(e) /\ OK(s, k)
      BY <1>1, <1>6
    <3>2. y.m = 0 /\ z.m \in {0, Zeroed}
      BY <2>1, <3>1 DEF UpToDate, Fresh
    <3>3. QED
      BY <1>6, <2>1, <3>1, <3>2, EndOfTyped
  <2>3. MarkedCopy(y, yN, F[k]) /\ MarkedCopy(z, zN, I)
    <3>1. Marked(e, f, F[k], I)
      BY <1>4, <1>6
    <3>2. QED
      BY <2>1, <3>1 DEF Marked, MarkedCache
  <2>4. \A b \in Lines \cup {Empty}, m \in Marks :
          /\ F[k][b][m] = IF b = a THEN Missed(m, upd /\ k = c) ELSE m
          /\ I[b][m] = IF b = ILine(a) THEN Stale ELSE m
    <3>1. F[k] = WriteD(a, upd /\ k = c)
      BY <1>3
    <3>2. \A b \in Lines \cup {Empty}, m \in Marks :
            WriteD(a, upd /\ k = c)[b][m] = IF b = a THEN Missed(m, upd /\ k = c) ELSE m
      BY DEF WriteD
    <3>3. \A b \in Lines \cup {Empty}, m \in Marks : I[b][m] = IF b = ILine(a) THEN Stale ELSE m
      BY DEF WriteI, I
    <3>4. QED
      BY <3>1, <3>2, <3>3
  <2>5. {0, Zeroed} \subseteq Marks
    BY DEF Marks
  <2>6. yN.a = y.a /\ zN.a = z.a /\ yN.m = F[k][y.a][0] /\ zN.m = I[z.a][z.m]
    BY <2>2, <2>3 DEF MarkedCopy
  <2>7. /\ yN.m = IF y.a = a THEN Missed(0, upd /\ k = c) ELSE 0
        /\ zN.m = IF z.a = ILine(a) THEN Stale ELSE z.m
    BY <2>2, <2>4, <2>5, <2>6
  <2>8. upd /\ k = c => Missed(0, upd /\ k = c) = 1
    BY DEF Missed
  <2>9. QED
    BY <2>1, <2>2, <2>6, <2>7, <2>8 DEF Fresh
<1>7. \A k \in Core : Nearly(EndOf(t, k), a)
  BY <1>6 DEF Nearly
<1>8. upd => Owing(EndOf(t, c), a)
  BY <1>6 DEF Owing
<1>9. QED
  BY <1>2, <1>4, <1>5, <1>7, <1>8 DEF Written

(* Zeroing is only done where no data cache has the L2 line: nothing has to be done. *)
LEMMA ZeroGood ==
    ASSUME NEW s, Good(s), NEW a \in StoreLines, a % L2_LINE = 0, is_l2_miss(s, a),
           NEW t, t = ZeroLine(s, a)
    PROVE  Good(t) /\ t.ddir = s.ddir /\ t.idir = s.idir
<1>1. /\ s \in World /\ (\A k \in Core : OK(s, k)) /\ Apart(s)
      /\ \A k \in Core : UpToDate(EndOf(s, k))
  BY DEF Good
<1> DEFINE F == [k \in Core |-> ZeroD(a)]
           I == ZeroI(a)
<1>2. t \in World /\ t.ddir = s.ddir /\ t.idir = s.idir /\ MarkedWorld(s, t, F, I)
  BY <1>1, ZeroIs
<1>3. \A k \in Core : F[k] = ZeroD(a) /\ Marking(F[k], I)
  BY ZeroMarking
<1>4. I = ZeroI(a)
  OBVIOUS
<1> HIDE DEF F, I
<1>5. \A k \in Core : OK(t, k) /\ Marked(EndOf(s, k), EndOf(t, k), F[k], I)
  BY <1>1, <1>2, <1>3, MarkedWorldIs
<1>6. Apart(t)
  BY <1>1, <1>2, ApartSame
<1>7. ASSUME NEW k \in Core, NEW b \in Lines, b \in L2Line(a)
      PROVE  search_dcache(s.ddir[k], b) = NoWay
  <2>1. a \in Nat /\ b \in Nat /\ L2_LINE \in Nat
    BY LinesAre, L2Assumption
  <2>2. PICK i \in 0 .. L2_LINE - 1 : b = a + i
    <3>1. b - a \in 0 .. L2_LINE - 1 /\ b = a + (b - a)
      BY <1>7, <2>1 DEF L2Line
    <3>2. QED
      BY <3>1
  <2>3. \A j \in 0 .. L2_LINE - 1 : search_dcache(s.ddir[k], a - (a % L2_LINE) + j) = NoWay
    BY DEF is_l2_miss
  <2>4. a - (a % L2_LINE) = a
    BY <2>1
  <2>5. QED
    BY <2>2, <2>3, <2>4
<1>8. ASSUME NEW k \in Core, NEW e, e = EndOf(s, k), NEW f, f = EndOf(t, k), NEW x \in Set, NEW w \in Way
      PROVE  f.d[x][w].m = Fresh /\ f.i[x][w].m \in {Fresh, Zeroed}
  <2>1. PICK y, yN, z, zN : y = e.d[x][w] /\ yN = f.d[x][w] /\ z = e.i[x][w] /\ zN = f.i[x][w]
    OBVIOUS
  <2>2. /\ e.d \in Cache /\ MirrorsD(s.ddir[k], e.d)
        /\ y.a \in Lines \cup {Empty} /\ z.a \in Lines \cup {Empty}
        /\ y.m = 0 /\ z.m \in {0, Zeroed}
    <3>1. UpToDate(e) /\ OK(s, k)
      BY <1>1, <1>8
    <3>2. y.m = 0 /\ z.m \in {0, Zeroed}
      BY <2>1, <3>1 DEF UpToDate, Fresh
    <3>3. e \in Caches /\ MirrorsD(s.ddir[k], e.d) /\ y.a \in Lines \cup {Empty} /\ z.a \in Lines \cup {Empty}
      BY <1>8, <2>1, <3>1, EndOfTyped
    <3>4. QED
      BY <3>2, <3>3 DEF Caches
  <2>3. MarkedCopy(y, yN, F[k]) /\ MarkedCopy(z, zN, I)
    <3>1. Marked(e, f, F[k], I)
      BY <1>5, <1>8
    <3>2. QED
      BY <2>1, <3>1 DEF Marked, MarkedCache
  <2>4. \A b \in Lines \cup {Empty}, m \in Marks :
          /\ F[k][b][m] = IF b \in L2Line(a) THEN Stale ELSE m
          /\ I[b][m] = IF b \in L2Line(a) /\ m # Stale THEN Zeroed ELSE m
    <3>1. F[k] = ZeroD(a)
      BY <1>3
    <3>2. \A b \in Lines \cup {Empty}, m \in Marks : ZeroD(a)[b][m] = IF b \in L2Line(a) THEN Stale ELSE m
      BY DEF ZeroD
    <3>3. \A b \in Lines \cup {Empty}, m \in Marks :
            I[b][m] = IF b \in L2Line(a) /\ m # Stale THEN Zeroed ELSE m
      BY <1>4 DEF ZeroI
    <3>4. QED
      BY <3>1, <3>2, <3>3
  <2>5. {0, Zeroed} \subseteq Marks
    BY DEF Marks
  <2>6. yN.m = F[k][y.a][0] /\ zN.m = I[z.a][z.m]
    BY <2>2, <2>3 DEF MarkedCopy
  <2>7. y.a \notin L2Line(a)
    <3>1. y.a = Empty => y.a \notin L2Line(a)
      <4>1. a \in Nat /\ L2_LINE \in Nat
        BY LinesAre, L2Assumption
      <4>2. QED
        BY <4>1 DEF Empty, L2Line
    <3>2. ASSUME y.a \in Lines, y.a \in L2Line(a) PROVE FALSE
      <4>1. PICK b \in Lines : b = y.a
        BY <3>2
      <4>2. search_dcache(s.ddir[k], b) = NoWay
        BY <1>7, <3>2, <4>1
      <4>3. e.d[x][w].a # b
        BY <2>2, <4>2, DataThere
      <4>4. QED
        BY <2>1, <4>1, <4>3
    <3>3. QED
      BY <2>2, <3>1, <3>2
  <2>8. yN.m = 0 /\ zN.m \in {0, Zeroed}
    BY <2>2, <2>4, <2>5, <2>6, <2>7
  <2>9. QED
    BY <2>1, <2>8 DEF Fresh
<1>9. \A k \in Core : UpToDate(EndOf(t, k))
  BY <1>8 DEF UpToDate
<1>10. QED
  BY <1>2, <1>5, <1>6, <1>9 DEF Good

(* What answers a store that invalidates leaves nothing to be done, *)
LEMMA InvalidateGood ==
    ASSUME NEW s, NEW a \in Lines, Written(s, a), NEW c \in Core, NEW typ \in {"inv_ack", "atomic_ack"},
           NEW u, u = return_store_ack(s, c, typ, a, TRUE)
    PROVE  Good(u) /\ Shrunk(s, u)
<1>1. s \in World /\ Apart(s) /\ \A k \in Core : OK(s, k) /\ Nearly(EndOf(s, k), a)
  BY DEF Written
<1>2. /\ Clears(s, u)
      /\ \A k \in Core : search_dcache(u.ddir[k], a) = NoWay /\ search_icache(u.idir[k], a) = NoWay
  BY <1>1, InvalidateClears
<1>3. u \in World /\ Shrunk(s, u) /\ Apart(u) /\ \A k \in Core : OK(u, k)
  BY <1>1, <1>2, ClearsIs
<1>4. ASSUME NEW k \in Core PROVE UpToDate(EndOf(u, k))
  <2>1. Fewer(EndOf(s, k), EndOf(u, k))
    BY <1>2, ClearedAtIs DEF Clears
  <2>2. Nearly(EndOf(u, k), a)
    BY <1>1, <2>1, NearlyKept
  <2>3. PICK q, st : q = u.cpx[k] /\ st = CachesOf(u, k)
    OBVIOUS
  <2>4. CoreOK(u.ddir[k], u.idir[k], q, st) /\ EndOf(u, k) = End(st, q)
    BY <1>3, <2>3 DEF OK, EndOf
  <2>5. QED
    BY <1>2, <2>2, <2>4, GoneUpToDate
<1>5. QED
  BY <1>3, <1>4 DEF Good

(* nor does what answers an ordinary store. *)
LEMMA StoreAckGood ==
    ASSUME NEW s, NEW a \in Lines, Written(s, a), NEW c \in Core, Owing(EndOf(s, c), a),
           NEW u, u = return_store_ack(s, c, "store_ack", a, FALSE)
    PROVE  Good(u) /\ Shrunk(s, u)
<1>1. s \in World /\ Apart(s) /\ \A k \in Core : OK(s, k) /\ Nearly(EndOf(s, k), a)
  BY DEF Written
<1>2. PICK t : t = invalidate_other_cache(s, c, a)
  OBVIOUS
<1>3. /\ Others(s, t, c)
      /\ \A k \in Core : k # c => search_dcache(t.ddir[k], a) = NoWay /\ search_icache(t.idir[k], a) = NoWay
  BY <1>1, <1>2, InvalidateBoth
<1>4. /\ t \in World /\ t.l1d = s.l1d /\ t.l1i = s.l1i
      /\ t.ddir[c] = s.ddir[c] /\ t.idir[c] = s.idir[c] /\ t.cpx[c] = s.cpx[c]
  BY <1>3 DEF Others, Kept
<1>5. PICK dd, id, q, st : dd = s.ddir[c] /\ id = s.idir[c] /\ q = s.cpx[c] /\ st = CachesOf(s, c)
  OBVIOUS
<1>6. PICK dw, iw : dw = search_dcache(dd, a) /\ iw = IF dw = NoWay THEN search_icache(id, a) ELSE NoWay
  OBVIOUS
<1>7. PICK i, msg : i = Forget(id, ICACHE_INDEX(a), iw) /\ msg = Reply("store_ack", a, NoWay, dw, iw)
  OBVIOUS
<1>8. /\ CoreOK(dd, i, Append(q, msg), st) /\ UpToDate(End(st, Append(q, msg)))
      /\ Within(id, i)
  <2>1. CoreOK(dd, id, q, st) /\ EndOf(s, c) = End(st, q)
    BY <1>1, <1>5 DEF OK, EndOf
  <2>2. PICK end : end = End(st, q)
    OBVIOUS
  <2>3. Nearly(end, a) /\ \A x \in Set, w \in Way : end.d[x][w].a = a => end.d[x][w].m = 1
    BY <1>1, <2>1, <2>2 DEF Owing
  <2>4. search_dcache(dd, a) # NoWay => search_icache(id, a) = NoWay
    BY <1>1, <1>5 DEF Apart
  <2>5. QED
    BY <1>6, <1>7, <2>1, <2>2, <2>3, <2>4, StoreAckSent
<1>9. i \in IDirectory(Lines)
  BY <1>8 DEF CoreOK
<1>10. msg \in Replies
  <2>1. dw \in Way \cup {NoWay} /\ iw \in Way \cup {NoWay}
    BY <1>6, Searches
  <2>2. QED
    BY <1>7, <2>1, ReplyIs DEF Final
<1>11. PICK v : v = [t EXCEPT !.idir[c] = i]
  OBVIOUS
<1>12. /\ v \in World /\ v.l1d = t.l1d /\ v.l1i = t.l1i /\ v.cpx = t.cpx
       /\ v.ddir = t.ddir /\ v.idir[c] = i
       /\ \A k \in Core : k # c => v.ddir[k] = t.ddir[k] /\ v.idir[k] = t.idir[k]
  BY <1>4, <1>9, <1>11 DEF World
<1>13. u = Send(v, c, msg)
  <2>1. i = IF dw = NoWay THEN invalidate_icache(t.idir[c], a) ELSE t.idir[c]
    BY <1>4, <1>5, <1>6, <1>7 DEF invalidate_icache, Forget
  <2>2. u = Send([t EXCEPT !.ddir[c] = t.ddir[c],
                           !.idir[c] = IF dw = NoWay THEN invalidate_icache(t.idir[c], a) ELSE t.idir[c]], c,
                 Reply("store_ack", a, NoWay, dw, iw))
    BY <1>2, <1>4, <1>5, <1>6 DEF return_store_ack
  <2>3. [t EXCEPT !.ddir[c] = t.ddir[c], !.idir[c] = i] = v
    <3>1. [t EXCEPT !.ddir[c] = t.ddir[c]] = t
      BY <1>4 DEF World
    <3>2. QED
      BY <1>4, <1>11, <3>1 DEF World
  <2>4. QED
    BY <1>7, <2>1, <2>2, <2>3, Zenon
<1>14. SentTo(t, u, c, t.ddir[c], i, Append(t.cpx[c], msg))
  <2>1. SentTo(t, u, c, v.ddir[c], v.idir[c], Append(t.cpx[c], msg))
    BY <1>4, <1>10, <1>12, <1>13, SentIs
  <2>2. QED
    BY <1>12, <2>1
<1>15. /\ u \in World /\ u.l1d = s.l1d /\ u.l1i = s.l1i
       /\ u.ddir[c] = dd /\ u.idir[c] = i /\ u.cpx[c] = Append(q, msg)
       /\ \A k \in Core : k # c => u.ddir[k] = t.ddir[k] /\ u.idir[k] = t.idir[k] /\ u.cpx[k] = t.cpx[k]
  BY <1>4, <1>5, <1>14 DEF SentTo
<1>16. CachesOf(u, c) = st
  BY <1>5, <1>15 DEF CachesOf
<1>17. OK(u, c) /\ UpToDate(EndOf(u, c)) /\ Within(s.ddir[c], u.ddir[c]) /\ Within(s.idir[c], u.idir[c])
  <2>1. Within(s.ddir[c], u.ddir[c])
    BY <1>5, <1>15 DEF Within
  <2>2. QED
    BY <1>5, <1>8, <1>15, <1>16, <2>1 DEF OK, EndOf
<1>18. ASSUME NEW k \in Core, k # c
       PROVE  OK(u, k) /\ UpToDate(EndOf(u, k)) /\ Within(s.ddir[k], u.ddir[k]) /\ Within(s.idir[k], u.idir[k])
  <2>1. ClearedAt(s, u, k)
    BY <1>3, <1>15, <1>18 DEF Others, ClearedAt
  <2>2. /\ OK(u, k) /\ Within(s.ddir[k], u.ddir[k]) /\ Within(s.idir[k], u.idir[k])
        /\ Fewer(EndOf(s, k), EndOf(u, k))
    BY <1>15, <2>1, ClearedAtIs
  <2>3. Nearly(EndOf(u, k), a)
    BY <1>1, <2>2, NearlyKept
  <2>4. search_dcache(u.ddir[k], a) = NoWay /\ search_icache(u.idir[k], a) = NoWay
    BY <1>3, <1>15, <1>18
  <2>5. PICK p, sk : p = u.cpx[k] /\ sk = CachesOf(u, k)
    OBVIOUS
  <2>6. CoreOK(u.ddir[k], u.idir[k], p, sk) /\ EndOf(u, k) = End(sk, p)
    BY <2>2, <2>5 DEF OK, EndOf
  <2>7. UpToDate(EndOf(u, k))
    BY <2>3, <2>4, <2>6, GoneUpToDate
  <2>8. QED
    BY <2>2, <2>7
<1>19. /\ Shrunk(s, u) /\ \A k \in Core : OK(u, k) /\ UpToDate(EndOf(u, k))
  BY <1>17, <1>18 DEF Shrunk
<1>20. Apart(u)
  BY <1>1, <1>19, ApartKept
<1>21. QED
  BY <1>15, <1>19, <1>20 DEF Good

-----------------------------------------------------------------------------
(* The handlers of what is not a request for a line: all is well after     *)
(* them, and the directories have lost lines at most.                      *)
Served(s, u) == Good(u) /\ Shrunk(s, u)

(* Marks do not change the directories. *)
LEMMA ServedSame ==
    ASSUME NEW s, NEW t, t.ddir = s.ddir, t.idir = s.idir, NEW u, Served(t, u)
    PROVE  Served(s, u)
BY DEF Served, Shrunk

(* An ordinary store, *)
LEMMA StoreServed ==
    ASSUME NEW s, Good(s), NEW c \in Core, NEW a \in StoreLines, NEW u, u = process_store(s, c, a)
    PROVE  Served(s, u)
<1>1. PICK t : t = Write(s, c, a, TRUE)
  OBVIOUS
<1>2. Written(t, a) /\ t.ddir = s.ddir /\ t.idir = s.idir /\ Owing(EndOf(t, c), a)
  <2>1. PICK o \in BOOLEAN : o = TRUE
    OBVIOUS
  <2>2. t = Write(s, c, a, o)
    BY <1>1, <2>1
  <2>3. Written(t, a) /\ t.ddir = s.ddir /\ t.idir = s.idir /\ (o => Owing(EndOf(t, c), a))
    BY <2>2, WriteLeaves
  <2>4. QED
    BY <2>1, <2>3
<1>3. u = return_store_ack(t, c, "store_ack", a, FALSE)
  BY <1>1 DEF process_store
<1>4. a \in Lines
  BY LinesAre
<1>5. Served(t, u)
  BY <1>2, <1>3, <1>4, StoreAckGood DEF Served
<1>6. QED
  BY <1>2, <1>5, ServedSame

(* a block store, *)
LEMMA BlockStoreServed ==
    ASSUME NEW s, Good(s), NEW c \in Core, NEW a \in StoreLines, NEW BST \in BOOLEAN,
           NEW u, u = process_bis_bst(s, c, a, BST)
    PROVE  Served(s, u)
<1>1. PICK z : z = IF ~BST /\ a % L2_LINE = 0 /\ is_l2_miss(s, a) THEN ZeroLine(s, a) ELSE s
  OBVIOUS
<1>2. Good(z) /\ z.ddir = s.ddir /\ z.idir = s.idir
  BY <1>1, ZeroGood
<1>3. PICK t : t = Write(z, c, a, FALSE)
  OBVIOUS
<1>4. Written(t, a) /\ t.ddir = z.ddir /\ t.idir = z.idir
  <2>1. PICK o \in BOOLEAN : o = FALSE
    OBVIOUS
  <2>2. t = Write(z, c, a, o)
    BY <1>3, <2>1
  <2>3. QED
    BY <1>2, <2>2, WriteLeaves
<1>5. u = return_store_ack(t, c, "inv_ack", a, TRUE)
  BY <1>1, <1>3 DEF process_bis_bst
<1>6. a \in Lines
  BY LinesAre
<1>7. Served(t, u)
  BY <1>4, <1>5, <1>6, InvalidateGood DEF Served
<1>8. QED
  BY <1>2, <1>4, <1>7, ServedSame

(* a swap, and a compare-and-swap that may write or not, *)
LEMMA SwapServed ==
    ASSUME NEW s, Good(s), NEW c \in Core, NEW a \in StoreLines, NEW u, u = process_swap_ldstub(s, c, a)
    PROVE  Served(s, u)
<1>1. PICK t : t = return_load_req(s, c, "atomic_load", a, NoWay, FALSE)
  OBVIOUS
<1>2. t = Send(s, c, Reply("atomic_load", a, NoWay, NoWay, NoWay))
  BY <1>1 DEF return_load_req
<1>3. a \in Lines
  BY LinesAre
<1>4. Good(t) /\ t.ddir = s.ddir /\ t.idir = s.idir
  <2>1. Clears(s, t) /\ t.ddir = s.ddir /\ t.idir = s.idir
    BY <1>2, <1>3, NothingClears DEF Good
  <2>2. QED
    BY <2>1, ClearsIs
<1>5. PICK v : v = Write(t, c, a, FALSE)
  OBVIOUS
<1>6. Written(v, a) /\ v.ddir = t.ddir /\ v.idir = t.idir
  <2>1. PICK o \in BOOLEAN : o = FALSE
    OBVIOUS
  <2>2. v = Write(t, c, a, o)
    BY <1>5, <2>1
  <2>3. QED
    BY <1>4, <2>2, WriteLeaves
<1>7. u = return_store_ack(v, c, "atomic_ack", a, TRUE)
  BY <1>1, <1>5 DEF process_swap_ldstub
<1>8. Served(v, u)
  BY <1>3, <1>6, <1>7, InvalidateGood DEF Served
<1>9. QED
  BY <1>4, <1>6, <1>8, ServedSame

(* or not, *)
LEMMA CasServed ==
    ASSUME NEW s, Good(s), NEW c \in Core, NEW a \in StoreLines, NEW equal \in BOOLEAN,
           NEW u, u = process_cas(s, c, a, equal)
    PROVE  Served(s, u)
<1>1. PICK t : t = return_load_req(s, c, "atomic_load", a, NoWay, FALSE)
  OBVIOUS
<1>2. t = Send(s, c, Reply("atomic_load", a, NoWay, NoWay, NoWay))
  BY <1>1 DEF return_load_req
<1>3. a \in Lines
  BY LinesAre
<1>4. Good(t) /\ t.ddir = s.ddir /\ t.idir = s.idir
  <2>1. Clears(s, t) /\ t.ddir = s.ddir /\ t.idir = s.idir
    BY <1>2, <1>3, NothingClears DEF Good
  <2>2. QED
    BY <2>1, ClearsIs
<1>5. PICK v : v = IF equal THEN Write(t, c, a, FALSE) ELSE t
  OBVIOUS
<1>6. Written(v, a) /\ v.ddir = t.ddir /\ v.idir = t.idir
  <2>1. CASE equal
    <3>1. PICK o \in BOOLEAN : o = FALSE
      OBVIOUS
    <3>2. v = Write(t, c, a, o)
      BY <1>5, <2>1, <3>1
    <3>3. QED
      BY <1>4, <3>2, WriteLeaves
  <2>2. CASE ~equal
    <3>1. \A k \in Core : Nearly(EndOf(t, k), a)
      BY <1>4 DEF Good, UpToDate, Nearly
    <3>2. QED
      BY <1>4, <1>5, <2>2, <3>1 DEF Good, Written
  <2>3. QED
    BY <2>1, <2>2
<1>7. u = return_store_ack(v, c, "atomic_ack", a, TRUE)
  BY <1>1, <1>5 DEF process_cas
<1>8. Served(v, u)
  BY <1>3, <1>6, <1>7, InvalidateGood DEF Served
<1>9. QED
  BY <1>4, <1>6, <1>8, ServedSame

(* what forgets all ways of a set, and what fills nothing. *)
LEMMA ClearsServed ==
    ASSUME NEW s, Good(s), NEW u, Clears(s, u)
    PROVE  Served(s, u)
BY ClearsIs DEF Served

(* as all of these handlers are. *)
LEMMA OthersServed ==
    ASSUME NEW s, Good(s), NEW c \in Core
    PROVE  /\ \A a \in LoadLines : Served(s, process_load_invalidate(s, c, a))
           /\ \A a \in FetchLines : Served(s, process_ifill_invalidate(s, c, a))
           /\ \A a \in FetchLines : Served(s, process_ifill_nc(s, c, a))
           /\ Served(s, process_device(s, c))
<1>1. s \in World /\ \A k \in Core : OK(s, k)
  BY DEF Good
<1>2. ASSUME NEW a \in LoadLines PROVE Served(s, process_load_invalidate(s, c, a))
  BY <1>1, LinesAre, LoadInvalidateClears, ClearsServed
<1>3. ASSUME NEW a \in FetchLines PROVE Served(s, process_ifill_invalidate(s, c, a))
  BY <1>1, LinesAre, IfillInvalidateClears, ClearsServed
<1>4. ASSUME NEW a \in FetchLines PROVE Served(s, process_ifill_nc(s, c, a))
  BY <1>1, IfillNcClears, ClearsServed
<1>5. Served(s, process_device(s, c))
  <2>1. PICK u : u = Send(s, c, Reply("no_fill", 0, NoWay, NoWay, NoWay))
    OBVIOUS
  <2>2. Clears(s, u)
    BY <1>1, <2>1, NothingClears
  <2>3. QED
    BY <2>1, <2>2, ClearsServed DEF process_device
<1>6. QED
  BY <1>2, <1>3, <1>4, <1>5

-----------------------------------------------------------------------------
(* The handlers of requests for a line: only c gets it, only in that way. *)
GaveData(s, u, c, a, w) ==
  /\ Sets(s.ddir[c], u.ddir[c], DCACHE_INDEX(a), {w}, DCACHE_TAG(a)) /\ Within(s.idir[c], u.idir[c])
  /\ \A k \in Core : k # c => Within(s.ddir[k], u.ddir[k]) /\ Within(s.idir[k], u.idir[k])
GaveInstr(s, u, c, a, w) ==
  /\ Within(s.ddir[c], u.ddir[c]) /\ Sets(s.idir[c], u.idir[c], ICACHE_INDEX(a), {w}, ICACHE_TAG(a))
  /\ \A k \in Core : k # c => Within(s.ddir[k], u.ddir[k]) /\ Within(s.idir[k], u.idir[k])

(* A line that is given to a data cache is taken from all instruction caches, *)
LEMMA ApartData ==
    ASSUME NEW s, Apart(s), NEW u, NEW c \in Core, NEW a \in Lines, NEW w, GaveData(s, u, c, a, w),
           \A k \in Core : search_icache(u.idir[k], a) = NoWay
    PROVE  Apart(u)
<1> SUFFICES ASSUME NEW b \in Lines, NEW j \in Core, NEW k \in Core, search_dcache(u.ddir[j], b) # NoWay
             PROVE  search_icache(u.idir[k], b) = NoWay
  BY DEF Apart
<1>1. Within(s.idir[k], u.idir[k]) /\ (j # c => Within(s.ddir[j], u.ddir[j]))
  BY DEF GaveData
<1>2. a \in Nat /\ b \in Nat
  BY LinesAre
<1>3. CASE search_dcache(s.ddir[j], b) # NoWay
  <2>1. search_icache(s.idir[k], b) = NoWay
    BY <1>3 DEF Apart
  <2>2. QED
    BY <1>1, <2>1, WithinSearch
<1>4. CASE search_dcache(s.ddir[j], b) = NoWay
  <2>1. j = c
    BY <1>1, <1>4, WithinSearch
  <2>2. PICK v \in Way : u.ddir[c][DCACHE_INDEX(b)][v] = DCACHE_TAG(b)
    BY <2>1, Searches DEF Found
  <2>3. s.ddir[c][DCACHE_INDEX(b)][v] # DCACHE_TAG(b)
    BY <1>4, <2>1, Searches DEF Found
  <2>4. DCACHE_INDEX(b) \in Set
    BY <1>2, DataPlace
  <2>5. DCACHE_INDEX(b) = DCACHE_INDEX(a) /\ DCACHE_TAG(b) = DCACHE_TAG(a)
    BY <2>2, <2>3, <2>4 DEF GaveData, Sets
  <2>6. a = b
    BY <1>2, <2>5, DataPlace
  <2>7. QED
    BY <2>6
<1>5. QED
  BY <1>3, <1>4

(* and one that is given to an instruction cache, both halves, from all data caches. *)
LEMMA ApartInstr ==
    ASSUME NEW s, Apart(s), NEW u, NEW c \in Core, NEW a \in FetchLines, NEW w, GaveInstr(s, u, c, a, w),
           \A k \in Core : search_dcache(u.ddir[k], a) = NoWay /\ search_dcache(u.ddir[k], a + 1) = NoWay
    PROVE  Apart(u)
<1> SUFFICES ASSUME NEW b \in Lines, NEW j \in Core, NEW k \in Core, search_dcache(u.ddir[j], b) # NoWay
             PROVE  search_icache(u.idir[k], b) = NoWay
  BY DEF Apart
<1>1. Within(s.ddir[j], u.ddir[j]) /\ (k # c => Within(s.idir[k], u.idir[k]))
  BY DEF GaveInstr
<1>2. a \in Nat /\ b \in Nat /\ a % 2 = 0
  BY LinesAre
<1>3. search_icache(s.idir[k], b) = NoWay
  <2>1. search_dcache(s.ddir[j], b) # NoWay
    BY <1>1, WithinSearch
  <2>2. QED
    BY <2>1 DEF Apart
<1>4. CASE k # c
  BY <1>1, <1>3, <1>4, WithinSearch
<1>5. CASE k = c
  <2> SUFFICES ASSUME search_icache(u.idir[k], b) # NoWay PROVE FALSE
    OBVIOUS
  <2>1. PICK v \in Way : u.idir[c][ICACHE_INDEX(b)][v] = ICACHE_TAG(b)
    BY <1>5, Searches DEF Found
  <2>2. s.idir[c][ICACHE_INDEX(b)][v] # ICACHE_TAG(b)
    BY <1>3, <1>5, Searches DEF Found
  <2>3. ICACHE_INDEX(b) \in Set
    BY <1>2, InstrPlace
  <2>4. ICACHE_INDEX(b) = ICACHE_INDEX(a) /\ ICACHE_TAG(b) = ICACHE_TAG(a)
    BY <2>1, <2>2, <2>3 DEF GaveInstr, Sets
  <2>5. ILine(b) = ILine(a) /\ ILine(a) = a /\ (b = ILine(b) \/ b = ILine(b) + 1)
    BY <1>2, <2>4, InstrPlace
  <2>6. b # a /\ b # a + 1
    OBVIOUS
  <2>7. QED
    BY <2>5, <2>6
<1>6. QED
  BY <1>4, <1>5

(* A load, *)
LEMMA LoadServed ==
    ASSUME NEW s, Good(s), NEW c \in Core, NEW a \in LoadLines, NEW w \in Way,
           OnlyIn(s.ddir[c], DCACHE_INDEX(a), DCACHE_TAG(a), w), NEW u, u = process_load_fast(s, c, a, w)
    PROVE  Good(u) /\ GaveData(s, u, c, a, w)
<1>1. s \in World /\ Apart(s) /\ \A k \in Core : OK(s, k) /\ UpToDate(EndOf(s, k))
  BY DEF Good
<1>2. PICK dd, id, q, st : dd = s.ddir[c] /\ id = s.idir[c] /\ q = s.cpx[c] /\ st = CachesOf(s, c)
  OBVIOUS
<1>3. CoreOK(dd, id, q, st) /\ UpToDate(End(st, q)) /\ OnlyIn(dd, DCACHE_INDEX(a), DCACHE_TAG(a), w)
  BY <1>1, <1>2 DEF OK, EndOf
<1>4. PICK iw : iw = search_icache(id, a)
  OBVIOUS
<1>5. PICK msg, d, i : /\ msg = Reply("load", a, w, NoWay, iw)
                       /\ d = add_dcache_line(dd, a, w) /\ i = Forget(id, ICACHE_INDEX(a), iw)
  OBVIOUS
<1>6. /\ CoreOK(d, i, Append(q, msg), st) /\ UpToDate(End(st, Append(q, msg)))
      /\ Sets(dd, d, DCACHE_INDEX(a), {w}, DCACHE_TAG(a))
      /\ Within(id, i) /\ search_icache(i, a) = NoWay
  BY <1>3, <1>4, <1>5, LoadSent
<1>7. d \in DDirectory(Lines) /\ i \in IDirectory(Lines)
  BY <1>6 DEF CoreOK
<1>8. PICK r : r = [s EXCEPT !.ddir[c] = d]
  OBVIOUS
<1>9. /\ r \in World /\ r.l1d = s.l1d /\ r.l1i = s.l1i /\ r.cpx = s.cpx /\ r.idir = s.idir /\ r.ddir[c] = d
      /\ \A k \in Core : k # c => r.ddir[k] = s.ddir[k]
  BY <1>1, <1>7, <1>8 DEF World
<1>10. ASSUME NEW k \in Core, k # c PROVE OK(r, k) /\ EndOf(r, k) = EndOf(s, k)
  BY <1>1, <1>9, <1>10 DEF OK, EndOf, CachesOf
<1>11. PICK t : t = invalidate_other_icache(r, c, a)
  OBVIOUS
<1>12. a \in Lines
  BY LinesAre
<1>13. /\ Others(r, t, c) /\ t.ddir = r.ddir
       /\ \A k \in Core : k # c => search_icache(t.idir[k], a) = NoWay
  BY <1>9, <1>10, <1>11, <1>12, InvalidateInstr
<1>14. /\ t \in World /\ t.l1d = s.l1d /\ t.l1i = s.l1i
       /\ t.ddir[c] = d /\ t.idir[c] = id /\ t.cpx[c] = q
  BY <1>2, <1>9, <1>13 DEF Others, Kept
<1>15. msg \in Replies
  <2>1. iw \in Way \cup {NoWay}
    BY <1>4, Searches
  <2>2. QED
    BY <1>5, <1>12, <2>1, ReplyIs DEF Final
<1>16. PICK v : v = [t EXCEPT !.idir[c] = i]
  OBVIOUS
<1>17. /\ v \in World /\ v.l1d = t.l1d /\ v.l1i = t.l1i /\ v.cpx = t.cpx
       /\ v.ddir = t.ddir /\ v.idir[c] = i
       /\ \A k \in Core : k # c => v.ddir[k] = t.ddir[k] /\ v.idir[k] = t.idir[k]
  BY <1>7, <1>14, <1>16 DEF World
<1>18. u = Send(v, c, msg)
  <2>1. r = [s EXCEPT !.ddir[c] = add_dcache_line(s.ddir[c], a, w)]
    BY <1>2, <1>5, <1>8
  <2>2. u = return_load_req(r, c, "load", a, w, TRUE)
    BY <2>1 DEF process_load_fast
  <2>3. u = Send([t EXCEPT !.idir[c] = invalidate_icache(t.idir[c], a)], c,
                 Reply("load", a, w, NoWay, search_icache(t.idir[c], a)))
    BY <1>11, <2>2 DEF return_load_req
  <2>4. i = invalidate_icache(t.idir[c], a) /\ iw = search_icache(t.idir[c], a)
    BY <1>4, <1>5, <1>14 DEF invalidate_icache
  <2>5. QED
    BY <1>5, <1>16, <2>3, <2>4, Zenon
<1>19. SentTo(t, u, c, d, i, Append(q, msg))
  <2>1. SentTo(t, u, c, v.ddir[c], v.idir[c], Append(t.cpx[c], msg))
    BY <1>14, <1>15, <1>17, <1>18, SentIs
  <2>2. QED
    BY <1>14, <1>17, <2>1
<1>20. /\ u \in World /\ u.l1d = s.l1d /\ u.l1i = s.l1i
       /\ u.ddir[c] = d /\ u.idir[c] = i /\ u.cpx[c] = Append(q, msg)
       /\ \A k \in Core : k # c => u.ddir[k] = t.ddir[k] /\ u.idir[k] = t.idir[k] /\ u.cpx[k] = t.cpx[k]
  BY <1>14, <1>19 DEF SentTo
<1>21. OK(u, c) /\ UpToDate(EndOf(u, c))
  <2>1. CachesOf(u, c) = st
    BY <1>2, <1>20 DEF CachesOf
  <2>2. QED
    BY <1>6, <1>20, <2>1 DEF OK, EndOf
<1>22. ASSUME NEW k \in Core, k # c
       PROVE  OK(u, k) /\ UpToDate(EndOf(u, k)) /\ Within(s.ddir[k], u.ddir[k]) /\ Within(s.idir[k], u.idir[k])
  <2>1. ClearedAt(r, u, k)
    BY <1>13, <1>20, <1>22 DEF Others, ClearedAt
  <2>2. /\ OK(u, k) /\ Within(r.ddir[k], u.ddir[k]) /\ Within(r.idir[k], u.idir[k])
        /\ UpToDate(EndOf(r, k)) => UpToDate(EndOf(u, k))
    BY <1>9, <1>20, <2>1, ClearedAtIs
  <2>3. QED
    BY <1>1, <1>9, <1>10, <1>22, <2>2
<1>23. GaveData(s, u, c, a, w)
  BY <1>2, <1>6, <1>20, <1>22 DEF GaveData
<1>24. \A k \in Core : search_icache(u.idir[k], a) = NoWay
  BY <1>6, <1>13, <1>20
<1>25. Apart(u)
  BY <1>1, <1>12, <1>23, <1>24, ApartData
<1>26. QED
  BY <1>20, <1>21, <1>22, <1>23, <1>25 DEF Good

(* and a fetch. *)
LEMMA IfillServed ==
    ASSUME NEW s, Good(s), NEW c \in Core, NEW a \in FetchLines, NEW w \in Way,
           \A v \in Way : s.idir[c][ICACHE_INDEX(a)][v] # ICACHE_TAG(a),
           NEW u, u = process_ifill_fast(s, c, a, w)
    PROVE  Good(u) /\ GaveInstr(s, u, c, a, w)
<1>1. s \in World /\ Apart(s) /\ \A k \in Core : OK(s, k) /\ UpToDate(EndOf(s, k))
  BY DEF Good
<1>2. PICK dd, id, q, st : dd = s.ddir[c] /\ id = s.idir[c] /\ q = s.cpx[c] /\ st = CachesOf(s, c)
  OBVIOUS
<1>3. CoreOK(dd, id, q, st) /\ UpToDate(End(st, q)) /\ \A v \in Way : id[ICACHE_INDEX(a)][v] # ICACHE_TAG(a)
  BY <1>1, <1>2 DEF OK, EndOf
<1>4. a \in Lines /\ a + 1 \in Lines
  BY LinesAre
<1>5. PICK dw0, d0, m0, q0 : /\ dw0 = search_dcache(dd, a) /\ d0 = Forget(dd, DCACHE_INDEX(a), dw0)
                             /\ m0 = Reply("ifill_0", a, NoWay, dw0, NoWay) /\ q0 = Append(q, m0)
  OBVIOUS
<1>6. Cleared(dd, id, q, d0, id, q0, st)
  BY <1>3, <1>4, <1>5, HalfSent
<1>7. CoreOK(d0, id, q0, st) /\ UpToDate(End(st, q0)) /\ Within(dd, d0)
  BY <1>3, <1>6, ClearedKept DEF Cleared
<1>8. PICK dw1, d1, m1, q1, i : /\ dw1 = search_dcache(d0, a + 1) /\ d1 = Forget(d0, DCACHE_INDEX(a + 1), dw1)
                                /\ m1 = Reply("ifill_1", a, w, dw1, NoWay) /\ q1 = Append(q0, m1)
                                /\ i = add_icache_line(id, a, w)
  OBVIOUS
<1>9. /\ CoreOK(d1, i, q1, st) /\ UpToDate(End(st, q1))
      /\ Sets(id, i, ICACHE_INDEX(a), {w}, ICACHE_TAG(a))
      /\ Within(d0, d1)
  BY <1>3, <1>7, <1>8, FillSent
<1>10. i \in IDirectory(Lines)
  BY <1>9 DEF CoreOK
<1>11. PICK r : r = [s EXCEPT !.idir[c] = i]
  OBVIOUS
<1>12. /\ r \in World /\ r.l1d = s.l1d /\ r.l1i = s.l1i /\ r.cpx = s.cpx /\ r.ddir = s.ddir /\ r.idir[c] = i
       /\ \A k \in Core : k # c => r.idir[k] = s.idir[k]
  BY <1>1, <1>10, <1>11 DEF World
<1>13. ASSUME NEW k \in Core, k # c PROVE OK(r, k) /\ EndOf(r, k) = EndOf(s, k)
  BY <1>1, <1>12, <1>13 DEF OK, EndOf, CachesOf
<1>14. PICK t : t = IfillHalf(r, c, "ifill_0", a, a, NoWay)
  OBVIOUS
<1>15. u = IfillHalf(t, c, "ifill_1", a + 1, a, w)
  <2>1. r = [s EXCEPT !.idir[c] = add_icache_line(s.idir[c], a, w)]
    BY <1>2, <1>8, <1>11
  <2>2. QED
    BY <1>14, <2>1 DEF process_ifill_fast, BothHalves
<1>16. /\ t \in World /\ t.l1d = s.l1d /\ t.l1i = s.l1i /\ t.idir = r.idir
       /\ t.ddir[c] = d0 /\ t.cpx[c] = q0
       /\ \A k \in Core : k # c => ClearedAt(r, t, k)
       /\ \A k \in Core : search_dcache(t.ddir[k], a) = NoWay
  <2>1. r.ddir[c] = dd /\ r.cpx[c] = q /\ dd \in DDirectory(Lines) /\ Unique(dd)
    BY <1>2, <1>3, <1>12 DEF CoreOK
  <2>2. HalfOf(r, t, c, "ifill_0", a, a, NoWay)
    BY <1>4, <1>12, <1>13, <1>14, <2>1, HalfIs
  <2>3. QED
    BY <1>5, <1>12, <2>1, <2>2 DEF HalfOf
<1>17. ASSUME NEW k \in Core, k # c
       PROVE  OK(t, k) /\ UpToDate(EndOf(t, k)) /\ Within(s.ddir[k], t.ddir[k]) /\ Within(s.idir[k], t.idir[k])
  <2>1. ClearedAt(r, t, k)
    BY <1>16, <1>17
  <2>2. /\ OK(t, k) /\ Within(r.ddir[k], t.ddir[k]) /\ Within(r.idir[k], t.idir[k])
        /\ UpToDate(EndOf(r, k)) => UpToDate(EndOf(t, k))
    BY <1>12, <1>16, <2>1, ClearedAtIs
  <2>3. QED
    BY <1>1, <1>12, <1>13, <1>17, <2>2
<1>18. /\ u \in World /\ u.l1d = s.l1d /\ u.l1i = s.l1i /\ u.idir = r.idir
       /\ u.ddir[c] = d1 /\ u.cpx[c] = q1
       /\ \A k \in Core : k # c => ClearedAt(t, u, k)
       /\ \A k \in Core : search_dcache(u.ddir[k], a + 1) = NoWay
  <2>1. d0 \in DDirectory(Lines) /\ Unique(d0)
    BY <1>7 DEF CoreOK
  <2>2. HalfOf(t, u, c, "ifill_1", a + 1, a, w)
    BY <1>4, <1>15, <1>16, <1>17, <2>1, HalfIs
  <2>3. QED
    BY <1>8, <1>16, <2>2 DEF HalfOf
<1>19. OK(u, c) /\ UpToDate(EndOf(u, c))
  <2>1. CachesOf(u, c) = st
    BY <1>2, <1>18 DEF CachesOf
  <2>2. u.idir[c] = i
    BY <1>12, <1>18
  <2>3. QED
    BY <1>9, <1>18, <2>1, <2>2 DEF OK, EndOf
<1>20. ASSUME NEW k \in Core, k # c
       PROVE  /\ OK(u, k) /\ UpToDate(EndOf(u, k)) /\ Within(t.ddir[k], u.ddir[k])
              /\ Within(s.ddir[k], u.ddir[k]) /\ Within(s.idir[k], u.idir[k])
  <2>1. ClearedAt(t, u, k)
    BY <1>18, <1>20
  <2>2. /\ OK(u, k) /\ Within(t.ddir[k], u.ddir[k]) /\ Within(t.idir[k], u.idir[k])
        /\ UpToDate(EndOf(t, k)) => UpToDate(EndOf(u, k))
    BY <1>16, <1>18, <2>1, ClearedAtIs
  <2>3. Within(s.ddir[k], t.ddir[k]) /\ Within(s.idir[k], t.idir[k]) /\ UpToDate(EndOf(t, k))
    BY <1>17, <1>20
  <2>4. QED
    BY <2>2, <2>3 DEF Within
<1>21. GaveInstr(s, u, c, a, w)
  <2>1. Within(dd, d1)
    BY <1>7, <1>9 DEF Within
  <2>2. u.idir[c] = i
    BY <1>12, <1>18
  <2>3. QED
    BY <1>2, <1>9, <1>18, <1>20, <2>1, <2>2 DEF GaveInstr
<1>22. ASSUME NEW k \in Core PROVE search_dcache(u.ddir[k], a) = NoWay /\ search_dcache(u.ddir[k], a + 1) = NoWay
  <2>1. Within(t.ddir[k], u.ddir[k])
    BY <1>9, <1>16, <1>18, <1>20
  <2>2. search_dcache(u.ddir[k], a) = NoWay
    BY <1>4, <1>16, <2>1, WithinSearch
  <2>3. QED
    BY <1>18, <2>2
<1>23. Apart(u)
  BY <1>1, <1>21, <1>22, ApartInstr
<1>24. QED
  BY <1>18, <1>19, <1>20, <1>21, <1>23 DEF Good

-----------------------------------------------------------------------------
(* What the core does. *)

(* A reply that is applied is one less under way, to the same end. *)
Takes(q, msg, p) == q # <<>> /\ msg = Head(q) /\ p = Tail(q)

(* The core that applies it, *)
LEMMA ReceiveCore ==
    ASSUME NEW dd, NEW id, NEW q, NEW st, CoreOK(dd, id, q, st), NEW msg, NEW p, Takes(q, msg, p),
           NEW new, new = Apply(st, msg)
    PROVE  new \in Caches /\ CoreOK(dd, id, p, new) /\ End(new, p) = End(st, q)
<1>0. q # <<>> /\ msg = Head(q) /\ p = Tail(q)
  BY DEF Takes
<1>1. /\ q \in Seq(Replies) /\ st \in Caches /\ FetchedOnly(st.i) /\ Acks(st, q)
      /\ \A n \in 1 .. Len(q) : Valid(q[n])
  BY DEF CoreOK
<1>2. /\ Len(p) + 1 = Len(q) /\ Len(p) \in Nat
      /\ \A n \in 0 .. Len(p) : Replay(new, p)[n] = Replay(st, q)[n + 1]
  BY <1>0, <1>1, ReplayTail
<1>3. PICK L \in Nat : L = Len(p) /\ Len(q) = L + 1
  BY <1>2
<1>4. p \in Seq(Replies) /\ \A n \in 1 .. L : p[n] = q[n + 1]
  BY <1>0, <1>1, <1>3
<1>5. msg = q[1] /\ Valid(msg)
  BY <1>0, <1>1, <1>3
<1>6. Came(st, {msg}, new)
  BY <1>1, <1>5, ApplyFills
<1>7. new \in Caches /\ FetchedOnly(new.i)
  BY <1>1, <1>5, <1>6 DEF Came, FetchedOnly, Valid
<1>8. \A n \in 1 .. L : Valid(p[n])
  BY <1>1, <1>3, <1>4
<1>9. End(new, p) = End(st, q)
  <2>1. Replay(new, p)[L] = Replay(st, q)[L + 1]
    BY <1>2, <1>3
  <2>2. QED
    BY <1>3, <2>1 DEF End
<1>10. Acks(new, p)
  <2> SUFFICES ASSUME NEW n \in 1 .. L, p[n].typ = "store_ack", p[n].dw # NoWay
               PROVE  /\ Replay(new, p)[n - 1].d[DCACHE_INDEX(p[n].a)][p[n].dw].a = p[n].a
                      /\ Replay(new, p)[n - 1].d[DCACHE_INDEX(p[n].a)][p[n].dw].m # 0
    BY <1>3 DEF Acks
  <2>1. n - 1 \in 0 .. L /\ (n - 1) + 1 = n /\ (n + 1) - 1 = n /\ n + 1 \in 1 .. L + 1
    OBVIOUS
  <2>2. PICK before : before = Replay(st, q)[n]
    OBVIOUS
  <2>3. Replay(new, p)[n - 1] = before
    BY <1>2, <1>3, <2>1, <2>2
  <2>4. p[n] = q[n + 1]
    BY <1>4
  <2>5. PICK m : m = q[n + 1]
    OBVIOUS
  <2>6. m.typ = "store_ack" /\ m.dw # NoWay =>
          before.d[DCACHE_INDEX(m.a)][m.dw].a = m.a /\ before.d[DCACHE_INDEX(m.a)][m.dw].m # 0
    <3>1. q[n + 1].typ = "store_ack" /\ q[n + 1].dw # NoWay =>
            /\ Replay(st, q)[(n + 1) - 1].d[DCACHE_INDEX(q[n + 1].a)][q[n + 1].dw].a = q[n + 1].a
            /\ Replay(st, q)[(n + 1) - 1].d[DCACHE_INDEX(q[n + 1].a)][q[n + 1].dw].m # 0
      BY <1>1, <1>3, <2>1 DEF Acks
    <3>2. QED
      BY <2>1, <2>2, <2>5, <3>1
  <2>7. QED
    BY <2>3, <2>4, <2>5, <2>6
<1>11. QED
  BY <1>3, <1>4, <1>7, <1>8, <1>9, <1>10 DEF CoreOK

(* One core is well after a step if the others are left alone. *)
Received(s, t, c, new) ==
  /\ s.cpx[c] # <<>> /\ new = Apply(CachesOf(s, c), Head(s.cpx[c]))
  /\ t = [s EXCEPT !.l1d[c] = new.d, !.l1i[c] = new.i, !.cpx[c] = Tail(s.cpx[c])]

(* and all of them: the others are left alone. *)
LEMMA ReceiveGood ==
    ASSUME NEW s, Good(s), NEW c \in Core, NEW new, NEW t, Received(s, t, c, new)
    PROVE  Good(t) /\ t.ddir = s.ddir /\ t.idir = s.idir
<1>0. /\ s.cpx[c] # <<>> /\ new = Apply(CachesOf(s, c), Head(s.cpx[c]))
      /\ t = [s EXCEPT !.l1d[c] = new.d, !.l1i[c] = new.i, !.cpx[c] = Tail(s.cpx[c])]
  BY DEF Received
<1>1. s \in World /\ Apart(s) /\ \A k \in Core : OK(s, k) /\ UpToDate(EndOf(s, k))
  BY DEF Good
<1>2. PICK q, st, p : q = s.cpx[c] /\ st = CachesOf(s, c) /\ p = Tail(q)
  OBVIOUS
<1>3. /\ new \in Caches /\ CoreOK(s.ddir[c], s.idir[c], p, new)
      /\ End(new, p) = End(st, q) /\ EndOf(s, c) = End(st, q)
  <2>1. CoreOK(s.ddir[c], s.idir[c], q, st) /\ EndOf(s, c) = End(st, q)
    BY <1>1, <1>2 DEF OK, EndOf
  <2>2. PICK msg : Takes(q, msg, p) /\ new = Apply(st, msg)
    BY <1>0, <1>2 DEF Takes
  <2>3. PICK dd, id : dd = s.ddir[c] /\ id = s.idir[c]
    OBVIOUS
  <2>4. CoreOK(dd, id, q, st)
    BY <2>1, <2>3
  <2>5. new \in Caches /\ CoreOK(dd, id, p, new) /\ End(new, p) = End(st, q)
    BY <2>2, <2>4, ReceiveCore
  <2>6. QED
    BY <2>1, <2>3, <2>5
<1>4. p \in Seq(Replies) /\ new.d \in Cache /\ new.i \in Cache /\ new = [d |-> new.d, i |-> new.i]
  BY <1>3 DEF CoreOK, Caches
<1>5. PICK d \in Cache, i \in Cache : d = new.d /\ i = new.i
  BY <1>4
<1>6. PICK D, I, Q : D = [s.l1d EXCEPT ![c] = d] /\ I = [s.l1i EXCEPT ![c] = i] /\ Q = [s.cpx EXCEPT ![c] = p]
  OBVIOUS
<1>7. s.l1d \in [Core -> Cache] /\ s.l1i \in [Core -> Cache] /\ s.cpx \in [Core -> Seq(Replies)]
  BY <1>1 DEF World
<1>8. /\ D \in [Core -> Cache] /\ I \in [Core -> Cache] /\ Q \in [Core -> Seq(Replies)]
      /\ D[c] = d /\ I[c] = i /\ Q[c] = p
      /\ \A k \in Core : k # c => D[k] = s.l1d[k] /\ I[k] = s.l1i[k] /\ Q[k] = s.cpx[k]
  BY <1>4, <1>5, <1>6, <1>7
<1>9. t = [s EXCEPT !.l1d = D, !.l1i = I, !.cpx = Q]
  BY <1>0, <1>2, <1>5, <1>6
<1>10. t \in World /\ t.l1d = D /\ t.l1i = I /\ t.cpx = Q /\ t.ddir = s.ddir /\ t.idir = s.idir
  BY <1>1, <1>8, <1>9 DEF World
<1>11. OK(t, c) /\ UpToDate(EndOf(t, c))
  <2>1. CachesOf(t, c) = new
    BY <1>4, <1>5, <1>8, <1>10 DEF CachesOf
  <2>2. EndOf(t, c) = EndOf(s, c)
    BY <1>3, <1>8, <1>10, <2>1 DEF EndOf
  <2>3. QED
    BY <1>1, <1>3, <1>8, <1>10, <2>1, <2>2 DEF OK
<1>12. ASSUME NEW k \in Core, k # c PROVE OK(t, k) /\ UpToDate(EndOf(t, k))
  <2>1. CachesOf(t, k) = CachesOf(s, k) /\ t.cpx[k] = s.cpx[k]
    BY <1>8, <1>10, <1>12 DEF CachesOf
  <2>2. QED
    BY <1>1, <1>10, <2>1 DEF OK, EndOf
<1>13. Apart(t)
  BY <1>1, <1>10, ApartSame
<1>14. QED
  BY <1>10, <1>11, <1>12, <1>13 DEF Good

-----------------------------------------------------------------------------
(* The requests of a core. *)
LEMMA RequestPlace ==
    ASSUME NEW a \in LoadLines \cup FetchLines
    PROVE  /\ a \in Lines /\ a \in Nat
           /\ DCACHE_INDEX(a) \in Set /\ DCACHE_TAG(a) # INVALID_TAG
           /\ ICACHE_INDEX(a) \in Set /\ ICACHE_TAG(a) # INVALID_TAG
<1>1. a \in Lines /\ a \in Nat
  BY LinesAre
<1>2. QED
  BY <1>1, DataPlace, InstrPlace

(* They still ask for what is not there when lines are taken away, *)
LEMMA WantedWithin ==
    ASSUME NEW dd, NEW id, NEW p, Wanted(dd, id, p), NEW ddN, NEW idN, Within(dd, ddN), Within(id, idN)
    PROVE  Wanted(ddN, idN, p)
<1>1. ASSUME NEW n \in 1 .. Len(p), p[n].op = "LOAD"
      PROVE  \A v \in Way : ddN[DCACHE_INDEX(p[n].a)][v] = DCACHE_TAG(p[n].a) => v = p[n].w
  <2>1. PICK a : a = p[n].a
    OBVIOUS
  <2>2. a \in LoadLines /\ \A v \in Way : dd[DCACHE_INDEX(a)][v] = DCACHE_TAG(a) => v = p[n].w
    BY <1>1, <2>1 DEF Wanted
  <2>3. QED
    BY <2>1, <2>2, RequestPlace DEF Within
<1>2. ASSUME NEW n \in 1 .. Len(p), p[n].op = "IFILL"
      PROVE  \A v \in Way : idN[ICACHE_INDEX(p[n].a)][v] # ICACHE_TAG(p[n].a)
  <2>1. PICK a : a = p[n].a
    OBVIOUS
  <2>2. a \in FetchLines /\ \A v \in Way : id[ICACHE_INDEX(a)][v] # ICACHE_TAG(a)
    BY <1>2, <2>1 DEF Wanted
  <2>3. QED
    BY <2>1, <2>2, RequestPlace DEF Within
<1>3. QED
  BY <1>1, <1>2 DEF Wanted

(* when the first one has been served, *)
LEMMA ServedFirst ==
    ASSUME NEW p \in Seq(Requests), p # <<>>
    PROVE  \E t \in Seq(Requests), L \in Nat :
             /\ t = Tail(p) /\ Len(t) = L /\ Len(p) = L + 1
             /\ p[1] = Head(p) /\ \A n \in 1 .. L : t[n] = p[n + 1]
<1>1. Tail(p) \in Seq(Requests) /\ Len(Tail(p)) \in Nat
  OBVIOUS
<1>2. Len(p) = Len(Tail(p)) + 1 /\ p[1] = Head(p) /\ \A n \in 1 .. Len(Tail(p)) : Tail(p)[n] = p[n + 1]
  OBVIOUS
<1>3. QED
  BY <1>1, <1>2

(* by a load, *)
LEMMA WantedLoaded ==
    ASSUME NEW dd, NEW id, NEW p, Wanted(dd, id, p), p # <<>>, NEW a, NEW w, Head(p).op = "LOAD",
           a = Head(p).a, w = Head(p).w, NEW ddN, NEW idN,
           Sets(dd, ddN, DCACHE_INDEX(a), {w}, DCACHE_TAG(a)), Within(id, idN)
    PROVE  Wanted(ddN, idN, Tail(p))
<1>1. p \in Seq(Requests)
  BY DEF Wanted
<1>2. PICK t \in Seq(Requests), L \in Nat : /\ t = Tail(p) /\ Len(t) = L /\ Len(p) = L + 1
                                            /\ p[1] = Head(p) /\ \A n \in 1 .. L : t[n] = p[n + 1]
  BY <1>1, ServedFirst
<1>3. \A n \in 1 .. L : n + 1 \in 1 .. Len(p) /\ n + 1 # 1
  BY <1>2
<1>4. 1 \in 1 .. Len(p) /\ p[1].op = "LOAD" /\ p[1].a = a /\ p[1].w = w
  BY <1>2
<1>5. a \in LoadLines
  BY <1>4 DEF Wanted
<1>6. ASSUME NEW n \in 1 .. L, t[n].op = "LOAD"
      PROVE  t[n].a \in LoadLines /\ \A v \in Way : ddN[DCACHE_INDEX(t[n].a)][v] = DCACHE_TAG(t[n].a) => v = t[n].w
  <2>1. PICK k \in 1 .. Len(p) : k = n + 1 /\ t[n] = p[k]
    BY <1>2, <1>3
  <2>2. PICK b, z : b = p[k].a /\ z = p[k].w
    OBVIOUS
  <2>3. /\ b \in LoadLines /\ \A v \in Way : dd[DCACHE_INDEX(b)][v] = DCACHE_TAG(b) => v = z
        /\ a = b => w = z
    BY <1>4, <1>6, <2>1, <2>2 DEF Wanted
  <2>4. ASSUME NEW v \in Way, ddN[DCACHE_INDEX(b)][v] = DCACHE_TAG(b) PROVE v = z
    <3>1. DCACHE_INDEX(b) \in Set /\ a \in Nat /\ b \in Nat
      BY <1>5, <2>3, RequestPlace
    <3>2. CASE DCACHE_INDEX(b) = DCACHE_INDEX(a) /\ v = w
      <4>1. DCACHE_TAG(b) = DCACHE_TAG(a)
        BY <2>4, <3>1, <3>2 DEF Sets
      <4>2. a = b
        BY <3>1, <3>2, <4>1, DataPlace
      <4>3. QED
        BY <2>3, <3>2, <4>2
    <3>3. CASE ~(DCACHE_INDEX(b) = DCACHE_INDEX(a) /\ v = w)
      BY <2>3, <2>4, <3>1, <3>3 DEF Sets
    <3>4. QED
      BY <3>2, <3>3
  <2>5. QED
    BY <2>1, <2>2, <2>3, <2>4
<1>7. ASSUME NEW n \in 1 .. L, t[n].op = "IFILL"
      PROVE  t[n].a \in FetchLines /\ \A v \in Way : idN[ICACHE_INDEX(t[n].a)][v] # ICACHE_TAG(t[n].a)
  <2>1. PICK k \in 1 .. Len(p) : k = n + 1 /\ t[n] = p[k]
    BY <1>2, <1>3
  <2>2. PICK b : b = p[k].a
    OBVIOUS
  <2>3. b \in FetchLines /\ \A v \in Way : id[ICACHE_INDEX(b)][v] # ICACHE_TAG(b)
    BY <1>7, <2>1, <2>2 DEF Wanted
  <2>4. \A v \in Way : idN[ICACHE_INDEX(b)][v] # ICACHE_TAG(b)
    BY <2>3, RequestPlace DEF Within
  <2>5. QED
    BY <2>1, <2>2, <2>3, <2>4
<1>8. /\ \A m, n \in 1 .. L : t[m].op = "LOAD" /\ t[n].op = "LOAD" /\ t[m].a = t[n].a => t[m].w = t[n].w
      /\ \A m, n \in 1 .. L : t[m].op = "IFILL" /\ t[n].op = "IFILL" /\ t[m].a = t[n].a => m = n
  <2> SUFFICES ASSUME NEW m \in 1 .. L, NEW n \in 1 .. L, t[m].a = t[n].a
               PROVE  /\ t[m].op = "LOAD" /\ t[n].op = "LOAD" => t[m].w = t[n].w
                      /\ t[m].op = "IFILL" /\ t[n].op = "IFILL" => m = n
    OBVIOUS
  <2>1. PICK i \in 1 .. Len(p), j \in 1 .. Len(p) : i = m + 1 /\ j = n + 1 /\ t[m] = p[i] /\ t[n] = p[j]
    BY <1>2, <1>3
  <2>2. i = j => m = n
    BY <2>1
  <2>3. QED
    BY <2>1, <2>2 DEF Wanted
<1>9. QED
  BY <1>2, <1>6, <1>7, <1>8 DEF Wanted

(* or by a fetch, *)
LEMMA WantedFetched ==
    ASSUME NEW dd, NEW id, NEW p, Wanted(dd, id, p), p # <<>>, NEW a, NEW w, Head(p).op = "IFILL",
           a = Head(p).a, w = Head(p).w, NEW ddN, NEW idN,
           Within(dd, ddN), Sets(id, idN, ICACHE_INDEX(a), {w}, ICACHE_TAG(a))
    PROVE  Wanted(ddN, idN, Tail(p))
<1>1. p \in Seq(Requests)
  BY DEF Wanted
<1>2. PICK t \in Seq(Requests), L \in Nat : /\ t = Tail(p) /\ Len(t) = L /\ Len(p) = L + 1
                                            /\ p[1] = Head(p) /\ \A n \in 1 .. L : t[n] = p[n + 1]
  BY <1>1, ServedFirst
<1>3. \A n \in 1 .. L : n + 1 \in 1 .. Len(p) /\ n + 1 # 1
  BY <1>2
<1>4. 1 \in 1 .. Len(p) /\ p[1].op = "IFILL" /\ p[1].a = a /\ p[1].w = w
  BY <1>2
<1>5. a \in FetchLines
  BY <1>4 DEF Wanted
<1>6. ASSUME NEW n \in 1 .. L, t[n].op = "LOAD"
      PROVE  t[n].a \in LoadLines /\ \A v \in Way : ddN[DCACHE_INDEX(t[n].a)][v] = DCACHE_TAG(t[n].a) => v = t[n].w
  <2>1. PICK k \in 1 .. Len(p) : k = n + 1 /\ t[n] = p[k]
    BY <1>2, <1>3
  <2>2. PICK b, z : b = p[k].a /\ z = p[k].w
    OBVIOUS
  <2>3. b \in LoadLines /\ \A v \in Way : dd[DCACHE_INDEX(b)][v] = DCACHE_TAG(b) => v = z
    BY <1>6, <2>1, <2>2 DEF Wanted
  <2>4. \A v \in Way : ddN[DCACHE_INDEX(b)][v] = DCACHE_TAG(b) => v = z
    BY <2>3, RequestPlace DEF Within
  <2>5. QED
    BY <2>1, <2>2, <2>3, <2>4
<1>7. ASSUME NEW n \in 1 .. L, t[n].op = "IFILL"
      PROVE  t[n].a \in FetchLines /\ \A v \in Way : idN[ICACHE_INDEX(t[n].a)][v] # ICACHE_TAG(t[n].a)
  <2>1. PICK k \in 1 .. Len(p) : k = n + 1 /\ k # 1 /\ t[n] = p[k]
    BY <1>2, <1>3
  <2>2. PICK b : b = p[k].a
    OBVIOUS
  <2>3. b \in FetchLines /\ (\A v \in Way : id[ICACHE_INDEX(b)][v] # ICACHE_TAG(b)) /\ a # b
    BY <1>4, <1>7, <2>1, <2>2 DEF Wanted
  <2>4. ASSUME NEW v \in Way, idN[ICACHE_INDEX(b)][v] = ICACHE_TAG(b) PROVE FALSE
    <3>1. ICACHE_INDEX(b) \in Set /\ a \in Nat /\ b \in Nat /\ a % 2 = 0 /\ b % 2 = 0
      BY <1>5, <2>3, RequestPlace, LinesAre
    <3>2. ICACHE_INDEX(b) = ICACHE_INDEX(a) /\ ICACHE_TAG(b) = ICACHE_TAG(a)
      BY <2>3, <2>4, <3>1 DEF Sets
    <3>3. ILine(a) = ILine(b) /\ ILine(a) = a /\ ILine(b) = b
      BY <3>1, <3>2, InstrPlace
    <3>4. QED
      BY <2>3, <3>3
  <2>5. QED
    BY <2>1, <2>2, <2>3, <2>4
<1>8. /\ \A m, n \in 1 .. L : t[m].op = "LOAD" /\ t[n].op = "LOAD" /\ t[m].a = t[n].a => t[m].w = t[n].w
      /\ \A m, n \in 1 .. L : t[m].op = "IFILL" /\ t[n].op = "IFILL" /\ t[m].a = t[n].a => m = n
  <2> SUFFICES ASSUME NEW m \in 1 .. L, NEW n \in 1 .. L, t[m].a = t[n].a
               PROVE  /\ t[m].op = "LOAD" /\ t[n].op = "LOAD" => t[m].w = t[n].w
                      /\ t[m].op = "IFILL" /\ t[n].op = "IFILL" => m = n
    OBVIOUS
  <2>1. PICK i \in 1 .. Len(p), j \in 1 .. Len(p) : i = m + 1 /\ j = n + 1 /\ t[m] = p[i] /\ t[n] = p[j]
    BY <1>2, <1>3
  <2>2. i = j => m = n
    BY <2>1
  <2>3. QED
    BY <2>1, <2>2 DEF Wanted
<1>9. QED
  BY <1>2, <1>6, <1>7, <1>8 DEF Wanted

(* and when one more is sent that asks for nothing that is there or on its way. *)
LEMMA WantedMore ==
    ASSUME NEW dd, NEW id, NEW p, Wanted(dd, id, p), NEW r \in Requests,
           r.op = "LOAD" =>
             /\ r.a \in LoadLines
             /\ \A v \in Way : dd[DCACHE_INDEX(r.a)][v] = DCACHE_TAG(r.a) => v = r.w
             /\ \A n \in 1 .. Len(p) : p[n].op = "LOAD" /\ p[n].a = r.a => p[n].w = r.w,
           r.op = "IFILL" =>
             /\ r.a \in FetchLines
             /\ \A v \in Way : id[ICACHE_INDEX(r.a)][v] # ICACHE_TAG(r.a)
             /\ \A n \in 1 .. Len(p) : ~(p[n].op = "IFILL" /\ p[n].a = r.a)
    PROVE  Wanted(dd, id, Append(p, r))
<1>1. p \in Seq(Requests)
  BY DEF Wanted
<1>2. PICK t \in Seq(Requests), L \in Nat : /\ t = Append(p, r) /\ L = Len(p) /\ Len(t) = L + 1
                                            /\ t[L + 1] = r /\ \A n \in 1 .. L : t[n] = p[n]
  <2>1. Append(p, r) \in Seq(Requests) /\ Len(p) \in Nat /\ Len(Append(p, r)) = Len(p) + 1
    BY <1>1, AppendProperties
  <2>2. Append(p, r)[Len(p) + 1] = r /\ \A n \in 1 .. Len(p) : Append(p, r)[n] = p[n]
    BY <1>1, AppendProperties
  <2>3. QED
    BY <2>1, <2>2
<1>3. \A n \in 1 .. L + 1 : n \in 1 .. L \/ n = L + 1
  OBVIOUS
<1>4. ASSUME NEW n \in 1 .. L + 1, t[n].op = "LOAD"
      PROVE  t[n].a \in LoadLines /\ \A v \in Way : dd[DCACHE_INDEX(t[n].a)][v] = DCACHE_TAG(t[n].a) => v = t[n].w
  <2>1. CASE n \in 1 .. L
    BY <1>2, <1>4, <2>1 DEF Wanted
  <2>2. CASE n = L + 1
    BY <1>2, <1>4, <2>2
  <2>3. QED
    BY <1>3, <2>1, <2>2
<1>5. ASSUME NEW n \in 1 .. L + 1, t[n].op = "IFILL"
      PROVE  t[n].a \in FetchLines /\ \A v \in Way : id[ICACHE_INDEX(t[n].a)][v] # ICACHE_TAG(t[n].a)
  <2>1. CASE n \in 1 .. L
    BY <1>2, <1>5, <2>1 DEF Wanted
  <2>2. CASE n = L + 1
    BY <1>2, <1>5, <2>2
  <2>3. QED
    BY <1>3, <2>1, <2>2
<1>6. ASSUME NEW m \in 1 .. L + 1, NEW n \in 1 .. L + 1, t[m].a = t[n].a
      PROVE  /\ t[m].op = "LOAD" /\ t[n].op = "LOAD" => t[m].w = t[n].w
             /\ t[m].op = "IFILL" /\ t[n].op = "IFILL" => m = n
  <2>1. CASE m \in 1 .. L /\ n \in 1 .. L
    BY <1>2, <1>6, <2>1 DEF Wanted
  <2>2. CASE m = L + 1 /\ n \in 1 .. L
    BY <1>2, <1>6, <2>2
  <2>3. CASE m \in 1 .. L /\ n = L + 1
    BY <1>2, <1>6, <2>3
  <2>4. CASE m = L + 1 /\ n = L + 1
    BY <2>4
  <2>5. QED
    BY <1>3, <2>1, <2>2, <2>3, <2>4
<1>7. QED
  BY <1>2, <1>4, <1>5, <1>6 DEF Wanted

(* A line that a directory has is in the cache, or in a reply under way. *)
LEMMA WhereData ==
    ASSUME NEW dd, NEW id, NEW q, NEW st, CoreOK(dd, id, q, st), NEW a \in Lines, NEW v \in Way,
           dd[DCACHE_INDEX(a)][v] = DCACHE_TAG(a)
    PROVE  InCache(st.d, a) \/ \E n \in 1 .. Len(q) : q[n].typ = "load" /\ q[n].a = a /\ q[n].w = v
<1>1. /\ q \in Seq(Replies) /\ st \in Caches /\ FetchedOnly(st.i) /\ (\A n \in 1 .. Len(q) : Valid(q[n]))
      /\ MirrorsD(dd, End(st, q).d) /\ Len(q) \in Nat /\ Len(q) \in 0 .. Len(q)
  BY DEF CoreOK
<1>2. PICK end, x : end = End(st, q) /\ x = DCACHE_INDEX(a)
  OBVIOUS
<1>3. end.d \in Cache /\ x \in Set
  <2>1. end \in Caches
    BY <1>1, <1>2, EndTyped
  <2>2. a \in Nat
    BY LinesAre
  <2>3. QED
    BY <1>2, <2>1, <2>2, DataPlace DEF Caches
<1>4. end.d[x][v].a = a
  BY <1>1, <1>2, <1>3, DataThere
<1>5. Came(st, {q[m] : m \in 1 .. Len(q)}, end)
  BY <1>1, <1>2, Origin DEF End
<1>6. a # Empty
  BY LinesAre
<1>7. st.d[x][v].a = a \/ \E msg \in {q[m] : m \in 1 .. Len(q)} : msg.typ = "load" /\ msg.a = a /\ msg.w = v
  BY <1>3, <1>4, <1>5, <1>6 DEF Came
<1>8. QED
  BY <1>3, <1>7 DEF InCache

(* The same for instruction caches. *)
LEMMA WhereInstr ==
    ASSUME NEW dd, NEW id, NEW q, NEW st, CoreOK(dd, id, q, st), NEW a \in FetchLines, NEW v \in Way,
           id[ICACHE_INDEX(a)][v] = ICACHE_TAG(a)
    PROVE  InCache(st.i, a) \/ \E n \in 1 .. Len(q) : q[n].typ = "ifill_1" /\ q[n].a = a /\ q[n].w = v
<1>1. /\ q \in Seq(Replies) /\ st \in Caches /\ FetchedOnly(st.i) /\ (\A n \in 1 .. Len(q) : Valid(q[n]))
      /\ MirrorsI(id, End(st, q).i) /\ Len(q) \in Nat /\ Len(q) \in 0 .. Len(q)
  BY DEF CoreOK
<1>2. PICK end, x : end = End(st, q) /\ x = ICACHE_INDEX(a)
  OBVIOUS
<1>3. a \in Lines /\ a \in Nat /\ ILine(a) = a
  <2>1. a \in Lines /\ a \in Nat /\ a % 2 = 0
    BY LinesAre
  <2>2. QED
    BY <2>1, InstrPlace
<1>4. end.i \in Cache /\ FetchedOnly(end.i) /\ x \in Set
  <2>1. end \in Caches /\ FetchedOnly(end.i)
    BY <1>1, <1>2, EndTyped
  <2>2. QED
    BY <1>2, <1>3, <2>1, InstrPlace DEF Caches
<1>5. end.i[x][v].a = a
  BY <1>1, <1>2, <1>3, <1>4, InstrThere DEF FetchedOnly
<1>6. Came(st, {q[m] : m \in 1 .. Len(q)}, end)
  BY <1>1, <1>2, Origin DEF End
<1>7. a # Empty
  BY <1>3, LinesAre
<1>8. st.i[x][v].a = a \/ \E msg \in {q[m] : m \in 1 .. Len(q)} : msg.typ = "ifill_1" /\ msg.a = a /\ msg.w = v
  BY <1>4, <1>5, <1>6, <1>7 DEF Came
<1>9. QED
  BY <1>4, <1>8 DEF InCache

-----------------------------------------------------------------------------
(* The steps. *)

(* The state as the handlers see it, now and after a step. *)
LEMMA Now ==
    ASSUME IInv
    PROVE  /\ Good(Here) /\ Here.ddir = ddir /\ Here.idir = idir /\ Here.cpx = cpx
           /\ Here.l1d = l1d /\ Here.l1i = l1i
           /\ pcx \in [Core -> Seq(Requests)] /\ \A k \in Core : Wanted(ddir[k], idir[k], pcx[k])
BY DEF IInv, Here

(* The invariant holds after a step if its parts do, *)
LEMMA Then ==
    ASSUME NEW u, Good(u), Here' = u, pcx' \in [Core -> Seq(Requests)],
           \A k \in Core : Wanted(u.ddir[k], u.idir[k], pcx'[k])
    PROVE  IInv'
<1>1. Good(Here')
  OBVIOUS
<1>2. u.ddir = ddir' /\ u.idir = idir'
  BY DEF Here
<1>3. QED
  BY <1>1, <1>2 DEF IInv

(* and the handler has made the state. *)
LEMMA BecomeIs ==
    ASSUME NEW u \in World, Become(u)
    PROVE  Here' = u
<1>1. u = [ddir |-> u.ddir, idir |-> u.idir, cpx |-> u.cpx, l1d |-> u.l1d, l1i |-> u.l1i]
  BY DEF World
<1>2. ddir' = u.ddir /\ idir' = u.idir /\ cpx' = u.cpx /\ l1d' = u.l1d /\ l1i' = u.l1i
  BY DEF Become
<1>3. QED
  BY <1>1, <1>2 DEF Here

(* A request for a line has been served, *)
LEMMA LoadStep ==
    ASSUME IInv, NEW c \in Core, Load(c)
    PROVE  IInv'
<1>1. /\ Good(Here) /\ Here.ddir = ddir /\ Here.idir = idir
      /\ pcx \in [Core -> Seq(Requests)] /\ \A k \in Core : Wanted(ddir[k], idir[k], pcx[k])
  BY Now
<1>2. PICK p, a, w, u : /\ p = pcx[c] /\ a = Head(p).a /\ w = Head(p).w
                        /\ u = process_load_fast(Here, c, a, w)
  OBVIOUS
<1>3. p # <<>> /\ Head(p).op = "LOAD" /\ Become(u) /\ pcx' = [pcx EXCEPT ![c] = Tail(p)]
  BY <1>2 DEF Load, ServeLine
<1>4. p \in Seq(Requests) /\ Wanted(ddir[c], idir[c], p)
  BY <1>1, <1>2
<1>5. a \in LoadLines /\ w \in Way /\ OnlyIn(ddir[c], DCACHE_INDEX(a), DCACHE_TAG(a), w)
  <2>1. 1 \in 1 .. Len(p) /\ p[1] = Head(p) /\ p[1] \in Requests
    BY <1>3, <1>4
  <2>2. /\ p[1].op = "LOAD" => p[1].a \in LoadLines
        /\ p[1].op = "LOAD" => \A v \in Way : ddir[c][DCACHE_INDEX(p[1].a)][v] = DCACHE_TAG(p[1].a) => v = p[1].w
    BY <1>4, <2>1 DEF Wanted
  <2>3. p[1].w \in Way
    BY <2>1 DEF Requests
  <2>4. QED
    BY <1>2, <1>3, <2>1, <2>2, <2>3 DEF OnlyIn
<1>6. PICK s : s = Here /\ Good(s) /\ s.ddir = ddir /\ s.idir = idir
  BY <1>1
<1>7. Good(u) /\ GaveData(s, u, c, a, w)
  BY <1>2, <1>5, <1>6, LoadServed
<1>8. Here' = u
  BY <1>3, <1>7, BecomeIs DEF Good
<1>9. pcx' \in [Core -> Seq(Requests)] /\ pcx'[c] = Tail(p) /\ \A k \in Core : k # c => pcx'[k] = pcx[k]
  <2>1. Tail(p) \in Seq(Requests)
    BY <1>3, <1>4
  <2>2. QED
    BY <1>1, <1>3, <2>1
<1>10. ASSUME NEW k \in Core PROVE Wanted(u.ddir[k], u.idir[k], pcx'[k])
  <2>1. CASE k = c
    <3>1. PICK dd, id, ddN, idN : dd = ddir[c] /\ id = idir[c] /\ ddN = u.ddir[c] /\ idN = u.idir[c]
      OBVIOUS
    <3>2. Sets(dd, ddN, DCACHE_INDEX(a), {w}, DCACHE_TAG(a)) /\ Within(id, idN)
      BY <1>6, <1>7, <3>1 DEF GaveData
    <3>3. Wanted(ddN, idN, Tail(p))
      BY <1>2, <1>3, <1>4, <3>1, <3>2, WantedLoaded
    <3>4. QED
      BY <1>9, <2>1, <3>1, <3>3
  <2>2. CASE k # c
    <3>1. Within(ddir[k], u.ddir[k]) /\ Within(idir[k], u.idir[k]) /\ Wanted(ddir[k], idir[k], pcx[k])
      BY <1>1, <1>6, <1>7, <2>2 DEF GaveData
    <3>2. QED
      BY <1>9, <2>2, <3>1, WantedWithin
  <2>3. QED
    BY <2>1, <2>2
<1>11. QED
  BY <1>7, <1>8, <1>9, <1>10, Then

(* by the fetch handler, *)
LEMMA IfillStep ==
    ASSUME IInv, NEW c \in Core, Ifill(c)
    PROVE  IInv'
<1>1. /\ Good(Here) /\ Here.ddir = ddir /\ Here.idir = idir
      /\ pcx \in [Core -> Seq(Requests)] /\ \A k \in Core : Wanted(ddir[k], idir[k], pcx[k])
  BY Now
<1>2. PICK p, a, w, u : /\ p = pcx[c] /\ a = Head(p).a /\ w = Head(p).w
                        /\ u = process_ifill_fast(Here, c, a, w)
  OBVIOUS
<1>3. p # <<>> /\ Head(p).op = "IFILL" /\ Become(u) /\ pcx' = [pcx EXCEPT ![c] = Tail(p)]
  BY <1>2 DEF Ifill, ServeLine
<1>4. p \in Seq(Requests) /\ Wanted(ddir[c], idir[c], p)
  BY <1>1, <1>2
<1>5. a \in FetchLines /\ w \in Way /\ \A v \in Way : idir[c][ICACHE_INDEX(a)][v] # ICACHE_TAG(a)
  <2>1. 1 \in 1 .. Len(p) /\ p[1] = Head(p) /\ p[1] \in Requests
    BY <1>3, <1>4
  <2>2. /\ p[1].op = "IFILL" => p[1].a \in FetchLines
        /\ p[1].op = "IFILL" => \A v \in Way : idir[c][ICACHE_INDEX(p[1].a)][v] # ICACHE_TAG(p[1].a)
    BY <1>4, <2>1 DEF Wanted
  <2>3. p[1].w \in Way
    BY <2>1 DEF Requests
  <2>4. QED
    BY <1>2, <1>3, <2>1, <2>2, <2>3
<1>6. PICK s : s = Here /\ Good(s) /\ s.ddir = ddir /\ s.idir = idir
  BY <1>1
<1>7. Good(u) /\ GaveInstr(s, u, c, a, w)
  BY <1>2, <1>5, <1>6, IfillServed
<1>8. Here' = u
  BY <1>3, <1>7, BecomeIs DEF Good
<1>9. pcx' \in [Core -> Seq(Requests)] /\ pcx'[c] = Tail(p) /\ \A k \in Core : k # c => pcx'[k] = pcx[k]
  <2>1. Tail(p) \in Seq(Requests)
    BY <1>3, <1>4
  <2>2. QED
    BY <1>1, <1>3, <2>1
<1>10. ASSUME NEW k \in Core PROVE Wanted(u.ddir[k], u.idir[k], pcx'[k])
  <2>1. CASE k = c
    <3>1. PICK dd, id, ddN, idN : dd = ddir[c] /\ id = idir[c] /\ ddN = u.ddir[c] /\ idN = u.idir[c]
      OBVIOUS
    <3>2. Within(dd, ddN) /\ Sets(id, idN, ICACHE_INDEX(a), {w}, ICACHE_TAG(a))
      BY <1>6, <1>7, <3>1 DEF GaveInstr
    <3>3. Wanted(ddN, idN, Tail(p))
      BY <1>2, <1>3, <1>4, <3>1, <3>2, WantedFetched
    <3>4. QED
      BY <1>9, <2>1, <3>1, <3>3
  <2>2. CASE k # c
    <3>1. Within(ddir[k], u.ddir[k]) /\ Within(idir[k], u.idir[k]) /\ Wanted(ddir[k], idir[k], pcx[k])
      BY <1>1, <1>6, <1>7, <2>2 DEF GaveInstr
    <3>2. QED
      BY <1>9, <2>2, <3>1, WantedWithin
  <2>3. QED
    BY <2>1, <2>2
<1>11. QED
  BY <1>7, <1>8, <1>9, <1>10, Then

(* or what is not a request for a line has been. *)
LEMMA OtherStep ==
    ASSUME IInv, NEW u, Served(Here, u), Become(u), pcx' = pcx
    PROVE  IInv'
<1>1. /\ Here.ddir = ddir /\ Here.idir = idir
      /\ pcx \in [Core -> Seq(Requests)] /\ \A k \in Core : Wanted(ddir[k], idir[k], pcx[k])
  BY Now
<1>2. Good(u) /\ \A k \in Core : Within(ddir[k], u.ddir[k]) /\ Within(idir[k], u.idir[k])
  BY <1>1 DEF Served, Shrunk
<1>3. Here' = u
  BY <1>2, BecomeIs DEF Good
<1>4. \A k \in Core : Wanted(u.ddir[k], u.idir[k], pcx'[k])
  BY <1>1, <1>2, WantedWithin
<1>5. QED
  BY <1>1, <1>2, <1>3, <1>4, Then

(* by any of the other handlers. *)
LEMMA OtherSteps ==
    ASSUME IInv, NEW c \in Core,
           \/ Store(c) \/ BlockStore(c) \/ Swap(c) \/ Cas(c)
           \/ LoadInvalidate(c) \/ IfillInvalidate(c) \/ IfillNc(c) \/ Device(c)
    PROVE  IInv'
<1>1. Good(Here)
  BY Now
<1>2. ASSUME NEW u, Served(Here, u), ServeOther(c, u) PROVE IInv'
  BY <1>2, OtherStep DEF ServeOther
<1>3. CASE Store(c)
  <2>1. PICK a \in StoreLines : ServeOther(c, process_store(Here, c, a))
    BY <1>3 DEF Store
  <2>2. QED
    BY <1>1, <1>2, <2>1, StoreServed
<1>4. CASE BlockStore(c)
  <2>1. PICK a \in StoreLines, BST \in BOOLEAN : ServeOther(c, process_bis_bst(Here, c, a, BST))
    BY <1>4 DEF BlockStore
  <2>2. QED
    BY <1>1, <1>2, <2>1, BlockStoreServed
<1>5. CASE Swap(c)
  <2>1. PICK a \in StoreLines : ServeOther(c, process_swap_ldstub(Here, c, a))
    BY <1>5 DEF Swap
  <2>2. QED
    BY <1>1, <1>2, <2>1, SwapServed
<1>6. CASE Cas(c)
  <2>1. PICK a \in StoreLines, equal \in BOOLEAN : ServeOther(c, process_cas(Here, c, a, equal))
    BY <1>6 DEF Cas
  <2>2. QED
    BY <1>1, <1>2, <2>1, CasServed
<1>7. CASE LoadInvalidate(c)
  <2>1. PICK a \in LoadLines : ServeOther(c, process_load_invalidate(Here, c, a))
    BY <1>7 DEF LoadInvalidate
  <2>2. QED
    BY <1>1, <1>2, <2>1, OthersServed
<1>8. CASE IfillInvalidate(c)
  <2>1. PICK a \in FetchLines : ServeOther(c, process_ifill_invalidate(Here, c, a))
    BY <1>8 DEF IfillInvalidate
  <2>2. QED
    BY <1>1, <1>2, <2>1, OthersServed
<1>9. CASE IfillNc(c)
  <2>1. PICK a \in FetchLines : ServeOther(c, process_ifill_nc(Here, c, a))
    BY <1>9 DEF IfillNc
  <2>2. QED
    BY <1>1, <1>2, <2>1, OthersServed
<1>10. CASE Device(c)
  BY <1>1, <1>2, <1>10, OthersServed DEF Device
<1>11. QED
  BY <1>3, <1>4, <1>5, <1>6, <1>7, <1>8, <1>9, <1>10

(* The core has applied a reply, *)
LEMMA ReceiveStep ==
    ASSUME IInv, NEW c \in Core, Receive(c)
    PROVE  IInv'
<1>1. /\ Good(Here) /\ Here.ddir = ddir /\ Here.idir = idir /\ Here.cpx = cpx
      /\ Here.l1d = l1d /\ Here.l1i = l1i
      /\ pcx \in [Core -> Seq(Requests)] /\ \A k \in Core : Wanted(ddir[k], idir[k], pcx[k])
  BY Now
<1>2. PICK s : /\ s = Here /\ Good(s) /\ s.ddir = ddir /\ s.idir = idir /\ s.cpx = cpx
               /\ s.l1d = l1d /\ s.l1i = l1i
  BY <1>1
<1>3. PICK new : new = Apply(CachesOf(s, c), Head(s.cpx[c]))
  OBVIOUS
<1>4. PICK t : t = [s EXCEPT !.l1d[c] = new.d, !.l1i[c] = new.i, !.cpx[c] = Tail(s.cpx[c])]
  OBVIOUS
<1>5. s.cpx[c] # <<>>
  BY <1>2 DEF Receive
<1>6. Good(t) /\ t.ddir = s.ddir /\ t.idir = s.idir
  <2>1. Received(s, t, c, new)
    BY <1>3, <1>4, <1>5 DEF Received
  <2>2. QED
    BY <1>2, <2>1, ReceiveGood
<1>7. /\ t.l1d = [l1d EXCEPT ![c] = new.d] /\ t.l1i = [l1i EXCEPT ![c] = new.i]
      /\ t.cpx = [cpx EXCEPT ![c] = Tail(cpx[c])]
  <2>1. s \in World
    BY <1>2 DEF Good
  <2>2. QED
    BY <1>2, <1>4, <2>1 DEF World
<1>8. CachesOf(s, c) = [d |-> l1d[c], i |-> l1i[c]]
  BY <1>2 DEF CachesOf
<1>9. l1d' = t.l1d /\ l1i' = t.l1i /\ cpx' = t.cpx /\ pcx' = pcx /\ ddir' = t.ddir /\ idir' = t.idir
  <2>1. new = Apply([d |-> l1d[c], i |-> l1i[c]], Head(cpx[c]))
    BY <1>2, <1>3, <1>8
  <2>2. QED
    BY <1>2, <1>6, <1>7, <2>1 DEF Receive
<1>10. Here' = t
  <2>1. t = [ddir |-> t.ddir, idir |-> t.idir, cpx |-> t.cpx, l1d |-> t.l1d, l1i |-> t.l1i]
    BY <1>6 DEF Good, World
  <2>2. QED
    BY <1>9, <2>1 DEF Here
<1>11. \A k \in Core : Wanted(t.ddir[k], t.idir[k], pcx'[k])
  BY <1>1, <1>2, <1>6, <1>9
<1>12. QED
  BY <1>1, <1>6, <1>9, <1>10, <1>11, Then

(* or sent a request. *)
LEMMA IssueStep ==
    ASSUME IInv, NEW c \in Core, NEW r \in Requests, Issue(c, r), Wanted(ddir[c], idir[c], Append(pcx[c], r))
    PROVE  IInv'
<1>1. /\ Good(Here) /\ Here.ddir = ddir /\ Here.idir = idir
      /\ pcx \in [Core -> Seq(Requests)] /\ \A k \in Core : Wanted(ddir[k], idir[k], pcx[k])
  BY Now
<1>2. Here' = Here /\ pcx' = [pcx EXCEPT ![c] = Append(pcx[c], r)]
  BY DEF Issue, Here
<1>3. PICK q \in Seq(Requests) : q = Append(pcx[c], r)
  <2>1. pcx[c] \in Seq(Requests)
    BY <1>1
  <2>2. Append(pcx[c], r) \in Seq(Requests)
    BY <2>1, AppendProperties
  <2>3. QED
    BY <2>2
<1>4. pcx' \in [Core -> Seq(Requests)] /\ pcx'[c] = q /\ \A k \in Core : k # c => pcx'[k] = pcx[k]
  BY <1>1, <1>2, <1>3
<1>5. \A k \in Core : Wanted(ddir[k], idir[k], pcx'[k])
  BY <1>1, <1>3, <1>4
<1>6. PICK u : u = Here
  OBVIOUS
<1>7. Good(u) /\ Here' = u /\ u.ddir = ddir /\ u.idir = idir
  BY <1>1, <1>2, <1>6
<1>8. QED
  BY <1>4, <1>5, <1>7, Then

(* A load asks for the way that an earlier one of the same line has asked for, *)
LEMMA IssueLoadStep ==
    ASSUME IInv, NEW c \in Core, IssueLoad(c)
    PROVE  IInv'
<1>1. /\ Good(Here) /\ Here.ddir = ddir /\ Here.idir = idir /\ Here.cpx = cpx
      /\ Here.l1d = l1d /\ Here.l1i = l1i
      /\ pcx \in [Core -> Seq(Requests)] /\ \A k \in Core : Wanted(ddir[k], idir[k], pcx[k])
  BY Now
<1>2. PICK a \in LoadLines, w \in Way : /\ ~InCache(l1d[c], a)
                                        /\ PendingWays(c, "LOAD", "load", a) \subseteq {w}
                                        /\ Issue(c, Request("LOAD", a, w))
  BY DEF IssueLoad
<1>3. PICK p, q, st, dd, id : /\ p = pcx[c] /\ q = cpx[c] /\ dd = ddir[c] /\ id = idir[c]
                              /\ st = CachesOf(Here, c)
  OBVIOUS
<1>4. /\ CoreOK(dd, id, q, st) /\ Wanted(dd, id, p) /\ st.d = l1d[c]
      /\ p \in Seq(Requests) /\ q \in Seq(Replies)
  <2>1. CoreOK(dd, id, q, st)
    BY <1>1, <1>3 DEF Good, OK
  <2>2. st.d = l1d[c]
    BY <1>1, <1>3 DEF CachesOf
  <2>3. QED
    BY <1>1, <1>3, <2>1, <2>2 DEF CoreOK
<1>5. \A n \in 1 .. Len(p) : p[n].op = "LOAD" /\ p[n].a = a => p[n].w = w
  <2>1. DOMAIN p = 1 .. Len(p)
    BY <1>4
  <2>2. \A n \in 1 .. Len(p) : p[n].op = "LOAD" /\ p[n].a = a => p[n].w \in PendingWays(c, "LOAD", "load", a)
    BY <1>3, <2>1 DEF PendingWays
  <2>3. QED
    BY <1>2, <2>2
<1>6. \A n \in 1 .. Len(q) : q[n].typ = "load" /\ q[n].a = a /\ q[n].w # NoWay => q[n].w = w
  <2>1. DOMAIN q = 1 .. Len(q)
    BY <1>4
  <2>2. \A n \in 1 .. Len(q) : q[n].typ = "load" /\ q[n].a = a /\ q[n].w # NoWay
                                 => q[n].w \in PendingWays(c, "LOAD", "load", a)
    BY <1>3, <2>1 DEF PendingWays
  <2>3. QED
    BY <1>2, <2>2
<1>7. ASSUME NEW v \in Way, dd[DCACHE_INDEX(a)][v] = DCACHE_TAG(a) PROVE v = w
  <2>1. a \in Lines
    BY LinesAre
  <2>2. PICK n \in 1 .. Len(q) : q[n].typ = "load" /\ q[n].a = a /\ q[n].w = v
    BY <1>2, <1>4, <1>7, <2>1, WhereData
  <2>3. v # NoWay
    BY DirAssumption DEF Way, NoWay
  <2>4. QED
    BY <1>6, <2>2, <2>3
<1>8. PICK r : r = Request("LOAD", a, w)
  OBVIOUS
<1>9. r \in Requests /\ r.op = "LOAD" /\ r.a = a /\ r.w = w
  BY <1>8 DEF Request, Requests
<1>10. Wanted(dd, id, Append(p, r))
  BY <1>4, <1>5, <1>7, <1>9, WantedMore
<1>11. QED
  BY <1>2, <1>3, <1>8, <1>9, <1>10, IssueStep

(* and a fetch is sent once. *)
LEMMA IssueFetchStep ==
    ASSUME IInv, NEW c \in Core, IssueFetch(c)
    PROVE  IInv'
<1>1. /\ Good(Here) /\ Here.ddir = ddir /\ Here.idir = idir /\ Here.cpx = cpx
      /\ Here.l1d = l1d /\ Here.l1i = l1i
      /\ pcx \in [Core -> Seq(Requests)] /\ \A k \in Core : Wanted(ddir[k], idir[k], pcx[k])
  BY Now
<1>2. PICK a \in FetchLines, w \in Way : /\ ~InCache(l1i[c], a)
                                         /\ PendingWays(c, "IFILL", "ifill_1", a) = {}
                                         /\ Issue(c, Request("IFILL", a, w))
  BY DEF IssueFetch
<1>3. PICK p, q, st, dd, id : /\ p = pcx[c] /\ q = cpx[c] /\ dd = ddir[c] /\ id = idir[c]
                              /\ st = CachesOf(Here, c)
  OBVIOUS
<1>4. /\ CoreOK(dd, id, q, st) /\ Wanted(dd, id, p) /\ st.i = l1i[c]
      /\ p \in Seq(Requests) /\ q \in Seq(Replies)
  <2>1. CoreOK(dd, id, q, st)
    BY <1>1, <1>3 DEF Good, OK
  <2>2. st.i = l1i[c]
    BY <1>1, <1>3 DEF CachesOf
  <2>3. QED
    BY <1>1, <1>3, <2>1, <2>2 DEF CoreOK
<1>5. \A n \in 1 .. Len(p) : ~(p[n].op = "IFILL" /\ p[n].a = a)
  <2>1. DOMAIN p = 1 .. Len(p)
    BY <1>4
  <2>2. \A n \in 1 .. Len(p) : p[n].op = "IFILL" /\ p[n].a = a => p[n].w \in PendingWays(c, "IFILL", "ifill_1", a)
    BY <1>3, <2>1 DEF PendingWays
  <2>3. QED
    BY <1>2, <2>2
<1>6. \A n \in 1 .. Len(q) : ~(q[n].typ = "ifill_1" /\ q[n].a = a /\ q[n].w # NoWay)
  <2>1. DOMAIN q = 1 .. Len(q)
    BY <1>4
  <2>2. \A n \in 1 .. Len(q) : q[n].typ = "ifill_1" /\ q[n].a = a /\ q[n].w # NoWay
                                 => q[n].w \in PendingWays(c, "IFILL", "ifill_1", a)
    BY <1>3, <2>1 DEF PendingWays
  <2>3. QED
    BY <1>2, <2>2
<1>7. ASSUME NEW v \in Way, id[ICACHE_INDEX(a)][v] = ICACHE_TAG(a) PROVE FALSE
  <2>1. PICK n \in 1 .. Len(q) : q[n].typ = "ifill_1" /\ q[n].a = a /\ q[n].w = v
    BY <1>2, <1>4, <1>7, WhereInstr
  <2>2. v # NoWay
    BY DirAssumption DEF Way, NoWay
  <2>3. QED
    BY <1>6, <2>1, <2>2
<1>8. PICK r : r = Request("IFILL", a, w)
  OBVIOUS
<1>9. r \in Requests /\ r.op = "IFILL" /\ r.a = a /\ r.w = w
  BY <1>8 DEF Request, Requests
<1>10. Wanted(dd, id, Append(p, r))
  BY <1>4, <1>5, <1>7, <1>9, WantedMore
<1>11. QED
  BY <1>2, <1>3, <1>8, <1>9, <1>10, IssueStep

-----------------------------------------------------------------------------
(* The inductive invariant holds of empty caches and links, *)
LEMMA EmptyCore ==
    ASSUME NEW dir, dir = init_l1_reverse_dir, NEW st, NEW d, d = [x \in Set |-> [w \in Way |-> NoCopy]],
           st = [d |-> d, i |-> d], NEW q, q = <<>>
    PROVE  CoreOK(dir, dir, q, st) /\ UpToDate(End(st, q))
<1>1. \A x \in Set, w \in Way : dir[x][w] = INVALID_TAG /\ d[x][w] = NoCopy
  BY DEF init_l1_reverse_dir
<1>2. NoCopy \in Copies /\ NoCopy.a = Empty /\ NoCopy.m = Fresh
  BY DEF NoCopy, Copies, Marks, Fresh
<1>3. d \in Cache /\ st \in Caches /\ st.d = d /\ st.i = d
  <2>1. d \in Cache
    BY <1>2 DEF Cache
  <2>2. QED
    BY <2>1, PairIs
<1>4. dir \in DDirectory(Lines) /\ dir \in IDirectory(Lines)
  BY DEF init_l1_reverse_dir, DDirectory, IDirectory
<1>5. Unique(dir)
  BY <1>1 DEF Unique
<1>6. q \in Seq(Replies) /\ Len(q) = 0
  OBVIOUS
<1>7. End(st, q) = st
  BY <1>6, ReplayIs DEF End
<1>8. FetchedOnly(st.i)
  BY <1>1, <1>2, <1>3 DEF FetchedOnly
<1>9. Acks(st, q) /\ \A n \in 1 .. Len(q) : Valid(q[n])
  BY <1>6 DEF Acks
<1>10. MirrorsD(dir, st.d) /\ MirrorsI(dir, st.i)
  BY <1>1, <1>2, <1>3 DEF MirrorsD, MirrorsI
<1>11. UpToDate(st)
  BY <1>1, <1>2, <1>3 DEF UpToDate
<1>12. QED
  BY <1>3, <1>4, <1>5, <1>6, <1>7, <1>8, <1>9, <1>10, <1>11 DEF CoreOK

(* as they are at first, *)
LEMMA InitInv ==
    ASSUME Init
    PROVE  IInv
<1>1. PICK dir, d : dir = init_l1_reverse_dir /\ d = [x \in Set |-> [w \in Way |-> NoCopy]]
  OBVIOUS
<1>2. /\ ddir = [c \in Core |-> dir] /\ idir = [c \in Core |-> dir] /\ cpx = [c \in Core |-> <<>>]
      /\ pcx = [c \in Core |-> <<>>] /\ l1d = [c \in Core |-> d] /\ l1i = [c \in Core |-> d]
  BY <1>1 DEF Init
<1>3. PICK st : st = [d |-> d, i |-> d]
  OBVIOUS
<1>4. CoreOK(dir, dir, <<>>, st) /\ UpToDate(End(st, <<>>))
  BY <1>1, <1>3, EmptyCore
<1>5. dir \in DDirectory(Lines) /\ dir \in IDirectory(Lines) /\ d \in Cache
  <2>1. st \in Caches
    BY <1>4 DEF CoreOK
  <2>2. QED
    BY <1>3, <1>4, <2>1 DEF CoreOK, Caches
<1>6. PICK s : s = Here
  OBVIOUS
<1>7. s.ddir = ddir /\ s.idir = idir /\ s.cpx = cpx /\ s.l1d = l1d /\ s.l1i = l1i
  BY <1>6 DEF Here
<1>8. s \in World
  <2>1. cpx \in [Core -> Seq(Replies)]
    BY <1>2
  <2>2. QED
    BY <1>2, <1>5, <1>6, <2>1 DEF Here, World
<1>9. ASSUME NEW k \in Core PROVE OK(s, k) /\ UpToDate(EndOf(s, k))
  <2>1. CachesOf(s, k) = st /\ s.ddir[k] = dir /\ s.idir[k] = dir /\ s.cpx[k] = <<>>
    BY <1>2, <1>3, <1>7 DEF CachesOf
  <2>2. QED
    BY <1>4, <2>1 DEF OK, EndOf
<1>10. Apart(s)
  <2> SUFFICES ASSUME NEW a \in Lines, NEW c \in Core PROVE search_dcache(s.ddir[c], a) = NoWay
    BY DEF Apart
  <2>1. \A x \in Set, w \in Way : s.ddir[c][x][w] = INVALID_TAG
    BY <1>1, <1>2, <1>7 DEF init_l1_reverse_dir
  <2>2. a \in Nat
    BY LinesAre
  <2>3. DCACHE_INDEX(a) \in Set /\ DCACHE_TAG(a) # INVALID_TAG
    BY <2>2, DataPlace
  <2>4. QED
    BY <2>1, <2>3, Searches DEF Found
<1>11. Good(Here)
  BY <1>6, <1>8, <1>9, <1>10 DEF Good
<1>12. pcx \in [Core -> Seq(Requests)]
  BY <1>2
<1>13. ASSUME NEW k \in Core PROVE Wanted(ddir[k], idir[k], pcx[k])
  <2>1. pcx[k] = <<>>
    BY <1>2
  <2>2. Len(<<>>) = 0 /\ <<>> \in Seq(Requests)
    OBVIOUS
  <2>3. Wanted(ddir[k], idir[k], <<>>)
    BY <2>2 DEF Wanted
  <2>4. QED
    BY <2>1, <2>3
<1>14. QED
  BY <1>11, <1>12, <1>13 DEF IInv

(* and after every step. *)
LEMMA NextInv ==
    ASSUME IInv, [Next]_vars
    PROVE  IInv'
<1>1. CASE UNCHANGED vars
  <2>1. PICK u : u = Here
    OBVIOUS
  <2>2. Here' = u /\ pcx' = pcx
    BY <1>1, <2>1 DEF vars, Here
  <2>3. Good(u) /\ u.ddir = ddir /\ u.idir = idir
    BY <2>1, Now
  <2>4. QED
    BY <2>2, <2>3, Now, Then
<1>2. CASE Next
  <2>1. PICK c \in Core :
          \/ IssueLoad(c) \/ IssueFetch(c) \/ Receive(c)
          \/ Load(c) \/ Ifill(c) \/ Store(c) \/ BlockStore(c) \/ Swap(c) \/ Cas(c)
          \/ LoadInvalidate(c) \/ IfillInvalidate(c)
          \/ IfillNc(c) \/ Device(c)
    BY <1>2 DEF Next
  <2>2. CASE IssueLoad(c)
    BY <2>2, IssueLoadStep
  <2>3. CASE IssueFetch(c)
    BY <2>3, IssueFetchStep
  <2>4. CASE Receive(c)
    BY <2>4, ReceiveStep
  <2>5. CASE Load(c)
    BY <2>5, LoadStep
  <2>6. CASE Ifill(c)
    BY <2>6, IfillStep
  <2>7. CASE \/ Store(c) \/ BlockStore(c) \/ Swap(c) \/ Cas(c)
             \/ LoadInvalidate(c) \/ IfillInvalidate(c) \/ IfillNc(c) \/ Device(c)
    BY <2>7, OtherSteps
  <2>8. QED
    BY <2>1, <2>2, <2>3, <2>4, <2>5, <2>6, <2>7
<1>3. QED
  BY <1>1, <1>2

-----------------------------------------------------------------------------
(* What is proved of the emulated cache. *)

(* The inductive invariant: the handlers of mbfw_l2_emul.c keep, core by    *)
(* core, directory and caches together across whatever is still under way. *)
THEOREM Inductive == Spec => []IInv
<1>1. Init => IInv
  BY InitInv
<1>2. IInv /\ [Next]_vars => IInv'
  BY NextInv
<1>3. QED
  BY <1>1, <1>2, PTL DEF Spec

(* All variables stay typed. *)
THEOREM Typed == Spec => []TypeOK
<1>1. IInv => TypeOK
  <2> SUFFICES ASSUME IInv PROVE TypeOK
    OBVIOUS
  <2>1. Here \in World /\ pcx \in [Core -> Seq(Requests)]
    BY DEF IInv, Good
  <2>2. QED
    BY <2>1 DEF Here, World, TypeOK
<1>2. QED
  BY <1>1, Inductive, PTL

(* The reverse directory (mbfw_reverse_dir.c) holds, way by way, the line   *)
(* that the L1 cache will hold when what is under way to it has arrived.   *)
THEOREM DirectoryIsMirror == Spec => []DirectoryMirrorsL1
<1>1. IInv => DirectoryMirrorsL1
  <2> SUFFICES ASSUME IInv, NEW c \in Core, NEW x \in Set, NEW w \in Way
               PROVE  /\ IF Drained(c).d[x][w].a = Empty THEN ddir[c][x][w] = INVALID_TAG
                         ELSE /\ DCACHE_INDEX(Drained(c).d[x][w].a) = x
                              /\ ddir[c][x][w] = DCACHE_TAG(Drained(c).d[x][w].a)
                      /\ IF Drained(c).i[x][w].a = Empty THEN idir[c][x][w] = INVALID_TAG
                         ELSE /\ ICACHE_INDEX(Drained(c).i[x][w].a) = x
                              /\ idir[c][x][w] = ICACHE_TAG(Drained(c).i[x][w].a)
    BY DEF DirectoryMirrorsL1
  <2>1. Good(Here) /\ Here.ddir = ddir /\ Here.idir = idir /\ Here.cpx = cpx /\ Here.l1d = l1d /\ Here.l1i = l1i
    BY Now
  <2>2. PICK end : end = Drained(c) /\ end = EndOf(Here, c)
    BY <2>1 DEF Drained, EndOf, End, CachesOf
  <2>3. MirrorsD(ddir[c], end.d) /\ MirrorsI(idir[c], end.i)
    BY <2>1, <2>2, EndOfTyped DEF Good
  <2>4. QED
    BY <2>2, <2>3 DEF MirrorsD, MirrorsI
<1>2. QED
  BY <1>1, Inductive, PTL

(* Coherence: no cache will hold a line that memory does not agree with,    *)
(* but for the zeroing of block stores (process_bis_bst).                  *)
THEOREM Coherent == Spec => []NoStaleCopies
<1>1. IInv => NoStaleCopies
  <2> SUFFICES ASSUME IInv, NEW c \in Core, NEW x \in Set, NEW w \in Way
               PROVE  Drained(c).d[x][w].m = Fresh /\ Drained(c).i[x][w].m \in {Fresh, Zeroed}
    BY DEF NoStaleCopies
  <2>1. Good(Here) /\ Here.cpx = cpx /\ Here.l1d = l1d /\ Here.l1i = l1i
    BY Now
  <2>2. PICK end : end = Drained(c) /\ end = EndOf(Here, c)
    BY <2>1 DEF Drained, EndOf, End, CachesOf
  <2>3. UpToDate(end)
    BY <2>1, <2>2 DEF Good
  <2>4. QED
    BY <2>2, <2>3 DEF UpToDate
<1>2. QED
  BY <1>1, Inductive, PTL

(* No line is in a data and in an instruction cache, which the search of    *)
(* invalidate_other_cache relies on.                                       *)
THEOREM Separate == Spec => []DataOrInstruction
<1>1. IInv => DataOrInstruction
  BY Now DEF Good, Apart, DataOrInstruction
<1>2. QED
  BY <1>1, Inductive, PTL
=============================================================================
