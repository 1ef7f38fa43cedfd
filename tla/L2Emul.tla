------------------------------- MODULE L2Emul -------------------------------
(***************************************************************************)
(* The L2 cache that the original firmware stands in for                   *)
(* (mbfw_l2_emul.c): it keeps no data of its own, reads and writes memory  *)
(* directly, and keeps the L1 caches of the cores coherent through the     *)
(* reverse directory of module ReverseDir.  Each core and its L1 caches    *)
(* are the environment: a core sends requests through a FIFO (pcx) and     *)
(* applies the replies of another FIFO (cpx) in order, some time later.    *)
(*                                                                         *)
(* The data is reduced to what coherence needs: every copy of a line, in a *)
(* cache or in a reply under way, is marked with the number of stores of   *)
(* its own core whose acknowledgement still has to update it; or as Stale, *)
(* when memory has changed in any other way; or as Zeroed, when only the   *)
(* zeroing of a block store has changed it.                                *)
(*                                                                         *)
(* Atomics are never cacheable and prefetches neither, a second load of a  *)
(* line whose fill is under way asks for the way of the first, and a line  *)
(* fetch of instructions is sent once and aligned: that is how the         *)
(* load-store and the fetch unit of the core build their requests.         *)
(***************************************************************************)
EXTENDS ReverseDir, Sequences

CONSTANTS
  Core,          \* the T1 cores: two when the second board is there
  LoadLines,     \* granules that are loaded into data caches
  FetchLines,    \* (even) granules that are fetched into instruction caches
  StoreLines,    \* granules that are written
  L2_LINE,       \* T1_L2_CACHE_LINE_SIZE, in granules (4)
  MaxOut,        \* bound: requests, of all cores, that are not yet answered
  MaxReplies     \* bound: replies under way to a core (the link is finite, sending waits)

ASSUME L2Assumption ==
  /\ LoadLines \subseteq Nat /\ FetchLines \subseteq Nat /\ StoreLines \subseteq Nat
  /\ \A a \in FetchLines : a % 2 = 0
  /\ L2_LINE \in Nat \ {0} /\ MaxOut \in Nat \ {0}
  /\ MaxReplies \in Nat \ {0, 1}

VARIABLES
  pcx,    \* requests of each core on their way to the firmware
  cpx,    \* replies on their way to each core
  ddir,   \* dcache_reverse_dir
  idir,   \* icache_reverse_dir
  l1d,    \* what each way of each data cache really holds
  l1i     \* the same for the instruction caches

vars == <<pcx, cpx, ddir, idir, l1d, l1i>>

Lines == LoadLines \cup FetchLines \cup StoreLines \cup {a + 1 : a \in FetchLines}

Fresh  == 0
Stale  == -1
Zeroed == -2
Marks  == {Zeroed, Stale} \cup Nat
Empty  == -1
NoCopy == [a |-> Empty, m |-> Fresh]
Copies == [a : Lines \cup {Empty}, m : Marks]
Cache  == [Set -> [Way -> Copies]]

ILine(a) == a - (a % 2)
-----------------------------------------------------------------------------
(***************************************************************************)
(* Requests (pcx) and replies (cpx).  Only a request for a line depends on *)
(* what the core holds when it is sent: those wait in pcx.  Any other kind *)
(* may be sent at any time, so it is taken to be sent, behind whatever it  *)
(* must be behind, when its turn comes.  A reply names the way it fills    *)
(* and the ways it invalidates or updates; Final replies answer a request. *)
(***************************************************************************)
Request(op, a, w) == [op |-> op, a |-> a, w |-> w]
Requests == [op : {"LOAD", "IFILL"}, a : LoadLines \cup FetchLines, w : Way]

Reply(typ, a, w, dw, iw) == [typ |-> typ, a |-> a, w |-> w, dw |-> dw, iw |-> iw, m |-> Fresh]
Final   == {"load", "ifill_1", "no_fill", "store_ack", "inv_ack", "atomic_ack", "inv_all_d", "inv_all_i"}
Replies == [typ : Final \cup {"atomic_load", "ifill_0", "evict_inv"}, a : Lines \cup {0},
            w : Way \cup {NoWay}, dw : Way \cup {NoWay}, iw : Way \cup {NoWay}, m : Marks]

\* What a handler works on: the directories, the replies, and the marks.
Here == [ddir |-> ddir, idir |-> idir, cpx |-> cpx, l1d |-> l1d, l1i |-> l1i]
Become(s) == /\ \A c \in Core : Len(s.cpx[c]) <= MaxReplies
             /\ ddir' = s.ddir /\ idir' = s.idir /\ cpx' = s.cpx
             /\ l1d' = s.l1d /\ l1i' = s.l1i

Send(s, c, msg) == [s EXCEPT !.cpx[c] = Append(@, msg)]
-----------------------------------------------------------------------------
(***************************************************************************)
(* Writing memory leaves marks.  An ordinary store is followed by its      *)
(* acknowledgement, which updates the copy of the storing core (own).      *)
(***************************************************************************)
Missed(m, own) == IF m >= 0 /\ own THEN m + 1 ELSE Stale
MarkAll(s, D(_, _, _), I(_, _)) ==
  LET d(k, y) == [y EXCEPT !.m = D(k, y.a, y.m)]
      i(y)    == [y EXCEPT !.m = I(y.a, y.m)]
      reply(k, msg) == CASE msg.typ = "load"    -> d(k, msg)
                         [] msg.typ = "ifill_1" -> i(msg)
                         [] OTHER               -> msg
  IN [s EXCEPT
       !.l1d = [k \in Core |-> [x \in Set |-> [w \in Way |-> d(k, s.l1d[k][x][w])]]],
       !.l1i = [k \in Core |-> [x \in Set |-> [w \in Way |-> i(s.l1i[k][x][w])]]],
       !.cpx = [k \in Core |-> [n \in DOMAIN s.cpx[k] |-> reply(k, s.cpx[k][n])]]]

Write(s, c, a, updates) ==
  MarkAll(s, LAMBDA k, line, m : IF line = a THEN Missed(m, updates /\ k = c) ELSE m,
             LAMBDA line, m    : IF line = ILine(a) THEN Stale ELSE m)

\* process_bis_bst zeroes the L2 line that starts at a.
ZeroLine(s, a) ==
  LET L2Line == a .. a + L2_LINE - 1
  IN  MarkAll(s, LAMBDA k, line, m : IF line \in L2Line THEN Stale ELSE m,
                 LAMBDA line, m    : IF line \in L2Line /\ m # Stale THEN Zeroed ELSE m)
-----------------------------------------------------------------------------
(***************************************************************************)
(* Invalidations of the caches of the cores other than c, each announced   *)
(* by an eviction message to its core.                                     *)
(***************************************************************************)
DEvict(a, w) == Reply("evict_inv", a, NoWay, w, NoWay)
IEvict(a, w) == Reply("evict_inv", a, NoWay, NoWay, w)

invalidate_other_dcache(s, c, a) ==
  LET way(k) == IF k = c THEN NoWay ELSE search_dcache(s.ddir[k], a)
  IN [s EXCEPT
       !.ddir = [k \in Core |-> IF k = c THEN @[k] ELSE invalidate_dcache(@[k], a)],
       !.cpx  = [k \in Core |-> IF way(k) = NoWay THEN @[k] ELSE Append(@[k], DEvict(a, way(k)))]]

invalidate_other_icache(s, c, a) ==
  LET way(k) == IF k = c THEN NoWay ELSE search_icache(s.idir[k], a)
  IN [s EXCEPT
       !.idir = [k \in Core |-> IF k = c THEN @[k] ELSE invalidate_icache(@[k], a)],
       !.cpx  = [k \in Core |-> IF way(k) = NoWay THEN @[k] ELSE Append(@[k], IEvict(a, way(k)))]]

\* (Mutant: the instruction caches are forgotten.)
InvalidateOtherDataOnly(s, c, a) == invalidate_other_dcache(s, c, a)

\* Per core: the instruction cache only if the data cache did not hold the line.
invalidate_other_cache(s, c, a) ==
  LET inD(k)  == k # c /\ search_dcache(s.ddir[k], a) # NoWay
      inI(k)  == k # c /\ ~inD(k) /\ search_icache(s.idir[k], a) # NoWay
  IN [s EXCEPT
       !.ddir = [k \in Core |-> IF inD(k) THEN invalidate_dcache(@[k], a) ELSE @[k]],
       !.idir = [k \in Core |-> IF inI(k) THEN invalidate_icache(@[k], a) ELSE @[k]],
       !.cpx  = [k \in Core |->
                  CASE inD(k) -> Append(@[k], DEvict(a, search_dcache(s.ddir[k], a)))
                    [] inI(k) -> Append(@[k], IEvict(a, search_icache(s.idir[k], a)))
                    [] OTHER  -> @[k]]]
-----------------------------------------------------------------------------
return_load_req(s, c, typ, a, w, cacheable) ==
  IF ~cacheable THEN Send(s, c, Reply(typ, a, NoWay, NoWay, NoWay))
  ELSE LET t == invalidate_other_icache(s, c, a)
       IN  Send([t EXCEPT !.idir[c] = invalidate_icache(@, a)], c,
                Reply(typ, a, w, NoWay, search_icache(t.idir[c], a)))

\* The line is invalidated or, by an ordinary store, only looked up in the
\* data cache of c; its instruction cache is tried if it is not there.
return_store_ack(s, c, typ, a, INVALIDATE_DCACHE) ==
  LET t  == invalidate_other_cache(s, c, a)
      dw == search_dcache(t.ddir[c], a)
      iw == IF dw = NoWay THEN search_icache(t.idir[c], a) ELSE NoWay
  IN  Send([t EXCEPT !.ddir[c] = IF INVALIDATE_DCACHE THEN invalidate_dcache(@, a) ELSE @,
                     !.idir[c] = IF dw = NoWay THEN invalidate_icache(@, a) ELSE @],
           c, Reply(typ, a, NoWay, dw, iw))

process_load_fast(s, c, a, w) ==
  return_load_req([s EXCEPT !.ddir[c] = add_dcache_line(@, a, w)], c, "load", a, w, TRUE)

\* (Mutant: only the way that holds the line is forgotten.)
LoadInvalidateOneWay(s, c, a) ==
  Send([s EXCEPT !.ddir[c] = invalidate_dcache(@, a)], c,
       Reply("inv_all_d", a, NoWay, NoWay, NoWay))
process_load_invalidate(s, c, a) ==
  Send([s EXCEPT !.ddir[c] = dcache_invalidate_all_ways(@, a)], c,
       Reply("inv_all_d", a, NoWay, NoWay, NoWay))

process_store(s, c, a) == return_store_ack(Write(s, c, a, TRUE), c, "store_ack", a, FALSE)

\* No line of the L2 line of a is in a data cache; the second loop goes on
\* from where the first has stopped, behind that line.
is_l2_miss(s, a) ==
  LET base == a - (a % L2_LINE)
  IN  \A k \in Core :
        /\ \A i \in 0 .. L2_LINE - 1 : search_dcache(s.ddir[k], base + i) = NoWay
        /\ \A i \in 0 .. L2_LINE \div 2 - 1 :
             search_icache(s.idir[k], base + L2_LINE + 2 * i) = NoWay

process_bis_bst(s, c, a, BST) ==
  LET t == IF ~BST /\ a % L2_LINE = 0 /\ is_l2_miss(s, a) THEN ZeroLine(s, a) ELSE s
  IN  return_store_ack(Write(t, c, a, FALSE), c, "inv_ack", a, TRUE)

process_ifill_invalidate(s, c, a) ==
  Send([s EXCEPT !.idir[c] = icache_invalidate_all_ways(@, a)], c,
       Reply("inv_all_i", a, NoWay, NoWay, NoWay))

\* One half of the line of a fetch: the data caches give up that half first.
IfillHalf(s, c, typ, a, line, w) ==
  LET t == invalidate_other_dcache(s, c, a)
  IN  Send([t EXCEPT !.ddir[c] = invalidate_dcache(@, a)], c,
           Reply(typ, line, w, search_dcache(t.ddir[c], a), NoWay))

\* (Mutant: the data caches give up the first half only.)
FirstHalfOnly(s, c, a, w) ==
  Send(IfillHalf(s, c, "ifill_0", a, a, NoWay), c, Reply("ifill_1", a, w, NoWay, NoWay))
BothHalves(s, c, a, w) ==
  IfillHalf(IfillHalf(s, c, "ifill_0", a, a, NoWay), c, "ifill_1", a + 1, a, w)
process_ifill_fast(s, c, a, w) ==
  BothHalves([s EXCEPT !.idir[c] = add_icache_line(@, a, w)], c, a, w)

\* The old value goes back in a load reply, then the line is written (a
\* compare that fails writes nothing) and invalidated everywhere.
process_swap_ldstub(s, c, a) ==
  LET t == return_load_req(s, c, "atomic_load", a, NoWay, FALSE)
  IN  return_store_ack(Write(t, c, a, FALSE), c, "atomic_ack", a, TRUE)

process_cas(s, c, a, equal) ==
  LET t == return_load_req(s, c, "atomic_load", a, NoWay, FALSE)
  IN  return_store_ack(IF equal THEN Write(t, c, a, FALSE) ELSE t, c, "atomic_ack", a, TRUE)

\* The slow paths: a fetch that is not cacheable, and what gets a reply that
\* fills and invalidates nothing (a load that is not cacheable, a fetch from
\* IO space, any access to a register of the UART, the Ethernet emulation or
\* the interrupt controller).
process_ifill_nc(s, c, a) == BothHalves(s, c, a, NoWay)
process_device(s, c)      == Send(s, c, Reply("no_fill", 0, NoWay, NoWay, NoWay))
-----------------------------------------------------------------------------
(***************************************************************************)
(* A core.  Issue sends a request; Receive applies the next reply.         *)
(***************************************************************************)
IsFinal(msg) == msg.typ \in Final
Outstanding ==
  MapThenSumSet(LAMBDA c : Len(pcx[c]) + Len(SelectSeq(cpx[c], IsFinal)), Core)
InCache(cache, a) == \E x \in Set, w \in Way : cache[x][w].a = a

\* Ways already asked for by an unanswered request for the same line.
PendingWays(c, op, typ, a) ==
  {r.w : r \in {pcx[c][n] : n \in {i \in DOMAIN pcx[c] : pcx[c][i].op = op /\ pcx[c][i].a = a}}}
  \cup {m.w : m \in {cpx[c][n] : n \in {i \in DOMAIN cpx[c] :
                 cpx[c][i].typ = typ /\ cpx[c][i].a = a /\ cpx[c][i].w # NoWay}}}

Issue(c, r) ==
  /\ Outstanding < MaxOut
  /\ pcx' = [pcx EXCEPT ![c] = Append(@, r)]
  /\ UNCHANGED <<cpx, ddir, idir, l1d, l1i>>

IssueLoad(c) == \E a \in LoadLines, w \in Way :
  /\ ~InCache(l1d[c], a)
  /\ PendingWays(c, "LOAD", "load", a) \subseteq {w}
  /\ Issue(c, Request("LOAD", a, w))
IssueFetch(c) == \E a \in FetchLines, w \in Way :
  /\ ~InCache(l1i[c], a)
  /\ PendingWays(c, "IFILL", "ifill_1", a) = {}
  /\ Issue(c, Request("IFILL", a, w))

Put(cache, x, w, y) == IF w = NoWay THEN cache ELSE [cache EXCEPT ![x][w] = y]

\* Bring the copy in a way up to date with one store of its core.
Updated(y, a) ==
  IF y.a # a THEN [y EXCEPT !.m = Stale] ELSE [y EXCEPT !.m = IF @ > 0 THEN @ - 1 ELSE @]

\* What a reply does to the caches st = [d, i] of its core.
Apply(st, msg) ==
  LET dx == DCACHE_INDEX(msg.a)
      ix == ICACHE_INDEX(msg.a)
      half == IF msg.typ = "ifill_1" THEN DCACHE_INDEX(msg.a + 1) ELSE dx
      none == [w \in Way |-> NoCopy]
      fill == [a |-> msg.a, m |-> msg.m]
  IN CASE msg.typ = "load"      -> [d |-> Put(st.d, dx, msg.w, fill), i |-> Put(st.i, ix, msg.iw, NoCopy)]
       [] msg.typ = "ifill_0"   -> [st EXCEPT !.d = Put(@, half, msg.dw, NoCopy)]
       [] msg.typ = "ifill_1"   -> [d |-> Put(st.d, half, msg.dw, NoCopy), i |-> Put(st.i, ix, msg.w, fill)]
       [] msg.typ = "store_ack" -> [d |-> IF msg.dw = NoWay THEN st.d
                                          ELSE [st.d EXCEPT ![dx][msg.dw] = Updated(@, msg.a)],
                                    i |-> Put(st.i, ix, msg.iw, NoCopy)]
       [] msg.typ \in {"inv_ack", "atomic_ack", "evict_inv"} ->
                                   [d |-> Put(st.d, dx, msg.dw, NoCopy), i |-> Put(st.i, ix, msg.iw, NoCopy)]
       [] msg.typ = "inv_all_d" -> [st EXCEPT !.d[dx] = none]
       [] msg.typ = "inv_all_i" -> [st EXCEPT !.i[ix] = none]
       [] OTHER                 -> st

Receive(c) ==
  /\ cpx[c] # <<>>
  /\ LET st == Apply([d |-> l1d[c], i |-> l1i[c]], Head(cpx[c]))
     IN  l1d' = [l1d EXCEPT ![c] = st.d] /\ l1i' = [l1i EXCEPT ![c] = st.i]
  /\ cpx' = [cpx EXCEPT ![c] = Tail(@)]
  /\ UNCHANGED <<pcx, ddir, idir>>
-----------------------------------------------------------------------------
(***************************************************************************)
(* The emulation loop serves one request at a time, of either core.        *)
(***************************************************************************)
ServeLine(c, op, handler(_, _, _, _)) ==
  /\ pcx[c] # <<>> /\ Head(pcx[c]).op = op
  /\ Become(handler(Here, c, Head(pcx[c]).a, Head(pcx[c]).w))
  /\ pcx' = [pcx EXCEPT ![c] = Tail(@)]

ServeOther(c, s) ==
  /\ Outstanding < MaxOut
  /\ Become(s)
  /\ UNCHANGED pcx

Load(c)           == ServeLine(c, "LOAD", process_load_fast)
Ifill(c)          == ServeLine(c, "IFILL", process_ifill_fast)
Store(c)          == \E a \in StoreLines : ServeOther(c, process_store(Here, c, a))
BlockStore(c)     == \E a \in StoreLines, BST \in BOOLEAN : ServeOther(c, process_bis_bst(Here, c, a, BST))
Swap(c)           == \E a \in StoreLines : ServeOther(c, process_swap_ldstub(Here, c, a))
Cas(c)            == \E a \in StoreLines, equal \in BOOLEAN : ServeOther(c, process_cas(Here, c, a, equal))
LoadInvalidate(c) == \E a \in LoadLines : ServeOther(c, process_load_invalidate(Here, c, a))
IfillInvalidate(c) == \E a \in FetchLines : ServeOther(c, process_ifill_invalidate(Here, c, a))
IfillNc(c)        == \E a \in FetchLines : ServeOther(c, process_ifill_nc(Here, c, a))
Device(c)         == ServeOther(c, process_device(Here, c))
-----------------------------------------------------------------------------
Init ==
  /\ pcx = [c \in Core |-> <<>>]
  /\ cpx = [c \in Core |-> <<>>]
  /\ ddir = [c \in Core |-> init_l1_reverse_dir]
  /\ idir = [c \in Core |-> init_l1_reverse_dir]
  /\ l1d = [c \in Core |-> [x \in Set |-> [w \in Way |-> NoCopy]]]
  /\ l1i = [c \in Core |-> [x \in Set |-> [w \in Way |-> NoCopy]]]

Next == \E c \in Core :
  \/ IssueLoad(c) \/ IssueFetch(c) \/ Receive(c)
  \/ Load(c) \/ Ifill(c) \/ Store(c) \/ BlockStore(c) \/ Swap(c) \/ Cas(c)
  \/ LoadInvalidate(c) \/ IfillInvalidate(c)
  \/ IfillNc(c) \/ Device(c)

Spec == Init /\ [][Next]_vars
-----------------------------------------------------------------------------
\* Types of the FIFOs, the directories and the caches.
TypeOK ==
  /\ \A c \in Core : pcx[c] \in Seq(Requests) /\ cpx[c] \in Seq(Replies)
  /\ ddir \in [Core -> DDirectory(Lines)]
  /\ idir \in [Core -> IDirectory(Lines)]
  /\ l1d \in [Core -> Cache]
  /\ l1i \in [Core -> Cache]

\* The caches st of a core after each of the replies.
Replay(st, replies) ==
  LET after[n \in 0 .. Len(replies)] ==
        IF n = 0 THEN st ELSE Apply(after[n - 1], replies[n])
  IN  after

\* The caches of a core once it has applied every reply under way.
Drained(c) == Replay([d |-> l1d[c], i |-> l1i[c]], cpx[c])[Len(cpx[c])]

\* The reverse directory is what its name says (mbfw_reverse_dir.c): way by
\* way, it holds the line that the L1 cache of that core will hold when the
\* replies already sent have arrived, whatever the interleaving of the cores.
DirectoryMirrorsL1 == \A c \in Core : LET st == Drained(c) IN
  \A x \in Set, w \in Way :
    /\ IF st.d[x][w].a = Empty THEN ddir[c][x][w] = INVALID_TAG
       ELSE DCACHE_INDEX(st.d[x][w].a) = x /\ ddir[c][x][w] = DCACHE_TAG(st.d[x][w].a)
    /\ IF st.i[x][w].a = Empty THEN idir[c][x][w] = INVALID_TAG
       ELSE ICACHE_INDEX(st.i[x][w].a) = x /\ idir[c][x][w] = ICACHE_TAG(st.i[x][w].a)

\* Coherence: once the replies already sent have arrived, no cache holds a
\* line that memory no longer agrees with.  The zeroing by a block store is
\* the one exception the code leaves: is_l2_miss looks for instruction-cache
\* copies of the wrong lines, so those may survive it (and no others).
NoStaleCopies == \A c \in Core : LET st == Drained(c) IN
  \A x \in Set, w \in Way : st.d[x][w].m = Fresh /\ st.i[x][w].m \in {Fresh, Zeroed}

\* No line is in a data cache and an instruction cache at once, not even of
\* different cores.  invalidate_other_cache and return_store_ack rely on it:
\* they look in the instruction cache only when the data cache misses.
DataOrInstruction == \A a \in Lines, c, k \in Core :
  search_dcache(ddir[c], a) # NoWay => search_icache(idir[k], a) = NoWay
=============================================================================
