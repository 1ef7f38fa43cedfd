------------------------------ MODULE PcxLink -------------------------------
(***************************************************************************)
(* What the core may expect of the bridge: a FIFO of packets with two      *)
(* credits per destination.  A request is taken whole, packets leave in    *)
(* the order taken, four words each, and a credit comes back only for a    *)
(* packet that has left.                                                   *)
(***************************************************************************)
EXTENDS PcxBase

VARIABLES
    queue,   \* packets taken and not yet out
    words,   \* words of the first of them already out
    credit   \* packets taken and not granted, by destination

Init == queue = <<>> /\ words = 0 /\ credit = [d \in Dests |-> 0]

(* A word leaves, with the fourth the packet. *)
WordOut(q) ==
    \/ UNCHANGED words /\ q = queue
    \/ queue # <<>> /\ words < 3 /\ words' = words + 1 /\ q = queue
    \/ queue # <<>> /\ words = 3 /\ words' = 0 /\ q = Tail(queue)

InQueue(d) == Cardinality({i \in DOMAIN queue : queue[i].dest = d})

(* g is granted and r taken; never more than two packets per destination. *)
Account(g, r) ==
    /\ g # NoDest => credit[g] > InQueue(g)
    /\ credit' = [d \in Dests |-> credit[d] - (IF d = g THEN 1 ELSE 0)
                                   + (IF d = r.dest THEN Len(PacketsOf(r)) ELSE 0)]
    /\ \A d \in Dests : credit'[d] <= 2

Next ==
    \E q \in {queue, IF queue = <<>> THEN queue ELSE Tail(queue)}, g \in Dests \union {NoDest}, r \in Lines :
        /\ WordOut(q)
        /\ Account(g, r)
        /\ queue' = q \o PacketsOf(r)

Spec == Init /\ [][Next]_<<queue, words, credit>>
=============================================================================
