----------------------------- MODULE Emulation -----------------------------
(***************************************************************************)
(* What the emulation loop (t1_system_emulation_loop of mbfw_l2_emul.c)    *)
(* promises to the two cores, wherever they are: the requests of a core    *)
(* are served one at a time and in order, the messages that each of them   *)
(* causes reach each core in the order they were sent, none is lost or     *)
(* repeated, and no other core is served between the two halves of a       *)
(* compare-and-swap.  Module Aurora implements it across two boards.       *)
(***************************************************************************)
EXTENDS Integers, Sequences

CONSTANT Kinds          \* requests, by what they cause (see Work); "cas1" and
                        \* "cas2" are the halves of a compare-and-swap

Core == {0, 1}          \* T1_MASTER_CORE_ID and T1_SLAVE_CORE_ID
Other(c) == 1 - c
Nobody == -1

Packets == [core : Core, kind : Kinds]
Messages == [to : Core, for : Core, what : {"load", "ifill_0", "ifill_1", "evict_inv", "store_ack", "interrupt"}]

Message(k, c, what) == [to |-> k, for |-> c, what |-> what]

\* The messages a request leads to, in the order they are sent; a store is
\* taken to be of a line that the other core has too.
Work(p) == LET c == p.core IN
  CASE p.kind = "load"      -> <<Message(c, c, "load")>>
    [] p.kind = "ifill"     -> <<Message(c, c, "ifill_0"), Message(c, c, "ifill_1")>>
    [] p.kind = "store"     -> <<Message(Other(c), c, "evict_inv"), Message(c, c, "store_ack")>>
    [] p.kind = "interrupt" -> <<Message(Other(c), c, "interrupt")>>
    [] p.kind = "cas1"      -> <<>>
    [] p.kind = "cas2"      -> <<Message(c, c, "load"), Message(Other(c), c, "evict_inv"),
                                 Message(c, c, "store_ack")>>

\* What a core sends at once: the halves of a compare-and-swap together.
Requests(c) ==
  {<<[core |-> c, kind |-> k]>> : k \in Kinds \ {"cas1", "cas2"}}
  \cup (IF "cas1" \in Kinds THEN {<<[core |-> c, kind |-> "cas1"], [core |-> c, kind |-> "cas2"]>>} ELSE {})

VARIABLES
  sent,     \* requests of each core that are not served yet
  todo,     \* messages of the request being served that are not sent yet
  arriving, \* messages on their way to each core
  lock      \* the core that is in a compare-and-swap

vars == <<sent, todo, arriving, lock>>

Init ==
  /\ sent = [c \in Core |-> <<>>] /\ arriving = [c \in Core |-> <<>>]
  /\ todo = <<>> /\ lock = Nobody

Issue(c) == \E r \in Requests(c) :
  /\ sent' = [sent EXCEPT ![c] = @ \o r]
  /\ UNCHANGED <<todo, arriving, lock>>

Take(c) ==
  /\ todo = <<>> /\ lock \in {Nobody, c} /\ sent[c] # <<>>
  /\ todo' = Work(Head(sent[c]))
  /\ sent' = [sent EXCEPT ![c] = Tail(@)]
  /\ lock' = CASE Head(sent[c]).kind = "cas1" -> c
               [] Head(sent[c]).kind = "cas2" -> Nobody
               [] OTHER                       -> lock
  /\ UNCHANGED arriving

\* A message is put on its way, or is there at once if nothing is before it.
Send ==
  /\ todo # <<>>
  /\ \/ arriving[Head(todo).to] = <<>> /\ UNCHANGED arriving
     \/ arriving' = [arriving EXCEPT ![Head(todo).to] = Append(@, Head(todo))]
  /\ todo' = Tail(todo)
  /\ UNCHANGED <<sent, lock>>

Arrive(c) ==
  /\ arriving[c] # <<>>
  /\ arriving' = [arriving EXCEPT ![c] = Tail(@)]
  /\ UNCHANGED <<sent, todo, lock>>

Next == Send \/ \E c \in Core : Issue(c) \/ Take(c) \/ Arrive(c)
Spec == Init /\ [][Next]_vars
=============================================================================
