------------------------------- MODULE Aurora -------------------------------
(***************************************************************************)
(* The two boards of the dual-core system: the emulation loop of the       *)
(* master (with core 0) and of the slave (with core 1) in mbfw_l2_emul.c,  *)
(* and the Aurora link between them in mbfw_pcx_cpx.c.  The link is two    *)
(* FIFOs of half words without flow control; a packet is a header and      *)
(* Words more half words, and is acknowledged by one half word.            *)
(*                                                                         *)
(* Each board is one thread.  Its program counter says where it is in the  *)
(* source; polling a FIFO, sending or receiving one half word, and         *)
(* handling a packet are one step each.  recv_pcx_pkt falls off its end    *)
(* without a value after a whole packet: it is taken to return something   *)
(* that is not negative, as the program needs.  Interrupts from the        *)
(* Ethernet emulation go to core 0 alone and are left to module Snet.      *)
(***************************************************************************)
EXTENDS Integers, Sequences

CONSTANTS
  Words,         \* half words of a packet after its header (8 or 10)
  MAX_PCX_PKTS,  \* slots of the ring (32)
  Kinds,         \* requests the cores send, see Emulation
  MaxOut         \* bound: packets of a core in the system, either way

ASSUME AuroraAssumption ==
  /\ Words \in Nat \ {0} /\ MAX_PCX_PKTS \in Nat \ {0} /\ MaxOut \in Nat \ {0, 1}
  /\ Kinds \subseteq {"load", "ifill", "store", "interrupt", "cas1", "cas2"}
  /\ "cas1" \in Kinds <=> "cas2" \in Kinds

VARIABLES
  fsl,       \* requests of each core in the FIFO to its board
  toM, toS,  \* the link, towards the master and towards the slave
  s,         \* the slave:  [pc, pkt, n, ret]
  m,         \* the master: [pc, pkt, n, ret]
  todo,      \* master: messages of the current request still to be sent
  toggle_flag, get_local, get_remote,
  rx_head, rx_tail, rx_count, pcx_pkts

ring  == <<rx_head, rx_tail, rx_count, pcx_pkts>>
loop  == <<toggle_flag, get_local, get_remote>>
slave == <<s, fsl, toS, toM>>
vars  == <<fsl, toM, toS, s, m, todo, loop, ring>>

None == [core |-> -1, kind |-> "none"]

\* The promise, with what is under way collected from both boards.  A link
\* has the header of one packet at most.
Headers(link) == LET found == {i \in DOMAIN link : link[i].t = "hdr"}
                 IN  IF found = {} THEN <<>> ELSE <<link[CHOOSE i \in found : TRUE].pkt>>
When(cond, p) == IF cond THEN <<p>> ELSE <<>>
RingContents == [i \in 1 .. rx_count |-> pcx_pkts[(rx_head + i - 1) % MAX_PCX_PKTS]]
Sent == [c \in {0, 1} |->
  IF c = 0 THEN When(m.pc = "process" /\ m.pkt.core = 0, m.pkt) \o fsl[0]
  ELSE When(m.pc = "process" /\ m.pkt.core = 1, m.pkt) \o RingContents
       \o When(m.pc \in {"recv", "ack"}, m.pkt) \o Headers(toM)
       \o When(s.pc = "send" /\ s.n = 0, s.pkt) \o fsl[1]]
Arriving == [c \in {0, 1} |->
  IF c = 0 THEN <<>>
  ELSE When(s.pc \in {"recv", "ack", "forward"}, s.pkt) \o Headers(toS)]
E == INSTANCE Emulation WITH
  sent <- Sent, arriving <- Arriving,
  lock <- CASE get_remote = 0 -> 0 [] get_local = 0 -> 1 [] OTHER -> -1
-----------------------------------------------------------------------------
(***************************************************************************)
(* Half words: the header carries the packet, the others only count.       *)
(***************************************************************************)
Hdr(p) == [t |-> "hdr", pkt |-> p]
Word == [t |-> "word", pkt |-> None]
Ack == [t |-> "ack", pkt |-> None]

\* send_aurora_header and send_aurora_pkt, one half word at a time; then the
\* sender waits for its acknowledgement.
send_aurora_pkt(b) ==
  IF b.n < Words THEN [b EXCEPT !.n = @ + 1] ELSE [b EXCEPT !.pc = "wait", !.n = 0]
HalfWord(b) == IF b.n = 0 THEN Hdr(b.pkt) ELSE Word

\* A header starts the receipt of a packet, which returns to ret; the last
\* half word is followed by the acknowledgement.
StartRecv(b, p, ret) == [pc |-> "recv", pkt |-> p, n |-> 0, ret |-> ret]
recv_aurora_pkt(b) ==
  IF b.n + 1 < Words THEN [b EXCEPT !.n = @ + 1] ELSE [b EXCEPT !.pc = "ack", !.n = 0]
Goto(b, pc) == [b EXCEPT !.pc = pc, !.pkt = None, !.n = 0, !.ret = "none"]
-----------------------------------------------------------------------------
(***************************************************************************)
(* The slave.                                                              *)
(***************************************************************************)
SlaveUnchanged == UNCHANGED <<m, todo, loop, ring>>

\* recv_pcx_pkt, with no time to wait
SlavePoll ==
  /\ s.pc = "poll"
  /\ IF fsl[1] = <<>>
     THEN s' = Goto(s, "link") /\ UNCHANGED fsl
     ELSE /\ s' = [s EXCEPT !.pc = "send", !.pkt = Head(fsl[1])]
          /\ fsl' = [fsl EXCEPT ![1] = Tail(@)]
  /\ UNCHANGED <<toM, toS>> /\ SlaveUnchanged

\* recv_aurora_pkt, first half word, with no time to wait; an
\* acknowledgement is ignored here
SlaveLink ==
  /\ s.pc = "link"
  /\ s' = IF toS # <<>> /\ Head(toS).t = "hdr" THEN StartRecv(s, Head(toS).pkt, "poll") ELSE Goto(s, "poll")
  /\ toS' = IF toS = <<>> THEN toS ELSE Tail(toS)
  /\ UNCHANGED <<fsl, toM>> /\ SlaveUnchanged

\* (Mutant: the next packet is sent without waiting.)
SlaveSendNoWait ==
  /\ s.pc = "send"
  /\ s' = IF s.n < Words THEN [s EXCEPT !.n = @ + 1] ELSE Goto(s, "poll")
  /\ toM' = Append(toM, HalfWord(s))
  /\ UNCHANGED <<fsl, toS>> /\ SlaveUnchanged
SlaveSend ==
  /\ s.pc = "send"
  /\ s' = send_aurora_pkt(s)
  /\ toM' = Append(toM, HalfWord(s))
  /\ UNCHANGED <<fsl, toS>> /\ SlaveUnchanged

\* recv_aurora_pkt, first half word, until the acknowledgement
SlaveWait ==
  /\ s.pc = "wait" /\ toS # <<>>
  /\ s' = IF Head(toS).t = "ack" THEN Goto(s, "poll") ELSE StartRecv(s, Head(toS).pkt, "wait")
  /\ toS' = Tail(toS)
  /\ UNCHANGED <<fsl, toM>> /\ SlaveUnchanged

SlaveRecv ==
  /\ s.pc = "recv" /\ toS # <<>>
  /\ s' = recv_aurora_pkt(s)
  /\ toS' = Tail(toS)
  /\ UNCHANGED <<fsl, toM>> /\ SlaveUnchanged

SlaveAck ==
  /\ s.pc = "ack"
  /\ toM' = Append(toM, Ack)
  /\ s' = [s EXCEPT !.pc = "forward"]
  /\ UNCHANGED <<fsl, toS>> /\ SlaveUnchanged

\* send_cpx_pkt_to_fsl: core 1 has its message.
SlaveForward ==
  /\ s.pc = "forward"
  /\ s' = Goto(s, s.ret)
  /\ UNCHANGED <<fsl, toM, toS>> /\ SlaveUnchanged

Slave == SlavePoll \/ SlaveLink \/ SlaveSend \/ SlaveWait \/ SlaveRecv \/ SlaveAck \/ SlaveForward
-----------------------------------------------------------------------------
(***************************************************************************)
(* The master.  ret says which attempt of the loop a receipt belongs to    *)
(* ("first", "second", or "only" while one side is locked out), or that it *)
(* happens within recv_aurora_ack ("wait").                                *)
(***************************************************************************)
Both == get_local = 1 /\ get_remote = 1
\* (Mutant: the flag never changes.)
KeepToggle == UNCHANGED toggle_flag
Flip == toggle_flag' = IF m.ret = "only" THEN toggle_flag ELSE 1 - toggle_flag

\* Round the loop: which source is tried first.
Loop == [pc  |-> IF get_local = 1 /\ (toggle_flag = 1 \/ ~Both) THEN "local" ELSE "remote",
         ret |-> IF Both THEN "first" ELSE "only", pkt |-> None, n |-> 0]

\* Nothing there: the other source, or round the loop.
NextAttempt(other) ==
  m' = IF m.ret = "first" THEN [m EXCEPT !.pc = other, !.ret = "second"] ELSE Loop

MasterLocal ==
  /\ m.pc = "local"
  /\ IF fsl[0] = <<>>
     THEN NextAttempt("remote") /\ UNCHANGED <<fsl, toggle_flag>>
     ELSE /\ m' = [m EXCEPT !.pc = "process", !.pkt = Head(fsl[0])]
          /\ fsl' = [fsl EXCEPT ![0] = Tail(@)]
          /\ Flip
  /\ UNCHANGED <<s, toM, toS, todo, get_local, get_remote, ring>>

\* recv_aurora_pcx_pkt: the ring before the link.  An acknowledgement is
\* skipped; how often an empty link is polled makes no difference.
MasterRing ==
  /\ m.pc = "remote" /\ rx_count > 0
  /\ m' = [m EXCEPT !.pc = "process", !.pkt = pcx_pkts[rx_head]]
  /\ rx_head' = (rx_head + 1) % MAX_PCX_PKTS
  /\ rx_count' = rx_count - 1
  /\ pcx_pkts' = [pcx_pkts EXCEPT ![rx_head] = None]   \* never read again
  /\ Flip
  /\ UNCHANGED <<slave, todo, get_local, get_remote, rx_tail>>

\* (Mutant: the link before the ring.)
MasterLinkAnyTime ==
  /\ m.pc = "remote"
  /\ CASE toM = <<>>           -> NextAttempt("local")
       [] toM # <<>> /\ Head(toM).t = "ack" -> UNCHANGED m
       [] OTHER                -> m' = StartRecv(m, Head(toM).pkt, m.ret)
  /\ toM' = IF toM = <<>> THEN toM ELSE Tail(toM)
  /\ UNCHANGED <<s, fsl, toS, todo, loop, ring>>
MasterLink ==
  /\ m.pc = "remote" /\ rx_count = 0
  /\ CASE toM = <<>>           -> NextAttempt("local")
       [] toM # <<>> /\ Head(toM).t = "ack" -> UNCHANGED m
       [] OTHER                -> m' = StartRecv(m, Head(toM).pkt, m.ret)
  /\ toM' = IF toM = <<>> THEN toM ELSE Tail(toM)
  /\ UNCHANGED <<s, fsl, toS, todo, loop, ring>>

MasterRecv ==
  /\ m.pc = "recv" /\ toM # <<>>
  /\ m' = recv_aurora_pkt(m)
  /\ toM' = Tail(toM)
  /\ UNCHANGED <<s, fsl, toS, todo, loop, ring>>

\* (Mutants of insert_pcx_pkt: the tail does not wrap; full one slot early.)
InsertNoWrap(p) ==
  IF rx_head = rx_tail /\ rx_count > 0 THEN m' = Goto(m, "exit") /\ UNCHANGED ring
  ELSE /\ m' = Goto(m, "wait")
       /\ pcx_pkts' = [pcx_pkts EXCEPT ![rx_tail] = p]
       /\ rx_tail' = rx_tail + 1
       /\ rx_count' = rx_count + 1
       /\ UNCHANGED rx_head
InsertFullEarly(p) ==
  IF rx_count + 1 >= MAX_PCX_PKTS THEN m' = Goto(m, "exit") /\ UNCHANGED ring
  ELSE /\ m' = Goto(m, "wait")
       /\ pcx_pkts' = [pcx_pkts EXCEPT ![rx_tail] = p]
       /\ rx_tail' = (rx_tail + 1) % MAX_PCX_PKTS
       /\ rx_count' = rx_count + 1
       /\ UNCHANGED rx_head
insert_pcx_pkt(p) ==
  IF rx_head = rx_tail /\ rx_count > 0 THEN m' = Goto(m, "exit") /\ UNCHANGED ring
  ELSE /\ m' = Goto(m, "wait")
       /\ pcx_pkts' = [pcx_pkts EXCEPT ![rx_tail] = p]
       /\ rx_tail' = (rx_tail + 1) % MAX_PCX_PKTS
       /\ rx_count' = rx_count + 1
       /\ UNCHANGED rx_head

\* Acknowledge the packet, then keep it (recv_aurora_ack) or serve it.
MasterAck ==
  /\ m.pc = "ack"
  /\ toS' = Append(toS, Ack)
  /\ IF m.ret = "wait"
     THEN insert_pcx_pkt(m.pkt) /\ UNCHANGED toggle_flag
     ELSE m' = [m EXCEPT !.pc = "process"] /\ Flip /\ UNCHANGED ring
  /\ UNCHANGED <<s, fsl, toM, todo, get_local, get_remote>>

\* The first half of a compare-and-swap locks the other side out.
Lock(p) ==
  CASE p.kind = "cas1" /\ p.core = 0 -> get_remote' = 0 /\ UNCHANGED get_local
    [] p.kind = "cas1" /\ p.core = 1 -> get_local' = 0 /\ UNCHANGED get_remote
    [] p.kind = "cas2"               -> get_local' = 1 /\ get_remote' = 1
    [] OTHER                         -> UNCHANGED <<get_local, get_remote>>

MasterProcess ==
  /\ m.pc = "process"
  /\ todo' = E!Work(m.pkt)
  /\ m' = Goto(m, "reply")
  /\ Lock(m.pkt)
  /\ UNCHANGED <<slave, toggle_flag, ring>>

\* send_cpx_pkt: to the FIFO of core 0, or over the link.
MasterReply ==
  /\ m.pc = "reply"
  /\ CASE todo = <<>> -> m' = Loop /\ UNCHANGED todo
       [] todo # <<>> /\ Head(todo).to = 0 -> todo' = Tail(todo) /\ UNCHANGED m
       [] OTHER -> m' = [m EXCEPT !.pc = "send", !.pkt = Head(todo)] /\ UNCHANGED todo
  /\ UNCHANGED <<slave, loop, ring>>

MasterSend ==
  /\ m.pc = "send"
  /\ m' = send_aurora_pkt(m)
  /\ toS' = Append(toS, HalfWord(m))
  /\ todo' = IF m.n = 0 THEN Tail(todo) ELSE todo
  /\ UNCHANGED <<s, fsl, toM, loop, ring>>

\* recv_aurora_ack: packets of the slave may come first.
MasterWait ==
  /\ m.pc = "wait" /\ toM # <<>>
  /\ m' = IF Head(toM).t = "ack" THEN Goto(m, "reply") ELSE StartRecv(m, Head(toM).pkt, "wait")
  /\ toM' = Tail(toM)
  /\ UNCHANGED <<s, fsl, toS, todo, loop, ring>>

Master ==
  \/ MasterLocal \/ MasterRing \/ MasterLink \/ MasterRecv \/ MasterAck
  \/ MasterProcess \/ MasterReply \/ MasterSend \/ MasterWait
-----------------------------------------------------------------------------
\* A core sends requests.
CoreIssue(c) == \E r \in E!Requests(c) :
  /\ Len(Sent[c]) + Len(Arriving[c]) + Len(r) <= MaxOut
  /\ fsl' = [fsl EXCEPT ![c] = @ \o r]
  /\ UNCHANGED <<toM, toS, s, m, todo, loop, ring>>

Idle(pc) == [pc |-> pc, pkt |-> None, n |-> 0, ret |-> "none"]
Init ==
  /\ fsl = [c \in {0, 1} |-> <<>>]
  /\ toM = <<>> /\ toS = <<>>
  /\ s = Idle("poll") /\ todo = <<>>
  /\ toggle_flag = 1 /\ get_local = 1 /\ get_remote = 1
  /\ m = Loop
  /\ rx_head = 0 /\ rx_tail = 0 /\ rx_count = 0
  /\ pcx_pkts = [i \in 0 .. MAX_PCX_PKTS - 1 |-> None]

Next == Slave \/ Master \/ \E c \in {0, 1} : CoreIssue(c)

\* Each board runs for ever.
Fairness == WF_vars(Slave) /\ WF_vars(Master)
Spec == Init /\ [][Next]_vars /\ Fairness
-----------------------------------------------------------------------------
\* Types of the queues, the ring and the two boards.
HalfWords(P) == [t : {"hdr"}, pkt : P] \cup {Word, Ack}
Board(PCs, Rets) == [pc : PCs, pkt : {None} \cup E!Packets \cup E!Messages, n : 0 .. Words, ret : Rets]
TypeOK ==
  /\ fsl \in [{0, 1} -> Seq(E!Packets)]
  /\ toM \in Seq(HalfWords(E!Packets)) /\ toS \in Seq(HalfWords(E!Messages))
  /\ todo \in Seq(E!Messages)
  /\ s \in Board({"poll", "link", "send", "wait", "recv", "ack", "forward"}, {"none", "poll", "wait"})
  /\ m \in Board({"local", "remote", "recv", "ack", "process", "reply", "send", "wait", "exit"},
                 {"none", "first", "second", "only", "wait"})
  /\ toggle_flag \in {0, 1} /\ get_local \in {0, 1} /\ get_remote \in {0, 1}
  /\ rx_head \in 0 .. MAX_PCX_PKTS - 1 /\ rx_tail \in 0 .. MAX_PCX_PKTS - 1
  /\ rx_count \in 0 .. MAX_PCX_PKTS
  /\ pcx_pkts \in [0 .. MAX_PCX_PKTS - 1 -> {None} \cup E!Packets]

\* "Aurora link doesn't have flow control ... Therefore software handshake
\* has been implemented" (mbfw_pcx_cpx.c): whatever the two boards do, a
\* direction of the link never holds more than one packet and one
\* acknowledgement, and whoever reads the rest of a packet or waits for a
\* header finds what it expects.
HandshakeBoundsLink ==
  /\ Len(toM) <= Words + 2 /\ Len(toS) <= Words + 2
  /\ m.pc = "recv" /\ toM # <<>> => Head(toM) = Word
  /\ s.pc = "recv" /\ toS # <<>> => Head(toS) = Word
  /\ m.pc \in {"remote", "wait"} /\ toM # <<>> => Head(toM) # Word
  /\ s.pc \in {"link", "wait"} /\ toS # <<>> => Head(toS) # Word

\* The ring never overflows (and the master never gives up) as long as it
\* has a slot for every request the other core may have under way.
RingSuffices == m.pc # "exit"

\* The two boards and the link implement the promise of module Emulation.
Emulated == E!Spec

\* Each core gets its turn, however busy the other one is.
NoStarvation == \A c \in {0, 1} : Sent[c] # <<>> ~> (m.pc = "process" /\ m.pkt.core = c)
=============================================================================
