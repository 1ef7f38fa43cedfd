---------------------------- MODULE AuroraProofs ----------------------------
(***************************************************************************)
(* TLAPS proofs about Aurora, for every packet length, ring size, set of   *)
(* requests and bound on the requests under way.                           *)
(***************************************************************************)
EXTENDS Aurora, SequenceTheorems, TLAPS

-----------------------------------------------------------------------------
(* The invariant. *)

PacketsOf(c) == {p \in E!Packets : p.core = c}
MessagesTo(c) == {p \in E!Messages : p.to = c}

(***************************************************************************)
(* What a link holds: pre acknowledgements, then half words lo to hi - 1   *)
(* of a packet, then post acknowledgements.                                *)
(***************************************************************************)
Place(i, pre, lo, hi) ==
  IF i <= pre \/ i > pre + (hi - lo) THEN "ack" ELSE IF lo + i - pre = 1 THEN "hdr" ELSE "word"

Shape(pre, lo, hi, post) ==
  /\ pre \in {0, 1} /\ post \in {0, 1} /\ pre + post <= 1
  /\ lo \in 0 .. Words + 1 /\ hi \in 0 .. Words + 1 /\ lo <= hi
  /\ pre = 1 => lo = 0
  /\ post = 1 => hi = Words + 1

Link(link, pre, lo, hi, post) ==
  /\ Len(link) = pre + (hi - lo) + post
  /\ \A i \in 1 .. Len(link) : link[i].t = Place(i, pre, lo, hi)

(***************************************************************************)
(* The way of a packet from a board that has sent out half words of it     *)
(* (-1: it has none to be acknowledged) to one that has got so many of it, *)
(* with half words lo to hi - 1 on the link; acks counts the               *)
(* acknowledgements on their way back.                                     *)
(***************************************************************************)
Flow(out, got, lo, hi, acks) ==
  \/ out = -1 /\ got = 0 /\ lo = 0 /\ hi = 0 /\ acks = 0
  \/ /\ out \in 0 .. Words + 1 /\ got \in 0 .. Words
     /\ lo = got /\ hi = out /\ acks = 0
  \/ /\ out = Words + 1 /\ lo = Words + 1 /\ hi = Words + 1
     /\ (got = Words + 1 /\ acks = 0) \/ (got = 0 /\ acks = 1)

(* Two boards, the link from the first to the second, and the one back. *)
Handshake(l1, out1, got1, l2, out2, got2) ==
  \E pre1, post1 \in {0, 1}, lo1, hi1 \in 0 .. Words + 1 :
    /\ Shape(pre1, lo1, hi1, post1) /\ Link(l1, pre1, lo1, hi1, post1)
    /\ \E pre2, post2 \in {0, 1}, lo2, hi2 \in 0 .. Words + 1 :
         /\ Shape(pre2, lo2, hi2, post2) /\ Link(l2, pre2, lo2, hi2, post2)
         /\ Flow(out1, got1, lo1, hi1, pre2 + post2)
         /\ Flow(out2, got2, lo2, hi2, pre1 + post1)

(* A board is within recv_aurora_ack. *)
Waiting(b) == b.pc \in {"wait", "exit"} \/ (b.pc \in {"recv", "ack", "forward"} /\ b.ret = "wait")
Out(b) == IF b.pc = "send" THEN b.n ELSE IF Waiting(b) THEN Words + 1 ELSE -1
Got(b) == IF b.pc = "recv" THEN b.n + 1 ELSE IF b.pc = "ack" THEN Words + 1 ELSE 0

LinkInv == Handshake(toM, Out(s), Got(m), toS, Out(m), Got(s))

(* What the boards hold in each place of their programs. *)
SlaveInv ==
  /\ s.pc = "send" => s.pkt \in PacketsOf(1)
  /\ s.pc \in {"recv", "ack", "forward"} => s.pkt \in MessagesTo(1) /\ s.ret \in {"poll", "wait"}
  /\ s.pc = "recv" => s.n < Words
  /\ s.pc \notin {"recv", "send"} => s.n = 0
MasterInv ==
  /\ m.pc = "send" => m.pkt \in MessagesTo(1)
  /\ m.pc \in {"recv", "ack"} => m.pkt \in PacketsOf(1) /\ m.ret \in {"first", "second", "only", "wait"}
  /\ m.pc \in {"local", "remote"} => m.ret \in {"first", "second", "only"}
  /\ m.pc = "process" => m.pkt \in E!Packets
  /\ m.pc = "recv" => m.n < Words
  /\ m.pc \notin {"recv", "send"} => m.n = 0
QueueInv ==
  /\ fsl[0] \in Seq(PacketsOf(0)) /\ fsl[1] \in Seq(PacketsOf(1))
  /\ toM \in Seq(HalfWords(PacketsOf(1))) /\ toS \in Seq(HalfWords(MessagesTo(1)))

(* The ring holds packets of the slave from head to tail, *)
Slot(k) == (rx_head + k) % MAX_PCX_PKTS
RingInv ==
  /\ rx_tail = Slot(rx_count)
  /\ \A k \in 0 .. rx_count - 1 : pcx_pkts[Slot(k)] \in PacketsOf(1)

(* and never more than core 1 may have under way. *)
One(cond) == IF cond THEN 1 ELSE 0
HeaderOn(link) == \E i \in DOMAIN link : link[i].t = "hdr"
RoomInv ==
  rx_count + One(m.pc \in {"recv", "ack"}) + One(HeaderOn(toM))
    + One(s.pc = "send" /\ s.n = 0) + Len(fsl[1]) <= MaxOut

IInv == TypeOK /\ SlaveInv /\ MasterInv /\ QueueInv /\ LinkInv /\ RingInv /\ RoomInv

-----------------------------------------------------------------------------
(* Links. *)

(* The numbers of a shape. *)
LEMMA ShapeFacts ==
    ASSUME NEW pre, NEW lo, NEW hi, NEW post, Shape(pre, lo, hi, post)
    PROVE  /\ pre \in Int /\ lo \in Int /\ hi \in Int /\ post \in Int /\ Words \in Int
           /\ 0 <= pre /\ pre <= 1 /\ 0 <= post /\ post <= 1 /\ pre + post <= 1
           /\ 0 <= lo /\ lo <= hi /\ hi <= Words + 1 /\ 1 <= Words
           /\ pre = 1 => lo = 0
           /\ post = 1 => hi = Words + 1
           /\ pre + (hi - lo) + post \in Nat
BY AuroraAssumption DEF Shape

(* What Append does, at a length given by a name. *)
LEMMA AppendAt ==
    ASSUME NEW T, NEW link \in Seq(T), NEW x \in T, NEW n \in Nat, Len(link) = n
    PROVE  /\ Append(link, x) \in Seq(T) /\ Len(Append(link, x)) = n + 1
           /\ \A i \in 1 .. n : Append(link, x)[i] = link[i]
           /\ Append(link, x)[n + 1] = x
BY AppendProperties

(* And Tail. *)
LEMMA TailAt ==
    ASSUME NEW T, NEW link \in Seq(T), link # <<>>, NEW n \in Nat, Len(link) = n + 1
    PROVE  /\ Tail(link) \in Seq(T) /\ Len(Tail(link)) = n
           /\ \A i \in 1 .. n : Tail(link)[i] = link[i + 1]
           /\ Head(link) = link[1]
BY HeadTailProperties

(* The last position, or one before it. *)
LEMMA RangeSplit ==
    ASSUME NEW n \in Nat, NEW i \in 1 .. n + 1
    PROVE  i \in 1 .. n \/ i = n + 1
OBVIOUS

(* A link with one half word more behind it. *)
LEMMA LinkGrows ==
    ASSUME NEW T, NEW link \in Seq(T), NEW x \in T,
           NEW pre, NEW lo, NEW hi, NEW post, Shape(pre, lo, hi, post), Link(link, pre, lo, hi, post),
           NEW pr, NEW h, NEW po, Shape(pr, lo, h, po),
           pr + (h - lo) + po = pre + (hi - lo) + post + 1,
           \A i \in 1 .. pre + (hi - lo) + post : Place(i, pr, lo, h) = Place(i, pre, lo, hi),
           x.t = Place(pr + (h - lo) + po, pr, lo, h)
    PROVE  Link(Append(link, x), pr, lo, h, po)
<1>1. PICK n \in Nat : n = pre + (hi - lo) + post
  BY ShapeFacts
<1>2. Len(link) = n /\ \A i \in 1 .. n : link[i].t = Place(i, pre, lo, hi)
  BY <1>1 DEF Link
<1>3. /\ Len(Append(link, x)) = n + 1
      /\ \A i \in 1 .. n : Append(link, x)[i] = link[i]
      /\ Append(link, x)[n + 1] = x
  BY <1>2, AppendAt
<1>4. pr + (h - lo) + po = n + 1
  BY <1>1
<1>5. ASSUME NEW i \in 1 .. n + 1
      PROVE  Append(link, x)[i].t = Place(i, pr, lo, h)
  <2>1. CASE i \in 1 .. n
    BY <1>1, <1>2, <1>3, <2>1
  <2>2. CASE i = n + 1
    BY <1>3, <1>4, <2>2
  <2>3. i \in 1 .. n \/ i = n + 1
    BY RangeSplit
  <2>4. QED
    BY <2>1, <2>2, <2>3
<1>6. QED
  BY <1>3, <1>4, <1>5 DEF Link

(* The sender puts the next half word of its packet on the link. *)
LEMMA LinkSend ==
    ASSUME NEW T, NEW link \in Seq(T), NEW x \in T,
           NEW pre, NEW lo, NEW hi, NEW post, Shape(pre, lo, hi, post), Link(link, pre, lo, hi, post),
           post = 0, hi <= Words, x.t = IF hi = 0 THEN "hdr" ELSE "word"
    PROVE  Shape(pre, lo, hi + 1, post) /\ Link(Append(link, x), pre, lo, hi + 1, post)
<1>0. /\ pre \in Int /\ lo \in Int /\ hi \in Int /\ post \in Int /\ Words \in Int
      /\ 0 <= pre /\ pre <= 1 /\ 0 <= post /\ post <= 1 /\ pre + post <= 1
      /\ 0 <= lo /\ lo <= hi /\ hi <= Words + 1 /\ 1 <= Words
      /\ (pre = 1 => lo = 0) /\ (post = 1 => hi = Words + 1)
  BY ShapeFacts
<1>1. PICK h \in Int : h = hi + 1
  BY <1>0
<1>2. Shape(pre, lo, h, post)
  BY <1>1, AuroraAssumption DEF Shape
<1>3. pre + (h - lo) + post = pre + (hi - lo) + post + 1
  BY <1>0, <1>1
<1>4. \A i \in 1 .. pre + (hi - lo) + post : Place(i, pre, lo, h) = Place(i, pre, lo, hi)
  BY <1>0, <1>1 DEF Place
<1>5. x.t = Place(pre + (h - lo) + post, pre, lo, h)
  <2>1. PICK i \in Int : i = pre + (h - lo) + post
    BY <1>0, <1>1
  <2>2. ~(i <= pre) /\ ~(i > pre + (h - lo)) /\ (lo + i - pre = 1 <=> hi = 0)
    BY <1>0, <1>1, <2>1
  <2>3. Place(i, pre, lo, h) = IF hi = 0 THEN "hdr" ELSE "word"
    BY <2>2 DEF Place
  <2>4. QED
    BY <2>1, <2>3
<1>6. Link(Append(link, x), pre, lo, h, post)
  BY <1>2, <1>3, <1>4, <1>5, LinkGrows
<1>7. QED
  BY <1>1, <1>2, <1>6

(* An acknowledgement goes behind the sender's own packet, *)
LEMMA LinkAckAfter ==
    ASSUME NEW T, NEW link \in Seq(T), NEW x \in T, x.t = "ack",
           NEW pre, NEW lo, NEW hi, NEW post, Shape(pre, lo, hi, post), Link(link, pre, lo, hi, post),
           pre = 0, post = 0, hi = Words + 1
    PROVE  Shape(0, lo, hi, 1) /\ Link(Append(link, x), 0, lo, hi, 1)
<1>0. /\ pre \in Int /\ lo \in Int /\ hi \in Int /\ post \in Int /\ Words \in Int
      /\ 0 <= pre /\ pre <= 1 /\ 0 <= post /\ post <= 1 /\ pre + post <= 1
      /\ 0 <= lo /\ lo <= hi /\ hi <= Words + 1 /\ 1 <= Words
      /\ (pre = 1 => lo = 0) /\ (post = 1 => hi = Words + 1)
  BY ShapeFacts
<1>1. Shape(0, lo, hi, 1)
  BY AuroraAssumption DEF Shape
<1>2. PICK po \in Nat : po = 1
  OBVIOUS
<1>3. Shape(pre, lo, hi, po)
  BY <1>1, <1>2
<1>4. pre + (hi - lo) + po = pre + (hi - lo) + post + 1
  BY <1>2, <1>0
<1>5. x.t = Place(pre + (hi - lo) + po, pre, lo, hi)
  <2>1. pre + (hi - lo) + po > pre + (hi - lo)
    BY <1>2, <1>0
  <2>2. QED
    BY <2>1 DEF Place
<1>6. Link(Append(link, x), pre, lo, hi, po)
  BY <1>3, <1>4, <1>5, LinkGrows
<1>7. QED
  BY <1>1, <1>2, <1>6

(* or before its next one. *)
LEMMA LinkAckBefore ==
    ASSUME NEW T, NEW link \in Seq(T), NEW x \in T, x.t = "ack",
           NEW pre, NEW lo, NEW hi, NEW post, Shape(pre, lo, hi, post), Link(link, pre, lo, hi, post),
           pre = 0, post = 0, lo = 0, hi = 0
    PROVE  Shape(1, 0, 0, 0) /\ Link(Append(link, x), 1, 0, 0, 0)
<1>0. /\ pre \in Int /\ lo \in Int /\ hi \in Int /\ post \in Int /\ Words \in Int
      /\ 0 <= pre /\ pre <= 1 /\ 0 <= post /\ post <= 1 /\ pre + post <= 1
      /\ 0 <= lo /\ lo <= hi /\ hi <= Words + 1 /\ 1 <= Words
      /\ (pre = 1 => lo = 0) /\ (post = 1 => hi = Words + 1)
  BY ShapeFacts
<1>1. Shape(1, 0, 0, 0)
  BY AuroraAssumption DEF Shape
<1>2. PICK pr \in Nat : pr = 1
  OBVIOUS
<1>3. Shape(pr, lo, hi, post)
  BY <1>1, <1>2
<1>4. pr + (hi - lo) + post = pre + (hi - lo) + post + 1
  BY <1>2, <1>0
<1>5. x.t = Place(pr + (hi - lo) + post, pr, lo, hi)
  BY <1>2, <1>0 DEF Place
<1>6. \A i \in 1 .. pre + (hi - lo) + post : Place(i, pr, lo, hi) = Place(i, pre, lo, hi)
  BY <1>0
<1>7. Link(Append(link, x), pr, lo, hi, post)
  BY <1>3, <1>4, <1>5, <1>6, LinkGrows
<1>8. QED
  BY <1>1, <1>2, <1>7

(* An acknowledgement behind a packet that has been read is one before the next. *)
LEMMA LinkReset ==
    ASSUME NEW link, NEW pre, NEW lo, NEW hi, NEW post,
           Shape(pre, lo, hi, post), Link(link, pre, lo, hi, post), lo = hi, pre = 0
    PROVE  Shape(post, 0, 0, 0) /\ Link(link, post, 0, 0, 0)
<1>0. /\ pre \in Int /\ lo \in Int /\ hi \in Int /\ post \in Int /\ Words \in Int
      /\ 0 <= pre /\ pre <= 1 /\ 0 <= post /\ post <= 1 /\ pre + post <= 1
      /\ 0 <= lo /\ lo <= hi /\ hi <= Words + 1 /\ 1 <= Words
      /\ (pre = 1 => lo = 0) /\ (post = 1 => hi = Words + 1)
  BY ShapeFacts
<1>1. Shape(post, 0, 0, 0)
  BY AuroraAssumption DEF Shape
<1>2. Len(link) = post + (0 - 0) + 0
  BY <1>0 DEF Link
<1>3. ASSUME NEW i \in 1 .. Len(link)
      PROVE  link[i].t = Place(i, post, 0, 0)
  <2>1. link[i].t = Place(i, pre, lo, hi)
    BY DEF Link
  <2>2. Len(link) = post /\ i \in 1 .. post
    BY <1>0 DEF Link
  <2>3. i > pre + (hi - lo) /\ i <= post
    BY <1>0, <2>2
  <2>4. QED
    BY <2>1, <2>3 DEF Place
<1>4. QED
  BY <1>1, <1>2, <1>3 DEF Link

(* The link without its first half word. *)
LEMMA LinkShrinks ==
    ASSUME NEW T, NEW link \in Seq(T), link # <<>>,
           NEW pre, NEW lo, NEW hi, NEW post, Shape(pre, lo, hi, post), Link(link, pre, lo, hi, post),
           NEW pr, NEW l, NEW po, Shape(pr, l, hi, po),
           pr + (hi - l) + po + 1 = pre + (hi - lo) + post,
           \A i \in 1 .. pr + (hi - l) + po : Place(i, pr, l, hi) = Place(i + 1, pre, lo, hi)
    PROVE  Head(link).t = Place(1, pre, lo, hi) /\ Link(Tail(link), pr, l, hi, po)
<1>1. PICK n \in Nat : n = pr + (hi - l) + po
  BY ShapeFacts
<1>2. Len(link) = n + 1 /\ \A i \in 1 .. n + 1 : link[i].t = Place(i, pre, lo, hi)
  BY <1>1 DEF Link
<1>3. /\ Len(Tail(link)) = n
      /\ \A i \in 1 .. n : Tail(link)[i] = link[i + 1]
      /\ Head(link) = link[1]
  BY <1>2, TailAt
<1>4. ASSUME NEW i \in 1 .. n
      PROVE  Tail(link)[i].t = Place(i, pr, l, hi)
  BY <1>1, <1>2, <1>3
<1>5. 1 \in 1 .. n + 1
  OBVIOUS
<1>6. QED
  BY <1>1, <1>2, <1>3, <1>4, <1>5 DEF Link

(* The reader takes the acknowledgement, *)
LEMMA LinkTakeAck ==
    ASSUME NEW T, NEW link \in Seq(T), link # <<>>,
           NEW pre, NEW lo, NEW hi, NEW post, Shape(pre, lo, hi, post), Link(link, pre, lo, hi, post),
           pre = 1 \/ lo = hi
    PROVE  /\ Head(link).t = "ack" /\ pre + post = 1
           /\ Shape(0, lo, hi, 0) /\ Link(Tail(link), 0, lo, hi, 0)
<1>0. /\ pre \in Int /\ lo \in Int /\ hi \in Int /\ post \in Int /\ Words \in Int
      /\ 0 <= pre /\ pre <= 1 /\ 0 <= post /\ post <= 1 /\ pre + post <= 1
      /\ 0 <= lo /\ lo <= hi /\ hi <= Words + 1 /\ 1 <= Words
      /\ (pre = 1 => lo = 0) /\ (post = 1 => hi = Words + 1)
  BY ShapeFacts
<1>1. Len(link) \in Nat /\ Len(link) # 0
  BY EmptySeq
<1>2. pre + post = 1 /\ (post = 1 => lo = hi /\ pre = 0) /\ (post = 0 => pre = 1)
  BY <1>1, <1>0 DEF Link
<1>3. Shape(0, lo, hi, 0)
  BY <1>2, AuroraAssumption DEF Shape
<1>4. PICK z \in Nat : z = 0
  OBVIOUS
<1>5. Shape(z, lo, hi, z)
  BY <1>3, <1>4
<1>6. z + (hi - lo) + z + 1 = pre + (hi - lo) + post
  BY <1>2, <1>4, <1>0
<1>7. \A i \in 1 .. z + (hi - lo) + z : Place(i, z, lo, hi) = Place(i + 1, pre, lo, hi)
  BY <1>2, <1>4, <1>0 DEF Place
<1>8. Head(link).t = Place(1, pre, lo, hi) /\ Link(Tail(link), z, lo, hi, z)
  BY <1>5, <1>6, <1>7, LinkShrinks
<1>9. Place(1, pre, lo, hi) = "ack"
  BY <1>2, <1>0 DEF Place
<1>10. QED
  BY <1>2, <1>3, <1>4, <1>8, <1>9

(* or the next half word of the packet. *)
LEMMA LinkTakeWord ==
    ASSUME NEW T, NEW link \in Seq(T), link # <<>>,
           NEW pre, NEW lo, NEW hi, NEW post, Shape(pre, lo, hi, post), Link(link, pre, lo, hi, post),
           pre = 0, lo # hi
    PROVE  /\ Head(link).t = IF lo = 0 THEN "hdr" ELSE "word"
           /\ Shape(pre, lo + 1, hi, post) /\ Link(Tail(link), pre, lo + 1, hi, post)
<1>0. /\ pre \in Int /\ lo \in Int /\ hi \in Int /\ post \in Int /\ Words \in Int
      /\ 0 <= pre /\ pre <= 1 /\ 0 <= post /\ post <= 1 /\ pre + post <= 1
      /\ 0 <= lo /\ lo <= hi /\ hi <= Words + 1 /\ 1 <= Words
      /\ (pre = 1 => lo = 0) /\ (post = 1 => hi = Words + 1)
  BY ShapeFacts
<1>1. Shape(pre, lo + 1, hi, post)
  BY AuroraAssumption DEF Shape
<1>2. PICK l \in Int : l = lo + 1
  BY <1>0
<1>3. pre + (hi - l) + post + 1 = pre + (hi - lo) + post
  BY <1>2, <1>0
<1>4. ASSUME NEW i \in 1 .. pre + (hi - l) + post
      PROVE  Place(i, pre, l, hi) = Place(i + 1, pre, lo, hi)
  <2>1. (i <= pre <=> i + 1 <= pre) /\ (i > pre + (hi - l) <=> i + 1 > pre + (hi - lo))
        /\ ~(i <= pre)
    BY <1>2, <1>0
  <2>2. l + i - pre = lo + (i + 1) - pre
    BY <1>2, <1>0
  <2>3. QED
    BY <2>1, <2>2 DEF Place
<1>5. Head(link).t = Place(1, pre, lo, hi) /\ Link(Tail(link), pre, l, hi, post)
  BY <1>1, <1>2, <1>3, <1>4, LinkShrinks
<1>6. Place(1, pre, lo, hi) = IF lo = 0 THEN "hdr" ELSE "word"
  BY <1>0 DEF Place
<1>7. QED
  BY <1>1, <1>2, <1>5, <1>6

-----------------------------------------------------------------------------
(* The two boards and their links: what each event does to the handshake.   *)
(* The first board sends over l1 and reads l2.                              *)

(* The definition, the other way round. *)
LEMMA HandshakeIs ==
    ASSUME NEW l1, NEW l2, NEW o1, NEW g1, NEW o2, NEW g2,
           NEW pre1, NEW lo1, NEW hi1, NEW post1, NEW pre2, NEW lo2, NEW hi2, NEW post2,
           Shape(pre1, lo1, hi1, post1), Link(l1, pre1, lo1, hi1, post1),
           Shape(pre2, lo2, hi2, post2), Link(l2, pre2, lo2, hi2, post2),
           Flow(o1, g1, lo1, hi1, pre2 + post2), Flow(o2, g2, lo2, hi2, pre1 + post1)
    PROVE  Handshake(l1, o1, g1, l2, o2, g2)
<1>1. /\ pre1 \in {0, 1} /\ post1 \in {0, 1} /\ lo1 \in 0 .. Words + 1 /\ hi1 \in 0 .. Words + 1
      /\ pre2 \in {0, 1} /\ post2 \in {0, 1} /\ lo2 \in 0 .. Words + 1 /\ hi2 \in 0 .. Words + 1
  BY DEF Shape
<1>2. QED
  BY <1>1 DEF Handshake

(* Either board may be the first. *)
LEMMA HandshakeTurned ==
    ASSUME NEW l1, NEW l2, NEW o1, NEW g1, NEW o2, NEW g2, Handshake(l1, o1, g1, l2, o2, g2)
    PROVE  Handshake(l2, o2, g2, l1, o1, g1)
<1>1. PICK pre1 \in {0, 1}, post1 \in {0, 1}, lo1 \in 0 .. Words + 1, hi1 \in 0 .. Words + 1 :
        /\ Shape(pre1, lo1, hi1, post1) /\ Link(l1, pre1, lo1, hi1, post1)
        /\ \E pre2, post2 \in {0, 1}, lo2, hi2 \in 0 .. Words + 1 :
             /\ Shape(pre2, lo2, hi2, post2) /\ Link(l2, pre2, lo2, hi2, post2)
             /\ Flow(o1, g1, lo1, hi1, pre2 + post2)
             /\ Flow(o2, g2, lo2, hi2, pre1 + post1)
  BY DEF Handshake
<1>2. PICK pre2 \in {0, 1}, post2 \in {0, 1}, lo2 \in 0 .. Words + 1, hi2 \in 0 .. Words + 1 :
        /\ Shape(pre2, lo2, hi2, post2) /\ Link(l2, pre2, lo2, hi2, post2)
        /\ Flow(o1, g1, lo1, hi1, pre2 + post2)
        /\ Flow(o2, g2, lo2, hi2, pre1 + post1)
  BY <1>1
<1>3. QED
  BY <1>1, <1>2, HandshakeIs

(* A link holds no more than a packet and an acknowledgement, and begins with *)
(* what its reader waits for.                                               *)
LEMMA HandshakeBounds ==
    ASSUME NEW T1, NEW l1 \in Seq(T1), NEW T2, NEW l2 \in Seq(T2),
           NEW o1, NEW g1, NEW o2, NEW g2, Handshake(l1, o1, g1, l2, o2, g2)
    PROVE  /\ Len(l2) <= Words + 2
           /\ l2 # <<>> /\ g2 = 0 => Head(l2).t \in {"hdr", "ack"}
           /\ l2 # <<>> /\ g2 \in 1 .. Words => Head(l2).t = "word"
<1>1. PICK pre1 \in {0, 1}, post1 \in {0, 1}, lo1 \in 0 .. Words + 1, hi1 \in 0 .. Words + 1 :
        /\ Shape(pre1, lo1, hi1, post1) /\ Link(l1, pre1, lo1, hi1, post1)
        /\ \E pre2, post2 \in {0, 1}, lo2, hi2 \in 0 .. Words + 1 :
             /\ Shape(pre2, lo2, hi2, post2) /\ Link(l2, pre2, lo2, hi2, post2)
             /\ Flow(o1, g1, lo1, hi1, pre2 + post2)
             /\ Flow(o2, g2, lo2, hi2, pre1 + post1)
  BY DEF Handshake
<1>2. PICK pre2 \in {0, 1}, post2 \in {0, 1}, lo2 \in 0 .. Words + 1, hi2 \in 0 .. Words + 1 :
        /\ Shape(pre2, lo2, hi2, post2) /\ Link(l2, pre2, lo2, hi2, post2)
        /\ Flow(o1, g1, lo1, hi1, pre2 + post2)
        /\ Flow(o2, g2, lo2, hi2, pre1 + post1)
  BY <1>1
<1>3. /\ Words \in Nat /\ 1 <= Words
      /\ 0 <= lo1 /\ lo1 <= hi1 /\ hi1 <= Words + 1 /\ pre1 + post1 <= 1
      /\ (pre1 = 1 => lo1 = 0) /\ (post1 = 1 => hi1 = Words + 1)
      /\ 0 <= lo2 /\ lo2 <= hi2 /\ hi2 <= Words + 1 /\ pre2 + post2 <= 1
      /\ (pre2 = 1 => lo2 = 0) /\ (post2 = 1 => hi2 = Words + 1)
  BY <1>1, <1>2, AuroraAssumption DEF Shape
<1>4. Len(l2) <= Words + 2
  BY <1>2, <1>3 DEF Link
<1>5. ASSUME l2 # <<>>, g2 = 0
      PROVE  Head(l2).t \in {"hdr", "ack"}
  <2>1. lo2 = 0 \/ lo2 = hi2
    BY <1>2, <1>5 DEF Flow
  <2>2. CASE pre2 = 1 \/ lo2 = hi2
    BY <1>2, <1>5, <2>2, LinkTakeAck
  <2>3. CASE pre2 = 0 /\ lo2 # hi2
    BY <1>2, <1>5, <2>1, <2>3, LinkTakeWord
  <2>4. QED
    BY <1>3, <2>2, <2>3
<1>6. ASSUME l2 # <<>>, g2 \in 1 .. Words
      PROVE  Head(l2).t = "word"
  <2>1. lo2 = g2 /\ lo2 # 0 /\ lo2 < Words + 1
    BY <1>2, <1>3, <1>6 DEF Flow
  <2>2. pre2 = 0
    BY <1>3, <2>1
  <2>3. lo2 # hi2
    <3>1. Len(l2) # 0
      BY <1>6, EmptySeq
    <3>2. QED
      BY <1>2, <1>3, <2>1, <2>2, <3>1 DEF Link
  <2>4. QED
    BY <1>2, <1>6, <2>1, <2>2, <2>3, LinkTakeWord
<1>7. QED
  BY <1>4, <1>5, <1>6

(* A board that has nothing to be acknowledged starts to send. *)
LEMMA HandshakeStart ==
    ASSUME NEW T1, NEW l1 \in Seq(T1), NEW T2, NEW l2 \in Seq(T2),
           NEW o1, NEW g1, NEW o2, NEW g2, Handshake(l1, o1, g1, l2, o2, g2), o1 = -1
    PROVE  Handshake(l1, 0, g1, l2, o2, g2)
<1>1. PICK pre1 \in {0, 1}, post1 \in {0, 1}, lo1 \in 0 .. Words + 1, hi1 \in 0 .. Words + 1 :
        /\ Shape(pre1, lo1, hi1, post1) /\ Link(l1, pre1, lo1, hi1, post1)
        /\ \E pre2, post2 \in {0, 1}, lo2, hi2 \in 0 .. Words + 1 :
             /\ Shape(pre2, lo2, hi2, post2) /\ Link(l2, pre2, lo2, hi2, post2)
             /\ Flow(o1, g1, lo1, hi1, pre2 + post2)
             /\ Flow(o2, g2, lo2, hi2, pre1 + post1)
  BY DEF Handshake
<1>2. PICK pre2 \in {0, 1}, post2 \in {0, 1}, lo2 \in 0 .. Words + 1, hi2 \in 0 .. Words + 1 :
        /\ Shape(pre2, lo2, hi2, post2) /\ Link(l2, pre2, lo2, hi2, post2)
        /\ Flow(o1, g1, lo1, hi1, pre2 + post2)
        /\ Flow(o2, g2, lo2, hi2, pre1 + post1)
  BY <1>1
<1>3. /\ Words \in Nat /\ 1 <= Words
      /\ 0 <= lo1 /\ lo1 <= hi1 /\ hi1 <= Words + 1 /\ pre1 + post1 <= 1
      /\ (pre1 = 1 => lo1 = 0) /\ (post1 = 1 => hi1 = Words + 1)
      /\ 0 <= lo2 /\ lo2 <= hi2 /\ hi2 <= Words + 1 /\ pre2 + post2 <= 1
      /\ (pre2 = 1 => lo2 = 0) /\ (post2 = 1 => hi2 = Words + 1)
  BY <1>1, <1>2, AuroraAssumption DEF Shape
<1>4. Flow(0, g1, lo1, hi1, pre2 + post2)
  BY <1>2, <1>3 DEF Flow
<1>5. QED
  BY <1>1, <1>2, <1>4, HandshakeIs

(* It sends a half word. *)
LEMMA HandshakeSend ==
    ASSUME NEW T1, NEW l1 \in Seq(T1), NEW T2, NEW l2 \in Seq(T2),
           NEW o1, NEW g1, NEW o2, NEW g2, Handshake(l1, o1, g1, l2, o2, g2),
           o1 \in 0 .. Words, NEW x \in T1, x.t = IF o1 = 0 THEN "hdr" ELSE "word"
    PROVE  Handshake(Append(l1, x), o1 + 1, g1, l2, o2, g2)
<1>1. PICK pre1 \in {0, 1}, post1 \in {0, 1}, lo1 \in 0 .. Words + 1, hi1 \in 0 .. Words + 1 :
        /\ Shape(pre1, lo1, hi1, post1) /\ Link(l1, pre1, lo1, hi1, post1)
        /\ \E pre2, post2 \in {0, 1}, lo2, hi2 \in 0 .. Words + 1 :
             /\ Shape(pre2, lo2, hi2, post2) /\ Link(l2, pre2, lo2, hi2, post2)
             /\ Flow(o1, g1, lo1, hi1, pre2 + post2)
             /\ Flow(o2, g2, lo2, hi2, pre1 + post1)
  BY DEF Handshake
<1>2. PICK pre2 \in {0, 1}, post2 \in {0, 1}, lo2 \in 0 .. Words + 1, hi2 \in 0 .. Words + 1 :
        /\ Shape(pre2, lo2, hi2, post2) /\ Link(l2, pre2, lo2, hi2, post2)
        /\ Flow(o1, g1, lo1, hi1, pre2 + post2)
        /\ Flow(o2, g2, lo2, hi2, pre1 + post1)
  BY <1>1
<1>3. /\ Words \in Nat /\ 1 <= Words
      /\ 0 <= lo1 /\ lo1 <= hi1 /\ hi1 <= Words + 1 /\ pre1 + post1 <= 1
      /\ (pre1 = 1 => lo1 = 0) /\ (post1 = 1 => hi1 = Words + 1)
      /\ 0 <= lo2 /\ lo2 <= hi2 /\ hi2 <= Words + 1 /\ pre2 + post2 <= 1
      /\ (pre2 = 1 => lo2 = 0) /\ (post2 = 1 => hi2 = Words + 1)
  BY <1>1, <1>2, AuroraAssumption DEF Shape
<1>4. /\ g1 \in 0 .. Words /\ lo1 = g1 /\ hi1 = o1 /\ pre2 + post2 = 0
  BY <1>2, <1>3 DEF Flow
<1>5. post1 = 0 /\ hi1 <= Words /\ o1 + 1 = hi1 + 1
  BY <1>3, <1>4
<1>6. Shape(pre1, lo1, hi1 + 1, post1) /\ Link(Append(l1, x), pre1, lo1, hi1 + 1, post1)
  BY <1>1, <1>4, <1>5, LinkSend
<1>7. Flow(o1 + 1, g1, lo1, hi1 + 1, pre2 + post2)
  BY <1>3, <1>4 DEF Flow
<1>8. QED
  BY <1>1, <1>2, <1>6, <1>7, HandshakeIs

(* It reads the acknowledgement of its packet: there is none otherwise. *)
LEMMA HandshakeTakeAck ==
    ASSUME NEW T1, NEW l1 \in Seq(T1), NEW T2, NEW l2 \in Seq(T2),
           NEW o1, NEW g1, NEW o2, NEW g2, Handshake(l1, o1, g1, l2, o2, g2),
           g2 = 0, l2 # <<>>, Head(l2).t = "ack"
    PROVE  o1 = Words + 1 /\ Handshake(l1, -1, g1, Tail(l2), o2, g2)
<1>1. PICK pre1 \in {0, 1}, post1 \in {0, 1}, lo1 \in 0 .. Words + 1, hi1 \in 0 .. Words + 1 :
        /\ Shape(pre1, lo1, hi1, post1) /\ Link(l1, pre1, lo1, hi1, post1)
        /\ \E pre2, post2 \in {0, 1}, lo2, hi2 \in 0 .. Words + 1 :
             /\ Shape(pre2, lo2, hi2, post2) /\ Link(l2, pre2, lo2, hi2, post2)
             /\ Flow(o1, g1, lo1, hi1, pre2 + post2)
             /\ Flow(o2, g2, lo2, hi2, pre1 + post1)
  BY DEF Handshake
<1>2. PICK pre2 \in {0, 1}, post2 \in {0, 1}, lo2 \in 0 .. Words + 1, hi2 \in 0 .. Words + 1 :
        /\ Shape(pre2, lo2, hi2, post2) /\ Link(l2, pre2, lo2, hi2, post2)
        /\ Flow(o1, g1, lo1, hi1, pre2 + post2)
        /\ Flow(o2, g2, lo2, hi2, pre1 + post1)
  BY <1>1
<1>3. /\ Words \in Nat /\ 1 <= Words
      /\ 0 <= lo1 /\ lo1 <= hi1 /\ hi1 <= Words + 1 /\ pre1 + post1 <= 1
      /\ (pre1 = 1 => lo1 = 0) /\ (post1 = 1 => hi1 = Words + 1)
      /\ 0 <= lo2 /\ lo2 <= hi2 /\ hi2 <= Words + 1 /\ pre2 + post2 <= 1
      /\ (pre2 = 1 => lo2 = 0) /\ (post2 = 1 => hi2 = Words + 1)
  BY <1>1, <1>2, AuroraAssumption DEF Shape
<1>4. pre2 = 1 \/ lo2 = hi2
  <2>1. CASE pre2 = 0 /\ lo2 # hi2
    BY <1>2, <2>1, LinkTakeWord
  <2>2. QED
    BY <1>3, <2>1
<1>5. /\ pre2 + post2 = 1
      /\ Shape(0, lo2, hi2, 0) /\ Link(Tail(l2), 0, lo2, hi2, 0)
  BY <1>2, <1>4, LinkTakeAck
<1>6. /\ o1 = Words + 1 /\ g1 = 0 /\ lo1 = Words + 1 /\ hi1 = Words + 1
  BY <1>2, <1>3, <1>5 DEF Flow
<1>7. pre1 = 0
  BY <1>3, <1>6
<1>8. Shape(post1, 0, 0, 0) /\ Link(l1, post1, 0, 0, 0)
  BY <1>1, <1>6, <1>7, LinkReset
<1>9. Flow(-1, g1, 0, 0, 0 + 0)
  BY <1>6 DEF Flow
<1>10. pre1 + post1 = post1 + 0
  BY <1>7
<1>11. Flow(o2, g2, lo2, hi2, post1 + 0)
  BY <1>2, <1>10
<1>12. QED
  BY <1>5, <1>6, <1>8, <1>9, <1>11, HandshakeIs

(* It reads the header of a packet, the only one on the link. *)
LEMMA HandshakeTakeHdr ==
    ASSUME NEW T1, NEW l1 \in Seq(T1), NEW T2, NEW l2 \in Seq(T2),
           NEW o1, NEW g1, NEW o2, NEW g2, Handshake(l1, o1, g1, l2, o2, g2),
           g2 = 0, l2 # <<>>, Head(l2).t = "hdr"
    PROVE  Handshake(l1, o1, g1, Tail(l2), o2, 1) /\ ~HeaderOn(Tail(l2))
<1>1. PICK pre1 \in {0, 1}, post1 \in {0, 1}, lo1 \in 0 .. Words + 1, hi1 \in 0 .. Words + 1 :
        /\ Shape(pre1, lo1, hi1, post1) /\ Link(l1, pre1, lo1, hi1, post1)
        /\ \E pre2, post2 \in {0, 1}, lo2, hi2 \in 0 .. Words + 1 :
             /\ Shape(pre2, lo2, hi2, post2) /\ Link(l2, pre2, lo2, hi2, post2)
             /\ Flow(o1, g1, lo1, hi1, pre2 + post2)
             /\ Flow(o2, g2, lo2, hi2, pre1 + post1)
  BY DEF Handshake
<1>2. PICK pre2 \in {0, 1}, post2 \in {0, 1}, lo2 \in 0 .. Words + 1, hi2 \in 0 .. Words + 1 :
        /\ Shape(pre2, lo2, hi2, post2) /\ Link(l2, pre2, lo2, hi2, post2)
        /\ Flow(o1, g1, lo1, hi1, pre2 + post2)
        /\ Flow(o2, g2, lo2, hi2, pre1 + post1)
  BY <1>1
<1>3. /\ Words \in Nat /\ 1 <= Words
      /\ 0 <= lo1 /\ lo1 <= hi1 /\ hi1 <= Words + 1 /\ pre1 + post1 <= 1
      /\ (pre1 = 1 => lo1 = 0) /\ (post1 = 1 => hi1 = Words + 1)
      /\ 0 <= lo2 /\ lo2 <= hi2 /\ hi2 <= Words + 1 /\ pre2 + post2 <= 1
      /\ (pre2 = 1 => lo2 = 0) /\ (post2 = 1 => hi2 = Words + 1)
  BY <1>1, <1>2, AuroraAssumption DEF Shape
<1>4. pre2 = 0 /\ lo2 # hi2
  <2>1. CASE pre2 = 1 \/ lo2 = hi2
    BY <1>2, <2>1, LinkTakeAck
  <2>2. QED
    BY <1>3, <2>1
<1>5. /\ lo2 = 0
      /\ Shape(pre2, lo2 + 1, hi2, post2) /\ Link(Tail(l2), pre2, lo2 + 1, hi2, post2)
  BY <1>2, <1>4, LinkTakeWord
<1>6. Flow(o2, 1, lo2 + 1, hi2, pre1 + post1)
  BY <1>2, <1>3, <1>4, <1>5 DEF Flow
<1>7. ASSUME NEW i \in DOMAIN Tail(l2)
      PROVE  Tail(l2)[i].t # "hdr"
  <2>1. Tail(l2) \in Seq(T2)
    BY HeadTailProperties
  <2>2. i \in 1 .. Len(Tail(l2))
    BY <2>1
  <2>3. Tail(l2)[i].t = Place(i, pre2, lo2 + 1, hi2)
    BY <1>5, <2>2 DEF Link
  <2>4. lo2 + 1 + i - pre2 # 1
    BY <1>4, <1>5, <2>2
  <2>5. QED
    BY <2>3, <2>4 DEF Place
<1>8. QED
  BY <1>1, <1>2, <1>5, <1>6, <1>7, HandshakeIs DEF HeaderOn

(* It reads another half word of the packet. *)
LEMMA HandshakeTakeWord ==
    ASSUME NEW T1, NEW l1 \in Seq(T1), NEW T2, NEW l2 \in Seq(T2),
           NEW o1, NEW g1, NEW o2, NEW g2, Handshake(l1, o1, g1, l2, o2, g2),
           g2 \in 1 .. Words, l2 # <<>>
    PROVE  Handshake(l1, o1, g1, Tail(l2), o2, g2 + 1)
<1>1. PICK pre1 \in {0, 1}, post1 \in {0, 1}, lo1 \in 0 .. Words + 1, hi1 \in 0 .. Words + 1 :
        /\ Shape(pre1, lo1, hi1, post1) /\ Link(l1, pre1, lo1, hi1, post1)
        /\ \E pre2, post2 \in {0, 1}, lo2, hi2 \in 0 .. Words + 1 :
             /\ Shape(pre2, lo2, hi2, post2) /\ Link(l2, pre2, lo2, hi2, post2)
             /\ Flow(o1, g1, lo1, hi1, pre2 + post2)
             /\ Flow(o2, g2, lo2, hi2, pre1 + post1)
  BY DEF Handshake
<1>2. PICK pre2 \in {0, 1}, post2 \in {0, 1}, lo2 \in 0 .. Words + 1, hi2 \in 0 .. Words + 1 :
        /\ Shape(pre2, lo2, hi2, post2) /\ Link(l2, pre2, lo2, hi2, post2)
        /\ Flow(o1, g1, lo1, hi1, pre2 + post2)
        /\ Flow(o2, g2, lo2, hi2, pre1 + post1)
  BY <1>1
<1>3. /\ Words \in Nat /\ 1 <= Words
      /\ 0 <= lo1 /\ lo1 <= hi1 /\ hi1 <= Words + 1 /\ pre1 + post1 <= 1
      /\ (pre1 = 1 => lo1 = 0) /\ (post1 = 1 => hi1 = Words + 1)
      /\ 0 <= lo2 /\ lo2 <= hi2 /\ hi2 <= Words + 1 /\ pre2 + post2 <= 1
      /\ (pre2 = 1 => lo2 = 0) /\ (post2 = 1 => hi2 = Words + 1)
  BY <1>1, <1>2, AuroraAssumption DEF Shape
<1>4. lo2 = g2 /\ hi2 = o2 /\ lo2 # 0 /\ lo2 < Words + 1 /\ pre1 + post1 = 0
  BY <1>2, <1>3 DEF Flow
<1>5. pre2 = 0
  BY <1>3, <1>4
<1>6. lo2 # hi2
  <2>1. Len(l2) # 0
    BY EmptySeq
  <2>2. QED
    BY <1>2, <1>3, <1>4, <1>5, <2>1 DEF Link
<1>7. Shape(pre2, lo2 + 1, hi2, post2) /\ Link(Tail(l2), pre2, lo2 + 1, hi2, post2)
  BY <1>2, <1>5, <1>6, LinkTakeWord
<1>8. Flow(o2, g2 + 1, lo2 + 1, hi2, pre1 + post1)
  BY <1>3, <1>4, <1>6 DEF Flow
<1>9. QED
  BY <1>1, <1>2, <1>7, <1>8, HandshakeIs

(* It acknowledges a packet it has read, unless it is sending one. *)
LEMMA HandshakeAck ==
    ASSUME NEW T1, NEW l1 \in Seq(T1), NEW T2, NEW l2 \in Seq(T2),
           NEW o1, NEW g1, NEW o2, NEW g2, Handshake(l1, o1, g1, l2, o2, g2),
           g2 = Words + 1, o1 \in {-1, Words + 1}, NEW x \in T1, x.t = "ack"
    PROVE  Handshake(Append(l1, x), o1, g1, l2, o2, 0)
<1>1. PICK pre1 \in {0, 1}, post1 \in {0, 1}, lo1 \in 0 .. Words + 1, hi1 \in 0 .. Words + 1 :
        /\ Shape(pre1, lo1, hi1, post1) /\ Link(l1, pre1, lo1, hi1, post1)
        /\ \E pre2, post2 \in {0, 1}, lo2, hi2 \in 0 .. Words + 1 :
             /\ Shape(pre2, lo2, hi2, post2) /\ Link(l2, pre2, lo2, hi2, post2)
             /\ Flow(o1, g1, lo1, hi1, pre2 + post2)
             /\ Flow(o2, g2, lo2, hi2, pre1 + post1)
  BY DEF Handshake
<1>2. PICK pre2 \in {0, 1}, post2 \in {0, 1}, lo2 \in 0 .. Words + 1, hi2 \in 0 .. Words + 1 :
        /\ Shape(pre2, lo2, hi2, post2) /\ Link(l2, pre2, lo2, hi2, post2)
        /\ Flow(o1, g1, lo1, hi1, pre2 + post2)
        /\ Flow(o2, g2, lo2, hi2, pre1 + post1)
  BY <1>1
<1>3. /\ Words \in Nat /\ 1 <= Words
      /\ 0 <= lo1 /\ lo1 <= hi1 /\ hi1 <= Words + 1 /\ pre1 + post1 <= 1
      /\ (pre1 = 1 => lo1 = 0) /\ (post1 = 1 => hi1 = Words + 1)
      /\ 0 <= lo2 /\ lo2 <= hi2 /\ hi2 <= Words + 1 /\ pre2 + post2 <= 1
      /\ (pre2 = 1 => lo2 = 0) /\ (post2 = 1 => hi2 = Words + 1)
  BY <1>1, <1>2, AuroraAssumption DEF Shape
<1>4. /\ o2 = Words + 1 /\ lo2 = Words + 1 /\ hi2 = Words + 1 /\ pre1 + post1 = 0
  BY <1>2, <1>3 DEF Flow
<1>5. pre1 = 0 /\ post1 = 0
  BY <1>4
<1>6. Flow(o2, 0, lo2, hi2, 1 + 0) /\ Flow(o2, 0, lo2, hi2, 0 + 1)
  BY <1>4 DEF Flow
<1>7. CASE hi1 = Words + 1
  <2>1. Shape(0, lo1, hi1, 1) /\ Link(Append(l1, x), 0, lo1, hi1, 1)
    BY <1>1, <1>5, <1>7, LinkAckAfter
  <2>2. QED
    BY <1>2, <1>6, <2>1, HandshakeIs
<1>8. CASE lo1 = 0 /\ hi1 = 0
  <2>1. Shape(1, 0, 0, 0) /\ Link(Append(l1, x), 1, 0, 0, 0)
    BY <1>1, <1>5, <1>8, LinkAckBefore
  <2>2. Flow(o1, g1, 0, 0, pre2 + post2)
    BY <1>2, <1>8
  <2>3. QED
    BY <1>2, <1>6, <2>1, <2>2, HandshakeIs
<1>9. hi1 = Words + 1 \/ (lo1 = 0 /\ hi1 = 0)
  BY <1>2, <1>3 DEF Flow
<1>10. QED
  BY <1>7, <1>8, <1>9

-----------------------------------------------------------------------------
(* Half words, boards and queues. *)

(* A half word is known by its kind. *)
LEMMA HalfWordFacts ==
    ASSUME NEW P
    PROVE  /\ Ack \in HalfWords(P) /\ Ack.t = "ack"
           /\ \A p \in P : Hdr(p) \in HalfWords(P) /\ Hdr(p).t = "hdr"
           /\ Word \in HalfWords(P) /\ Word.t = "word"
           /\ \A x \in HalfWords(P) : /\ x.t \in {"hdr", "ack", "word"}
                                      /\ x.t = "hdr" => x.pkt \in P
                                      /\ x.t = "word" => x = Word
BY DEF HalfWords, Ack, Hdr, Word

(* The fields of a board. *)
LEMMA BoardFields ==
    ASSUME NEW PCs, NEW Rets, NEW b \in Board(PCs, Rets)
    PROVE  /\ b.pc \in PCs /\ b.ret \in Rets
           /\ b.n \in Int /\ 0 <= b.n /\ b.n <= Words
           /\ b = [pc |-> b.pc, pkt |-> b.pkt, n |-> b.n, ret |-> b.ret]
BY AuroraAssumption DEF Board

(* What a board may hold as a packet. *)
Held == {None} \cup E!Packets \cup E!Messages

(* The packets and messages of the link are among them. *)
LEMMA HeldFacts ==
    /\ None \in Held
    /\ \A c : PacketsOf(c) \subseteq E!Packets /\ PacketsOf(c) \subseteq Held
    /\ \A c : MessagesTo(c) \subseteq E!Messages /\ MessagesTo(c) \subseteq Held
    /\ E!Packets \subseteq Held
BY DEF Held, PacketsOf, MessagesTo

(* Moving a board. *)
LEMMA GotoIs ==
    ASSUME NEW PCs, NEW Rets, NEW b \in Board(PCs, Rets), NEW pc \in PCs, "none" \in Rets
    PROVE  /\ Goto(b, pc) \in Board(PCs, Rets)
           /\ Goto(b, pc).pc = pc /\ Goto(b, pc).n = 0 /\ Goto(b, pc).ret = "none"
<1>1. b \in [pc : PCs, pkt : Held, n : 0 .. Words, ret : Rets]
  BY DEF Board, Held
<1>2. 0 \in 0 .. Words /\ None \in Held
  BY AuroraAssumption DEF Held
<1>3. Goto(b, pc) \in [pc : PCs, pkt : Held, n : 0 .. Words, ret : Rets]
  BY <1>1, <1>2 DEF Goto
<1>4. Goto(b, pc).pc = pc /\ Goto(b, pc).n = 0 /\ Goto(b, pc).ret = "none"
  BY <1>1 DEF Goto
<1>5. QED
  BY <1>3, <1>4 DEF Board, Held

(* It begins to receive a packet. *)
LEMMA StartIs ==
    ASSUME NEW PCs, NEW Rets, NEW b, NEW k \in Held, NEW ret \in Rets, "recv" \in PCs
    PROVE  LET c == StartRecv(b, k, ret) IN
           /\ c \in Board(PCs, Rets)
           /\ c.pc = "recv" /\ c.pkt = k /\ c.n = 0 /\ c.ret = ret
BY AuroraAssumption DEF Board, Held, StartRecv

(* It goes on counting half words. *)
LEMMA CountIs ==
    ASSUME NEW PCs, NEW Rets, NEW b \in Board(PCs, Rets), b.n < Words
    PROVE  LET c == [b EXCEPT !.n = @ + 1] IN
           /\ c \in Board(PCs, Rets)
           /\ c.pc = b.pc /\ c.pkt = b.pkt /\ c.n = b.n + 1 /\ c.ret = b.ret
<1>1. b.n + 1 \in 0 .. Words
  BY BoardFields, AuroraAssumption
<1>2. QED
  BY <1>1 DEF Board

(* So, sending a half word, *)
LEMMA SendIs ==
    ASSUME NEW PCs, NEW Rets, NEW b \in Board(PCs, Rets), b.pc = "send", "wait" \in PCs
    PROVE  LET c == send_aurora_pkt(b) IN
           /\ c \in Board(PCs, Rets)
           /\ c.pkt = b.pkt /\ c.ret = b.ret
           /\ b.n < Words => c.pc = "send" /\ c.n = b.n + 1
           /\ b.n = Words => c.pc = "wait" /\ c.n = 0
<1>1. CASE b.n < Words
  BY <1>1, CountIs, BoardFields DEF send_aurora_pkt
<1>2. CASE b.n = Words
  <2> DEFINE c == [b EXCEPT !.pc = "wait", !.n = 0]
  <2>0. c \in Board(PCs, Rets) /\ c.pc = "wait" /\ c.pkt = b.pkt /\ c.n = 0 /\ c.ret = b.ret
    <3>1. PICK z \in 0 .. Words : z = 0
      BY AuroraAssumption
    <3>2. PICK pc \in PCs : pc = "wait"
      OBVIOUS
    <3>3. b \in [pc : PCs, pkt : Held, n : 0 .. Words, ret : Rets]
      BY DEF Board, Held
    <3>4. [b EXCEPT !.pc = pc, !.n = z] \in [pc : PCs, pkt : Held, n : 0 .. Words, ret : Rets]
      BY <3>3
    <3>5. QED
      BY <3>1, <3>2, <3>3, <3>4 DEF Board, Held
  <2>1. send_aurora_pkt(b) = c
    BY <1>2, AuroraAssumption DEF send_aurora_pkt
  <2>2. ~(b.n < Words)
    BY <1>2, AuroraAssumption
  <2> HIDE DEF c
  <2>3. QED
    BY <2>0, <2>1, <2>2
<1>3. QED
  BY <1>1, <1>2, BoardFields, AuroraAssumption

(* and receiving one. *)
LEMMA RecvIs ==
    ASSUME NEW PCs, NEW Rets, NEW b \in Board(PCs, Rets), b.pc = "recv", b.n < Words, "ack" \in PCs
    PROVE  LET c == recv_aurora_pkt(b) IN
           /\ c \in Board(PCs, Rets)
           /\ c.pkt = b.pkt /\ c.ret = b.ret
           /\ b.n + 1 < Words => c.pc = "recv" /\ c.n = b.n + 1
           /\ b.n + 1 = Words => c.pc = "ack" /\ c.n = 0
<1>1. CASE b.n + 1 < Words
  BY <1>1, CountIs, BoardFields DEF recv_aurora_pkt
<1>2. CASE b.n + 1 = Words
  <2> DEFINE c == [b EXCEPT !.pc = "ack", !.n = 0]
  <2>0. c \in Board(PCs, Rets) /\ c.pc = "ack" /\ c.pkt = b.pkt /\ c.n = 0 /\ c.ret = b.ret
    <3>1. PICK z \in 0 .. Words : z = 0
      BY AuroraAssumption
    <3>2. PICK pc \in PCs : pc = "ack"
      OBVIOUS
    <3>3. b \in [pc : PCs, pkt : Held, n : 0 .. Words, ret : Rets]
      BY DEF Board, Held
    <3>4. [b EXCEPT !.pc = pc, !.n = z] \in [pc : PCs, pkt : Held, n : 0 .. Words, ret : Rets]
      BY <3>3
    <3>5. QED
      BY <3>1, <3>2, <3>3, <3>4 DEF Board, Held
  <2>1. recv_aurora_pkt(b) = c
    BY <1>2, AuroraAssumption DEF recv_aurora_pkt
  <2>2. ~(b.n + 1 < Words)
    BY <1>2, AuroraAssumption
  <2> HIDE DEF c
  <2>3. QED
    BY <2>0, <2>1, <2>2
<1>3. QED
  BY <1>1, <1>2, BoardFields, AuroraAssumption

(* A queue of some things is one of more. *)
LEMMA SeqSub ==
    ASSUME NEW A, NEW B, A \subseteq B, NEW q \in Seq(A)
    PROVE  q \in Seq(B)
<1>1. PICK n \in Nat : q \in [1 .. n -> A]
  BY SeqDef
<1>2. q \in [1 .. n -> B]
  BY <1>1
<1>3. QED
  BY <1>2, SeqDef

(* The types of the queues from what they hold. *)
LEMMA QueueTypes ==
    ASSUME fsl = [c \in {0, 1} |-> fsl[c]], QueueInv
    PROVE  /\ fsl \in [{0, 1} -> Seq(E!Packets)]
           /\ toM \in Seq(HalfWords(E!Packets)) /\ toS \in Seq(HalfWords(E!Messages))
<1>1. fsl[0] \in Seq(E!Packets) /\ fsl[1] \in Seq(E!Packets)
  BY HeldFacts, SeqSub DEF QueueInv
<1>2. HalfWords(PacketsOf(1)) \subseteq HalfWords(E!Packets)
      /\ HalfWords(MessagesTo(1)) \subseteq HalfWords(E!Messages)
  BY HeldFacts DEF HalfWords
<1>3. toM \in Seq(HalfWords(E!Packets)) /\ toS \in Seq(HalfWords(E!Messages))
  BY <1>2, SeqSub DEF QueueInv
<1>4. fsl \in [{0, 1} -> Seq(E!Packets)]
  BY <1>1
<1>5. QED
  BY <1>3, <1>4

(* Taking from a queue, and putting on it. *)
LEMMA QueueOps ==
    ASSUME NEW T, NEW q \in Seq(T)
    PROVE  /\ q # <<>> => Head(q) \in T /\ Tail(q) \in Seq(T) /\ Len(Tail(q)) = Len(q) - 1
                          /\ Len(q) >= 1
           /\ \A x \in T : Append(q, x) \in Seq(T)
           /\ Len(q) \in Nat
<1>1. ASSUME q # <<>>
      PROVE  Head(q) \in T /\ Tail(q) \in Seq(T) /\ Len(Tail(q)) = Len(q) - 1 /\ Len(q) >= 1
  <2>1. Len(q) # 0 /\ Len(q) \in Nat
    BY <1>1, EmptySeq
  <2>2. Head(q) \in T /\ Tail(q) \in Seq(T) /\ Len(Tail(q)) = Len(q) - 1
    BY <1>1, HeadTailProperties
  <2>3. QED
    BY <2>1, <2>2
<1>2. QED
  BY <1>1, AppendProperties

-----------------------------------------------------------------------------
(* The steps of the slave. *)

SlavePCs == {"poll", "link", "send", "wait", "recv", "ack", "forward"}
SlaveRets == {"none", "poll", "wait"}
MasterPCs == {"local", "remote", "recv", "ack", "process", "reply", "send", "wait", "exit"}
MasterRets == {"none", "first", "second", "only", "wait"}

(* What the invariant says of the slave, its queues and the link. *)
SlaveSide == s \in Board(SlavePCs, SlaveRets) /\ SlaveInv /\ QueueInv /\ LinkInv

(* What its packet is worth to the handshake in each place. *)
LEMMA OutFacts ==
    ASSUME NEW b
    PROVE  /\ b.pc = "send" => Out(b) = b.n /\ Got(b) = 0
           /\ b.pc = "recv" => Got(b) = b.n + 1
           /\ b.pc = "ack" => Got(b) = Words + 1
           /\ b.pc \notin {"recv", "ack"} => Got(b) = 0
           /\ b.pc \in {"wait", "exit"} => Out(b) = Words + 1
           /\ b.pc \in {"recv", "ack", "forward"} => Out(b) = IF b.ret = "wait" THEN Words + 1 ELSE -1
           /\ b.pc \in {"poll", "link", "local", "remote", "process", "reply"} => Out(b) = -1
BY DEF Out, Got, Waiting

(* The type of the link for the handshake. *)
LEMMA LinkTypes ==
    ASSUME QueueInv
    PROVE  /\ toM \in Seq(HalfWords(PacketsOf(1))) /\ toS \in Seq(HalfWords(MessagesTo(1)))
           /\ toM # <<>> => Head(toM) \in HalfWords(PacketsOf(1)) /\ Tail(toM) \in Seq(HalfWords(PacketsOf(1)))
           /\ toS # <<>> => Head(toS) \in HalfWords(MessagesTo(1)) /\ Tail(toS) \in Seq(HalfWords(MessagesTo(1)))
BY QueueOps DEF QueueInv

(* The next half word of a packet. *)
LEMMA HalfWordIs ==
    ASSUME NEW P, NEW b, b.pkt \in P
    PROVE  HalfWord(b) \in HalfWords(P) /\ HalfWord(b).t = IF b.n = 0 THEN "hdr" ELSE "word"
BY HalfWordFacts DEF HalfWord

(* SlavePoll keeps the invariant: a packet of core 1 is taken up, or the
   slave turns to the link. *)
LEMMA SlavePollStep ==
    ASSUME SlaveSide, m' = m, SlavePoll, DOMAIN fsl = {0, 1}
    PROVE  SlaveSide'
<1>1. /\ s \in Board(SlavePCs, SlaveRets) /\ SlaveInv /\ QueueInv /\ LinkInv
      /\ s.pc = "poll" /\ s.n = 0 /\ toM' = toM /\ toS' = toS
  BY DEF SlaveSide, SlavePoll, SlaveInv
<1>2. Out(s) = -1 /\ Got(s) = 0
  BY <1>1, OutFacts
<1>3. CASE fsl[1] = <<>>
  <2>1. s' = Goto(s, "link") /\ fsl' = fsl
    BY <1>3 DEF SlavePoll
  <2>2. s' \in Board(SlavePCs, SlaveRets) /\ s'.pc = "link" /\ s'.n = 0
    BY <1>1, <2>1, GotoIs DEF SlavePCs, SlaveRets
  <2>3. Out(s') = -1 /\ Got(s') = 0
    BY <2>2, OutFacts
  <2>4. LinkInv'
    BY <1>1, <1>2, <2>3 DEF LinkInv
  <2>5. SlaveInv'
    BY <2>2 DEF SlaveInv
  <2>6. QueueInv'
    BY <1>1, <2>1 DEF QueueInv
  <2>7. QED
    BY <2>2, <2>4, <2>5, <2>6 DEF SlaveSide
<1>4. CASE fsl[1] # <<>>
  <2>1. s' = [s EXCEPT !.pc = "send", !.pkt = Head(fsl[1])] /\ fsl' = [fsl EXCEPT ![1] = Tail(@)]
    BY <1>4 DEF SlavePoll
  <2>2. Head(fsl[1]) \in PacketsOf(1) /\ Tail(fsl[1]) \in Seq(PacketsOf(1))
    BY <1>1, <1>4, QueueOps DEF QueueInv
  <2>3. Head(fsl[1]) \in Held
    BY <2>2, HeldFacts
  <2>4. s' \in Board(SlavePCs, SlaveRets) /\ s'.pc = "send" /\ s'.n = 0 /\ s'.pkt = Head(fsl[1])
    BY <1>1, <2>1, <2>3 DEF Board, Held, SlavePCs
  <2>5. Out(s') = 0 /\ Got(s') = 0
    BY <2>4, OutFacts
  <2>6. LinkInv'
    <3>1. Handshake(toM, 0, Got(m), toS, Out(m), 0)
      BY <1>1, <1>2, HandshakeStart, LinkTypes DEF LinkInv
    <3>2. QED
      BY <1>1, <2>5, <3>1 DEF LinkInv
  <2>7. SlaveInv'
    BY <2>2, <2>4 DEF SlaveInv
  <2>8. QueueInv'
    <3>1. fsl'[0] = fsl[0] /\ fsl'[1] = Tail(fsl[1])
      BY <2>1
    <3>2. QED
      BY <1>1, <2>2, <3>1 DEF QueueInv
  <2>9. QED
    BY <2>4, <2>6, <2>7, <2>8 DEF SlaveSide
<1>5. QED
  BY <1>3, <1>4

(* SlaveLink keeps the invariant: a header starts a receipt, and an
   acknowledgement cannot be there. *)
LEMMA SlaveLinkStep ==
    ASSUME SlaveSide, m' = m, SlaveLink
    PROVE  SlaveSide'
<1>1. /\ s \in Board(SlavePCs, SlaveRets) /\ SlaveInv /\ QueueInv /\ LinkInv
      /\ s.pc = "link" /\ s.n = 0 /\ toM' = toM /\ fsl' = fsl
  BY DEF SlaveSide, SlaveLink, SlaveInv
<1>2. Out(s) = -1 /\ Got(s) = 0 /\ -1 # Words + 1
  BY <1>1, OutFacts, AuroraAssumption
<1>3. Handshake(toM, -1, Got(m), toS, Out(m), 0)
  BY <1>1, <1>2 DEF LinkInv
<1>4. CASE toS # <<>> /\ Head(toS).t = "hdr"
  <2>1. s' = StartRecv(s, Head(toS).pkt, "poll") /\ toS' = Tail(toS)
    BY <1>4 DEF SlaveLink
  <2>2. Head(toS).pkt \in MessagesTo(1)
    BY <1>1, <1>4, LinkTypes, HalfWordFacts
  <2>3. Head(toS).pkt \in Held
    BY <2>2, HeldFacts
  <2>4. /\ s' \in Board(SlavePCs, SlaveRets) /\ s'.pc = "recv" /\ s'.pkt = Head(toS).pkt
        /\ s'.n = 0 /\ s'.ret = "poll"
    BY <2>1, <2>3, StartIs DEF SlavePCs, SlaveRets
  <2>5. Out(s') = -1 /\ Got(s') = 1
    BY <2>4, OutFacts
  <2>6. Handshake(toM, -1, Got(m), Tail(toS), Out(m), 1)
    BY <1>1, <1>3, <1>4, LinkTypes, HandshakeTakeHdr
  <2>7. LinkInv'
    BY <1>1, <2>1, <2>5, <2>6 DEF LinkInv
  <2>8. SlaveInv'
    BY <2>2, <2>4, AuroraAssumption DEF SlaveInv
  <2>9. QueueInv'
    BY <1>1, <1>4, <2>1, LinkTypes DEF QueueInv
  <2>10. QED
    BY <2>4, <2>7, <2>8, <2>9 DEF SlaveSide
<1>5. CASE toS = <<>>
  <2>1. s' = Goto(s, "poll") /\ toS' = toS
    BY <1>5 DEF SlaveLink
  <2>2. s' \in Board(SlavePCs, SlaveRets) /\ s'.pc = "poll" /\ s'.n = 0
    BY <1>1, <2>1, GotoIs DEF SlavePCs, SlaveRets
  <2>3. Out(s') = -1 /\ Got(s') = 0
    BY <2>2, OutFacts
  <2>4. LinkInv'
    BY <1>1, <1>3, <2>1, <2>3 DEF LinkInv
  <2>5. SlaveInv'
    BY <2>2 DEF SlaveInv
  <2>6. QueueInv'
    BY <1>1, <2>1 DEF QueueInv
  <2>7. QED
    BY <2>2, <2>4, <2>5, <2>6 DEF SlaveSide
<1>6. CASE toS # <<>> /\ Head(toS).t = "ack"
  BY <1>1, <1>2, <1>3, <1>6, LinkTypes, HandshakeTakeAck
<1>7. toS # <<>> => Head(toS).t \in {"hdr", "ack"}
  BY <1>1, <1>3, LinkTypes, HandshakeBounds
<1>8. QED
  BY <1>4, <1>5, <1>6, <1>7

(* SlaveSend keeps the invariant: one more half word is on the link. *)
LEMMA SlaveSendStep ==
    ASSUME SlaveSide, m' = m, SlaveSend
    PROVE  SlaveSide'
<1>1. /\ s \in Board(SlavePCs, SlaveRets) /\ SlaveInv /\ QueueInv /\ LinkInv
      /\ s.pc = "send" /\ s.pkt \in PacketsOf(1) /\ toS' = toS /\ fsl' = fsl
      /\ s' = send_aurora_pkt(s) /\ toM' = Append(toM, HalfWord(s))
  BY DEF SlaveSide, SlaveSend, SlaveInv
<1>2. Out(s) = s.n /\ Got(s) = 0 /\ s.n \in 0 .. Words
  BY <1>1, OutFacts, BoardFields, AuroraAssumption
<1>3. /\ s' \in Board(SlavePCs, SlaveRets) /\ s'.pkt = s.pkt
      /\ s.n < Words => s'.pc = "send" /\ s'.n = s.n + 1
      /\ s.n = Words => s'.pc = "wait" /\ s'.n = 0
  BY <1>1, SendIs DEF SlavePCs
<1>4. s.n < Words \/ s.n = Words
  BY <1>2, AuroraAssumption
<1>5. Out(s') = s.n + 1 /\ Got(s') = 0
  BY <1>3, <1>4, OutFacts
<1>6. HalfWord(s) \in HalfWords(PacketsOf(1)) /\ HalfWord(s).t = IF s.n = 0 THEN "hdr" ELSE "word"
  BY <1>1, HalfWordIs
<1>7. Handshake(toM, s.n, Got(m), toS, Out(m), 0)
  BY <1>1, <1>2 DEF LinkInv
<1>8. Handshake(Append(toM, HalfWord(s)), s.n + 1, Got(m), toS, Out(m), 0)
  BY <1>1, <1>2, <1>6, <1>7, LinkTypes, HandshakeSend
<1>9. LinkInv'
  BY <1>1, <1>5, <1>8 DEF LinkInv
<1>10. SlaveInv'
  BY <1>1, <1>3, <1>4 DEF SlaveInv
<1>11. QueueInv'
  BY <1>1, <1>6, QueueOps DEF QueueInv
<1>12. QED
  BY <1>3, <1>9, <1>10, <1>11 DEF SlaveSide

(* SlaveWait keeps the invariant: the acknowledgement, or a packet first. *)
LEMMA SlaveWaitStep ==
    ASSUME SlaveSide, m' = m, SlaveWait
    PROVE  SlaveSide'
<1>1. /\ s \in Board(SlavePCs, SlaveRets) /\ SlaveInv /\ QueueInv /\ LinkInv
      /\ s.pc = "wait" /\ s.n = 0 /\ toM' = toM /\ fsl' = fsl /\ toS # <<>> /\ toS' = Tail(toS)
  BY DEF SlaveSide, SlaveWait, SlaveInv
<1>2. Out(s) = Words + 1 /\ Got(s) = 0
  BY <1>1, OutFacts
<1>3. Handshake(toM, Words + 1, Got(m), toS, Out(m), 0)
  BY <1>1, <1>2 DEF LinkInv
<1>4. QueueInv'
  BY <1>1, LinkTypes DEF QueueInv
<1>5. CASE Head(toS).t = "hdr"
  <2>1. s' = StartRecv(s, Head(toS).pkt, "wait")
    BY <1>5 DEF SlaveWait
  <2>2. Head(toS).pkt \in MessagesTo(1)
    BY <1>1, <1>5, LinkTypes, HalfWordFacts
  <2>3. Head(toS).pkt \in Held
    BY <2>2, HeldFacts
  <2>4. /\ s' \in Board(SlavePCs, SlaveRets) /\ s'.pc = "recv" /\ s'.pkt = Head(toS).pkt
        /\ s'.n = 0 /\ s'.ret = "wait"
    BY <2>1, <2>3, StartIs DEF SlavePCs, SlaveRets
  <2>5. Out(s') = Words + 1 /\ Got(s') = 1
    BY <2>4, OutFacts
  <2>6. Handshake(toM, Words + 1, Got(m), Tail(toS), Out(m), 1)
    BY <1>1, <1>3, <1>5, LinkTypes, HandshakeTakeHdr
  <2>7. LinkInv'
    BY <1>1, <2>5, <2>6 DEF LinkInv
  <2>8. SlaveInv'
    BY <2>2, <2>4, AuroraAssumption DEF SlaveInv
  <2>9. QED
    BY <1>4, <2>4, <2>7, <2>8 DEF SlaveSide
<1>6. CASE Head(toS).t = "ack"
  <2>1. s' = Goto(s, "poll")
    BY <1>6 DEF SlaveWait
  <2>2. s' \in Board(SlavePCs, SlaveRets) /\ s'.pc = "poll" /\ s'.n = 0
    BY <1>1, <2>1, GotoIs DEF SlavePCs, SlaveRets
  <2>3. Out(s') = -1 /\ Got(s') = 0
    BY <2>2, OutFacts
  <2>4. Handshake(toM, -1, Got(m), Tail(toS), Out(m), 0)
    BY <1>1, <1>3, <1>6, LinkTypes, HandshakeTakeAck
  <2>5. LinkInv'
    BY <1>1, <2>3, <2>4 DEF LinkInv
  <2>6. SlaveInv'
    BY <2>2 DEF SlaveInv
  <2>7. QED
    BY <1>4, <2>2, <2>5, <2>6 DEF SlaveSide
<1>7. Head(toS).t \in {"hdr", "ack"}
  BY <1>1, <1>3, LinkTypes, HandshakeBounds
<1>8. QED
  BY <1>5, <1>6, <1>7

(* SlaveRecv keeps the invariant: one half word fewer is under way. *)
LEMMA SlaveRecvStep ==
    ASSUME SlaveSide, m' = m, SlaveRecv
    PROVE  SlaveSide'
<1>1. /\ s \in Board(SlavePCs, SlaveRets) /\ SlaveInv /\ QueueInv /\ LinkInv
      /\ s.pc = "recv" /\ s.n < Words /\ s.pkt \in MessagesTo(1) /\ s.ret \in {"poll", "wait"}
      /\ toM' = toM /\ fsl' = fsl /\ toS # <<>> /\ toS' = Tail(toS) /\ s' = recv_aurora_pkt(s)
  BY DEF SlaveSide, SlaveRecv, SlaveInv
<1>2. Got(s) = s.n + 1 /\ s.n + 1 \in 1 .. Words
  BY <1>1, OutFacts, BoardFields, AuroraAssumption
<1>3. /\ s' \in Board(SlavePCs, SlaveRets) /\ s'.pkt = s.pkt /\ s'.ret = s.ret
      /\ s.n + 1 < Words => s'.pc = "recv" /\ s'.n = s.n + 1
      /\ s.n + 1 = Words => s'.pc = "ack" /\ s'.n = 0
  BY <1>1, RecvIs DEF SlavePCs
<1>4. s.n + 1 < Words \/ s.n + 1 = Words
  BY <1>2, AuroraAssumption
<1>5. Got(s') = s.n + 1 + 1
  <2>1. CASE s.n + 1 < Words
    BY <1>3, <2>1, OutFacts
  <2>2. CASE s.n + 1 = Words
    BY <1>3, <2>2, OutFacts
  <2>3. QED
    BY <1>4, <2>1, <2>2
<1>6. Out(s') = Out(s)
  BY <1>1, <1>3, <1>4, OutFacts
<1>7. Handshake(toM, Out(s), Got(m), toS, Out(m), s.n + 1)
  BY <1>1, <1>2 DEF LinkInv
<1>8. Handshake(toM, Out(s), Got(m), Tail(toS), Out(m), s.n + 1 + 1)
  BY <1>1, <1>2, <1>7, LinkTypes, HandshakeTakeWord
<1>9. LinkInv'
  BY <1>1, <1>5, <1>6, <1>8 DEF LinkInv
<1>10. SlaveInv'
  BY <1>1, <1>3, <1>4 DEF SlaveInv
<1>11. QueueInv'
  BY <1>1, LinkTypes DEF QueueInv
<1>12. QED
  BY <1>3, <1>9, <1>10, <1>11 DEF SlaveSide

(* SlaveAck keeps the invariant: the link had no acknowledgement yet. *)
LEMMA SlaveAckStep ==
    ASSUME SlaveSide, m' = m, SlaveAck
    PROVE  SlaveSide'
<1>1. /\ s \in Board(SlavePCs, SlaveRets) /\ SlaveInv /\ QueueInv /\ LinkInv
      /\ s.pc = "ack" /\ s.n = 0 /\ s.pkt \in MessagesTo(1) /\ s.ret \in {"poll", "wait"}
      /\ toS' = toS /\ fsl' = fsl /\ toM' = Append(toM, Ack) /\ s' = [s EXCEPT !.pc = "forward"]
  BY DEF SlaveSide, SlaveAck, SlaveInv
<1>2. Got(s) = Words + 1 /\ Out(s) \in {-1, Words + 1}
  BY <1>1, OutFacts
<1>3. /\ s' \in Board(SlavePCs, SlaveRets) /\ s'.pc = "forward" /\ s'.pkt = s.pkt /\ s'.n = 0
      /\ s'.ret = s.ret
  BY <1>1 DEF Board, SlavePCs
<1>4. Out(s') = Out(s) /\ Got(s') = 0
  BY <1>1, <1>3, OutFacts
<1>5. Handshake(toM, Out(s), Got(m), toS, Out(m), Words + 1)
  BY <1>1, <1>2 DEF LinkInv
<1>6. Handshake(Append(toM, Ack), Out(s), Got(m), toS, Out(m), 0)
  BY <1>1, <1>2, <1>5, LinkTypes, HalfWordFacts, HandshakeAck
<1>7. LinkInv'
  BY <1>1, <1>4, <1>6 DEF LinkInv
<1>8. SlaveInv'
  BY <1>1, <1>3 DEF SlaveInv
<1>9. QueueInv'
  BY <1>1, HalfWordFacts, QueueOps DEF QueueInv
<1>10. QED
  BY <1>3, <1>7, <1>8, <1>9 DEF SlaveSide

(* SlaveForward keeps the invariant: back to where the receipt began. *)
LEMMA SlaveForwardStep ==
    ASSUME SlaveSide, m' = m, SlaveForward
    PROVE  SlaveSide'
<1>1. /\ s \in Board(SlavePCs, SlaveRets) /\ SlaveInv /\ QueueInv /\ LinkInv
      /\ s.pc = "forward" /\ s.ret \in {"poll", "wait"}
      /\ toS' = toS /\ fsl' = fsl /\ toM' = toM /\ s' = Goto(s, s.ret)
  BY DEF SlaveSide, SlaveForward, SlaveInv
<1>2. /\ s' \in Board(SlavePCs, SlaveRets) /\ s'.pc = s.ret /\ s'.n = 0
  BY <1>1, GotoIs DEF SlavePCs, SlaveRets
<1>3. Out(s') = Out(s) /\ Got(s') = 0 /\ Got(s) = 0
  BY <1>1, <1>2, OutFacts
<1>4. LinkInv'
  BY <1>1, <1>3 DEF LinkInv
<1>5. SlaveInv'
  BY <1>1, <1>2 DEF SlaveInv
<1>6. QueueInv'
  BY <1>1 DEF QueueInv
<1>7. QED
  BY <1>2, <1>4, <1>5, <1>6 DEF SlaveSide

-----------------------------------------------------------------------------
(* The steps of the master. *)

(* What the invariant says of the master, its queues and the link. *)
MasterSide == m \in Board(MasterPCs, MasterRets) /\ MasterInv /\ QueueInv /\ LinkInv

(* The handshake with the master as the first board. *)
LEMMA LinkTurned ==
    ASSUME LinkInv
    PROVE  Handshake(toS, Out(m), Got(s), toM, Out(s), Got(m))
BY HandshakeTurned DEF LinkInv

(* And back. *)
LEMMA LinkBack ==
    ASSUME s' = s, Handshake(toS', Out(m'), Got(s), toM', Out(s), Got(m'))
    PROVE  LinkInv'
<1>1. Handshake(toM', Out(s), Got(m'), toS', Out(m'), Got(s))
  BY HandshakeTurned
<1>2. QED
  BY <1>1 DEF LinkInv

(* Round the loop. *)
LEMMA LoopIs ==
    /\ Loop \in Board(MasterPCs, MasterRets)
    /\ Loop.pc \in {"local", "remote"} /\ Loop.ret \in {"first", "only"} /\ Loop.n = 0
<1>1. PICK pc \in {"local", "remote"}, ret \in {"first", "only"} :
        Loop = [pc |-> pc, ret |-> ret, pkt |-> None, n |-> 0]
  BY DEF Loop
<1>2. 0 \in 0 .. Words /\ pc \in MasterPCs /\ ret \in MasterRets
  BY AuroraAssumption DEF MasterPCs, MasterRets
<1>3. QED
  BY <1>1, <1>2 DEF Board

(* The master is between two requests: it polls one of its sources, and has *)
(* nothing on its way to the slave.                                        *)
LEMMA PollingIs ==
    ASSUME MasterSide, s' = s, toM' = toM, toS' = toS, QueueInv',
           m.pc \in {"local", "remote", "process", "reply"},
           m' \in Board(MasterPCs, MasterRets), m'.n = 0,
           \/ m'.pc \in {"local", "remote"} /\ m'.ret \in {"first", "second", "only"}
           \/ m'.pc = "process" /\ m'.pkt \in E!Packets
           \/ m'.pc = "reply"
    PROVE  MasterSide'
<1>1. Out(m) = -1 /\ Got(m) = 0 /\ Out(m') = -1 /\ Got(m') = 0
  BY OutFacts
<1>2. LinkInv'
  BY <1>1 DEF LinkInv, MasterSide
<1>3. MasterInv'
  BY DEF MasterInv
<1>4. QED
  BY <1>2, <1>3 DEF MasterSide

(* Nothing there. *)
LEMMA NextAttemptIs ==
    ASSUME MasterSide, NEW other \in {"local", "remote"}, NextAttempt(other),
           m.pc \in {"local", "remote"}
    PROVE  /\ m' \in Board(MasterPCs, MasterRets) /\ m'.n = 0
           /\ m'.pc \in {"local", "remote"} /\ m'.ret \in {"first", "second", "only"}
<1>1. m \in Board(MasterPCs, MasterRets) /\ m.n = 0
  BY DEF MasterSide, MasterInv
<1>2. CASE m.ret = "first"
  <2>1. m' = [m EXCEPT !.pc = other, !.ret = "second"]
    BY <1>2 DEF NextAttempt
  <2>2. PICK ret \in MasterRets : ret = "second"
    BY DEF MasterRets
  <2>3. other \in MasterPCs
    BY DEF MasterPCs
  <2>4. QED
    BY <1>1, <2>1, <2>2, <2>3 DEF Board
<1>3. CASE m.ret # "first"
  BY <1>3, LoopIs DEF NextAttempt
<1>4. QED
  BY <1>2, <1>3

(* MasterLocal keeps the invariant: a packet of core 0, or the next attempt. *)
LEMMA MasterLocalStep ==
    ASSUME MasterSide, MasterLocal, DOMAIN fsl = {0, 1}
    PROVE  MasterSide'
<1>1. /\ m \in Board(MasterPCs, MasterRets) /\ MasterInv /\ QueueInv
      /\ m.pc = "local" /\ m.n = 0 /\ s' = s /\ toM' = toM /\ toS' = toS
  BY DEF MasterSide, MasterLocal, MasterInv
<1>2. CASE fsl[0] = <<>>
  <2>1. NextAttempt("remote") /\ fsl' = fsl
    BY <1>2 DEF MasterLocal
  <2>2. QueueInv'
    BY <1>1, <2>1 DEF QueueInv
  <2>3. QED
    BY <1>1, <2>1, <2>2, NextAttemptIs, PollingIs
<1>3. CASE fsl[0] # <<>>
  <2>1. m' = [m EXCEPT !.pc = "process", !.pkt = Head(fsl[0])] /\ fsl' = [fsl EXCEPT ![0] = Tail(@)]
    BY <1>3 DEF MasterLocal
  <2>2. Head(fsl[0]) \in PacketsOf(0) /\ Tail(fsl[0]) \in Seq(PacketsOf(0))
    BY <1>1, <1>3, QueueOps DEF QueueInv
  <2>3. Head(fsl[0]) \in Held /\ Head(fsl[0]) \in E!Packets
    BY <2>2, HeldFacts
  <2>4. m' \in Board(MasterPCs, MasterRets) /\ m'.pc = "process" /\ m'.n = 0 /\ m'.pkt = Head(fsl[0])
    BY <1>1, <2>1, <2>3 DEF Board, Held, MasterPCs
  <2>5. QueueInv'
    <3>1. fsl'[1] = fsl[1] /\ fsl'[0] = Tail(fsl[0])
      BY <2>1
    <3>2. QED
      BY <1>1, <2>2, <3>1 DEF QueueInv
  <2>6. QED
    BY <1>1, <2>3, <2>4, <2>5, PollingIs
<1>4. QED
  BY <1>2, <1>3

(* MasterRing keeps the invariant: the oldest packet of the ring is taken. *)
LEMMA MasterRingStep ==
    ASSUME MasterSide, MasterRing, pcx_pkts[rx_head] \in PacketsOf(1)
    PROVE  MasterSide'
<1>1. /\ m \in Board(MasterPCs, MasterRets) /\ MasterInv /\ QueueInv
      /\ m.pc = "remote" /\ m.n = 0 /\ s' = s /\ toM' = toM /\ toS' = toS /\ fsl' = fsl
      /\ m' = [m EXCEPT !.pc = "process", !.pkt = pcx_pkts[rx_head]]
  BY DEF MasterSide, MasterRing, MasterInv, slave
<1>2. pcx_pkts[rx_head] \in Held /\ pcx_pkts[rx_head] \in E!Packets
  BY HeldFacts
<1>3. PICK k \in Held : k = pcx_pkts[rx_head]
  BY <1>2
<1>4. m' \in Board(MasterPCs, MasterRets) /\ m'.pc = "process" /\ m'.n = 0 /\ m'.pkt = k
  BY <1>1, <1>3 DEF Board, Held, MasterPCs
<1>5. QueueInv'
  BY <1>1 DEF QueueInv
<1>6. QED
  BY <1>1, <1>2, <1>3, <1>4, <1>5, PollingIs

(* MasterLink keeps the invariant: the next attempt, or a receipt begins. *)
LEMMA MasterLinkStep ==
    ASSUME MasterSide, MasterLink
    PROVE  MasterSide'
<1>1. /\ m \in Board(MasterPCs, MasterRets) /\ MasterInv /\ QueueInv /\ LinkInv
      /\ m.pc = "remote" /\ m.n = 0 /\ m.ret \in {"first", "second", "only"}
      /\ s' = s /\ toS' = toS /\ fsl' = fsl
  BY DEF MasterSide, MasterLink, MasterInv
<1>2. Out(m) = -1 /\ Got(m) = 0 /\ -1 # Words + 1
  BY <1>1, OutFacts, AuroraAssumption
<1>3. Handshake(toS, -1, Got(s), toM, Out(s), 0)
  BY <1>1, <1>2, LinkTurned
<1>4. CASE toM = <<>>
  <2>1. NextAttempt("local") /\ toM' = toM
    BY <1>4 DEF MasterLink
  <2>2. QueueInv'
    BY <1>1, <2>1 DEF QueueInv
  <2>3. QED
    BY <1>1, <2>1, <2>2, NextAttemptIs, PollingIs
<1>5. CASE toM # <<>> /\ Head(toM).t = "hdr"
  <2>1. m' = StartRecv(m, Head(toM).pkt, m.ret) /\ toM' = Tail(toM)
    BY <1>5 DEF MasterLink
  <2>2. Head(toM).pkt \in PacketsOf(1)
    BY <1>1, <1>5, LinkTypes, HalfWordFacts
  <2>3. Head(toM).pkt \in Held
    BY <2>2, HeldFacts
  <2>4. /\ m' \in Board(MasterPCs, MasterRets) /\ m'.pc = "recv" /\ m'.pkt = Head(toM).pkt
        /\ m'.n = 0 /\ m'.ret = m.ret
    BY <1>1, <2>1, <2>3, StartIs DEF MasterPCs, MasterRets
  <2>5. Out(m') = -1 /\ Got(m') = 1
    BY <1>1, <2>4, OutFacts
  <2>6. Handshake(toS, -1, Got(s), Tail(toM), Out(s), 1)
    BY <1>1, <1>3, <1>5, LinkTypes, HandshakeTakeHdr
  <2>7. LinkInv'
    BY <1>1, <2>1, <2>5, <2>6, LinkBack
  <2>8. MasterInv'
    BY <1>1, <2>2, <2>4, AuroraAssumption DEF MasterInv
  <2>9. QueueInv'
    BY <1>1, <1>5, <2>1, LinkTypes DEF QueueInv
  <2>10. QED
    BY <2>4, <2>7, <2>8, <2>9 DEF MasterSide
<1>6. CASE toM # <<>> /\ Head(toM).t = "ack"
  BY <1>1, <1>2, <1>3, <1>6, LinkTypes, HandshakeTakeAck
<1>7. toM # <<>> => Head(toM).t \in {"hdr", "ack"}
  BY <1>1, <1>3, LinkTypes, HandshakeBounds
<1>8. QED
  BY <1>4, <1>5, <1>6, <1>7

(* MasterRecv keeps the invariant: one half word fewer is under way. *)
LEMMA MasterRecvStep ==
    ASSUME MasterSide, MasterRecv
    PROVE  MasterSide'
<1>1. /\ m \in Board(MasterPCs, MasterRets) /\ MasterInv /\ QueueInv /\ LinkInv
      /\ m.pc = "recv" /\ m.n < Words /\ m.pkt \in PacketsOf(1)
      /\ m.ret \in {"first", "second", "only", "wait"}
      /\ s' = s /\ toS' = toS /\ fsl' = fsl /\ toM # <<>> /\ toM' = Tail(toM) /\ m' = recv_aurora_pkt(m)
  BY DEF MasterSide, MasterRecv, MasterInv
<1>2. Got(m) = m.n + 1 /\ m.n + 1 \in 1 .. Words
  BY <1>1, OutFacts, BoardFields, AuroraAssumption
<1>3. /\ m' \in Board(MasterPCs, MasterRets) /\ m'.pkt = m.pkt /\ m'.ret = m.ret
      /\ m.n + 1 < Words => m'.pc = "recv" /\ m'.n = m.n + 1
      /\ m.n + 1 = Words => m'.pc = "ack" /\ m'.n = 0
  BY <1>1, RecvIs DEF MasterPCs
<1>4. m.n + 1 < Words \/ m.n + 1 = Words
  BY <1>2, AuroraAssumption
<1>5. Got(m') = m.n + 1 + 1
  <2>1. CASE m.n + 1 < Words
    BY <1>3, <2>1, OutFacts
  <2>2. CASE m.n + 1 = Words
    BY <1>3, <2>2, OutFacts
  <2>3. QED
    BY <1>4, <2>1, <2>2
<1>6. Out(m') = Out(m)
  BY <1>1, <1>3, <1>4, OutFacts
<1>7. Handshake(toS, Out(m), Got(s), toM, Out(s), m.n + 1)
  BY <1>1, <1>2, LinkTurned
<1>8. Handshake(toS, Out(m), Got(s), Tail(toM), Out(s), m.n + 1 + 1)
  BY <1>1, <1>2, <1>7, LinkTypes, HandshakeTakeWord
<1>9. LinkInv'
  BY <1>1, <1>5, <1>6, <1>8, LinkBack
<1>10. MasterInv'
  BY <1>1, <1>3, <1>4 DEF MasterInv
<1>11. QueueInv'
  BY <1>1, LinkTypes DEF QueueInv
<1>12. QED
  BY <1>3, <1>9, <1>10, <1>11 DEF MasterSide

(* MasterAck keeps the invariant: the packet is put into the ring, or served. *)
LEMMA MasterAckStep ==
    ASSUME MasterSide, MasterAck
    PROVE  MasterSide'
<1>1. /\ m \in Board(MasterPCs, MasterRets) /\ MasterInv /\ QueueInv /\ LinkInv
      /\ m.pc = "ack" /\ m.n = 0 /\ m.pkt \in PacketsOf(1)
      /\ m.ret \in {"first", "second", "only", "wait"}
      /\ s' = s /\ toM' = toM /\ fsl' = fsl /\ toS' = Append(toS, Ack)
  BY DEF MasterSide, MasterAck, MasterInv
<1>2. Got(m) = Words + 1 /\ Out(m) = (IF m.ret = "wait" THEN Words + 1 ELSE -1)
  BY <1>1, OutFacts
<1>3. Handshake(toS, Out(m), Got(s), toM, Out(s), Words + 1)
  BY <1>1, <1>2, LinkTurned
<1>4. Handshake(Append(toS, Ack), Out(m), Got(s), toM, Out(s), 0)
  BY <1>1, <1>2, <1>3, LinkTypes, HalfWordFacts, HandshakeAck
<1>5. QueueInv'
  BY <1>1, HalfWordFacts, QueueOps DEF QueueInv
<1>6. CASE m.ret = "wait"
  <2>1. m' = Goto(m, "wait") \/ m' = Goto(m, "exit")
    BY <1>6 DEF MasterAck, insert_pcx_pkt
  <2>2. m' \in Board(MasterPCs, MasterRets) /\ m'.pc \in {"wait", "exit"} /\ m'.n = 0
    BY <1>1, <2>1, GotoIs DEF MasterPCs, MasterRets
  <2>3. Out(m') = Out(m) /\ Got(m') = 0
    BY <1>2, <1>6, <2>2, OutFacts
  <2>4. LinkInv'
    BY <1>1, <1>4, <2>3, LinkBack
  <2>5. MasterInv'
    BY <2>2 DEF MasterInv
  <2>6. QED
    BY <1>5, <2>2, <2>4, <2>5 DEF MasterSide
<1>7. CASE m.ret # "wait"
  <2>1. m' = [m EXCEPT !.pc = "process"]
    BY <1>7 DEF MasterAck
  <2>2. m' \in Board(MasterPCs, MasterRets) /\ m'.pc = "process" /\ m'.n = 0 /\ m'.pkt = m.pkt
    BY <1>1, <2>1 DEF Board, MasterPCs
  <2>3. Out(m') = Out(m) /\ Got(m') = 0
    BY <1>2, <1>7, <2>2, OutFacts
  <2>4. LinkInv'
    BY <1>1, <1>4, <2>3, LinkBack
  <2>5. MasterInv'
    BY <1>1, <2>2, HeldFacts DEF MasterInv
  <2>6. QED
    BY <1>5, <2>2, <2>4, <2>5 DEF MasterSide
<1>8. QED
  BY <1>6, <1>7

(* MasterProcess keeps the invariant: the messages of a request are known. *)
LEMMA MasterProcessStep ==
    ASSUME MasterSide, MasterProcess
    PROVE  MasterSide'
<1>1. /\ m \in Board(MasterPCs, MasterRets) /\ QueueInv
      /\ m.pc = "process" /\ s' = s /\ toM' = toM /\ toS' = toS /\ fsl' = fsl
      /\ m' = Goto(m, "reply")
  BY DEF MasterSide, MasterProcess, slave
<1>2. m' \in Board(MasterPCs, MasterRets) /\ m'.pc = "reply" /\ m'.n = 0
  BY <1>1, GotoIs DEF MasterPCs, MasterRets
<1>3. QueueInv'
  BY <1>1 DEF QueueInv
<1>4. QED
  BY <1>1, <1>2, <1>3, PollingIs

(* MasterReply keeps the invariant: to core 0 at once, to core 1 by the link. *)
LEMMA MasterReplyStep ==
    ASSUME MasterSide, MasterReply, todo \in Seq(E!Messages)
    PROVE  MasterSide'
<1>1. /\ m \in Board(MasterPCs, MasterRets) /\ MasterInv /\ QueueInv /\ LinkInv
      /\ m.pc = "reply" /\ m.n = 0 /\ s' = s /\ toM' = toM /\ toS' = toS /\ fsl' = fsl
  BY DEF MasterSide, MasterReply, MasterInv, slave
<1>2. QueueInv'
  BY <1>1 DEF QueueInv
<1>3. CASE todo = <<>>
  <2>1. m' = Loop
    BY <1>3 DEF MasterReply
  <2>2. QED
    BY <1>1, <1>2, <2>1, LoopIs, PollingIs
<1>4. CASE todo # <<>> /\ Head(todo).to = 0
  <2>1. m' = m
    BY <1>4 DEF MasterReply
  <2>2. QED
    BY <1>1, <1>2, <2>1, PollingIs
<1>5. CASE todo # <<>> /\ Head(todo).to # 0
  <2>1. m' = [m EXCEPT !.pc = "send", !.pkt = Head(todo)]
    BY <1>5 DEF MasterReply
  <2>2. Head(todo) \in E!Messages
    BY <1>5, QueueOps
  <2>3. Head(todo) \in MessagesTo(1)
    BY <1>5, <2>2 DEF MessagesTo, E!Messages, E!Core
  <2>4. PICK k \in Held : k = Head(todo)
    BY <2>3, HeldFacts
  <2>5. m' \in Board(MasterPCs, MasterRets) /\ m'.pc = "send" /\ m'.n = 0 /\ m'.pkt = k
    BY <1>1, <2>1, <2>4 DEF Board, Held, MasterPCs
  <2>6. Out(m) = -1 /\ Got(m) = 0 /\ Out(m') = 0 /\ Got(m') = 0
    BY <1>1, <2>5, OutFacts
  <2>7. Handshake(toS, -1, Got(s), toM, Out(s), 0)
    BY <1>1, <2>6, LinkTurned
  <2>8. Handshake(toS, 0, Got(s), toM, Out(s), 0)
    BY <1>1, <2>7, LinkTypes, HandshakeStart
  <2>9. LinkInv'
    BY <1>1, <2>6, <2>8, LinkBack
  <2>10. MasterInv'
    BY <2>3, <2>4, <2>5 DEF MasterInv
  <2>11. QED
    BY <1>2, <2>5, <2>9, <2>10 DEF MasterSide
<1>6. QED
  BY <1>3, <1>4, <1>5

(* MasterSend keeps the invariant: one more half word is on the link. *)
LEMMA MasterSendStep ==
    ASSUME MasterSide, MasterSend
    PROVE  MasterSide'
<1>1. /\ m \in Board(MasterPCs, MasterRets) /\ MasterInv /\ QueueInv /\ LinkInv
      /\ m.pc = "send" /\ m.pkt \in MessagesTo(1) /\ s' = s /\ toM' = toM /\ fsl' = fsl
      /\ m' = send_aurora_pkt(m) /\ toS' = Append(toS, HalfWord(m))
  BY DEF MasterSide, MasterSend, MasterInv
<1>2. Out(m) = m.n /\ Got(m) = 0 /\ m.n \in 0 .. Words
  BY <1>1, OutFacts, BoardFields, AuroraAssumption
<1>3. /\ m' \in Board(MasterPCs, MasterRets) /\ m'.pkt = m.pkt
      /\ m.n < Words => m'.pc = "send" /\ m'.n = m.n + 1
      /\ m.n = Words => m'.pc = "wait" /\ m'.n = 0
  BY <1>1, SendIs DEF MasterPCs
<1>4. m.n < Words \/ m.n = Words
  BY <1>2, AuroraAssumption
<1>5. Out(m') = m.n + 1 /\ Got(m') = 0
  BY <1>3, <1>4, OutFacts
<1>6. HalfWord(m) \in HalfWords(MessagesTo(1)) /\ HalfWord(m).t = IF m.n = 0 THEN "hdr" ELSE "word"
  BY <1>1, HalfWordIs
<1>7. Handshake(toS, m.n, Got(s), toM, Out(s), 0)
  BY <1>1, <1>2, LinkTurned
<1>8. Handshake(Append(toS, HalfWord(m)), m.n + 1, Got(s), toM, Out(s), 0)
  BY <1>1, <1>2, <1>6, <1>7, LinkTypes, HandshakeSend
<1>9. LinkInv'
  BY <1>1, <1>5, <1>8, LinkBack
<1>10. MasterInv'
  BY <1>1, <1>3, <1>4 DEF MasterInv
<1>11. QueueInv'
  BY <1>1, <1>6, QueueOps DEF QueueInv
<1>12. QED
  BY <1>3, <1>9, <1>10, <1>11 DEF MasterSide

(* MasterWait keeps the invariant: the acknowledgement, or a packet first. *)
LEMMA MasterWaitStep ==
    ASSUME MasterSide, MasterWait
    PROVE  MasterSide'
<1>1. /\ m \in Board(MasterPCs, MasterRets) /\ MasterInv /\ QueueInv /\ LinkInv
      /\ m.pc = "wait" /\ m.n = 0 /\ s' = s /\ toS' = toS /\ fsl' = fsl /\ toM # <<>> /\ toM' = Tail(toM)
  BY DEF MasterSide, MasterWait, MasterInv
<1>2. Out(m) = Words + 1 /\ Got(m) = 0
  BY <1>1, OutFacts
<1>3. Handshake(toS, Words + 1, Got(s), toM, Out(s), 0)
  BY <1>1, <1>2, LinkTurned
<1>4. QueueInv'
  BY <1>1, LinkTypes DEF QueueInv
<1>5. CASE Head(toM).t = "hdr"
  <2>1. m' = StartRecv(m, Head(toM).pkt, "wait")
    BY <1>5 DEF MasterWait
  <2>2. Head(toM).pkt \in PacketsOf(1)
    BY <1>1, <1>5, LinkTypes, HalfWordFacts
  <2>3. Head(toM).pkt \in Held
    BY <2>2, HeldFacts
  <2>4. /\ m' \in Board(MasterPCs, MasterRets) /\ m'.pc = "recv" /\ m'.pkt = Head(toM).pkt
        /\ m'.n = 0 /\ m'.ret = "wait"
    BY <2>1, <2>3, StartIs DEF MasterPCs, MasterRets
  <2>5. Out(m') = Words + 1 /\ Got(m') = 1
    BY <2>4, OutFacts
  <2>6. Handshake(toS, Words + 1, Got(s), Tail(toM), Out(s), 1)
    BY <1>1, <1>3, <1>5, LinkTypes, HandshakeTakeHdr
  <2>7. LinkInv'
    BY <1>1, <2>5, <2>6, LinkBack
  <2>8. MasterInv'
    BY <2>2, <2>4, AuroraAssumption DEF MasterInv
  <2>9. QED
    BY <1>4, <2>4, <2>7, <2>8 DEF MasterSide
<1>6. CASE Head(toM).t = "ack"
  <2>1. m' = Goto(m, "reply")
    BY <1>6 DEF MasterWait
  <2>2. m' \in Board(MasterPCs, MasterRets) /\ m'.pc = "reply" /\ m'.n = 0
    BY <1>1, <2>1, GotoIs DEF MasterPCs, MasterRets
  <2>3. Out(m') = -1 /\ Got(m') = 0
    BY <2>2, OutFacts
  <2>4. Handshake(toS, -1, Got(s), Tail(toM), Out(s), 0)
    BY <1>1, <1>3, <1>6, LinkTypes, HandshakeTakeAck
  <2>5. LinkInv'
    BY <1>1, <2>3, <2>4, LinkBack
  <2>6. MasterInv'
    BY <2>2 DEF MasterInv
  <2>7. QED
    BY <1>4, <2>2, <2>5, <2>6 DEF MasterSide
<1>7. Head(toM).t \in {"hdr", "ack"}
  BY <1>1, <1>3, LinkTypes, HandshakeBounds
<1>8. QED
  BY <1>5, <1>6, <1>7

-----------------------------------------------------------------------------
(* The ring. *)

Wrap(a) == IF a < MAX_PCX_PKTS THEN a ELSE a - MAX_PCX_PKTS

(* The remainder of anything that has gone round at most once. *)
LEMMA ModIs ==
    ASSUME NEW a \in 0 .. 2 * MAX_PCX_PKTS - 1
    PROVE  a % MAX_PCX_PKTS = Wrap(a) /\ Wrap(a) \in 0 .. MAX_PCX_PKTS - 1
<1>1. MAX_PCX_PKTS \in Nat \ {0}
  BY AuroraAssumption
<1>2. CASE a < MAX_PCX_PKTS
  <2>1. a \in 0 .. MAX_PCX_PKTS - 1
    BY <1>1, <1>2
  <2>2. a % MAX_PCX_PKTS = a
    BY <1>1, <2>1
  <2>3. QED
    BY <1>2, <2>1, <2>2 DEF Wrap
<1>3. CASE ~(a < MAX_PCX_PKTS)
  <2>1. a \in MAX_PCX_PKTS .. 2 * MAX_PCX_PKTS - 1
    BY <1>1, <1>3
  <2>2. a % MAX_PCX_PKTS = a - MAX_PCX_PKTS
    BY <1>1, <2>1
  <2>3. QED
    BY <1>1, <1>3, <2>1, <2>2 DEF Wrap
<1>4. QED
  BY <1>2, <1>3

(* What the invariant says of the ring. *)
RingType ==
  /\ rx_head \in 0 .. MAX_PCX_PKTS - 1 /\ rx_tail \in 0 .. MAX_PCX_PKTS - 1
  /\ rx_count \in 0 .. MAX_PCX_PKTS
  /\ pcx_pkts \in [0 .. MAX_PCX_PKTS - 1 -> {None} \cup E!Packets]
RingSide == RingType /\ RingInv

(* The slots without remainders. *)
LEMMA RingIs ==
    ASSUME RingType
    PROVE  RingInv <=> /\ rx_tail = Wrap(rx_head + rx_count)
                       /\ \A k \in 0 .. rx_count - 1 : pcx_pkts[Wrap(rx_head + k)] \in PacketsOf(1)
<1>1. \A k \in 0 .. rx_count : Slot(k) = Wrap(rx_head + k)
  BY ModIs, AuroraAssumption DEF RingType, Slot
<1>2. rx_count \in 0 .. rx_count /\ \A k \in 0 .. rx_count - 1 : k \in 0 .. rx_count
  BY AuroraAssumption DEF RingType
<1>3. QED
  BY <1>1, <1>2 DEF RingInv

(* The same of the next state. *)
LEMMA RingIsNext ==
    ASSUME RingType', rx_tail' = Wrap(rx_head' + rx_count'),
           \A k \in 0 .. rx_count' - 1 : pcx_pkts'[Wrap(rx_head' + k)] \in PacketsOf(1)
    PROVE  RingSide'
<1>1. \A k \in 0 .. rx_count' : (rx_head' + k) % MAX_PCX_PKTS = Wrap(rx_head' + k)
  <2>1. PICK h \in 0 .. MAX_PCX_PKTS - 1, n \in 0 .. MAX_PCX_PKTS : h = rx_head' /\ n = rx_count'
    BY DEF RingType
  <2>2. \A k \in 0 .. n : h + k \in 0 .. 2 * MAX_PCX_PKTS - 1
    BY AuroraAssumption
  <2>3. \A k \in 0 .. n : (h + k) % MAX_PCX_PKTS = Wrap(h + k)
    BY <2>2, ModIs
  <2>4. QED
    BY <2>1, <2>3
<1>2. rx_count' \in 0 .. rx_count' /\ \A k \in 0 .. rx_count' - 1 : k \in 0 .. rx_count'
  <2>1. PICK n \in Nat : n = rx_count'
    BY AuroraAssumption DEF RingType
  <2>2. n \in 0 .. n /\ \A k \in 0 .. n - 1 : k \in 0 .. n
    OBVIOUS
  <2>3. QED
    BY <2>1, <2>2
<1>3. QED
  BY <1>1, <1>2 DEF RingSide, RingInv, Slot

(* The packet at the head is taken. *)
LEMMA RingTake ==
    ASSUME RingSide, MasterRing
    PROVE  RingSide' /\ pcx_pkts[rx_head] \in PacketsOf(1)
<1>1. /\ rx_count > 0 /\ rx_head' = (rx_head + 1) % MAX_PCX_PKTS
      /\ rx_count' = rx_count - 1 /\ rx_tail' = rx_tail
      /\ pcx_pkts' = [pcx_pkts EXCEPT ![rx_head] = None]
  BY DEF MasterRing
<1>2. RingType /\ rx_tail = Wrap(rx_head + rx_count)
      /\ \A k \in 0 .. rx_count - 1 : pcx_pkts[Wrap(rx_head + k)] \in PacketsOf(1)
  BY RingIs DEF RingSide
<1>3. /\ rx_head \in Int /\ 0 <= rx_head /\ rx_head < MAX_PCX_PKTS
      /\ rx_count \in Int /\ rx_count <= MAX_PCX_PKTS
      /\ MAX_PCX_PKTS \in Nat \ {0}
  BY <1>2, AuroraAssumption DEF RingType
<1>4. rx_head' = Wrap(rx_head + 1) /\ rx_head' \in 0 .. MAX_PCX_PKTS - 1
  <2>1. rx_head + 1 \in 0 .. 2 * MAX_PCX_PKTS - 1
    BY <1>3
  <2>2. QED
    BY <1>1, <2>1, ModIs
<1>5. RingType'
  BY <1>1, <1>2, <1>3, <1>4 DEF RingType
<1>6. pcx_pkts[rx_head] \in PacketsOf(1)
  <2>1. 0 \in 0 .. rx_count - 1 /\ Wrap(rx_head + 0) = rx_head
    BY <1>1, <1>3 DEF Wrap
  <2>2. QED
    BY <1>2, <2>1
<1>7. rx_tail' = Wrap(rx_head' + rx_count')
  BY <1>1, <1>2, <1>3, <1>4 DEF Wrap
<1>8. ASSUME NEW k \in 0 .. rx_count' - 1
      PROVE  pcx_pkts'[Wrap(rx_head' + k)] \in PacketsOf(1)
  <2>1. PICK j \in 0 .. rx_count - 1 : j = k + 1
    BY <1>1, <1>3
  <2>2. Wrap(rx_head' + k) = Wrap(rx_head + j)
    BY <1>1, <1>3, <1>4, <2>1 DEF Wrap
  <2>3. Wrap(rx_head + j) # rx_head
    BY <1>1, <1>3, <2>1 DEF Wrap
  <2>4. pcx_pkts'[Wrap(rx_head + j)] = pcx_pkts[Wrap(rx_head + j)]
    BY <1>1, <1>2, <2>3 DEF RingType
  <2>5. QED
    BY <1>2, <2>2, <2>4
<1>9. QED
  BY <1>5, <1>6, <1>7, <1>8, RingIsNext

(* A packet goes to the tail, unless the ring is full. *)
LEMMA RingInsert ==
    ASSUME RingSide, NEW p \in PacketsOf(1), insert_pcx_pkt(p)
    PROVE  RingSide'
<1>1. CASE rx_head = rx_tail /\ rx_count > 0
  BY <1>1 DEF insert_pcx_pkt, ring, RingSide, RingType, RingInv, Slot
<1>2. CASE ~(rx_head = rx_tail /\ rx_count > 0)
  <2>1. /\ pcx_pkts' = [pcx_pkts EXCEPT ![rx_tail] = p]
        /\ rx_tail' = (rx_tail + 1) % MAX_PCX_PKTS /\ rx_count' = rx_count + 1
        /\ rx_head' = rx_head
    BY <1>2 DEF insert_pcx_pkt
  <2>2. RingType /\ rx_tail = Wrap(rx_head + rx_count)
        /\ \A k \in 0 .. rx_count - 1 : pcx_pkts[Wrap(rx_head + k)] \in PacketsOf(1)
    BY RingIs DEF RingSide
  <2>3. /\ rx_head \in Int /\ 0 <= rx_head /\ rx_head < MAX_PCX_PKTS
        /\ rx_tail \in Int /\ 0 <= rx_tail /\ rx_tail < MAX_PCX_PKTS
        /\ rx_count \in Int /\ 0 <= rx_count /\ rx_count <= MAX_PCX_PKTS
        /\ MAX_PCX_PKTS \in Nat \ {0}
    BY <2>2, AuroraAssumption DEF RingType
  <2>4. rx_count < MAX_PCX_PKTS
    BY <1>2, <2>2, <2>3 DEF Wrap
  <2>5. rx_tail' = Wrap(rx_tail + 1) /\ rx_tail' \in 0 .. MAX_PCX_PKTS - 1
    <3>1. rx_tail + 1 \in 0 .. 2 * MAX_PCX_PKTS - 1
      BY <2>3
    <3>2. QED
      BY <2>1, <3>1, ModIs
  <2>6. p \in E!Packets
    BY HeldFacts
  <2>7. RingType'
    BY <2>1, <2>2, <2>3, <2>4, <2>5, <2>6 DEF RingType
  <2>8. rx_tail' = Wrap(rx_head' + rx_count')
    BY <2>1, <2>2, <2>3, <2>4, <2>5 DEF Wrap
  <2>9. ASSUME NEW k \in 0 .. rx_count' - 1
        PROVE  pcx_pkts'[Wrap(rx_head' + k)] \in PacketsOf(1)
    <3>1. k \in 0 .. rx_count - 1 \/ k = rx_count
      BY <2>1, <2>3
    <3>2. CASE k = rx_count
      BY <2>1, <2>2, <3>2 DEF RingType
    <3>3. CASE k \in 0 .. rx_count - 1
      <4>1. Wrap(rx_head + k) # rx_tail /\ Wrap(rx_head + k) \in 0 .. MAX_PCX_PKTS - 1
        BY <2>2, <2>3, <2>4, <3>3 DEF Wrap
      <4>2. QED
        BY <2>1, <2>2, <3>3, <4>1 DEF RingType
    <3>4. QED
      BY <3>1, <3>2, <3>3
  <2>10. QED
    BY <2>7, <2>8, <2>9, RingIsNext
<1>3. QED
  BY <1>1, <1>2

(* A full ring, without remainders: the only way to "exit". *)
LEMMA RingFull ==
    ASSUME RingSide, rx_head = rx_tail, rx_count > 0
    PROVE  rx_count = MAX_PCX_PKTS
<1>1. RingType /\ rx_tail = Wrap(rx_head + rx_count)
  BY RingIs DEF RingSide
<1>2. QED
  BY <1>1, AuroraAssumption DEF RingType, Wrap

-----------------------------------------------------------------------------
(* Headers on a link, and room for the packets. *)

(* The header on a link comes and goes with its half word. *)
LEMMA HeaderFacts ==
    ASSUME NEW T, NEW link \in Seq(T)
    PROVE  /\ \A x \in T : HeaderOn(Append(link, x)) => HeaderOn(link) \/ x.t = "hdr"
           /\ link # <<>> => (HeaderOn(Tail(link)) => HeaderOn(link))
           /\ link # <<>> => (Head(link).t = "hdr" => HeaderOn(link))
<1>1. ASSUME NEW x \in T, HeaderOn(Append(link, x)), ~HeaderOn(link)
      PROVE  x.t = "hdr"
  <2>1. PICK n \in Nat : n = Len(link)
    OBVIOUS
  <2>2. /\ Append(link, x) \in Seq(T) /\ Len(Append(link, x)) = n + 1
        /\ \A i \in 1 .. n : Append(link, x)[i] = link[i]
        /\ Append(link, x)[n + 1] = x
    BY <2>1, AppendAt
  <2>3. PICK i \in DOMAIN Append(link, x) : Append(link, x)[i].t = "hdr"
    BY <1>1 DEF HeaderOn
  <2>4. i \in 1 .. n + 1
    BY <2>2, <2>3
  <2>5. CASE i \in 1 .. n
    <3>1. i \in DOMAIN link /\ link[i].t = "hdr"
      BY <2>1, <2>2, <2>3, <2>5
    <3>2. QED
      BY <1>1, <3>1 DEF HeaderOn
  <2>6. CASE i = n + 1
    BY <2>2, <2>3, <2>6
  <2>7. QED
    BY <2>4, <2>5, <2>6, RangeSplit
<1>2. ASSUME link # <<>>, HeaderOn(Tail(link))
      PROVE  HeaderOn(link)
  <2>1. PICK n \in Nat : Len(link) = n + 1
    <3>1. Len(link) \in Nat /\ Len(link) # 0
      BY <1>2, EmptySeq
    <3>2. Len(link) - 1 \in Nat /\ Len(link) = Len(link) - 1 + 1
      BY <3>1
    <3>3. QED
      BY <3>2
  <2>2. /\ Tail(link) \in Seq(T) /\ Len(Tail(link)) = n
        /\ \A i \in 1 .. n : Tail(link)[i] = link[i + 1]
    BY <1>2, <2>1, TailAt
  <2>3. PICK i \in DOMAIN Tail(link) : Tail(link)[i].t = "hdr"
    BY <1>2 DEF HeaderOn
  <2>4. i \in 1 .. n
    BY <2>2, <2>3
  <2>5. i + 1 \in DOMAIN link /\ link[i + 1].t = "hdr"
    BY <2>1, <2>2, <2>3, <2>4
  <2>6. QED
    BY <2>5 DEF HeaderOn
<1>3. ASSUME link # <<>>, Head(link).t = "hdr"
      PROVE  HeaderOn(link)
  <2>1. Len(link) \in Nat /\ Len(link) # 0
    BY <1>3, EmptySeq
  <2>2. PICK i \in Nat : i = 1
    OBVIOUS
  <2>3. i \in DOMAIN link /\ link[i].t = "hdr"
    BY <1>3, <2>1, <2>2
  <2>4. QED
    BY <2>3 DEF HeaderOn
<1>4. QED
  BY <1>1, <1>2, <1>3

(* The headers of a link as a sequence. *)
LEMMA HeadersIs ==
    ASSUME NEW P, NEW link \in Seq(HalfWords(P))
    PROVE  Headers(link) \in Seq(P) /\ Len(Headers(link)) = One(HeaderOn(link))
<1> DEFINE found == {i \in DOMAIN link : link[i].t = "hdr"}
<1>1. CASE found = {}
  <2>1. ~HeaderOn(link)
    BY <1>1 DEF HeaderOn
  <2>2. Headers(link) = <<>>
    BY <1>1 DEF Headers
  <2>3. QED
    BY <2>1, <2>2 DEF One
<1>2. CASE found # {}
  <2>1. HeaderOn(link)
    BY <1>2 DEF HeaderOn
  <2>2. PICK i \in DOMAIN link : i = (CHOOSE j \in found : TRUE) /\ link[i].t = "hdr"
    BY <1>2
  <2>3. Headers(link) = <<link[i].pkt>>
    BY <1>2, <2>2 DEF Headers
  <2>4. link[i] \in HalfWords(P)
    BY <2>2
  <2>5. link[i].pkt \in P
    BY <2>2, <2>4, HalfWordFacts
  <2>6. QED
    BY <2>1, <2>3, <2>5 DEF One
<1>3. QED
  BY <1>1, <1>2

(* One packet or none. *)
LEMMA WhenIs ==
    ASSUME NEW P, NEW p \in P, NEW cond \in BOOLEAN
    PROVE  When(cond, p) \in Seq(P) /\ Len(When(cond, p)) = One(cond)
BY DEF When, One

(* The packets in the ring. *)
LEMMA ContentsIs ==
    ASSUME RingType
    PROVE  RingContents \in Seq(Held) /\ Len(RingContents) = rx_count
<1>1. \A i \in 1 .. rx_count : pcx_pkts[(rx_head + i - 1) % MAX_PCX_PKTS] \in Held
  <2>1. TAKE i \in 1 .. rx_count
  <2>2. rx_head + i - 1 \in 0 .. 2 * MAX_PCX_PKTS - 1
    BY AuroraAssumption DEF RingType
  <2>3. (rx_head + i - 1) % MAX_PCX_PKTS \in 0 .. MAX_PCX_PKTS - 1
    BY <2>2, ModIs
  <2>4. QED
    BY <2>3, HeldFacts DEF RingType
<1>2. rx_count \in Nat
  BY DEF RingType
<1>3. RingContents \in [1 .. rx_count -> Held]
  BY <1>1 DEF RingContents
<1>4. QED
  BY <1>2, <1>3, SeqDef

(* The packets that core 1 has under way are those it is counted for. *)
LEMMA SentRoom ==
    ASSUME TypeOK
    PROVE  /\ Len(Sent[1]) \in Nat
           /\ Len(Sent[1]) >= rx_count + One(m.pc \in {"recv", "ack"}) + One(HeaderOn(toM))
                                + One(s.pc = "send" /\ s.n = 0) + Len(fsl[1])
<1>1. m.pkt \in Held /\ s.pkt \in Held
  BY DEF TypeOK, Board, Held
<1> DEFINE q1 == When(m.pc = "process" /\ m.pkt.core = 1, m.pkt)
           q2 == RingContents
           q3 == When(m.pc \in {"recv", "ack"}, m.pkt)
           q4 == Headers(toM)
           q5 == When(s.pc = "send" /\ s.n = 0, s.pkt)
           q6 == fsl[1]
<1>2. q1 \in Seq(Held)
  BY <1>1, WhenIs
<1>3. q2 \in Seq(Held) /\ Len(q2) = rx_count
  BY ContentsIs DEF TypeOK, RingType
<1>4. q3 \in Seq(Held) /\ Len(q3) = One(m.pc \in {"recv", "ack"})
  BY <1>1 DEF When, One
<1>5. q4 \in Seq(Held) /\ Len(q4) = One(HeaderOn(toM))
  <2>1. q4 \in Seq(E!Packets) /\ Len(q4) = One(HeaderOn(toM))
    BY HeadersIs DEF TypeOK
  <2>2. QED
    BY <2>1, HeldFacts, SeqSub
<1>6. q5 \in Seq(Held) /\ Len(q5) = One(s.pc = "send" /\ s.n = 0)
  BY <1>1 DEF When, One
<1>7. q6 \in Seq(Held) /\ Len(q6) = Len(fsl[1])
  <2>1. q6 \in Seq(E!Packets)
    BY DEF TypeOK
  <2>2. QED
    BY <2>1, HeldFacts, SeqSub
<1>8. Sent[1] = q1 \o q2 \o q3 \o q4 \o q5 \o q6
  <2>1. \A c \in {0, 1} : c # 0 => Sent[c] = q1 \o q2 \o q3 \o q4 \o q5 \o q6
    BY DEF Sent
  <2>2. PICK c \in {0, 1} : c = 1 /\ c # 0
    OBVIOUS
  <2>3. QED
    BY <2>1, <2>2
<1> HIDE DEF q1, q2, q3, q4, q5, q6
<1>9. /\ Len(q1) \in Nat /\ Len(q2) \in Nat /\ Len(q3) \in Nat /\ Len(q4) \in Nat
      /\ Len(q5) \in Nat /\ Len(q6) \in Nat
  BY <1>2, <1>3, <1>4, <1>5, <1>6, <1>7
<1>10. PICK a2 \in Seq(Held) : a2 = q1 \o q2 /\ Len(a2) = Len(q1) + Len(q2)
  BY <1>2, <1>3, ConcatProperties
<1>11. PICK a3 \in Seq(Held) : a3 = a2 \o q3 /\ Len(a3) = Len(a2) + Len(q3)
  BY <1>4, ConcatProperties
<1>12. PICK a4 \in Seq(Held) : a4 = a3 \o q4 /\ Len(a4) = Len(a3) + Len(q4)
  BY <1>5, ConcatProperties
<1>13. PICK a5 \in Seq(Held) : a5 = a4 \o q5 /\ Len(a5) = Len(a4) + Len(q5)
  BY <1>6, ConcatProperties
<1>14. PICK a6 \in Seq(Held) : a6 = a5 \o q6 /\ Len(a6) = Len(a5) + Len(q6)
  BY <1>7, ConcatProperties
<1>15. Sent[1] = a6
  BY <1>8, <1>10, <1>11, <1>12, <1>13, <1>14
<1>16. Len(Sent[1]) \in Nat /\ Len(Sent[1]) >= Len(q2) + Len(q3) + Len(q4) + Len(q5) + Len(q6)
  BY <1>9, <1>10, <1>11, <1>12, <1>13, <1>14, <1>15
<1>17. QED
  BY <1>3, <1>4, <1>5, <1>6, <1>7, <1>16

(* What a core sends are packets of that core. *)
LEMMA RequestsAre ==
    ASSUME NEW c \in {0, 1}, NEW r \in E!Requests(c)
    PROVE  r \in Seq(PacketsOf(c))
<1>1. \A k \in Kinds : [core |-> c, kind |-> k] \in PacketsOf(c)
  BY DEF PacketsOf, E!Packets, E!Core
<1>2. CASE \E k \in Kinds : r = <<[core |-> c, kind |-> k]>>
  BY <1>1, <1>2
<1>3. CASE "cas1" \in Kinds /\ r = <<[core |-> c, kind |-> "cas1"], [core |-> c, kind |-> "cas2"]>>
  <2>1. "cas2" \in Kinds
    BY <1>3, AuroraAssumption
  <2>2. QED
    BY <1>1, <1>3, <2>1
<1>4. QED
  BY <1>2, <1>3 DEF E!Requests

(* What a request leads to are messages. *)
LEMMA WorkIs ==
    ASSUME NEW p \in E!Packets
    PROVE  E!Work(p) \in Seq(E!Messages)
<1>1. p.core \in {0, 1} /\ E!Other(p.core) \in {0, 1}
  BY DEF E!Packets, E!Core, E!Other
<1>2. \A k, c \in {0, 1} : \A what \in {"load", "ifill_0", "ifill_1", "evict_inv", "store_ack", "interrupt"} :
        E!Message(k, c, what) \in E!Messages
  BY DEF E!Message, E!Messages, E!Core
<1>3. p.kind \in {"load", "ifill", "store", "interrupt", "cas1", "cas2"}
  BY AuroraAssumption DEF E!Packets
<1>4. QED
  BY <1>1, <1>2, <1>3 DEF E!Work

-----------------------------------------------------------------------------
(* Room for the packets of core 1. *)

(* How many of them are under way, place by place. *)
Receiving == m.pc \in {"recv", "ack"}
Sending == s.pc = "send" /\ s.n = 0
Room(n, h, r, d, l) == n + One(r) + One(h) + One(d) + l

(* What core 1 has under way, counted where it is. *)
LEMMA RoomIs ==
    RoomInv <=> Room(rx_count, HeaderOn(toM), Receiving, Sending, Len(fsl[1])) <= MaxOut
BY DEF RoomInv, Room, Receiving, Sending

(* The next state has no more of them. *)
LEMMA RoomNext ==
    ASSUME Room(rx_count', HeaderOn(toM'), Receiving', Sending', Len(fsl'[1])) <= MaxOut
    PROVE  RoomInv'
BY DEF RoomInv, Room, Receiving, Sending

(* Packets move, but only a core adds one. *)
LEMMA RoomMoves ==
    ASSUME NEW n \in Nat, NEW l \in Nat, NEW h, NEW r, NEW d,
           Room(n, h, r, d, l) <= MaxOut
    PROVE  /\ \A h2, r2, d2 : (h2 => h) /\ (r2 => r) /\ (d2 => d) => Room(n, h2, r2, d2, l) <= MaxOut
           /\ l >= 1 /\ ~d => Room(n, h, r, TRUE, l - 1) <= MaxOut
           /\ \A h2 : d => Room(n, h2, r, FALSE, l) <= MaxOut
           /\ h /\ ~r => Room(n, FALSE, TRUE, d, l) <= MaxOut
           /\ r => Room(n + 1, h, FALSE, d, l) <= MaxOut
           /\ n >= 1 => Room(n - 1, h, r, d, l) <= MaxOut
BY AuroraAssumption DEF Room, One

(* The steps of the slave move packets of core 1, and add none. *)
LEMMA SlaveRoom ==
    ASSUME SlaveSide, RoomInv, rx_count \in Nat, SlaveUnchanged, Slave, DOMAIN fsl = {0, 1}
    PROVE  RoomInv'
<1>1. /\ Room(rx_count, HeaderOn(toM), Receiving, Sending, Len(fsl[1])) <= MaxOut
      /\ rx_count' = rx_count /\ (Receiving' <=> Receiving)
      /\ Len(fsl[1]) \in Nat /\ QueueInv /\ SlaveInv /\ s \in Board(SlavePCs, SlaveRets)
  BY RoomIs, QueueOps DEF SlaveUnchanged, ring, SlaveSide, QueueInv, Receiving
<1>2. CASE SlavePoll /\ fsl[1] # <<>>
  <2>1. /\ ~Sending /\ toM' = toM
        /\ s' = [s EXCEPT !.pc = "send", !.pkt = Head(fsl[1])] /\ fsl' = [fsl EXCEPT ![1] = Tail(@)]
    BY <1>2 DEF SlavePoll, Sending
  <2>2. Len(fsl'[1]) = Len(fsl[1]) - 1 /\ Len(fsl[1]) >= 1
    BY <1>1, <1>2, <2>1, QueueOps DEF QueueInv
  <2>3. Room(rx_count, HeaderOn(toM), Receiving, TRUE, Len(fsl[1]) - 1) <= MaxOut
    BY <1>1, <2>1, <2>2, RoomMoves
  <2>4. Room(rx_count, HeaderOn(toM), Receiving, Sending', Len(fsl[1]) - 1) <= MaxOut
    BY <1>1, <2>2, <2>3, RoomMoves
  <2>5. Room(rx_count', HeaderOn(toM'), Receiving', Sending', Len(fsl'[1])) <= MaxOut
    <3>1. Len(fsl[1]) - 1 \in Nat
      BY <1>1, <2>2
    <3>2. Room(rx_count, HeaderOn(toM'), Receiving', Sending', Len(fsl[1]) - 1) <= MaxOut
      BY <1>1, <2>1, <2>4, <3>1, RoomMoves
    <3>3. QED
      BY <1>1, <2>2, <3>2
  <2>6. QED
    BY <2>5, RoomNext
<1>3. CASE SlaveSend
  <2>1. /\ s.pc = "send" /\ fsl' = fsl /\ toM' = Append(toM, HalfWord(s)) /\ s' = send_aurora_pkt(s)
        /\ s.pkt \in PacketsOf(1)
    BY <1>1, <1>3 DEF SlaveSend, SlaveInv
  <2>2. ~Sending'
    <3>1. (s'.pc = "send" /\ s'.n = s.n + 1) \/ s'.pc = "wait"
      BY <1>1, <2>1, SendIs, BoardFields, AuroraAssumption DEF SlavePCs
    <3>2. s.n + 1 # 0
      BY <1>1, BoardFields
    <3>3. QED
      BY <3>1, <3>2 DEF Sending
  <2>3. HalfWord(s) \in HalfWords(PacketsOf(1)) /\ HalfWord(s).t = IF s.n = 0 THEN "hdr" ELSE "word"
    BY <2>1, HalfWordIs
  <2>4. CASE Sending
    <3>1. Room(rx_count, HeaderOn(toM'), Receiving, FALSE, Len(fsl[1])) <= MaxOut
      BY <1>1, <2>4, RoomMoves
    <3>2. Room(rx_count, HeaderOn(toM'), Receiving', Sending', Len(fsl[1])) <= MaxOut
      BY <1>1, <2>2, <3>1, RoomMoves
    <3>3. QED
      BY <1>1, <2>1, <3>2, RoomNext
  <2>5. CASE ~Sending
    <3>1. HeaderOn(toM') => HeaderOn(toM)
      BY <1>1, <2>1, <2>3, <2>5, HeaderFacts DEF QueueInv, Sending
    <3>2. QED
      BY <1>1, <2>1, <2>2, <3>1, RoomMoves, RoomNext
  <2>6. QED
    BY <2>4, <2>5
<1>4. CASE SlaveAck
  <2>1. HeaderOn(toM') => HeaderOn(toM)
    BY <1>1, <1>4, HeaderFacts, HalfWordFacts DEF QueueInv, SlaveAck
  <2>2. ~Sending' /\ fsl' = fsl
    <3>1. s'.pc = "forward"
      BY <1>1, <1>4 DEF Board, SlaveAck
    <3>2. QED
      BY <1>4, <3>1 DEF SlaveAck, Sending
  <2>3. QED
    BY <1>1, <2>1, <2>2, RoomMoves, RoomNext
<1>5. CASE \/ SlavePoll /\ fsl[1] = <<>>
           \/ SlaveLink \/ SlaveWait \/ SlaveRecv \/ SlaveForward
  <2>1. fsl' = fsl /\ toM' = toM
    BY <1>5 DEF SlavePoll, SlaveLink, SlaveWait, SlaveRecv, SlaveForward
  <2>2. s'.pc # "send"
    <3>1. CASE SlaveRecv
      BY <1>1, <3>1, RecvIs, BoardFields, AuroraAssumption DEF SlaveRecv, SlavePCs, SlaveInv
    <3>2. CASE SlaveForward
      BY <1>1, <3>2, GotoIs DEF SlaveForward, SlavePCs, SlaveRets, SlaveInv
    <3>3. CASE (SlavePoll /\ fsl[1] = <<>>) \/ SlaveLink \/ SlaveWait
      <4>1. \/ s' = Goto(s, "link") \/ s' = Goto(s, "poll")
            \/ s' = StartRecv(s, Head(toS).pkt, "poll") \/ s' = StartRecv(s, Head(toS).pkt, "wait")
        BY <3>3 DEF SlavePoll, SlaveLink, SlaveWait
      <4>2. StartRecv(s, Head(toS).pkt, "poll").pc = "recv" /\ StartRecv(s, Head(toS).pkt, "wait").pc = "recv"
        BY DEF StartRecv
      <4>3. Goto(s, "link").pc = "link" /\ Goto(s, "poll").pc = "poll"
        BY <1>1, GotoIs DEF SlavePCs, SlaveRets
      <4>4. QED
        BY <4>1, <4>2, <4>3
    <3>4. QED
      BY <1>5, <3>1, <3>2, <3>3
  <2>3. ~Sending'
    BY <2>2 DEF Sending
  <2>4. QED
    BY <1>1, <2>1, <2>3, RoomMoves, RoomNext
<1>6. QED
  BY <1>2, <1>3, <1>4, <1>5 DEF Slave

(* The header that the master reads is gone from the link. *)
LEMMA HeaderTaken ==
    ASSUME MasterSide, m.pc \in {"remote", "wait"}, toM # <<>>, Head(toM).t = "hdr"
    PROVE  ~HeaderOn(Tail(toM))
<1>1. Handshake(toS, Out(m), Got(s), toM, Out(s), 0)
  BY LinkTurned, OutFacts DEF MasterSide
<1>2. QED
  BY <1>1, LinkTypes, HandshakeTakeHdr DEF MasterSide

(* The steps of the master move packets of core 1, and add none. *)
LEMMA MasterRoom ==
    ASSUME MasterSide, RoomInv, RingType, Master, s' = s, DOMAIN fsl = {0, 1}
    PROVE  RoomInv'
<1>1. /\ Room(rx_count, HeaderOn(toM), Receiving, Sending, Len(fsl[1])) <= MaxOut
      /\ rx_count \in Nat /\ (Sending' <=> Sending)
      /\ Len(fsl[1]) \in Nat /\ QueueInv /\ MasterInv /\ m \in Board(MasterPCs, MasterRets)
  BY RoomIs, QueueOps DEF MasterSide, QueueInv, Sending, RingType
<1>2. fsl'[1] = fsl[1]
  BY DEF Master, MasterLocal, MasterRing, MasterLink, MasterRecv, MasterAck, MasterProcess,
         MasterReply, MasterSend, MasterWait, slave
<1>3. CASE MasterLink \/ MasterWait
  <2>1. rx_count' = rx_count /\ ~Receiving /\ m.pc \in {"remote", "wait"}
    BY <1>3 DEF MasterLink, MasterWait, ring, Receiving
  <2>2. CASE toM # <<>> /\ Head(toM).t = "hdr"
    <3>1. ~HeaderOn(toM') /\ HeaderOn(toM)
      BY <1>1, <1>3, <2>1, <2>2, HeaderTaken, HeaderFacts DEF MasterLink, MasterWait, QueueInv
    <3>2. Room(rx_count, FALSE, TRUE, Sending, Len(fsl[1])) <= MaxOut
      BY <1>1, <2>1, <3>1, RoomMoves
    <3>3. Room(rx_count, HeaderOn(toM'), Receiving', Sending', Len(fsl[1])) <= MaxOut
      BY <1>1, <3>1, <3>2, RoomMoves
    <3>4. QED
      BY <1>2, <2>1, <3>3, RoomNext
  <2>3. CASE toM # <<>> /\ Head(toM).t # "hdr"
    <3>1. HeaderOn(toM') => HeaderOn(toM)
      BY <1>1, <1>3, <2>3, HeaderFacts DEF MasterLink, MasterWait, QueueInv
    <3>2. Head(toM).t = "ack"
      <4>1. Handshake(toS, Out(m), Got(s), toM, Out(s), 0)
        BY <2>1, LinkTurned, OutFacts DEF MasterSide
      <4>2. QED
        BY <1>1, <2>3, <4>1, LinkTypes, HandshakeBounds
    <3>3. ~Receiving'
      <4>1. m' = m \/ m' = Goto(m, "reply")
        BY <1>3, <2>3, <3>2 DEF MasterLink, MasterWait
      <4>2. Goto(m, "reply").pc = "reply"
        BY <1>1, GotoIs DEF MasterPCs, MasterRets
      <4>3. QED
        BY <2>1, <4>1, <4>2 DEF Receiving
    <3>4. QED
      BY <1>1, <1>2, <2>1, <3>1, <3>3, RoomMoves, RoomNext
  <2>4. CASE toM = <<>>
    <3>1. MasterLink /\ toM' = toM
      BY <1>3, <2>4 DEF MasterLink, MasterWait
    <3>2. NextAttempt("local") /\ m.pc = "remote"
      BY <2>4, <3>1 DEF MasterLink
    <3>3. ~Receiving'
      BY <3>2, NextAttemptIs DEF Receiving
    <3>4. QED
      BY <1>1, <1>2, <2>1, <3>1, <3>3, RoomMoves, RoomNext
  <2>5. QED
    BY <2>2, <2>3, <2>4
<1>4. CASE MasterRecv
  <2>1. Receiving /\ rx_count' = rx_count /\ toM # <<>> /\ toM' = Tail(toM)
    BY <1>4 DEF MasterRecv, Receiving, ring
  <2>2. HeaderOn(toM') => HeaderOn(toM)
    BY <1>1, <2>1, HeaderFacts DEF QueueInv
  <2>3. QED
    BY <1>1, <1>2, <2>1, <2>2, RoomMoves, RoomNext
<1>5. CASE MasterAck
  <2>1. Receiving /\ toM' = toM
    BY <1>5 DEF MasterAck, Receiving
  <2>2. ~Receiving' /\ (rx_count' = rx_count \/ rx_count' = rx_count + 1)
    <3>1. CASE m.ret = "wait"
      <4>1. /\ m' = Goto(m, "wait") \/ m' = Goto(m, "exit")
            /\ rx_count' = rx_count \/ rx_count' = rx_count + 1
        BY <1>5, <3>1 DEF MasterAck, insert_pcx_pkt, ring
      <4>2. Goto(m, "wait").pc = "wait" /\ Goto(m, "exit").pc = "exit"
        BY <1>1, GotoIs DEF MasterPCs, MasterRets
      <4>3. QED
        BY <4>1, <4>2 DEF Receiving
    <3>2. CASE m.ret # "wait"
      <4>1. m' = [m EXCEPT !.pc = "process"] /\ rx_count' = rx_count
        BY <1>5, <3>2 DEF MasterAck, ring
      <4>2. m'.pc = "process"
        BY <1>1, <4>1 DEF Board
      <4>3. QED
        BY <4>1, <4>2 DEF Receiving
    <3>3. QED
      BY <3>1, <3>2
  <2>3. Room(rx_count + 1, HeaderOn(toM), FALSE, Sending, Len(fsl[1])) <= MaxOut
    BY <1>1, <2>1, RoomMoves
  <2>4. Room(rx_count + 1, HeaderOn(toM'), Receiving', Sending', Len(fsl[1])) <= MaxOut
    <3>1. rx_count + 1 \in Nat
      BY <1>1
    <3>2. QED
      BY <1>1, <2>1, <2>2, <2>3, <3>1, RoomMoves
  <2>5. Room(rx_count, HeaderOn(toM'), Receiving', Sending', Len(fsl[1])) <= MaxOut
    BY <1>1, <2>1, <2>2, RoomMoves
  <2>6. QED
    BY <1>2, <2>2, <2>4, <2>5, RoomNext
<1>6. CASE MasterRing
  <2>1. rx_count' = rx_count - 1 /\ rx_count >= 1 /\ toM' = toM
    BY <1>1, <1>6 DEF MasterRing, slave
  <2>2. ~Receiving'
    <3>1. m' = [m EXCEPT !.pc = "process", !.pkt = pcx_pkts[rx_head]]
      BY <1>6 DEF MasterRing
    <3>2. m'.pc = "process"
      BY <1>1, <3>1 DEF Board
    <3>3. QED
      BY <3>2 DEF Receiving
  <2>3. Room(rx_count - 1, HeaderOn(toM), Receiving, Sending, Len(fsl[1])) <= MaxOut
    BY <1>1, <2>1, RoomMoves
  <2>4. rx_count - 1 \in Nat
    BY <1>1, <2>1
  <2>5. Room(rx_count - 1, HeaderOn(toM'), Receiving', Sending', Len(fsl[1])) <= MaxOut
    BY <1>1, <2>1, <2>2, <2>3, <2>4, RoomMoves
  <2>6. QED
    BY <1>2, <2>1, <2>5, RoomNext
<1>7. CASE MasterLocal \/ MasterProcess \/ MasterReply \/ MasterSend
  <2>1. rx_count' = rx_count /\ toM' = toM
    BY <1>7 DEF MasterLocal, MasterProcess, MasterReply, MasterSend, ring, slave
  <2>2. ~Receiving'
    <3>1. CASE MasterLocal
      <4>1. CASE fsl[0] = <<>>
        BY <3>1, <4>1, NextAttemptIs DEF MasterLocal, Receiving
      <4>2. CASE fsl[0] # <<>>
        <5>1. m' = [m EXCEPT !.pc = "process", !.pkt = Head(fsl[0])]
          BY <3>1, <4>2 DEF MasterLocal
        <5>2. m'.pc = "process"
          BY <1>1, <5>1 DEF Board
        <5>3. QED
          BY <5>2 DEF Receiving
      <4>3. QED
        BY <4>1, <4>2
    <3>2. CASE MasterProcess
      BY <1>1, <3>2, GotoIs DEF MasterProcess, Receiving, MasterPCs, MasterRets
    <3>3. CASE MasterReply
      <4>1. m.pc = "reply" /\ (m' = Loop \/ m' = m \/ m' = [m EXCEPT !.pc = "send", !.pkt = Head(todo)])
        BY <3>3 DEF MasterReply
      <4>2. [m EXCEPT !.pc = "send", !.pkt = Head(todo)].pc = "send"
        BY <1>1 DEF Board
      <4>3. QED
        BY <4>1, <4>2, LoopIs DEF Receiving
    <3>4. CASE MasterSend
      BY <1>1, <3>4, SendIs, BoardFields, AuroraAssumption DEF MasterSend, Receiving, MasterPCs
    <3>5. QED
      BY <1>7, <3>1, <3>2, <3>3, <3>4
  <2>3. QED
    BY <1>1, <1>2, <2>1, <2>2, RoomMoves, RoomNext
<1>8. QED
  BY <1>3, <1>4, <1>5, <1>6, <1>7 DEF Master

-----------------------------------------------------------------------------
(* The invariant holds. *)

(* The types of what the handshake does not touch. *)
RestType ==
  /\ fsl = [c \in {0, 1} |-> fsl[c]]
  /\ todo \in Seq(E!Messages)
  /\ toggle_flag \in {0, 1} /\ get_local \in {0, 1} /\ get_remote \in {0, 1}

(* The invariant by its sides. *)
LEMMA IInvIs ==
    IInv <=> SlaveSide /\ MasterSide /\ RingSide /\ RoomInv /\ RestType
<1>1. ASSUME IInv
      PROVE  SlaveSide /\ MasterSide /\ RingSide /\ RoomInv /\ RestType
  <2>1. /\ s \in Board(SlavePCs, SlaveRets) /\ m \in Board(MasterPCs, MasterRets)
        /\ RingType /\ RestType
    BY <1>1 DEF IInv, TypeOK, RingType, RestType, SlavePCs, SlaveRets, MasterPCs, MasterRets
  <2>2. QED
    BY <1>1, <2>1 DEF IInv, SlaveSide, MasterSide, RingSide
<1>2. ASSUME SlaveSide, MasterSide, RingSide, RoomInv, RestType
      PROVE  IInv
  <2>1. /\ fsl \in [{0, 1} -> Seq(E!Packets)]
        /\ toM \in Seq(HalfWords(E!Packets)) /\ toS \in Seq(HalfWords(E!Messages))
    BY <1>2, QueueTypes DEF RestType, SlaveSide
  <2>2. TypeOK
    BY <1>2, <2>1 DEF TypeOK, SlaveSide, MasterSide, RingSide, RingType, RestType,
                      SlavePCs, SlaveRets, MasterPCs, MasterRets
  <2>3. QED
    BY <1>2, <2>2 DEF IInv, SlaveSide, MasterSide, RingSide
<1>3. QED
  BY <1>1, <1>2

(* The same in the next state. *)
LEMMA IInvIsNext ==
    (SlaveSide' /\ MasterSide' /\ RingSide' /\ RoomInv' /\ RestType') => IInv'
BY IInvIs, PTL

(* It holds at first. *)
LEMMA IInvInit == Init => IInv
<1> SUFFICES ASSUME Init PROVE IInv
  OBVIOUS
<1>1. /\ fsl[0] = <<>> /\ fsl[1] = <<>> /\ toM = <<>> /\ toS = <<>> /\ todo = <<>>
      /\ s = Idle("poll") /\ m = Loop /\ rx_head = 0 /\ rx_tail = 0 /\ rx_count = 0
      /\ toggle_flag = 1 /\ get_local = 1 /\ get_remote = 1
      /\ pcx_pkts = [i \in 0 .. MAX_PCX_PKTS - 1 |-> None]
      /\ fsl = [c \in {0, 1} |-> fsl[c]]
  BY DEF Init
<1>2. s \in Board(SlavePCs, SlaveRets) /\ s.pc = "poll" /\ s.n = 0
  <2>1. 0 \in 0 .. Words
    BY AuroraAssumption
  <2>2. QED
    BY <1>1, <2>1 DEF Idle, Board, SlavePCs, SlaveRets
<1>3. /\ m \in Board(MasterPCs, MasterRets) /\ m.n = 0
      /\ m.pc \in {"local", "remote"} /\ m.ret \in {"first", "only"}
  BY <1>1, LoopIs
<1>4. SlaveInv /\ MasterInv
  BY <1>2, <1>3 DEF SlaveInv, MasterInv
<1>5. QueueInv
  BY <1>1 DEF QueueInv
<1>6. LinkInv
  <2>1. Out(s) = -1 /\ Got(s) = 0 /\ Out(m) = -1 /\ Got(m) = 0
    BY <1>2, <1>3, OutFacts
  <2>2. PICK z \in {0, 1} : z = 0
    OBVIOUS
  <2>3. Shape(z, z, z, z) /\ Link(toM, z, z, z, z) /\ Link(toS, z, z, z, z)
    BY <1>1, <2>2, AuroraAssumption DEF Shape, Link
  <2>4. Flow(-1, 0, z, z, z + z)
    BY <2>2 DEF Flow
  <2>5. QED
    BY <2>1, <2>3, <2>4, HandshakeIs DEF LinkInv
<1>7. RingSide
  <2>1. RingType
    BY <1>1, AuroraAssumption DEF RingType
  <2>2. rx_tail = Wrap(rx_head + rx_count) /\ \A k \in 0 .. rx_count - 1 : FALSE
    BY <1>1, AuroraAssumption DEF Wrap
  <2>3. QED
    BY <2>1, <2>2, RingIs DEF RingSide
<1>8. RoomInv
  <2>1. ~HeaderOn(toM)
    BY <1>1 DEF HeaderOn
  <2>2. ~(m.pc \in {"recv", "ack"}) /\ ~(s.pc = "send" /\ s.n = 0) /\ Len(fsl[1]) = 0
    BY <1>1, <1>2, <1>3
  <2>3. QED
    BY <1>1, <2>1, <2>2, AuroraAssumption DEF RoomInv, One
<1>9. RestType
  BY <1>1 DEF RestType
<1>10. QED
  BY <1>2, <1>3, <1>4, <1>5, <1>6, <1>7, <1>8, <1>9, IInvIs DEF SlaveSide, MasterSide

(* A step of the slave. *)
LEMMA IInvSlave == ASSUME IInv, Slave PROVE IInv'
<1>1. SlaveSide /\ MasterSide /\ RingSide /\ RoomInv /\ RestType
  BY IInvIs
<1>2. /\ m' = m /\ SlaveUnchanged /\ DOMAIN fsl = {0, 1}
  BY <1>1 DEF Slave, SlavePoll, SlaveLink, SlaveSend, SlaveWait, SlaveRecv, SlaveAck, SlaveForward,
              SlaveUnchanged, RestType
<1>3. SlaveSide'
  BY <1>1, <1>2, SlavePollStep, SlaveLinkStep, SlaveSendStep, SlaveWaitStep, SlaveRecvStep,
     SlaveAckStep, SlaveForwardStep DEF Slave
<1>4. MasterSide'
  <2>1. MasterInv'
    BY <1>1, <1>2 DEF MasterSide, MasterInv
  <2>2. QED
    BY <1>1, <1>2, <1>3, <2>1 DEF MasterSide, SlaveSide
<1>5. RingSide'
  BY <1>1, <1>2 DEF RingSide, RingType, RingInv, Slot, SlaveUnchanged, ring
<1>6. RoomInv'
  BY <1>1, <1>2, SlaveRoom DEF RingSide, RingType
<1>7. RestType'
  <2>1. fsl' = fsl \/ fsl' = [fsl EXCEPT ![1] = Tail(@)]
    BY DEF Slave, SlavePoll, SlaveLink, SlaveSend, SlaveWait, SlaveRecv, SlaveAck, SlaveForward
  <2>2. fsl' = [c \in {0, 1} |-> fsl'[c]]
    BY <1>1, <2>1 DEF RestType
  <2>3. QED
    BY <1>1, <1>2, <2>2 DEF RestType, SlaveUnchanged, loop
<1>8. QED
  BY <1>3, <1>4, <1>5, <1>6, <1>7, IInvIsNext

(* What a step of the master does to the rest. *)
LEMMA RestMaster ==
    ASSUME IInv, Master
    PROVE  RestType'
<1>1. SlaveSide /\ MasterSide /\ RingSide /\ RoomInv /\ RestType
  BY IInvIs
<1>2. fsl' = [c \in {0, 1} |-> fsl'[c]]
  <2>1. fsl' = fsl \/ fsl' = [fsl EXCEPT ![0] = Tail(@)]
    BY DEF Master, MasterLocal, MasterRing, MasterLink, MasterRecv, MasterAck, MasterProcess,
           MasterReply, MasterSend, MasterWait, slave
  <2>2. QED
    BY <1>1, <2>1 DEF RestType
<1>3. todo' \in Seq(E!Messages)
  <2>1. CASE MasterProcess
    <3>1. m.pkt \in E!Packets
      BY <1>1, <2>1 DEF MasterProcess, MasterSide, MasterInv
    <3>2. QED
      BY <2>1, <3>1, WorkIs DEF MasterProcess
  <2>2. CASE MasterReply
    BY <1>1, <2>2, QueueOps DEF MasterReply, RestType
  <2>3. CASE MasterSend
    <3>1. todo' = todo \/ todo' = Tail(todo)
      BY <2>3 DEF MasterSend
    <3>2. Tail(todo) \in Seq(E!Messages)
      <4>1. CASE todo = <<>>
        BY <4>1
      <4>2. CASE todo # <<>>
        BY <1>1, <4>2, QueueOps DEF RestType
      <4>3. QED
        BY <4>1, <4>2
    <3>3. QED
      BY <1>1, <3>1, <3>2 DEF RestType
  <2>4. CASE MasterLocal \/ MasterRing \/ MasterLink \/ MasterRecv \/ MasterAck \/ MasterWait
    BY <1>1, <2>4 DEF MasterLocal, MasterRing, MasterLink, MasterRecv, MasterAck, MasterWait, RestType
  <2>5. QED
    BY <2>1, <2>2, <2>3, <2>4 DEF Master
<1>4. toggle_flag' \in {0, 1} /\ get_local' \in {0, 1} /\ get_remote' \in {0, 1}
  <2>1. toggle_flag' = toggle_flag \/ toggle_flag' = 1 - toggle_flag
    BY DEF Master, MasterLocal, MasterRing, MasterLink, MasterRecv, MasterAck, MasterProcess,
           MasterReply, MasterSend, MasterWait, Flip, loop
  <2>2. CASE MasterProcess
    <3>1. /\ get_local' = get_local \/ get_local' = 0 \/ get_local' = 1
          /\ get_remote' = get_remote \/ get_remote' = 0 \/ get_remote' = 1
      BY <2>2 DEF MasterProcess, Lock
    <3>2. QED
      BY <1>1, <2>1, <3>1 DEF RestType
  <2>3. CASE ~MasterProcess
    <3>1. get_local' = get_local /\ get_remote' = get_remote
      BY <2>3 DEF Master, MasterLocal, MasterRing, MasterLink, MasterRecv, MasterAck,
                  MasterReply, MasterSend, MasterWait, loop
    <3>2. QED
      BY <1>1, <2>1, <3>1 DEF RestType
  <2>4. QED
    BY <2>2, <2>3
<1>5. QED
  BY <1>2, <1>3, <1>4 DEF RestType

(* A step of the master. *)
LEMMA IInvMaster == ASSUME IInv, Master PROVE IInv'
<1>1. SlaveSide /\ MasterSide /\ RingSide /\ RoomInv /\ RestType
  BY IInvIs
<1>2. s' = s /\ DOMAIN fsl = {0, 1}
  BY <1>1 DEF Master, MasterLocal, MasterRing, MasterLink, MasterRecv, MasterAck, MasterProcess,
              MasterReply, MasterSend, MasterWait, RestType, slave
<1>3. RingSide'
  <2>1. CASE MasterRing
    BY <1>1, <2>1, RingTake
  <2>2. CASE MasterAck
    <3>1. CASE m.ret = "wait"
      <4>1. insert_pcx_pkt(m.pkt) /\ m.pkt \in PacketsOf(1)
        BY <1>1, <2>2, <3>1 DEF MasterAck, MasterSide, MasterInv
      <4>2. QED
        BY <1>1, <4>1, RingInsert
    <3>2. CASE m.ret # "wait"
      BY <1>1, <2>2, <3>2 DEF MasterAck, ring, RingSide, RingType, RingInv, Slot
    <3>3. QED
      BY <3>1, <3>2
  <2>3. CASE ~MasterRing /\ ~MasterAck
    <3>1. UNCHANGED ring
      BY <2>3 DEF Master, MasterLocal, MasterLink, MasterRecv, MasterProcess, MasterReply,
                  MasterSend, MasterWait
    <3>2. QED
      BY <1>1, <3>1 DEF ring, RingSide, RingType, RingInv, Slot
  <2>4. QED
    BY <2>1, <2>2, <2>3
<1>4. MasterSide'
  <2>1. CASE MasterRing
    BY <1>1, <2>1, RingTake, MasterRingStep
  <2>2. CASE MasterReply
    BY <1>1, <2>2, MasterReplyStep DEF RestType
  <2>3. QED
    BY <1>1, <1>2, <2>1, <2>2, MasterLocalStep, MasterLinkStep, MasterRecvStep, MasterAckStep,
       MasterProcessStep, MasterSendStep, MasterWaitStep DEF Master
<1>5. SlaveSide'
  <2>1. SlaveInv'
    BY <1>1, <1>2 DEF SlaveSide, SlaveInv
  <2>2. QED
    BY <1>1, <1>2, <1>4, <2>1 DEF MasterSide, SlaveSide
<1>6. RoomInv'
  BY <1>1, <1>2, MasterRoom DEF RingSide
<1>7. QED
  BY <1>3, <1>4, <1>5, <1>6, RestMaster, IInvIsNext

(* A core sends requests. *)
LEMMA IInvCore == ASSUME IInv, NEW c \in {0, 1}, CoreIssue(c) PROVE IInv'
<1>1. SlaveSide /\ MasterSide /\ RingSide /\ RoomInv /\ RestType
  BY IInvIs
<1>2. PICK r \in E!Requests(c) :
        /\ Len(Sent[c]) + Len(Arriving[c]) + Len(r) <= MaxOut
        /\ fsl' = [fsl EXCEPT ![c] = @ \o r]
        /\ UNCHANGED <<toM, toS, s, m, todo, loop, ring>>
  BY DEF CoreIssue
<1>3. r \in Seq(PacketsOf(c)) /\ fsl[c] \in Seq(PacketsOf(c))
  BY <1>1, <1>2, RequestsAre DEF SlaveSide, QueueInv
<1>4. fsl[c] \o r \in Seq(PacketsOf(c)) /\ Len(fsl[c] \o r) = Len(fsl[c]) + Len(r)
  BY <1>3, ConcatProperties
<1>5. QueueInv'
  <2>1. /\ c = 0 => fsl'[0] = fsl[0] \o r /\ fsl'[1] = fsl[1]
        /\ c = 1 => fsl'[1] = fsl[1] \o r /\ fsl'[0] = fsl[0]
    <3>1. DOMAIN fsl = {0, 1} /\ 0 # 1
      BY <1>1 DEF RestType
    <3>2. fsl' = [fsl EXCEPT ![c] = fsl[c] \o r]
      BY <1>2
    <3>3. \A k \in {0, 1} : fsl'[k] = IF k = c THEN fsl[c] \o r ELSE fsl[k]
      BY <3>1, <3>2
    <3>4. PICK z \in {0, 1}, w \in {0, 1} : z = 0 /\ w = 1 /\ z # w
      OBVIOUS
    <3>5. fsl'[z] = (IF z = c THEN fsl[c] \o r ELSE fsl[z]) /\ fsl'[w] = (IF w = c THEN fsl[c] \o r ELSE fsl[w])
      BY <3>3
    <3>6. QED
      BY <3>4, <3>5
  <2>2. QED
    BY <1>1, <1>2, <1>4, <2>1 DEF QueueInv, SlaveSide
<1>6. LinkInv'
  BY <1>1, <1>2 DEF LinkInv, SlaveSide
<1>7. SlaveInv' /\ MasterInv'
  BY <1>1, <1>2 DEF SlaveSide, SlaveInv, MasterSide, MasterInv
<1>8. SlaveSide' /\ MasterSide'
  BY <1>1, <1>2, <1>5, <1>6, <1>7 DEF SlaveSide, MasterSide
<1>9. RingSide'
  BY <1>1, <1>2 DEF ring, RingSide, RingType, RingInv, Slot
<1>10. RoomInv'
  <2>1. CASE c = 0
    <3>1. fsl'[1] = fsl[1]
      BY <1>1, <1>2, <2>1 DEF RestType
    <3>2. QED
      BY <1>1, <1>2, <3>1 DEF RoomInv, ring
  <2>2. CASE c = 1
    <3>1. /\ Len(Sent[1]) \in Nat
          /\ Len(Sent[1]) >= rx_count + One(m.pc \in {"recv", "ack"}) + One(HeaderOn(toM))
                               + One(s.pc = "send" /\ s.n = 0) + Len(fsl[1])
      BY SentRoom DEF IInv
    <3>2. Len(Arriving[1]) \in Nat
      <4>1. s.pkt \in Held /\ toS \in Seq(HalfWords(MessagesTo(1)))
        BY <1>1, LinkTypes DEF SlaveSide, Board, Held
      <4>2. When(s.pc \in {"recv", "ack", "forward"}, s.pkt) \in Seq(Held)
        BY <4>1 DEF When
      <4>3. Headers(toS) \in Seq(Held)
        BY <4>1, HeadersIs, HeldFacts, SeqSub
      <4>4. \A k \in {0, 1} : k # 0 =>
              Arriving[k] = When(s.pc \in {"recv", "ack", "forward"}, s.pkt) \o Headers(toS)
        BY DEF Arriving
      <4>5. PICK k \in {0, 1} : k = 1 /\ k # 0
        OBVIOUS
      <4>6. Arriving[1] \in Seq(Held)
        BY <4>2, <4>3, <4>4, <4>5, ConcatProperties
      <4>7. QED
        BY <4>6
    <3>3. Len(Sent[1]) + Len(Arriving[1]) + Len(r) <= MaxOut /\ fsl'[1] = fsl[1] \o r
      BY <1>1, <1>2, <2>2 DEF RestType
    <3>4. Len(fsl'[1]) = Len(fsl[1]) + Len(r) /\ Len(r) \in Nat /\ Len(fsl[1]) \in Nat
      BY <1>3, <1>4, <2>2, <3>3
    <3>5. rx_count' = rx_count /\ m' = m /\ toM' = toM /\ s' = s
      BY <1>2 DEF ring
    <3>6. rx_count \in Nat
      BY <1>1 DEF RingSide, RingType
    <3>7. /\ One(m.pc \in {"recv", "ack"}) \in Nat /\ One(HeaderOn(toM)) \in Nat
          /\ One(s.pc = "send" /\ s.n = 0) \in Nat
      BY DEF One
    <3>8. PICK a \in Nat, b \in Nat, l \in Nat, k \in Nat, n1 \in Nat, n2 \in Nat, n3 \in Nat, n4 \in Nat :
            /\ a = Len(Sent[1]) /\ b = Len(Arriving[1]) /\ l = Len(r) /\ k = Len(fsl[1])
            /\ n1 = rx_count /\ n2 = One(m.pc \in {"recv", "ack"}) /\ n3 = One(HeaderOn(toM))
            /\ n4 = One(s.pc = "send" /\ s.n = 0)
      BY <3>1, <3>2, <3>4, <3>6, <3>7
    <3>9. n1 + n2 + n3 + n4 + (k + l) <= MaxOut
      <4>1. a >= n1 + n2 + n3 + n4 + k
        BY <3>1, <3>8
      <4>2. a + b + l <= MaxOut
        BY <3>3, <3>8
      <4>3. QED
        BY <4>1, <4>2, AuroraAssumption
    <3>10. QED
      BY <3>4, <3>5, <3>8, <3>9 DEF RoomInv
  <2>3. QED
    BY <2>1, <2>2
<1>11. RestType'
  <2>1. fsl' = [k \in {0, 1} |-> fsl'[k]]
    BY <1>1, <1>2 DEF RestType
  <2>2. QED
    BY <1>1, <1>2, <2>1 DEF RestType, loop
<1>12. QED
  BY <1>8, <1>9, <1>10, <1>11, IInvIsNext

(* Every step keeps it. *)
LEMMA IInvNext == IInv /\ [Next]_vars => IInv'
<1> SUFFICES ASSUME IInv, [Next]_vars PROVE IInv'
  OBVIOUS
<1>1. CASE UNCHANGED vars
  <2>1. /\ fsl' = fsl /\ toM' = toM /\ toS' = toS /\ s' = s /\ m' = m /\ todo' = todo
        /\ toggle_flag' = toggle_flag /\ get_local' = get_local /\ get_remote' = get_remote
        /\ rx_head' = rx_head /\ rx_tail' = rx_tail /\ rx_count' = rx_count /\ pcx_pkts' = pcx_pkts
    BY <1>1 DEF vars, loop, ring
  <2>2. SlaveSide /\ MasterSide /\ RingSide /\ RoomInv /\ RestType
    BY IInvIs
  <2>3. SlaveInv' /\ MasterInv' /\ QueueInv' /\ LinkInv'
    BY <2>1, <2>2 DEF SlaveSide, MasterSide, SlaveInv, MasterInv, QueueInv, LinkInv
  <2>4. SlaveSide' /\ MasterSide'
    BY <2>1, <2>2, <2>3 DEF SlaveSide, MasterSide
  <2>5. RingSide' /\ RestType'
    BY <2>1, <2>2 DEF RingSide, RingType, RingInv, Slot, RestType
  <2>6. RoomInv'
    BY <2>1, <2>2 DEF RoomInv
  <2>7. QED
    BY <2>4, <2>5, <2>6, IInvIsNext
<1>2. QED
  BY <1>1, IInvSlave, IInvMaster, IInvCore DEF Next

-----------------------------------------------------------------------------
(* The theorems. *)

(* The invariant holds in every state. *)
LEMMA IInvHolds == Spec => []IInv
BY IInvInit, IInvNext, PTL DEF Spec

(* Every variable has its type, whatever the boards do. *)
THEOREM TypeCorrect == Spec => []TypeOK
<1>1. IInv => TypeOK
  BY DEF IInv
<1>2. QED
  BY <1>1, IInvHolds, PTL

(* The software handshake replaces flow control: for every packet length, a *)
(* direction of the link holds at most one packet and one acknowledgement,  *)
(* and a board always finds on it the kind of half word it reads next       *)
(* (send_aurora_pkt, recv_aurora_pkt and recv_aurora_ack).                  *)
THEOREM HandshakeBounded == Spec => []HandshakeBoundsLink
<1>1. ASSUME IInv
      PROVE  HandshakeBoundsLink
  <2>1. SlaveSide /\ MasterSide
    BY <1>1, IInvIs
  <2>2. QueueInv /\ Handshake(toM, Out(s), Got(m), toS, Out(m), Got(s))
        /\ Handshake(toS, Out(m), Got(s), toM, Out(s), Got(m))
    BY <2>1, LinkTurned DEF SlaveSide, LinkInv
  <2>3. /\ Len(toS) <= Words + 2
        /\ toS # <<>> /\ Got(s) = 0 => Head(toS).t \in {"hdr", "ack"}
        /\ toS # <<>> /\ Got(s) \in 1 .. Words => Head(toS).t = "word"
    BY <2>2, LinkTypes, HandshakeBounds
  <2>4. /\ Len(toM) <= Words + 2
        /\ toM # <<>> /\ Got(m) = 0 => Head(toM).t \in {"hdr", "ack"}
        /\ toM # <<>> /\ Got(m) \in 1 .. Words => Head(toM).t = "word"
    BY <2>2, LinkTypes, HandshakeBounds
  <2>5. m.pc = "recv" => Got(m) \in 1 .. Words
    BY <2>1, OutFacts, BoardFields, AuroraAssumption DEF MasterSide, MasterInv
  <2>6. s.pc = "recv" => Got(s) \in 1 .. Words
    BY <2>1, OutFacts, BoardFields, AuroraAssumption DEF SlaveSide, SlaveInv
  <2>7. /\ m.pc \in {"remote", "wait"} => Got(m) = 0
        /\ s.pc \in {"link", "wait"} => Got(s) = 0
    BY OutFacts
  <2>8. /\ toM # <<>> => (Head(toM).t = "word" <=> Head(toM) = Word)
        /\ toS # <<>> => (Head(toS).t = "word" <=> Head(toS) = Word)
    BY <2>2, LinkTypes, HalfWordFacts
  <2>9. QED
    BY <2>3, <2>4, <2>5, <2>6, <2>7, <2>8 DEF HandshakeBoundsLink
<1>2. QED
  BY <1>1, IInvHolds, PTL

(* The ring has a slot for every request core 1 may have under way. *)
Suffices == MaxOut <= MAX_PCX_PKTS

(* The master never gives up for want of room in the ring, as long as the   *)
(* ring has a slot for every request that core 1 may have under way         *)
(* (insert_pcx_pkt).                                                        *)
THEOREM RingNeverOverflows ==
    ASSUME Suffices
    PROVE  Spec => []RingSuffices
<1>1. Init => RingSuffices
  BY LoopIs DEF Init, RingSuffices
<1>2. ASSUME IInv, RingSuffices, Next
      PROVE  RingSuffices'
  <2>1. SlaveSide /\ MasterSide /\ RingSide /\ RoomInv /\ RestType
    BY <1>2, IInvIs
  <2>2. m \in Board(MasterPCs, MasterRets) /\ m.pc # "exit" /\ MasterInv
    BY <1>2, <2>1 DEF MasterSide, RingSuffices
  <2>3. CASE MasterAck /\ m.ret = "wait"
    <3>1. ~(rx_head = rx_tail /\ rx_count > 0)
      <4>1. SUFFICES ASSUME rx_head = rx_tail, rx_count > 0 PROVE FALSE
        OBVIOUS
      <4>2. rx_count = MAX_PCX_PKTS
        BY <2>1, <4>1, RingFull
      <4>3. m.pc \in {"recv", "ack"}
        BY <2>3 DEF MasterAck
      <4>4. Len(fsl[1]) \in Nat
        BY <2>1, QueueOps DEF SlaveSide, QueueInv
      <4>5. One(m.pc \in {"recv", "ack"}) = 1
        BY <4>3 DEF One
      <4>6. One(HeaderOn(toM)) \in Nat /\ One(s.pc = "send" /\ s.n = 0) \in Nat
        BY DEF One
      <4>7. rx_count + 1 + One(HeaderOn(toM)) + One(s.pc = "send" /\ s.n = 0) + Len(fsl[1]) <= MaxOut
        BY <2>1, <4>5 DEF RoomInv
      <4>8. QED
        BY <4>2, <4>4, <4>6, <4>7, AuroraAssumption DEF Suffices
    <3>2. m' = Goto(m, "wait")
      BY <2>3, <3>1 DEF MasterAck, insert_pcx_pkt
    <3>3. m'.pc = "wait"
      BY <2>2, <3>2, GotoIs DEF MasterPCs, MasterRets
    <3>4. QED
      BY <3>3 DEF RingSuffices
  <2>4. CASE MasterAck /\ m.ret # "wait"
    <3>1. m' = [m EXCEPT !.pc = "process"]
      BY <2>4 DEF MasterAck
    <3>2. m'.pc = "process"
      BY <2>2, <3>1 DEF Board
    <3>3. QED
      BY <3>2 DEF RingSuffices
  <2>5. CASE MasterLocal \/ MasterLink
    <3>1. CASE m' = m
      BY <2>2, <3>1 DEF RingSuffices
    <3>2. CASE NextAttempt("remote") \/ NextAttempt("local")
      BY <2>1, <2>5, <3>2, NextAttemptIs DEF MasterLocal, MasterLink, RingSuffices
    <3>3. CASE m' = [m EXCEPT !.pc = "process", !.pkt = Head(fsl[0])]
      <4>1. m'.pc = "process"
        BY <2>2, <3>3 DEF Board
      <4>2. QED
        BY <4>1 DEF RingSuffices
    <3>4. CASE m' = StartRecv(m, Head(toM).pkt, m.ret)
      BY <3>4 DEF StartRecv, RingSuffices
    <3>5. QED
      BY <2>5, <3>1, <3>2, <3>3, <3>4 DEF MasterLocal, MasterLink
  <2>6. CASE MasterRing
    <3>1. m' = [m EXCEPT !.pc = "process", !.pkt = pcx_pkts[rx_head]]
      BY <2>6 DEF MasterRing
    <3>2. m'.pc = "process"
      BY <2>2, <3>1 DEF Board
    <3>3. QED
      BY <3>2 DEF RingSuffices
  <2>7. CASE MasterRecv
    BY <2>2, <2>7, RecvIs, BoardFields, AuroraAssumption DEF MasterRecv, MasterInv, MasterPCs, RingSuffices
  <2>8. CASE MasterProcess \/ MasterWait
    <3>1. m' = Goto(m, "reply") \/ m' = StartRecv(m, Head(toM).pkt, "wait")
      BY <2>8 DEF MasterProcess, MasterWait
    <3>2. Goto(m, "reply").pc = "reply"
      BY <2>2, GotoIs DEF MasterPCs, MasterRets
    <3>3. StartRecv(m, Head(toM).pkt, "wait").pc = "recv"
      BY DEF StartRecv
    <3>4. QED
      BY <3>1, <3>2, <3>3 DEF RingSuffices
  <2>9. CASE MasterReply
    <3>1. m' = Loop \/ m' = m \/ m' = [m EXCEPT !.pc = "send", !.pkt = Head(todo)]
      BY <2>9 DEF MasterReply
    <3>2. [m EXCEPT !.pc = "send", !.pkt = Head(todo)].pc = "send"
      BY <2>2 DEF Board
    <3>3. QED
      BY <2>2, <3>1, <3>2, LoopIs DEF RingSuffices
  <2>10. CASE MasterSend
    BY <2>2, <2>10, SendIs, BoardFields, AuroraAssumption DEF MasterSend, MasterPCs, RingSuffices
  <2>11. CASE Slave \/ \E c \in {0, 1} : CoreIssue(c)
    <3>1. m' = m
      BY <2>11 DEF Slave, SlavePoll, SlaveLink, SlaveSend, SlaveWait, SlaveRecv, SlaveAck,
                   SlaveForward, SlaveUnchanged, CoreIssue
    <3>2. QED
      BY <2>2, <3>1 DEF RingSuffices
  <2>12. QED
    BY <1>2, <2>3, <2>4, <2>5, <2>6, <2>7, <2>8, <2>9, <2>10, <2>11 DEF Next, Master
<1>3. IInv /\ RingSuffices /\ [Next]_vars => RingSuffices'
  BY <1>2 DEF RingSuffices, vars
<1>4. QED
  BY <1>1, <1>3, IInvHolds, PTL DEF Spec
=============================================================================
