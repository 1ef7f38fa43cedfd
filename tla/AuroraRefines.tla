--------------------------- MODULE AuroraRefines ---------------------------
(***************************************************************************)
(* TLAPS proof that the two boards and their link (Aurora) implement what  *)
(* module Emulation promises, for every packet length and set of requests, *)
(* as long as the ring has room.                                           *)
(***************************************************************************)
EXTENDS AuroraProofs

-----------------------------------------------------------------------------
(* One request is served at a time, and none while the other side is       *)
(* locked out.                                                             *)
ServeInv ==
  /\ m.pc \in {"local", "remote", "process"} => todo = <<>>
  /\ m.pc \in {"recv", "ack"} /\ m.ret # "wait" => todo = <<>> /\ rx_count = 0
  /\ m.pc = "send" /\ m.n = 0 => todo # <<>> /\ m.pkt = Head(todo)
  /\ get_local = 1 \/ get_remote = 1
  /\ \/ m.pc = "remote"
     \/ m.pc \in {"recv", "ack"} /\ m.ret # "wait"
     \/ m.pc = "process" /\ m.pkt.core = 1
     => get_remote = 1
  /\ m.pc = "local" \/ (m.pc = "process" /\ m.pkt.core = 0) => get_local = 1
  /\ m.pc \in {"local", "remote"} /\ m.ret = "first" => Both

(* The requests of core 1, from the oldest to the newest, *)
Q1 == When(m.pc = "process" /\ m.pkt.core = 1, m.pkt)
Q2 == RingContents
Q3 == When(m.pc \in {"recv", "ack"}, m.pkt)
Q4 == Headers(toM)
Q5 == When(s.pc = "send" /\ s.n = 0, s.pkt)
Q6 == fsl[1]
Sent1 == Q1 \o (Q2 \o (Q3 \o (Q4 \o (Q5 \o Q6))))

(* those of core 0, *)
P0 == When(m.pc = "process" /\ m.pkt.core = 0, m.pkt)
Sent0 == P0 \o fsl[0]

(* and the messages on their way to core 1. *)
A1 == When(s.pc \in {"recv", "ack", "forward"}, s.pkt)
Arriving1 == A1 \o Headers(toS)

Locked == CASE get_remote = 0 -> 0 [] get_local = 0 -> 1 [] OTHER -> -1

-----------------------------------------------------------------------------
(* Sequences. *)

(* Moving the border between two parts of a sequence. *)
LEMMA Cat ==
    ASSUME NEW T, NEW x \in Seq(T)
    PROVE  /\ <<>> \o x = x /\ x \o <<>> = x
           /\ \A y, z \in Seq(T) : (x \o y) \o z = x \o (y \o z)
           /\ \A y \in Seq(T) : x \o y \in Seq(T)
           /\ \A p \in T : <<p>> \in Seq(T) /\ Append(x, p) = x \o <<p>>
           /\ <<>> \in Seq(T)
<1>1. \A p \in T : <<p>> \in Seq(T)
  OBVIOUS
<1>2. \A p \in T : Append(x, p) = x \o <<p>>
  BY AppendIsConcat
<1>3. <<>> \in Seq(T)
  BY EmptySeq
<1>4. \A y \in Seq(T) : x \o y \in Seq(T)
  BY ConcatProperties
<1>5. \A y, z \in Seq(T) : (x \o y) \o z = x \o (y \o z)
  BY ConcatAssociative
<1>6. <<>> \o x = x /\ x \o <<>> = x
  BY ConcatEmptySeq
<1>7. QED
  BY <1>1, <1>2, <1>3, <1>4, <1>5, <1>6

(* The first of a sequence and the rest. *)
LEMMA Cons ==
    ASSUME NEW T, NEW p \in T, NEW x \in Seq(T)
    PROVE  /\ <<p>> \o x \in Seq(T) /\ <<p>> \o x # <<>>
           /\ Head(<<p>> \o x) = p /\ Tail(<<p>> \o x) = x
<1> DEFINE y == <<p>> \o x
<1>1. PICK w \in Seq(T) : w = <<p>> /\ Len(w) = 1 /\ w[1] = p
  <2>1. <<p>> \in Seq(T)
    OBVIOUS
  <2>2. Len(<<p>>) = 1
    OBVIOUS
  <2>3. <<p>>[1] = p
    OBVIOUS
  <2>4. QED
    BY <2>1, <2>2, <2>3
<1>2. PICK n \in Nat : n = Len(x)
  OBVIOUS
<1>3. /\ y \in Seq(T) /\ Len(y) = n + 1
      /\ \A i \in 1 .. n + 1 : y[i] = IF i <= 1 THEN p ELSE x[i - 1]
  <2>1. /\ w \o x \in Seq(T) /\ Len(w \o x) = Len(w) + Len(x)
        /\ \A i \in 1 .. Len(w) + Len(x) : (w \o x)[i] = IF i <= Len(w) THEN w[i] ELSE x[i - Len(w)]
    BY ConcatProperties
  <2>2. Len(w) + Len(x) = n + 1
    BY <1>1, <1>2
  <2>3. \A i \in 1 .. n + 1 : i <= Len(w) => w[i] = p
    BY <1>1
  <2>4. QED
    BY <1>1, <2>1, <2>2, <2>3
<1> HIDE DEF y
<1>4. y # <<>>
  BY <1>3, EmptySeq
<1>5. /\ Tail(y) \in Seq(T) /\ Len(Tail(y)) = n
      /\ \A i \in 1 .. n : Tail(y)[i] = y[i + 1]
      /\ Head(y) = y[1]
  BY <1>3, <1>4, TailAt
<1>6. Head(y) = p
  BY <1>3, <1>5
<1>7. \A i \in 1 .. n : Tail(y)[i] = x[i]
  BY <1>3, <1>5
<1>8. Tail(y) = x
  BY <1>2, <1>5, <1>7, SeqEqual
<1>9. QED
  BY <1>3, <1>4, <1>6, <1>8 DEF y

(* Putting them together again. *)
LEMMA Uncons ==
    ASSUME NEW T, NEW x \in Seq(T), x # <<>>
    PROVE  Head(x) \in T /\ Tail(x) \in Seq(T) /\ x = <<Head(x)>> \o Tail(x)
<1>1. Head(x) \in T /\ Tail(x) \in Seq(T)
  BY QueueOps
<1>2. PICK n \in Nat : Len(x) = n + 1
  <2>1. Len(x) \in Nat /\ Len(x) # 0
    BY EmptySeq
  <2>2. Len(x) - 1 \in Nat /\ Len(x) = Len(x) - 1 + 1
    BY <2>1
  <2>3. QED
    BY <2>2
<1> DEFINE y == <<Head(x)>> \o Tail(x)
<1>3. y \in Seq(T) /\ y # <<>> /\ Head(y) = Head(x) /\ Tail(y) = Tail(x)
  BY <1>1, Cons
<1>4. Len(Tail(x)) = n /\ Head(x) = x[1] /\ \A i \in 1 .. n : Tail(x)[i] = x[i + 1]
  BY <1>2, TailAt
<1> HIDE DEF y
<1>5. PICK k \in Nat : Len(y) = k + 1
  <2>1. Len(y) \in Nat /\ Len(y) # 0
    BY <1>3, EmptySeq
  <2>2. Len(y) - 1 \in Nat /\ Len(y) = Len(y) - 1 + 1
    BY <2>1
  <2>3. QED
    BY <2>2
<1>6. Len(Tail(y)) = k /\ Head(y) = y[1] /\ \A i \in 1 .. k : Tail(y)[i] = y[i + 1]
  BY <1>3, <1>5, TailAt
<1>7. k = n
  BY <1>3, <1>4, <1>6
<1>8. ASSUME NEW i \in 1 .. n + 1
      PROVE  y[i] = x[i]
  <2>1. CASE i = 1
    BY <1>3, <1>4, <1>6, <2>1
  <2>2. CASE i # 1
    <3>1. PICK j \in 1 .. n : i = j + 1
      <4>1. i - 1 \in 1 .. n /\ i = i - 1 + 1
        BY <2>2
      <4>2. QED
        BY <4>1
    <3>2. QED
      BY <1>3, <1>4, <1>6, <1>7, <3>1
  <2>3. QED
    BY <2>1, <2>2
<1>9. y = x
  <2>1. Len(y) = Len(x) /\ Len(y) = n + 1
    BY <1>2, <1>5, <1>7
  <2>2. QED
    BY <1>3, <1>8, <2>1, SeqEqual
<1>10. QED
  BY <1>1, <1>9 DEF y

(* An element crosses the border between two parts. *)
LEMMA Across ==
    ASSUME NEW T, NEW p \in T, NEW x \in Seq(T)
    PROVE  <<>> \o (<<p>> \o x) = <<p>> \o (<<>> \o x)
<1>1. <<p>> \o x \in Seq(T)
  BY Cons
<1>2. QED
  BY <1>1, Cat

(* It joins the end of the part before it. *)
LEMMA Joins ==
    ASSUME NEW T, NEW q \in Seq(T), NEW p \in T, NEW x \in Seq(T)
    PROVE  q \o (<<p>> \o x) = Append(q, p) \o (<<>> \o x)
<1>1. <<p>> \in Seq(T) /\ Append(q, p) = q \o <<p>> /\ <<>> \o x = x
  BY Cat
<1>2. q \o (<<p>> \o x) = (q \o <<p>>) \o x
  BY <1>1, Cat
<1>3. QED
  BY <1>1, <1>2

(* The first element of the next part comes before it. *)
LEMMA Leaves ==
    ASSUME NEW T, NEW q \in Seq(T), q # <<>>, NEW x \in Seq(T)
    PROVE  <<>> \o (q \o x) = <<Head(q)>> \o (Tail(q) \o x)
<1>1. Head(q) \in T /\ Tail(q) \in Seq(T) /\ q = <<Head(q)>> \o Tail(q)
  BY Uncons
<1>2. <<Head(q)>> \in Seq(T)
  BY <1>1, Cat
<1>3. q \o x \in Seq(T) /\ <<>> \o (q \o x) = q \o x
  BY Cat
<1>4. (<<Head(q)>> \o Tail(q)) \o x = <<Head(q)>> \o (Tail(q) \o x)
  BY <1>1, <1>2, Cat
<1>5. QED
  BY <1>1, <1>3, <1>4

(* More at the end of the last part. *)
LEMMA Longer ==
    ASSUME NEW T, NEW a \in Seq(T), NEW b \in Seq(T), NEW r \in Seq(T)
    PROVE  a \o (b \o r) = (a \o b) \o r
BY Cat

(* More behind the other five. *)
Lengthened(a, b, c, d, e, f, r) ==
  a \o (b \o (c \o (d \o (e \o (f \o r))))) = (a \o (b \o (c \o (d \o (e \o f))))) \o r

(* They may be joined with the other six last or first. *)
LEMMA LongerLine ==
    ASSUME NEW T
    PROVE  \A a, b, c, d, e, f, r :
             /\ a \in Seq(T) /\ b \in Seq(T) /\ c \in Seq(T) /\ d \in Seq(T)
             /\ e \in Seq(T) /\ f \in Seq(T) /\ r \in Seq(T)
             => Lengthened(a, b, c, d, e, f, r)
<1>1. SUFFICES ASSUME NEW a, NEW b, NEW c, NEW d, NEW e, NEW f, NEW r,
                      a \in Seq(T), b \in Seq(T), c \in Seq(T), d \in Seq(T),
                      e \in Seq(T), f \in Seq(T), r \in Seq(T)
               PROVE  Lengthened(a, b, c, d, e, f, r)
  OBVIOUS
<1>a. a \in Seq(T)
  BY <1>1
<1>b. b \in Seq(T)
  BY <1>1
<1>c. c \in Seq(T)
  BY <1>1
<1>d. d \in Seq(T)
  BY <1>1
<1>e. e \in Seq(T)
  BY <1>1
<1>f. f \in Seq(T)
  BY <1>1
<1>r. r \in Seq(T)
  BY <1>1
<1>2. PICK ef : ef \in Seq(T) /\ ef = e \o f
  BY <1>e, <1>f, ConcatProperties
<1>3. ef \in Seq(T)
  BY <1>2
<1>4. PICK df : df \in Seq(T) /\ df = d \o ef
  BY <1>d, <1>3, ConcatProperties
<1>5. df \in Seq(T)
  BY <1>4
<1>6. PICK cf : cf \in Seq(T) /\ cf = c \o df
  BY <1>c, <1>5, ConcatProperties
<1>7. cf \in Seq(T)
  BY <1>6
<1>8. PICK bf : bf \in Seq(T) /\ bf = b \o cf
  BY <1>b, <1>7, ConcatProperties
<1>9. bf \in Seq(T)
  BY <1>8
<1>10. (e \o f) \o r = e \o (f \o r)
  BY <1>e, <1>f, <1>r, ConcatAssociative
<1>11. (d \o ef) \o r = d \o (ef \o r)
  BY <1>d, <1>3, <1>r, ConcatAssociative
<1>12. (c \o df) \o r = c \o (df \o r)
  BY <1>c, <1>5, <1>r, ConcatAssociative
<1>13. (b \o cf) \o r = b \o (cf \o r)
  BY <1>b, <1>7, <1>r, ConcatAssociative
<1>14. (a \o bf) \o r = a \o (bf \o r)
  BY <1>a, <1>9, <1>r, ConcatAssociative
<1>15. a \o (b \o (c \o (d \o (e \o f)))) = a \o bf
  BY <1>2, <1>4, <1>6, <1>8
<1>16. e \o (f \o r) = ef \o r
  BY <1>2, <1>10
<1>17. d \o (ef \o r) = df \o r
  BY <1>4, <1>11
<1>18. c \o (df \o r) = cf \o r
  BY <1>6, <1>12
<1>19. b \o (cf \o r) = bf \o r
  BY <1>8, <1>13
<1>20. QED
  BY <1>14, <1>15, <1>16, <1>17, <1>18, <1>19 DEF Lengthened

-----------------------------------------------------------------------------
(* The packet whose header is on a link. *)

(* There is one at most. *)
OneHeader(link) ==
  \A i, j \in DOMAIN link : link[i].t = "hdr" /\ link[j].t = "hdr" => i = j

(* No header, no packet. *)
LEMMA NoHeader ==
    ASSUME NEW link, ~HeaderOn(link)
    PROVE  Headers(link) = <<>>
<1>1. {i \in DOMAIN link : link[i].t = "hdr"} = {}
  BY DEF HeaderOn
<1>2. QED
  BY <1>1 DEF Headers

(* A header, its packet. *)
LEMMA TheHeader ==
    ASSUME NEW link, OneHeader(link), NEW i \in DOMAIN link, link[i].t = "hdr"
    PROVE  Headers(link) = <<link[i].pkt>>
<1> DEFINE found == {j \in DOMAIN link : link[j].t = "hdr"}
<1>1. found = {i}
  BY DEF OneHeader
<1>2. (CHOOSE j \in found : TRUE) = i
  BY <1>1
<1>3. found # {}
  BY <1>1
<1>4. Headers(link) = <<link[CHOOSE j \in found : TRUE].pkt>>
  BY <1>3 DEF Headers
<1>5. QED
  BY <1>2, <1>4

(* A link that grows by something else keeps its packet; *)
LEMMA HeadersKept ==
    ASSUME NEW T, NEW link \in Seq(T), OneHeader(link), NEW x \in T, x.t # "hdr"
    PROVE  Headers(Append(link, x)) = Headers(link)
<1>1. PICK n \in Nat : Len(link) = n
  OBVIOUS
<1> DEFINE more == Append(link, x)
<1>2. /\ more \in Seq(T) /\ Len(more) = n + 1
      /\ \A i \in 1 .. n : more[i] = link[i]
      /\ more[n + 1] = x
  BY <1>1, AppendAt
<1> HIDE DEF more
<1>3. DOMAIN more = 1 .. n + 1 /\ DOMAIN link = 1 .. n
  BY <1>1, <1>2
<1>4. \A i \in DOMAIN more : more[i].t = "hdr" => i \in DOMAIN link /\ link[i].t = "hdr"
  BY <1>2, <1>3, RangeSplit
<1>5. OneHeader(more)
  BY <1>4 DEF OneHeader
<1>6. CASE HeaderOn(link)
  <2>1. PICK i \in DOMAIN link : link[i].t = "hdr"
    BY <1>6 DEF HeaderOn
  <2>2. i \in DOMAIN more /\ more[i] = link[i]
    BY <1>2, <1>3
  <2>3. Headers(link) = <<link[i].pkt>> /\ Headers(more) = <<more[i].pkt>>
    BY <1>5, <2>1, <2>2, TheHeader
  <2>4. QED
    BY <2>2, <2>3 DEF more
<1>7. CASE ~HeaderOn(link)
  <2>1. ~HeaderOn(more)
    BY <1>4, <1>7 DEF HeaderOn
  <2>2. QED
    BY <1>7, <2>1, NoHeader DEF more
<1>8. QED
  BY <1>6, <1>7

(* one that gets a header has its packet. *)
LEMMA HeadersSent ==
    ASSUME NEW T, NEW link \in Seq(T), ~HeaderOn(link), NEW x \in T, x.t = "hdr"
    PROVE  Headers(Append(link, x)) = <<x.pkt>>
<1>1. PICK n \in Nat : Len(link) = n
  OBVIOUS
<1> DEFINE more == Append(link, x)
<1>2. /\ more \in Seq(T) /\ Len(more) = n + 1
      /\ \A i \in 1 .. n : more[i] = link[i]
      /\ more[n + 1] = x
  BY <1>1, AppendAt
<1> HIDE DEF more
<1>3. DOMAIN more = 1 .. n + 1 /\ DOMAIN link = 1 .. n
  BY <1>1, <1>2
<1>4. \A i \in DOMAIN more : more[i].t = "hdr" => i = n + 1
  BY <1>2, <1>3, RangeSplit DEF HeaderOn
<1>5. OneHeader(more)
  BY <1>4 DEF OneHeader
<1>6. n + 1 \in DOMAIN more
  BY <1>3
<1>7. Headers(more) = <<more[n + 1].pkt>>
  BY <1>2, <1>5, <1>6, TheHeader
<1>8. QED
  BY <1>2, <1>7 DEF more

(* One that loses something else keeps it; *)
LEMMA HeadersLeft ==
    ASSUME NEW T, NEW link \in Seq(T), OneHeader(link), link # <<>>, Head(link).t # "hdr"
    PROVE  Headers(Tail(link)) = Headers(link)
<1>1. PICK n \in Nat : Len(link) = n + 1
  <2>1. Len(link) \in Nat /\ Len(link) # 0
    BY EmptySeq
  <2>2. Len(link) - 1 \in Nat /\ Len(link) = Len(link) - 1 + 1
    BY <2>1
  <2>3. QED
    BY <2>2
<1> DEFINE rest == Tail(link)
<1>2. /\ rest \in Seq(T) /\ Len(rest) = n
      /\ \A i \in 1 .. n : rest[i] = link[i + 1]
      /\ Head(link) = link[1]
  BY <1>1, TailAt
<1> HIDE DEF rest
<1>3. DOMAIN rest = 1 .. n /\ DOMAIN link = 1 .. n + 1
  BY <1>1, <1>2
<1>4. ASSUME NEW i \in DOMAIN link, link[i].t = "hdr"
      PROVE  \E j \in 1 .. n : i = j + 1 /\ rest[j] = link[i]
  <2>1. i # 1
    BY <1>2, <1>4
  <2>2. i - 1 \in 1 .. n /\ i = i - 1 + 1
    BY <1>3, <2>1
  <2>3. rest[i - 1] = link[i - 1 + 1]
    BY <1>2, <2>2
  <2>4. QED
    BY <2>2, <2>3
<1>5. \A j \in DOMAIN rest : j + 1 \in DOMAIN link /\ rest[j] = link[j + 1]
  BY <1>2, <1>3
<1>6. OneHeader(rest)
  <2>1. SUFFICES ASSUME NEW i \in 1 .. n, NEW j \in 1 .. n, rest[i].t = "hdr", rest[j].t = "hdr"
                 PROVE  i = j
    BY <1>3 DEF OneHeader
  <2>2. i + 1 = j + 1
    BY <1>3, <1>5, <2>1 DEF OneHeader
  <2>3. QED
    BY <2>2
<1>7. CASE HeaderOn(link)
  <2>1. PICK i \in DOMAIN link : link[i].t = "hdr"
    BY <1>7 DEF HeaderOn
  <2>2. PICK j \in 1 .. n : i = j + 1 /\ rest[j] = link[i]
    BY <1>4, <2>1
  <2>3. Headers(link) = <<link[i].pkt>> /\ Headers(rest) = <<rest[j].pkt>>
    BY <1>3, <1>6, <2>1, <2>2, TheHeader
  <2>4. QED
    BY <2>2, <2>3 DEF rest
<1>8. CASE ~HeaderOn(link)
  <2>1. ~HeaderOn(rest)
    BY <1>5, <1>8 DEF HeaderOn
  <2>2. QED
    BY <1>8, <2>1, NoHeader DEF rest
<1>9. QED
  BY <1>7, <1>8

(* one that begins with a header has its packet and no other. *)
LEMMA HeadersTaken ==
    ASSUME NEW T, NEW link \in Seq(T), OneHeader(link), link # <<>>, Head(link).t = "hdr"
    PROVE  Headers(link) = <<Head(link).pkt>>
<1>1. Head(link) = link[1] /\ 1 \in DOMAIN link
  <2>1. Len(link) \in Nat /\ Len(link) # 0
    BY EmptySeq
  <2>2. QED
    BY <2>1
<1>2. QED
  BY <1>1, TheHeader

(* The handshake: one header at most, and none from a sender that has not *)
(* begun.                                                                 *)
LEMMA HandshakeHeaders ==
    ASSUME NEW T1, NEW l1 \in Seq(T1), NEW T2, NEW l2 \in Seq(T2),
           NEW o1, NEW g1, NEW o2, NEW g2, Handshake(l1, o1, g1, l2, o2, g2)
    PROVE  OneHeader(l1) /\ (o1 = 0 => ~HeaderOn(l1))
<1>1. PICK pre1 \in {0, 1}, post1 \in {0, 1}, lo1 \in 0 .. Words + 1, hi1 \in 0 .. Words + 1 :
        /\ Shape(pre1, lo1, hi1, post1) /\ Link(l1, pre1, lo1, hi1, post1)
        /\ \E pre2, post2 \in {0, 1}, lo2, hi2 \in 0 .. Words + 1 :
             /\ Shape(pre2, lo2, hi2, post2) /\ Link(l2, pre2, lo2, hi2, post2)
             /\ Flow(o1, g1, lo1, hi1, pre2 + post2)
             /\ Flow(o2, g2, lo2, hi2, pre1 + post1)
  BY DEF Handshake
<1>2. PICK a \in Int : Flow(o1, g1, lo1, hi1, a)
  BY <1>1
<1>3. /\ Words \in Nat /\ 1 <= Words /\ lo1 \in Int /\ hi1 \in Int /\ pre1 \in Int
      /\ 0 <= lo1 /\ lo1 <= hi1 /\ hi1 <= Words + 1
  BY <1>1, AuroraAssumption DEF Shape
<1>4. DOMAIN l1 = 1 .. Len(l1) /\ Len(l1) \in Nat
  OBVIOUS
<1>5. ASSUME NEW i \in DOMAIN l1, l1[i].t = "hdr"
      PROVE  i = pre1 - lo1 + 1 /\ i > pre1 /\ i <= pre1 + (hi1 - lo1)
  <2>1. i \in 1 .. Len(l1)
    BY <1>4
  <2>2. "hdr" = Place(i, pre1, lo1, hi1)
    BY <1>1, <1>5, <2>1 DEF Link
  <2>3. ~(i <= pre1 \/ i > pre1 + (hi1 - lo1)) /\ lo1 + i - pre1 = 1
    BY <2>2 DEF Place
  <2>4. PICK k \in Int : k = i
    BY <1>4, <2>1
  <2>5. PICK p \in Int : p = pre1
    BY <1>3
  <2>6. ~(k <= p \/ k > p + (hi1 - lo1)) /\ lo1 + k - p = 1
    BY <2>3, <2>4, <2>5
  <2>7. k = p - lo1 + 1 /\ k > p /\ k <= p + (hi1 - lo1)
    BY <1>3, <2>6
  <2>8. QED
    BY <2>4, <2>5, <2>7
<1>6. OneHeader(l1)
  BY <1>5 DEF OneHeader
<1>7. ASSUME o1 = 0
      PROVE  ~HeaderOn(l1)
  <2>1. hi1 = 0
    BY <1>2, <1>3, <1>7 DEF Flow
  <2>2. QED
    BY <1>3, <1>5, <2>1 DEF HeaderOn
<1>8. QED
  BY <1>6, <1>7

-----------------------------------------------------------------------------
(* The packets in the ring. *)

(* From the head on, without remainders. *)
RingAsList ==
  /\ RingContents \in Seq(PacketsOf(1)) /\ Len(RingContents) = rx_count
  /\ \A i \in 1 .. rx_count : RingContents[i] = pcx_pkts[Wrap(rx_head + (i - 1))]

(* What the code does to the ring is what it does to such a list. *)
LEMMA ContentsAre == RingSide => RingAsList
<1> SUFFICES ASSUME RingSide PROVE RingAsList
  OBVIOUS
<1>1. RingType /\ \A k \in 0 .. rx_count - 1 : pcx_pkts[Wrap(rx_head + k)] \in PacketsOf(1)
  BY RingIs DEF RingSide
<1>2. /\ rx_head \in Int /\ 0 <= rx_head /\ rx_head < MAX_PCX_PKTS
      /\ rx_count \in Nat /\ rx_count <= MAX_PCX_PKTS /\ MAX_PCX_PKTS \in Nat \ {0}
  BY <1>1, AuroraAssumption DEF RingType
<1>3. ASSUME NEW i \in 1 .. rx_count
      PROVE  /\ (rx_head + i - 1) % MAX_PCX_PKTS = Wrap(rx_head + (i - 1))
             /\ pcx_pkts[(rx_head + i - 1) % MAX_PCX_PKTS] \in PacketsOf(1)
  <2>1. rx_head + i - 1 \in 0 .. 2 * MAX_PCX_PKTS - 1 /\ rx_head + i - 1 = rx_head + (i - 1)
        /\ i - 1 \in 0 .. rx_count - 1
    BY <1>2
  <2>2. (rx_head + i - 1) % MAX_PCX_PKTS = Wrap(rx_head + (i - 1))
    BY <2>1, ModIs
  <2>3. QED
    BY <1>1, <2>1, <2>2
<1>4. RingContents \in [1 .. rx_count -> PacketsOf(1)]
  BY <1>3 DEF RingContents
<1>5. RingContents \in Seq(PacketsOf(1)) /\ Len(RingContents) = rx_count
  BY <1>2, <1>4, SeqDef
<1>6. \A i \in 1 .. rx_count : RingContents[i] = pcx_pkts[Wrap(rx_head + (i - 1))]
  BY <1>3 DEF RingContents
<1>7. QED
  BY <1>5, <1>6 DEF RingAsList

(* The same of the next state. *)
(* What the code does to the ring is what it does to such a list. *)
LEMMA ContentsAreNext == RingSide' => RingAsList'
BY ContentsAre, PTL

(* The master takes the oldest one. *)
LEMMA ContentsTake ==
    ASSUME RingSide, MasterRing, RingSide'
    PROVE  /\ RingContents # <<>> /\ Head(RingContents) = pcx_pkts[rx_head]
           /\ RingContents' = Tail(RingContents)
<1>1. /\ rx_count > 0 /\ rx_head' = (rx_head + 1) % MAX_PCX_PKTS
      /\ rx_count' = rx_count - 1
      /\ pcx_pkts' = [pcx_pkts EXCEPT ![rx_head] = None]
  BY DEF MasterRing
<1>2. /\ rx_head \in Int /\ 0 <= rx_head /\ rx_head < MAX_PCX_PKTS
      /\ rx_count \in Nat /\ rx_count <= MAX_PCX_PKTS /\ MAX_PCX_PKTS \in Nat \ {0}
      /\ pcx_pkts \in [0 .. MAX_PCX_PKTS - 1 -> {None} \cup E!Packets]
  BY AuroraAssumption DEF RingSide, RingType
<1>3. PICK n \in Nat : rx_count = n + 1
  <2>1. rx_count - 1 \in Nat /\ rx_count = rx_count - 1 + 1
    BY <1>1, <1>2
  <2>2. QED
    BY <2>1
<1>4. rx_head' = Wrap(rx_head + 1)
  <2>1. rx_head + 1 \in 0 .. 2 * MAX_PCX_PKTS - 1
    BY <1>2
  <2>2. QED
    BY <1>1, <2>1, ModIs
<1>5. /\ RingContents \in Seq(PacketsOf(1)) /\ Len(RingContents) = n + 1
      /\ \A i \in 1 .. n + 1 : RingContents[i] = pcx_pkts[Wrap(rx_head + (i - 1))]
  BY <1>3, ContentsAre DEF RingAsList
<1>6. rx_count' = n
  BY <1>1, <1>3
<1>7. /\ RingContents' \in Seq(PacketsOf(1)) /\ Len(RingContents') = n
      /\ \A i \in 1 .. n : RingContents'[i] = pcx_pkts'[Wrap(rx_head' + (i - 1))]
  BY <1>6, ContentsAreNext DEF RingAsList
<1>8. RingContents # <<>>
  BY <1>5, EmptySeq
<1>9. /\ Tail(RingContents) \in Seq(PacketsOf(1)) /\ Len(Tail(RingContents)) = n
      /\ \A i \in 1 .. n : Tail(RingContents)[i] = RingContents[i + 1]
      /\ Head(RingContents) = RingContents[1]
  BY <1>5, <1>8, TailAt
<1>10. Head(RingContents) = pcx_pkts[rx_head]
  <2>1. 1 \in 1 .. n + 1 /\ Wrap(rx_head + (1 - 1)) = rx_head
    BY <1>2 DEF Wrap
  <2>2. QED
    BY <1>5, <1>9, <2>1
<1>11. ASSUME NEW i \in 1 .. n
       PROVE  RingContents'[i] = Tail(RingContents)[i]
  <2>1. PICK j \in 1 .. n + 1 : j = i + 1
    OBVIOUS
  <2>2. PICK h \in Int : h = rx_head' /\ h = Wrap(rx_head + 1)
    <3>1. rx_head' \in Int
      BY <1>2, <1>4 DEF Wrap
    <3>2. QED
      BY <1>4, <3>1
  <2>3. PICK w \in Int : w = Wrap(rx_head + (j - 1))
    <3>1. Wrap(rx_head + (j - 1)) \in Int
      BY <1>2, <2>1 DEF Wrap
    <3>2. QED
      BY <3>1
  <2>4. Wrap(h + (i - 1)) = w /\ w # rx_head /\ w \in 0 .. MAX_PCX_PKTS - 1
    BY <1>2, <1>3, <2>1, <2>2, <2>3 DEF Wrap
  <2>5. pcx_pkts'[w] = pcx_pkts[w]
    BY <1>1, <1>2, <2>4
  <2>6. QED
    BY <1>5, <1>7, <1>9, <2>1, <2>2, <2>3, <2>4, <2>5
<1>12. RingContents' = Tail(RingContents)
  BY <1>7, <1>9, <1>11, SeqEqual
<1>13. QED
  BY <1>8, <1>10, <1>12

(* A packet put into the ring is the newest. *)
LEMMA ContentsInsert ==
    ASSUME RingSide, NEW p \in PacketsOf(1), insert_pcx_pkt(p), m'.pc # "exit", RingSide',
           m \in Board(MasterPCs, MasterRets)
    PROVE  m' = Goto(m, "wait") /\ RingContents' = Append(RingContents, p)
<1>1. ~(rx_head = rx_tail /\ rx_count > 0)
  <2>1. Goto(m, "exit").pc = "exit"
    BY GotoIs DEF MasterPCs, MasterRets
  <2>2. QED
    BY <2>1 DEF insert_pcx_pkt
<1>2. /\ m' = Goto(m, "wait")
      /\ pcx_pkts' = [pcx_pkts EXCEPT ![rx_tail] = p]
      /\ rx_count' = rx_count + 1 /\ rx_head' = rx_head
  BY <1>1 DEF insert_pcx_pkt
<1>3. /\ rx_head \in Int /\ 0 <= rx_head /\ rx_head < MAX_PCX_PKTS
      /\ rx_tail \in Int /\ 0 <= rx_tail /\ rx_tail < MAX_PCX_PKTS
      /\ rx_count \in Nat /\ rx_count <= MAX_PCX_PKTS /\ MAX_PCX_PKTS \in Nat \ {0}
      /\ pcx_pkts \in [0 .. MAX_PCX_PKTS - 1 -> {None} \cup E!Packets]
  BY AuroraAssumption DEF RingSide, RingType
<1>4. rx_tail = Wrap(rx_head + rx_count) /\ rx_count < MAX_PCX_PKTS
  <2>1. rx_tail = Wrap(rx_head + rx_count)
    BY RingIs DEF RingSide
  <2>2. QED
    BY <1>1, <1>3, <2>1 DEF Wrap
<1>5. PICK n \in Nat : n = rx_count
  BY <1>3
<1>6. /\ RingContents \in Seq(PacketsOf(1)) /\ Len(RingContents) = n
      /\ \A i \in 1 .. n : RingContents[i] = pcx_pkts[Wrap(rx_head + (i - 1))]
  BY <1>5, ContentsAre DEF RingAsList
<1>7. rx_count' = n + 1
  BY <1>2, <1>5
<1>8. /\ RingContents' \in Seq(PacketsOf(1)) /\ Len(RingContents') = n + 1
      /\ \A i \in 1 .. n + 1 : RingContents'[i] = pcx_pkts'[Wrap(rx_head + (i - 1))]
  BY <1>2, <1>7, ContentsAreNext DEF RingAsList
<1>9. /\ Append(RingContents, p) \in Seq(PacketsOf(1)) /\ Len(Append(RingContents, p)) = n + 1
      /\ \A i \in 1 .. n : Append(RingContents, p)[i] = RingContents[i]
      /\ Append(RingContents, p)[n + 1] = p
  BY <1>6, AppendAt
<1>10. ASSUME NEW i \in 1 .. n + 1
       PROVE  RingContents'[i] = Append(RingContents, p)[i]
  <2>1. PICK w \in Int : w = Wrap(rx_head + (i - 1))
    <3>1. Wrap(rx_head + (i - 1)) \in Int
      BY <1>3 DEF Wrap
    <3>2. QED
      BY <3>1
  <2>2. CASE i \in 1 .. n
    <3>1. w # rx_tail /\ w \in 0 .. MAX_PCX_PKTS - 1
      BY <1>3, <1>4, <1>5, <2>1, <2>2 DEF Wrap
    <3>2. pcx_pkts'[w] = pcx_pkts[w]
      BY <1>2, <1>3, <3>1
    <3>3. QED
      BY <1>6, <1>8, <1>9, <2>1, <2>2, <3>2
  <2>3. CASE i = n + 1
    <3>1. w = rx_tail
      BY <1>4, <1>5, <2>1, <2>3
    <3>2. pcx_pkts'[w] = p
      BY <1>2, <1>3, <3>1
    <3>3. QED
      BY <1>8, <1>9, <2>1, <2>3, <3>2
  <2>4. QED
    BY <2>2, <2>3, RangeSplit
<1>11. RingContents' = Append(RingContents, p)
  BY <1>8, <1>9, <1>10, SeqEqual
<1>12. QED
  BY <1>2, <1>11

(* An empty ring has none. *)
LEMMA ContentsNone ==
    ASSUME RingSide, rx_count = 0
    PROVE  RingContents = <<>>
BY ContentsAre, EmptySeq DEF RingAsList

-----------------------------------------------------------------------------
(* The parts of what is under way. *)

PartTypes ==
  /\ Q1 \in Seq(PacketsOf(1)) /\ Q2 \in Seq(PacketsOf(1)) /\ Q3 \in Seq(PacketsOf(1))
  /\ Q4 \in Seq(PacketsOf(1)) /\ Q5 \in Seq(PacketsOf(1)) /\ Q6 \in Seq(PacketsOf(1))
  /\ P0 \in Seq(PacketsOf(0)) /\ fsl[0] \in Seq(PacketsOf(0))
  /\ A1 \in Seq(MessagesTo(1)) /\ Headers(toS) \in Seq(MessagesTo(1))
  /\ OneHeader(toM) /\ OneHeader(toS)

(* Each is a list of packets of its core, or of messages to core 1. *)
LEMMA Parts == IInv => PartTypes
<1> SUFFICES ASSUME IInv PROVE PartTypes
  OBVIOUS
<1>1. SlaveSide /\ MasterSide /\ RingSide
  BY IInvIs
<1>2. QueueInv /\ SlaveInv /\ MasterInv /\ LinkInv
  BY <1>1 DEF SlaveSide, MasterSide
<1>3. /\ m.pc = "process" /\ m.pkt.core = 1 => m.pkt \in PacketsOf(1)
      /\ m.pc = "process" /\ m.pkt.core = 0 => m.pkt \in PacketsOf(0)
  BY <1>2 DEF MasterInv, PacketsOf
<1>4. Q1 \in Seq(PacketsOf(1)) /\ P0 \in Seq(PacketsOf(0))
  BY <1>3 DEF Q1, P0, When
<1>5. Q2 \in Seq(PacketsOf(1))
  BY <1>1, ContentsAre DEF RingAsList, Q2
<1>6. Q3 \in Seq(PacketsOf(1))
  BY <1>2 DEF Q3, When, MasterInv
<1>7. Q5 \in Seq(PacketsOf(1)) /\ A1 \in Seq(MessagesTo(1))
  BY <1>2 DEF Q5, A1, When, SlaveInv
<1>8. Q4 \in Seq(PacketsOf(1)) /\ Headers(toS) \in Seq(MessagesTo(1))
  BY <1>2, LinkTypes, HeadersIs DEF Q4
<1>9. Q6 \in Seq(PacketsOf(1)) /\ fsl[0] \in Seq(PacketsOf(0))
  BY <1>2 DEF Q6, QueueInv
<1>10. OneHeader(toM) /\ OneHeader(toS)
  BY <1>2, LinkTypes, LinkTurned, HandshakeHeaders DEF LinkInv
<1>11. QED
  BY <1>4, <1>5, <1>6, <1>7, <1>8, <1>9, <1>10 DEF PartTypes

(* Six parts may be joined from the left or from the right. *)
Rejoined(a, b, c, d, e, f) ==
  ((((a \o b) \o c) \o d) \o e) \o f = a \o (b \o (c \o (d \o (e \o f))))

(* Any six parts. *)
LEMMA SixParts ==
    ASSUME NEW T
    PROVE  \A a, b, c, d, e, f :
             /\ a \in Seq(T) /\ b \in Seq(T) /\ c \in Seq(T)
             /\ d \in Seq(T) /\ e \in Seq(T) /\ f \in Seq(T)
             => Rejoined(a, b, c, d, e, f)
<1>1. SUFFICES ASSUME NEW a, NEW b, NEW c, NEW d, NEW e, NEW f,
                      a \in Seq(T), b \in Seq(T), c \in Seq(T), d \in Seq(T), e \in Seq(T), f \in Seq(T)
               PROVE  Rejoined(a, b, c, d, e, f)
  OBVIOUS
<1>a. a \in Seq(T)
  BY <1>1
<1>b. b \in Seq(T)
  BY <1>1
<1>c. c \in Seq(T)
  BY <1>1
<1>d. d \in Seq(T)
  BY <1>1
<1>e. e \in Seq(T)
  BY <1>1
<1>f. f \in Seq(T)
  BY <1>1
<1>2. PICK ab : ab \in Seq(T) /\ ab = a \o b
  BY <1>a, <1>b, ConcatProperties
<1>3. PICK abc : abc \in Seq(T) /\ abc = ab \o c
  BY <1>2, <1>c, ConcatProperties
<1>4. PICK abcd : abcd \in Seq(T) /\ abcd = abc \o d
  BY <1>3, <1>d, ConcatProperties
<1>5. PICK ef : ef \in Seq(T) /\ ef = e \o f
  BY <1>e, <1>f, ConcatProperties
<1>6. PICK def : def \in Seq(T) /\ def = d \o ef
  BY <1>d, <1>5, ConcatProperties
<1>7. PICK cdef : cdef \in Seq(T) /\ cdef = c \o def
  BY <1>c, <1>6, ConcatProperties
<1>8. ab \in Seq(T)
  BY <1>2
<1>g. abc \in Seq(T)
  BY <1>3
<1>h. abcd \in Seq(T)
  BY <1>4
<1>i. def \in Seq(T)
  BY <1>6
<1>j. cdef \in Seq(T)
  BY <1>7
<1>k. ef \in Seq(T)
  BY <1>5
<1>9. (abcd \o e) \o f = abcd \o (e \o f)
  BY <1>h, <1>e, <1>f, ConcatAssociative
<1>10. (abc \o d) \o ef = abc \o (d \o ef)
  BY <1>g, <1>d, <1>k, ConcatAssociative
<1>11. (ab \o c) \o def = ab \o (c \o def)
  BY <1>8, <1>c, <1>i, ConcatAssociative
<1>12. (a \o b) \o cdef = a \o (b \o cdef)
  BY <1>a, <1>b, <1>j, ConcatAssociative
<1>13. ((((a \o b) \o c) \o d) \o e) \o f = (abcd \o e) \o f
  BY <1>2, <1>3, <1>4
<1>14. a \o (b \o (c \o (d \o (e \o f)))) = a \o (b \o cdef)
  BY <1>5, <1>6, <1>7
<1>15. (abcd \o e) \o f = (abc \o d) \o ef
  BY <1>4, <1>5, <1>9
<1>16. (abc \o d) \o ef = (ab \o c) \o def
  BY <1>3, <1>6, <1>10
<1>17. (ab \o c) \o def = (a \o b) \o cdef
  BY <1>2, <1>7, <1>11
<1>18. QED
  BY <1>12, <1>13, <1>14, <1>15, <1>16, <1>17 DEF Rejoined

(* What the mapping collects, for each core. *)
Two(a, b) == [c \in {0, 1} |-> IF c = 0 THEN a ELSE b]
Collected == Sent = Two(Sent0, Sent1) /\ Arriving = Two(<<>>, Arriving1)

(* The mapping, as those lists. *)
LEMMA CollectedIs == IInv => Collected
<1> SUFFICES ASSUME IInv PROVE Collected
  OBVIOUS
<1>1. PartTypes
  BY Parts
<1>2. Arriving = Two(<<>>, Arriving1)
  BY DEF Arriving, Two, Arriving1, A1
<1>3. ((((Q1 \o Q2) \o Q3) \o Q4) \o Q5) \o Q6 = Sent1
  <2>1. Rejoined(Q1, Q2, Q3, Q4, Q5, Q6)
    BY <1>1, SixParts DEF PartTypes
  <2>2. QED
    BY <2>1 DEF Rejoined, Sent1
<1>4. Sent = [c \in {0, 1} |-> IF c = 0 THEN P0 \o fsl[0]
                               ELSE ((((Q1 \o Q2) \o Q3) \o Q4) \o Q5) \o Q6]
  BY DEF Sent, P0, Q1, Q2, Q3, Q4, Q5, Q6
<1>5. Sent = Two(Sent0, Sent1)
  BY <1>3, <1>4 DEF Two, Sent0
<1>6. QED
  BY <1>2, <1>5 DEF Collected

(* The same of the next state. *)
LEMMA CollectedNext == IInv' => Collected' /\ PartTypes'
BY CollectedIs, Parts, PTL

(* Such a pair of lists, and a change of one of them. *)
LEMMA TwoIs ==
    ASSUME NEW a, NEW b
    PROVE  /\ Two(a, b)[0] = a /\ Two(a, b)[1] = b
           /\ \A x : [Two(a, b) EXCEPT ![0] = x] = Two(x, b)
           /\ \A x : [Two(a, b) EXCEPT ![1] = x] = Two(a, x)
<1>1. Two(a, b)[0] = a /\ Two(a, b)[1] = b
  BY DEF Two
<1>2. ASSUME NEW x
      PROVE  [Two(a, b) EXCEPT ![0] = x] = Two(x, b)
  BY DEF Two
<1>3. ASSUME NEW x
      PROVE  [Two(a, b) EXCEPT ![1] = x] = Two(a, x)
  <2>1. \A c \in {0, 1} : (c = 1 <=> c # 0)
    OBVIOUS
  <2>2. [Two(a, b) EXCEPT ![1] = x] = [c \in {0, 1} |-> IF c = 1 THEN x ELSE Two(a, b)[c]]
    BY DEF Two
  <2>3. \A c \in {0, 1} : (IF c = 1 THEN x ELSE Two(a, b)[c]) = (IF c = 0 THEN a ELSE x)
    BY DEF Two
  <2>4. QED
    BY <2>2, <2>3 DEF Two
<1>4. QED
  BY <1>1, <1>2, <1>3

(* A step that the promise does not see. *)
Same ==
  /\ Sent0' = Sent0 /\ Sent1' = Sent1 /\ Arriving1' = Arriving1
  /\ todo' = todo /\ Locked' = Locked

-----------------------------------------------------------------------------
(* The steps of the slave. *)

(* They leave alone what the master has. *)
LEMMA SlaveLeaves ==
    ASSUME SlaveUnchanged
    PROVE  /\ Q1' = Q1 /\ Q2' = Q2 /\ Q3' = Q3 /\ P0' = P0 /\ todo' = todo /\ Locked' = Locked
           /\ ServeInv => ServeInv'
<1>1. /\ m' = m /\ todo' = todo /\ get_remote' = get_remote /\ get_local' = get_local
      /\ rx_head' = rx_head /\ rx_count' = rx_count /\ pcx_pkts' = pcx_pkts
  BY DEF SlaveUnchanged, loop, ring
<1>2. Q1' = Q1 /\ Q3' = Q3 /\ P0' = P0
  BY <1>1 DEF Q1, Q3, P0
<1>3. Q2' = Q2
  BY <1>1 DEF Q2, RingContents
<1>4. Locked' = Locked
  BY <1>1 DEF Locked
<1>5. ServeInv => ServeInv'
  BY <1>1 DEF ServeInv, Both
<1>6. QED
  BY <1>1, <1>2, <1>3, <1>4, <1>5

(* The last three parts are joined in the same way after the step. *)
LEMMA SlaveMoves ==
    ASSUME SlaveUnchanged, fsl'[0] = fsl[0], Arriving1' = Arriving1,
           Q4' \o (Q5' \o Q6') = Q4 \o (Q5 \o Q6)
    PROVE  Same
<1>1. Sent1' = Sent1
  BY SlaveLeaves DEF Sent1
<1>2. Sent0' = Sent0
  BY SlaveLeaves DEF Sent0
<1>3. QED
  BY <1>1, <1>2, SlaveLeaves DEF Same

(* From the FIFO into the hands of the slave. *)
LEMMA SlavePollSame ==
    ASSUME IInv, SlavePoll, DOMAIN fsl = {0, 1}
    PROVE  Same
<1>1. PartTypes /\ s.pc = "poll" /\ s.n = 0 /\ toM' = toM /\ toS' = toS /\ SlaveUnchanged
      /\ s \in Board(SlavePCs, SlaveRets)
  BY Parts, IInvIs DEF SlavePoll, SlaveSide, SlaveInv
<1>2. Q5 = <<>> /\ A1 = <<>> /\ Q4' = Q4
  BY <1>1 DEF Q5, A1, Q4, When
<1>3. CASE fsl[1] = <<>>
  <2>1. s'.pc = "link" /\ fsl' = fsl
    BY <1>1, <1>3, GotoIs DEF SlavePoll, SlavePCs, SlaveRets
  <2>2. Q5' = <<>> /\ A1' = <<>> /\ Q6' = Q6
    BY <2>1 DEF Q5, A1, Q6, When
  <2>3. Arriving1' = Arriving1
    BY <1>1, <1>2, <2>2 DEF Arriving1
  <2>4. QED
    BY <1>1, <1>2, <2>1, <2>2, <2>3, SlaveMoves
<1>4. CASE fsl[1] # <<>>
  <2>1. s' = [s EXCEPT !.pc = "send", !.pkt = Head(fsl[1])] /\ fsl' = [fsl EXCEPT ![1] = Tail(@)]
    BY <1>4 DEF SlavePoll
  <2>2. s'.pc = "send" /\ s'.n = 0 /\ s'.pkt = Head(fsl[1])
    BY <1>1, <2>1 DEF Board
  <2>3. fsl'[1] = Tail(fsl[1]) /\ fsl'[0] = fsl[0]
    BY <2>1
  <2>4. Q5' = <<Head(fsl[1])>> /\ A1' = <<>> /\ Q6' = Tail(fsl[1])
    BY <2>2, <2>3 DEF Q5, A1, Q6, When
  <2>5. <<>> \o Q6 = <<Head(Q6)>> \o Tail(Q6)
    BY <1>1, <1>4, Uncons, Cat DEF PartTypes, Q6
  <2>6. Q5' \o Q6' = Q5 \o Q6
    BY <1>2, <2>4, <2>5 DEF Q6
  <2>7. Arriving1' = Arriving1
    BY <1>1, <1>2, <2>4 DEF Arriving1
  <2>8. QED
    BY <1>1, <1>2, <2>3, <2>6, <2>7, SlaveMoves
<1>5. QED
  BY <1>3, <1>4

(* A header from the link into the hands of the slave, or something else. *)
(* Nothing but the first half word of a link is a header. *)
HandshakeTakesHdr(link) == Head(link).t = "hdr" => ~HeaderOn(Tail(link))

(* What the slave does with a half word from the link. *)
LEMMA SlaveTakes ==
    ASSUME PartTypes, QueueInv, s.pc \in {"link", "wait"}, toS # <<>>, toS' = Tail(toS),
           Head(toS).t = "hdr" => s'.pc = "recv" /\ s'.pkt = Head(toS).pkt,
           Head(toS).t # "hdr" => s'.pc \in {"link", "poll"}, HandshakeTakesHdr(toS),
           toM' = toM, fsl' = fsl, SlaveUnchanged
    PROVE  Same
<1>1. A1 = <<>> /\ Q5 = <<>> /\ Q5' = <<>> /\ Q4' = Q4 /\ Q6' = Q6
  BY DEF A1, Q4, Q5, Q6, When
<1>2. toS \in Seq(HalfWords(MessagesTo(1)))
  BY DEF QueueInv
<1>3. CASE Head(toS).t = "hdr"
  <2>1. Headers(toS) = <<Head(toS).pkt>>
    BY <1>2, <1>3, HeadersTaken DEF PartTypes
  <2>2. Headers(toS') = <<>>
    BY <1>3, NoHeader DEF HandshakeTakesHdr
  <2>3. A1' = <<Head(toS).pkt>>
    BY <1>3 DEF A1, When
  <2>4. Head(toS).pkt \in MessagesTo(1)
    BY <1>2, <1>3, LinkTypes, HalfWordFacts
  <2>5. <<Head(toS).pkt>> \in Seq(MessagesTo(1))
    <3>1. PICK p \in MessagesTo(1) : p = Head(toS).pkt
      BY <2>4
    <3>2. <<p>> \in Seq(MessagesTo(1))
      OBVIOUS
    <3>3. QED
      BY <3>1, <3>2
  <2>6. Arriving1' = Arriving1
    <3>1. PICK q \in Seq(MessagesTo(1)) : q = <<Head(toS).pkt>>
      BY <2>5
    <3>2. Arriving1 = <<>> \o q /\ Arriving1' = q \o <<>>
      BY <1>1, <2>1, <2>2, <2>3, <3>1 DEF Arriving1
    <3>3. QED
      BY <3>2, Cat
  <2>7. QED
    BY <1>1, <2>6, SlaveMoves
<1>4. CASE Head(toS).t # "hdr"
  <2>1. Headers(toS') = Headers(toS)
    BY <1>2, <1>4, HeadersLeft DEF PartTypes
  <2>2. A1' = <<>>
    BY <1>4 DEF A1, When
  <2>3. Arriving1' = Arriving1
    BY <1>1, <2>1, <2>2 DEF Arriving1
  <2>4. QED
    BY <1>1, <2>3, SlaveMoves
<1>5. QED
  BY <1>3, <1>4

(* recv_aurora_pkt, first half word: a packet begins, or the link is empty. *)
LEMMA SlaveLinkSame ==
    ASSUME IInv, SlaveLink
    PROVE  Same
<1>1. /\ PartTypes /\ s.pc = "link" /\ toM' = toM /\ fsl' = fsl /\ SlaveUnchanged
      /\ s \in Board(SlavePCs, SlaveRets) /\ QueueInv /\ LinkInv
  BY Parts, IInvIs DEF SlaveLink, SlaveSide
<1>2. CASE toS = <<>>
  <2>1. s' = Goto(s, "poll") /\ toS' = toS
    BY <1>2 DEF SlaveLink
  <2>2. s'.pc = "poll"
    BY <1>1, <2>1, GotoIs DEF SlavePCs, SlaveRets
  <2>3. Q5' = Q5 /\ A1' = A1 /\ Q4' = Q4 /\ Q6' = Q6
    BY <1>1, <2>2 DEF Q4, Q5, Q6, A1, When
  <2>4. Arriving1' = Arriving1
    BY <2>1, <2>3 DEF Arriving1
  <2>5. QED
    BY <1>1, <2>3, <2>4, SlaveMoves
<1>3. CASE toS # <<>>
  <2>1. toS' = Tail(toS)
        /\ s' = IF Head(toS).t = "hdr" THEN StartRecv(s, Head(toS).pkt, "poll") ELSE Goto(s, "poll")
    BY <1>3 DEF SlaveLink
  <2>2. HandshakeTakesHdr(toS)
    BY <1>1, <1>3, OutFacts, LinkTypes, HandshakeTakeHdr DEF HandshakeTakesHdr, LinkInv
  <2>3. Head(toS).t = "hdr" => s'.pc = "recv" /\ s'.pkt = Head(toS).pkt
    BY <2>1 DEF StartRecv
  <2>4. Head(toS).t # "hdr" => s'.pc = "poll"
    BY <1>1, <2>1, GotoIs DEF SlavePCs, SlaveRets
  <2>5. QED
    BY <1>1, <1>3, <2>1, <2>2, <2>3, <2>4, SlaveTakes
<1>4. QED
  BY <1>2, <1>3

(* recv_aurora_ack: a packet of the master comes first, or the acknowledgement. *)
LEMMA SlaveWaitSame ==
    ASSUME IInv, SlaveWait
    PROVE  Same
<1>1. /\ PartTypes /\ s.pc = "wait" /\ toM' = toM /\ fsl' = fsl /\ SlaveUnchanged
      /\ s \in Board(SlavePCs, SlaveRets) /\ QueueInv /\ LinkInv /\ toS # <<>> /\ toS' = Tail(toS)
  BY Parts, IInvIs DEF SlaveWait, SlaveSide
<1>2. s' = IF Head(toS).t = "ack" THEN Goto(s, "poll") ELSE StartRecv(s, Head(toS).pkt, "wait")
  BY DEF SlaveWait
<1>3. HandshakeTakesHdr(toS)
  BY <1>1, OutFacts, LinkTypes, HandshakeTakeHdr DEF HandshakeTakesHdr, LinkInv
<1>4. Head(toS).t \in {"hdr", "ack"}
  BY <1>1, OutFacts, LinkTypes, HandshakeBounds DEF LinkInv
<1>5. Head(toS).t = "hdr" => s'.pc = "recv" /\ s'.pkt = Head(toS).pkt
  BY <1>2 DEF StartRecv
<1>6. Head(toS).t # "hdr" => s'.pc = "poll"
  BY <1>1, <1>2, <1>4, GotoIs DEF SlavePCs, SlaveRets
<1>7. QED
  BY <1>1, <1>3, <1>5, <1>6, SlaveTakes

(* From the hands of the slave to the link, with the header. *)
LEMMA SlaveSendSame ==
    ASSUME IInv, SlaveSend
    PROVE  Same
<1>1. /\ PartTypes /\ s.pc = "send" /\ toS' = toS /\ fsl' = fsl /\ SlaveUnchanged
      /\ s \in Board(SlavePCs, SlaveRets) /\ QueueInv /\ LinkInv /\ s.pkt \in PacketsOf(1)
      /\ s' = send_aurora_pkt(s) /\ toM' = Append(toM, HalfWord(s))
  BY Parts, IInvIs DEF SlaveSend, SlaveSide, SlaveInv
<1>2. /\ s.n < Words => s'.pc = "send" /\ s'.n = s.n + 1
      /\ s.n = Words => s'.pc = "wait"
      /\ s.n \in Int /\ 0 <= s.n /\ s.n <= Words
  BY <1>1, SendIs, BoardFields DEF SlavePCs
<1>3. A1 = <<>> /\ A1' = <<>> /\ Q6' = Q6 /\ Q5' = <<>>
  <2>1. s.n < Words \/ s.n = Words
    BY <1>2, AuroraAssumption
  <2>2. s.n + 1 # 0
    BY <1>2
  <2>3. s'.pc = "wait" \/ (s'.pc = "send" /\ s'.n # 0)
    BY <1>2, <2>1, <2>2
  <2>4. QED
    BY <1>1, <2>3 DEF A1, Q5, Q6, When
<1>4. Arriving1' = Arriving1
  BY <1>1, <1>3 DEF Arriving1
<1>5. /\ toM \in Seq(HalfWords(PacketsOf(1)))
      /\ HalfWord(s) \in HalfWords(PacketsOf(1)) /\ HalfWord(s).t = IF s.n = 0 THEN "hdr" ELSE "word"
  BY <1>1, LinkTypes, HalfWordIs
<1>6. CASE s.n = 0
  <2>1. ~HeaderOn(toM)
    BY <1>1, <1>6, OutFacts, LinkTypes, HandshakeHeaders DEF LinkInv
  <2>2. HalfWord(s).pkt = s.pkt
    BY <1>6 DEF HalfWord, Hdr
  <2>3. Q4 = <<>> /\ Q4' = <<s.pkt>> /\ Q5 = <<s.pkt>>
    BY <1>1, <1>5, <1>6, <2>1, <2>2, NoHeader, HeadersSent DEF Q4, Q5, When
  <2>4. Q4' \o (Q5' \o Q6') = Q4 \o (Q5 \o Q6)
    BY <1>1, <1>3, <2>3, Across DEF PartTypes
  <2>5. QED
    BY <1>1, <1>4, <2>4, SlaveMoves
<1>7. CASE s.n # 0
  <2>1. Q4' = Q4
    BY <1>1, <1>5, <1>7, HeadersKept DEF Q4, PartTypes
  <2>2. Q5 = <<>>
    BY <1>7 DEF Q5, When
  <2>3. QED
    BY <1>1, <1>3, <1>4, <2>1, <2>2, SlaveMoves
<1>8. QED
  BY <1>6, <1>7

(* The rest of a packet. *)
LEMMA SlaveRecvSame ==
    ASSUME IInv, SlaveRecv
    PROVE  Same
<1>1. /\ PartTypes /\ s.pc = "recv" /\ toM' = toM /\ fsl' = fsl /\ SlaveUnchanged
      /\ s \in Board(SlavePCs, SlaveRets) /\ QueueInv /\ LinkInv /\ s.n < Words
      /\ toS # <<>> /\ toS' = Tail(toS) /\ s' = recv_aurora_pkt(s)
  BY Parts, IInvIs DEF SlaveRecv, SlaveSide, SlaveInv
<1>2. s.n \in Int /\ 0 <= s.n /\ Words \in Int
  BY <1>1, BoardFields, AuroraAssumption
<1>3. s'.pkt = s.pkt /\ s'.pc \in {"recv", "ack"}
  <2>1. /\ s.n + 1 < Words => s'.pc = "recv"
        /\ s.n + 1 = Words => s'.pc = "ack"
        /\ s'.pkt = s.pkt
    BY <1>1, RecvIs DEF SlavePCs
  <2>2. s.n + 1 < Words \/ s.n + 1 = Words
    BY <1>1, <1>2
  <2>3. QED
    BY <2>1, <2>2
<1>4. Got(s) \in 1 .. Words
  BY <1>1, <1>2, OutFacts
<1>5. Head(toS).t = "word" /\ toS \in Seq(HalfWords(MessagesTo(1)))
  BY <1>1, <1>4, LinkTypes, HandshakeBounds DEF LinkInv
<1>6. Headers(toS') = Headers(toS)
  BY <1>1, <1>5, HeadersLeft DEF PartTypes
<1>7. A1' = A1 /\ Q5' = Q5 /\ Q4' = Q4 /\ Q6' = Q6
  BY <1>1, <1>3 DEF A1, Q4, Q5, Q6, When
<1>8. Arriving1' = Arriving1
  BY <1>6, <1>7 DEF Arriving1
<1>9. QED
  BY <1>1, <1>7, <1>8, SlaveMoves

(* Its acknowledgement. *)
LEMMA SlaveAckSame ==
    ASSUME IInv, SlaveAck
    PROVE  Same
<1>1. /\ PartTypes /\ s.pc = "ack" /\ toS' = toS /\ fsl' = fsl /\ SlaveUnchanged
      /\ s \in Board(SlavePCs, SlaveRets) /\ QueueInv /\ toM' = Append(toM, Ack)
      /\ s' = [s EXCEPT !.pc = "forward"]
  BY Parts, IInvIs DEF SlaveAck, SlaveSide
<1>2. s'.pc = "forward" /\ s'.pkt = s.pkt
  BY <1>1 DEF Board
<1>3. A1' = A1 /\ Q5' = Q5 /\ Q6' = Q6
  BY <1>1, <1>2 DEF A1, Q5, Q6, When
<1>4. Q4' = Q4
  <2>1. Ack \in HalfWords(PacketsOf(1)) /\ Ack.t # "hdr"
    BY HalfWordFacts
  <2>2. QED
    BY <1>1, <2>1, LinkTypes, HeadersKept DEF Q4, PartTypes
<1>5. Arriving1' = Arriving1
  BY <1>1, <1>3 DEF Arriving1
<1>6. QED
  BY <1>1, <1>3, <1>4, <1>5, SlaveMoves

(* The promise does not notice. *)
LEMMA SameMaps ==
    ASSUME Collected, Collected', Same
    PROVE  UNCHANGED E!vars
<1>1. Sent' = Sent /\ Arriving' = Arriving
  BY DEF Collected, Same, Two
<1>2. QED
  BY <1>1 DEF Same, Locked, E!vars

(* Core 1 gets its message. *)
LEMMA SlaveForwardMaps ==
    ASSUME IInv, IInv', SlaveForward
    PROVE  E!Arrive(1)
<1>1. /\ PartTypes /\ s.pc = "forward" /\ toM' = toM /\ toS' = toS /\ fsl' = fsl /\ SlaveUnchanged
      /\ s \in Board(SlavePCs, SlaveRets) /\ s.pkt \in MessagesTo(1) /\ s.ret \in {"poll", "wait"}
      /\ s' = Goto(s, s.ret)
  BY Parts, IInvIs DEF SlaveForward, SlaveSide, SlaveInv
<1>2. s'.pc \in {"poll", "wait"}
  BY <1>1, GotoIs DEF SlavePCs, SlaveRets
<1>3. A1 = <<s.pkt>> /\ A1' = <<>> /\ Q5' = Q5 /\ Q4' = Q4 /\ Q6' = Q6
  BY <1>1, <1>2 DEF A1, Q4, Q5, Q6, When
<1>4. Arriving1 # <<>> /\ Tail(Arriving1) = Headers(toS)
  BY <1>1, <1>3, Cons DEF PartTypes, Arriving1
<1>5. Arriving1' = Headers(toS)
  <2>1. Arriving1' = <<>> \o Headers(toS)
    BY <1>1, <1>3 DEF Arriving1
  <2>2. QED
    BY <1>1, <2>1, Cat DEF PartTypes
<1>6. Sent1' = Sent1 /\ Sent0' = Sent0
  BY <1>1, <1>3, SlaveLeaves DEF Sent1, Sent0
<1>7. Collected /\ Collected'
  BY CollectedIs, CollectedNext
<1>8. Sent' = Sent
  BY <1>6, <1>7 DEF Collected
<1>9. Arriving[1] = Arriving1 /\ Arriving' = [Arriving EXCEPT ![1] = Tail(Arriving1)]
  BY <1>4, <1>5, <1>7, TwoIs DEF Collected
<1>10. todo' = todo /\ Locked' = Locked
  BY <1>1, SlaveLeaves
<1>11. QED
  BY <1>4, <1>8, <1>9, <1>10 DEF E!Arrive, Locked

(* All of them. *)
LEMMA SlaveMaps ==
    ASSUME IInv, IInv', Slave
    PROVE  E!Next \/ UNCHANGED E!vars
<1>1. Collected /\ Collected' /\ DOMAIN fsl = {0, 1}
  BY CollectedIs, CollectedNext, IInvIs DEF RestType
<1>2. CASE SlaveForward
  BY <1>2, SlaveForwardMaps DEF E!Next, E!Core
<1>3. CASE ~SlaveForward
  BY <1>1, <1>3, SlavePollSame, SlaveLinkSame, SlaveSendSame, SlaveWaitSame, SlaveRecvSame,
     SlaveAckSame, SameMaps DEF Slave
<1>4. QED
  BY <1>2, <1>3

-----------------------------------------------------------------------------
(* The steps of the master. *)

(* Parts behind the first are lists too. *)
LEMMA TailTypes ==
    ASSUME PartTypes
    PROVE  /\ Q5 \o Q6 \in Seq(PacketsOf(1)) /\ Q4 \o (Q5 \o Q6) \in Seq(PacketsOf(1))
           /\ Q3 \o (Q4 \o (Q5 \o Q6)) \in Seq(PacketsOf(1))
           /\ Q2 \o (Q3 \o (Q4 \o (Q5 \o Q6))) \in Seq(PacketsOf(1))
<1>1. Q5 \o Q6 \in Seq(PacketsOf(1))
  BY Cat DEF PartTypes
<1>2. Q4 \o (Q5 \o Q6) \in Seq(PacketsOf(1))
  BY <1>1, Cat DEF PartTypes
<1>3. Q3 \o (Q4 \o (Q5 \o Q6)) \in Seq(PacketsOf(1))
  BY <1>2, Cat DEF PartTypes
<1>4. Q2 \o (Q3 \o (Q4 \o (Q5 \o Q6))) \in Seq(PacketsOf(1))
  BY <1>3, Cat DEF PartTypes
<1>5. QED
  BY <1>1, <1>2, <1>3, <1>4

(* Round the loop, a side that is locked out is not tried. *)
LEMMA LoopServes ==
    ASSUME get_local = 1 \/ get_remote = 1
    PROVE  /\ Loop.pc = "remote" => get_remote = 1
           /\ Loop.pc = "local" => get_local = 1
           /\ Loop.ret = "first" => Both
<1>1. /\ Loop.pc = IF get_local = 1 /\ (toggle_flag = 1 \/ ~Both) THEN "local" ELSE "remote"
      /\ Loop.ret = IF Both THEN "first" ELSE "only"
  BY DEF Loop
<1>2. QED
  BY <1>1 DEF Both

(* Going to the other source or round the loop is not seen. *)
LEMMA NextAttemptServes ==
    ASSUME MasterSide, ServeInv, m.pc \in {"local", "remote"}, NEW other \in {"local", "remote"},
           NextAttempt(other), todo' = todo, get_local' = get_local, get_remote' = get_remote
    PROVE  /\ ServeInv' /\ m'.pc \in {"local", "remote"}
           /\ Q1' = Q1 /\ Q3' = Q3 /\ P0' = P0
<1>1. m'.pc \in {"local", "remote"}
  BY NextAttemptIs
<1>2. /\ m'.pc = "remote" => get_remote = 1
      /\ m'.pc = "local" => get_local = 1
      /\ m'.ret = "first" => Both
  <2>1. CASE m.ret = "first"
    <3>1. Both /\ m' = [m EXCEPT !.pc = other, !.ret = "second"]
      BY <2>1 DEF ServeInv, NextAttempt
    <3>2. m'.ret = "second"
      BY <3>1 DEF MasterSide, Board
    <3>3. QED
      BY <3>1, <3>2 DEF Both
  <2>2. CASE m.ret # "first"
    BY <2>2, LoopServes DEF NextAttempt, ServeInv
  <2>3. QED
    BY <2>1, <2>2
<1>3. ServeInv'
  BY <1>1, <1>2 DEF ServeInv, Both
<1>4. Q1' = Q1 /\ Q3' = Q3 /\ P0' = P0
  BY <1>1 DEF Q1, Q3, P0, When
<1>5. QED
  BY <1>1, <1>3, <1>4

(* What the slave has stays. *)
LEMMA MasterLeaves ==
    ASSUME s' = s
    PROVE  /\ Q5' = Q5 /\ A1' = A1
           /\ toM' = toM => Q4' = Q4
           /\ fsl' = fsl => Q6' = Q6
           /\ toS' = toS => Arriving1' = Arriving1
           /\ rx_head' = rx_head /\ rx_count' = rx_count /\ pcx_pkts' = pcx_pkts => Q2' = Q2
           /\ get_local' = get_local /\ get_remote' = get_remote => Locked' = Locked
<1>1. Q5' = Q5 /\ A1' = A1
  BY DEF Q5, A1
<1>2. toS' = toS => Arriving1' = Arriving1
  BY <1>1 DEF Arriving1
<1>3. rx_head' = rx_head /\ rx_count' = rx_count /\ pcx_pkts' = pcx_pkts => Q2' = Q2
  BY DEF Q2, RingContents
<1>4. QED
  BY <1>1, <1>2, <1>3 DEF Q4, Q6, Locked

(* From the FIFO of core 0 into the hands of the master. *)
LEMMA MasterLocalSame ==
    ASSUME IInv, ServeInv, MasterLocal
    PROVE  ServeInv' /\ Same
<1>1. /\ PartTypes /\ MasterSide /\ m.pc = "local" /\ s' = s /\ toM' = toM /\ toS' = toS
      /\ todo' = todo /\ get_local' = get_local /\ get_remote' = get_remote
      /\ rx_head' = rx_head /\ rx_count' = rx_count /\ pcx_pkts' = pcx_pkts
      /\ DOMAIN fsl = {0, 1}
  BY Parts, IInvIs DEF MasterLocal, ring, RestType
<1>2. m \in Board(MasterPCs, MasterRets)
  BY <1>1 DEF MasterSide
<1>3. CASE fsl[0] = <<>>
  <2>1. NextAttempt("remote") /\ fsl' = fsl
    BY <1>3 DEF MasterLocal
  <2>2. ServeInv' /\ Q1' = Q1 /\ Q3' = Q3 /\ P0' = P0
    BY <1>1, <2>1, NextAttemptServes
  <2>3. QED
    BY <1>1, <2>1, <2>2, MasterLeaves DEF Same, Sent0, Sent1
<1>4. CASE fsl[0] # <<>>
  <2>1. m' = [m EXCEPT !.pc = "process", !.pkt = Head(fsl[0])] /\ fsl' = [fsl EXCEPT ![0] = Tail(@)]
    BY <1>4 DEF MasterLocal
  <2>2. m'.pc = "process" /\ m'.pkt = Head(fsl[0])
    BY <1>2, <2>1 DEF Board
  <2>3. Head(fsl[0]) \in PacketsOf(0) /\ fsl[0] = <<Head(fsl[0])>> \o Tail(fsl[0])
    BY <1>1, <1>4, Uncons DEF PartTypes
  <2>4. m'.pkt.core = 0
    BY <2>2, <2>3 DEF PacketsOf
  <2>5. fsl'[0] = Tail(fsl[0]) /\ fsl'[1] = fsl[1]
    BY <1>1, <2>1
  <2>6. ServeInv'
    BY <1>1, <2>2, <2>4 DEF ServeInv, Both
  <2>7. Q1 = <<>> /\ Q1' = <<>> /\ Q3 = <<>> /\ Q3' = <<>> /\ Q6' = Q6
        /\ P0 = <<>> /\ P0' = <<Head(fsl[0])>>
    BY <1>1, <2>2, <2>4, <2>5 DEF Q1, Q3, Q6, P0, When
  <2>8. Sent0 = fsl[0]
    BY <1>1, <2>7, Cat DEF PartTypes, Sent0
  <2>9. Sent0' = Sent0
    BY <2>3, <2>5, <2>7, <2>8 DEF Sent0
  <2>10. Sent1' = Sent1
    BY <1>1, <2>7, MasterLeaves DEF Sent1
  <2>11. QED
    BY <1>1, <2>6, <2>9, <2>10, MasterLeaves DEF Same
<1>5. QED
  BY <1>3, <1>4

(* From the ring into the hands of the master. *)
LEMMA MasterRingSame ==
    ASSUME IInv, IInv', ServeInv, MasterRing
    PROVE  ServeInv' /\ Same
<1>1. /\ PartTypes /\ RingSide /\ RingSide' /\ m.pc = "remote" /\ s' = s /\ toM' = toM /\ toS' = toS
      /\ fsl' = fsl /\ todo' = todo /\ get_local' = get_local /\ get_remote' = get_remote
      /\ m \in Board(MasterPCs, MasterRets) /\ m' = [m EXCEPT !.pc = "process", !.pkt = pcx_pkts[rx_head]]
  BY Parts, IInvIs, RingTake DEF MasterRing, slave, MasterSide
<1>2. Q2 # <<>> /\ Head(Q2) = pcx_pkts[rx_head] /\ Q2' = Tail(Q2)
  BY <1>1, ContentsTake DEF Q2
<1>3. m'.pc = "process" /\ m'.pkt = Head(Q2)
  BY <1>1, <1>2 DEF Board
<1>4. Head(Q2) \in PacketsOf(1)
  BY <1>1, <1>2, Uncons DEF PartTypes
<1>5. m'.pkt.core = 1
  BY <1>3, <1>4 DEF PacketsOf
<1>6. ServeInv'
  BY <1>1, <1>3, <1>5 DEF ServeInv, Both
<1>7. Q1 = <<>> /\ Q1' = <<Head(Q2)>> /\ Q3 = <<>> /\ Q3' = <<>> /\ P0 = <<>> /\ P0' = <<>>
  BY <1>1, <1>3, <1>5 DEF Q1, Q3, P0, When
<1>8. Q3' \o (Q4' \o (Q5' \o Q6')) = Q3 \o (Q4 \o (Q5 \o Q6))
  BY <1>1, <1>7, MasterLeaves
<1>9. Sent1' = Sent1
  <2>1. PICK x \in Seq(PacketsOf(1)) : x = Q3 \o (Q4 \o (Q5 \o Q6))
    BY <1>1, TailTypes
  <2>2. <<>> \o (Q2 \o x) = <<Head(Q2)>> \o (Tail(Q2) \o x)
    BY <1>1, <1>2, Leaves DEF PartTypes
  <2>3. Sent1 = <<>> \o (Q2 \o x) /\ Sent1' = <<Head(Q2)>> \o (Tail(Q2) \o x)
    BY <1>2, <1>7, <1>8, <2>1 DEF Sent1
  <2>4. QED
    BY <2>2, <2>3
<1>10. Sent0' = Sent0
  BY <1>1, <1>7 DEF Sent0
<1>11. QED
  BY <1>1, <1>6, <1>9, <1>10, MasterLeaves DEF Same

(* From the link into the hands of the master, or something else. *)
LEMMA MasterTakes ==
    ASSUME PartTypes, QueueInv, m.pc \in {"remote", "wait"}, toM # <<>>, toM' = Tail(toM),
           Head(toM).t = "hdr" => m'.pc = "recv" /\ m'.pkt = Head(toM).pkt,
           Head(toM).t # "hdr" => m'.pc \in {"remote", "reply"}, HandshakeTakesHdr(toM),
           toS' = toS, s' = s, fsl' = fsl, todo' = todo,
           get_local' = get_local, get_remote' = get_remote,
           rx_head' = rx_head, rx_count' = rx_count, pcx_pkts' = pcx_pkts
    PROVE  Same
<1>1. Q1 = <<>> /\ Q3 = <<>> /\ P0 = <<>> /\ Q2' = Q2 /\ Q5' = Q5 /\ Q6' = Q6
      /\ Arriving1' = Arriving1 /\ Locked' = Locked
  BY MasterLeaves DEF Q1, Q3, P0, When
<1>2. toM \in Seq(HalfWords(PacketsOf(1)))
  BY DEF QueueInv
<1>3. CASE Head(toM).t = "hdr"
  <2>1. Q4 = <<Head(toM).pkt>>
    BY <1>2, <1>3, HeadersTaken DEF PartTypes, Q4
  <2>2. Q4' = <<>>
    BY <1>3, NoHeader DEF HandshakeTakesHdr, Q4
  <2>3. Q1' = <<>> /\ P0' = <<>> /\ Q3' = <<Head(toM).pkt>>
    BY <1>3 DEF Q1, Q3, P0, When
  <2>4. Head(toM).pkt \in PacketsOf(1)
    BY <1>2, <1>3, LinkTypes, HalfWordFacts
  <2>5. PICK x \in Seq(PacketsOf(1)) : x = Q5 \o Q6
    BY TailTypes
  <2>6. Q3' \o (Q4' \o x) = Q3 \o (Q4 \o x)
    BY <1>1, <2>1, <2>2, <2>3, <2>4, Across
  <2>7. Sent1' = Sent1
    BY <1>1, <2>3, <2>5, <2>6 DEF Sent1
  <2>8. Sent0' = Sent0
    BY <1>1, <2>3 DEF Sent0
  <2>9. QED
    BY <1>1, <2>7, <2>8 DEF Same
<1>4. CASE Head(toM).t # "hdr"
  <2>1. Q4' = Q4
    BY <1>2, <1>4, HeadersLeft DEF PartTypes, Q4
  <2>2. Q1' = <<>> /\ P0' = <<>> /\ Q3' = <<>>
    BY <1>4 DEF Q1, Q3, P0, When
  <2>3. QED
    BY <1>1, <2>1, <2>2 DEF Same, Sent0, Sent1
<1>5. QED
  BY <1>3, <1>4

(* recv_aurora_pcx_pkt on the link. *)
LEMMA MasterLinkSame ==
    ASSUME IInv, ServeInv, MasterLink
    PROVE  ServeInv' /\ Same
<1>1. /\ PartTypes /\ MasterSide /\ m.pc = "remote" /\ rx_count = 0
      /\ s' = s /\ fsl' = fsl /\ toS' = toS
      /\ todo' = todo /\ get_local' = get_local /\ get_remote' = get_remote
      /\ rx_head' = rx_head /\ rx_count' = rx_count /\ pcx_pkts' = pcx_pkts
  BY Parts, IInvIs DEF MasterLink, ring, loop
<1>2. m \in Board(MasterPCs, MasterRets) /\ QueueInv /\ LinkInv
  BY <1>1 DEF MasterSide
<1>3. CASE toM = <<>>
  <2>1. NextAttempt("local") /\ toM' = toM
    BY <1>3 DEF MasterLink
  <2>2. ServeInv' /\ Q1' = Q1 /\ Q3' = Q3 /\ P0' = P0
    BY <1>1, <2>1, NextAttemptServes
  <2>3. QED
    BY <1>1, <2>1, <2>2, MasterLeaves DEF Same, Sent0, Sent1
<1>4. CASE toM # <<>>
  <2>1. toM' = Tail(toM)
    BY <1>4 DEF MasterLink
  <2>2. HandshakeTakesHdr(toM) /\ Head(toM).t \in {"hdr", "ack"}
    BY <1>1, <1>2, <1>4, OutFacts, LinkTypes, LinkTurned, HandshakeTakeHdr, HandshakeBounds
       DEF HandshakeTakesHdr
  <2>3. CASE Head(toM).t = "hdr"
    <3>1. m' = StartRecv(m, Head(toM).pkt, m.ret)
      BY <1>4, <2>3 DEF MasterLink
    <3>2. m'.pc = "recv" /\ m'.pkt = Head(toM).pkt /\ m'.ret = m.ret
      BY <3>1 DEF StartRecv
    <3>3. ServeInv'
      BY <1>1, <3>2 DEF ServeInv, Both
    <3>4. QED
      BY <1>1, <1>2, <1>4, <2>1, <2>2, <2>3, <3>2, <3>3, MasterTakes
  <2>4. CASE Head(toM).t = "ack"
    <3>1. m' = m
      BY <1>4, <2>4 DEF MasterLink
    <3>2. ServeInv'
      BY <1>1, <3>1 DEF ServeInv, Both
    <3>3. QED
      BY <1>1, <1>2, <1>4, <2>1, <2>2, <2>4, <3>1, <3>2, MasterTakes
  <2>5. QED
    BY <2>2, <2>3, <2>4
<1>5. QED
  BY <1>3, <1>4

(* recv_aurora_ack: a packet of the slave comes first, or the acknowledgement. *)
LEMMA MasterWaitSame ==
    ASSUME IInv, ServeInv, MasterWait
    PROVE  ServeInv' /\ Same
<1>1. /\ PartTypes /\ MasterSide /\ m.pc = "wait" /\ s' = s /\ fsl' = fsl /\ toS' = toS
      /\ todo' = todo /\ get_local' = get_local /\ get_remote' = get_remote
      /\ rx_head' = rx_head /\ rx_count' = rx_count /\ pcx_pkts' = pcx_pkts
      /\ toM # <<>> /\ toM' = Tail(toM)
  BY Parts, IInvIs DEF MasterWait, ring, loop
<1>2. m \in Board(MasterPCs, MasterRets) /\ QueueInv /\ LinkInv
  BY <1>1 DEF MasterSide
<1>3. HandshakeTakesHdr(toM) /\ Head(toM).t \in {"hdr", "ack"}
  BY <1>1, <1>2, OutFacts, LinkTypes, LinkTurned, HandshakeTakeHdr, HandshakeBounds
     DEF HandshakeTakesHdr
<1>4. m' = IF Head(toM).t = "ack" THEN Goto(m, "reply") ELSE StartRecv(m, Head(toM).pkt, "wait")
  BY DEF MasterWait
<1>5. Head(toM).t = "hdr" => m'.pc = "recv" /\ m'.pkt = Head(toM).pkt /\ m'.ret = "wait"
  BY <1>4 DEF StartRecv
<1>6. Head(toM).t # "hdr" => m'.pc = "reply"
  BY <1>2, <1>3, <1>4, GotoIs DEF MasterPCs, MasterRets
<1>7. ServeInv'
  <2>1. (m'.pc = "recv" /\ m'.ret = "wait") \/ m'.pc = "reply"
    BY <1>3, <1>5, <1>6
  <2>2. QED
    BY <1>1, <2>1 DEF ServeInv, Both
<1>8. QED
  BY <1>1, <1>2, <1>3, <1>5, <1>6, <1>7, MasterTakes

(* The rest of a packet. *)
LEMMA MasterRecvSame ==
    ASSUME IInv, ServeInv, MasterRecv
    PROVE  ServeInv' /\ Same
<1>1. /\ PartTypes /\ MasterSide /\ m.pc = "recv" /\ s' = s /\ fsl' = fsl /\ toS' = toS
      /\ todo' = todo /\ get_local' = get_local /\ get_remote' = get_remote
      /\ rx_head' = rx_head /\ rx_count' = rx_count /\ pcx_pkts' = pcx_pkts
      /\ toM # <<>> /\ toM' = Tail(toM) /\ m' = recv_aurora_pkt(m)
  BY Parts, IInvIs DEF MasterRecv, ring, loop
<1>2. m \in Board(MasterPCs, MasterRets) /\ QueueInv /\ LinkInv /\ m.n < Words
  BY <1>1 DEF MasterSide, MasterInv
<1>3. m.n \in Int /\ 0 <= m.n /\ Words \in Int
  BY <1>2, BoardFields, AuroraAssumption
<1>4. m'.pkt = m.pkt /\ m'.ret = m.ret /\ m'.pc \in {"recv", "ack"}
  <2>1. /\ m.n + 1 < Words => m'.pc = "recv"
        /\ m.n + 1 = Words => m'.pc = "ack"
        /\ m'.pkt = m.pkt /\ m'.ret = m.ret
    BY <1>1, <1>2, RecvIs DEF MasterPCs
  <2>2. m.n + 1 < Words \/ m.n + 1 = Words
    BY <1>2, <1>3
  <2>3. QED
    BY <2>1, <2>2
<1>5. Got(m) \in 1 .. Words
  BY <1>1, <1>2, <1>3, OutFacts
<1>6. Head(toM).t = "word" /\ toM \in Seq(HalfWords(PacketsOf(1)))
  BY <1>1, <1>2, <1>5, LinkTypes, LinkTurned, HandshakeBounds
<1>7. Q4' = Q4
  BY <1>1, <1>6, HeadersLeft DEF PartTypes, Q4
<1>8. Q1' = Q1 /\ Q3' = Q3 /\ P0' = P0
  BY <1>1, <1>4 DEF Q1, Q3, P0, When
<1>9. ServeInv'
  BY <1>1, <1>4 DEF ServeInv, Both
<1>10. QED
  BY <1>1, <1>7, <1>8, <1>9, MasterLeaves DEF Same, Sent0, Sent1

(* The ring stays in order. *)
LEMMA RingSideNext == IInv' => RingSide'
<1>1. IInv => RingSide
  BY IInvIs
<1>2. QED
  BY <1>1, PTL

(* A packet that has been received is kept in the ring or served at once. *)
LEMMA MasterAckSame ==
    ASSUME IInv, IInv', ServeInv, RingSuffices', MasterAck
    PROVE  ServeInv' /\ Same
<1>1. /\ PartTypes /\ MasterSide /\ RingSide /\ RingSide' /\ m.pc = "ack"
      /\ s' = s /\ fsl' = fsl /\ toM' = toM /\ toS' = Append(toS, Ack)
      /\ todo' = todo /\ get_local' = get_local /\ get_remote' = get_remote
  BY Parts, IInvIs, RingSideNext DEF MasterAck
<1>2. m \in Board(MasterPCs, MasterRets) /\ QueueInv /\ m.pkt \in PacketsOf(1)
  BY <1>1 DEF MasterSide, MasterInv
<1>3. Arriving1' = Arriving1
  <2>1. Ack \in HalfWords(MessagesTo(1)) /\ Ack.t # "hdr"
    BY HalfWordFacts
  <2>2. Headers(toS') = Headers(toS)
    BY <1>1, <1>2, <2>1, LinkTypes, HeadersKept DEF PartTypes
  <2>3. QED
    BY <1>1, <2>2, MasterLeaves DEF Arriving1
<1>4. Q1 = <<>> /\ P0 = <<>> /\ Q3 = <<m.pkt>>
  BY <1>1 DEF Q1, P0, Q3, When
<1>5. PICK x \in Seq(PacketsOf(1)) : x = Q4 \o (Q5 \o Q6)
  BY <1>1, TailTypes
<1>6. Q4' \o (Q5' \o Q6') = x
  BY <1>1, <1>5, MasterLeaves
<1>7. CASE m.ret = "wait"
  <2>1. insert_pcx_pkt(m.pkt)
    BY <1>7 DEF MasterAck
  <2>2. m' = Goto(m, "wait") /\ Q2' = Append(Q2, m.pkt)
    BY <1>1, <1>2, <2>1, ContentsInsert DEF RingSuffices, Q2
  <2>3. m'.pc = "wait"
    BY <1>2, <2>2, GotoIs DEF MasterPCs, MasterRets
  <2>4. Q1' = <<>> /\ P0' = <<>> /\ Q3' = <<>>
    BY <2>3 DEF Q1, P0, Q3, When
  <2>5. Q2' \o (Q3' \o x) = Q2 \o (Q3 \o x)
    <3>1. PICK q \in Seq(PacketsOf(1)) : q = Q2
      BY <1>1 DEF PartTypes
    <3>2. q \o (<<m.pkt>> \o x) = Append(q, m.pkt) \o (<<>> \o x)
      BY <1>2, Joins
    <3>3. QED
      BY <1>4, <2>2, <2>4, <3>1, <3>2
  <2>6. Sent1' = Sent1
    BY <1>4, <1>5, <1>6, <2>4, <2>5 DEF Sent1
  <2>7. ServeInv'
    BY <1>1, <2>3 DEF ServeInv, Both
  <2>8. QED
    BY <1>1, <1>3, <1>4, <2>4, <2>6, <2>7, MasterLeaves DEF Same, Sent0
<1>8. CASE m.ret # "wait"
  <2>1. m' = [m EXCEPT !.pc = "process"] /\ UNCHANGED ring
    BY <1>8 DEF MasterAck
  <2>2. m'.pc = "process" /\ m'.pkt = m.pkt /\ m'.pkt.core = 1
    BY <1>2, <2>1 DEF Board, PacketsOf
  <2>3. todo = <<>> /\ rx_count = 0 /\ get_remote = 1
    BY <1>1, <1>8 DEF ServeInv
  <2>4. Q2 = <<>> /\ Q2' = <<>>
    BY <1>1, <2>1, <2>3, ContentsNone, MasterLeaves DEF Q2, ring
  <2>5. Q1' = <<m.pkt>> /\ P0' = <<>> /\ Q3' = <<>>
    BY <2>2 DEF Q1, P0, Q3, When
  <2>6. <<>> \o (<<m.pkt>> \o x) = <<m.pkt>> \o (<<>> \o x)
    BY <1>2, Across
  <2>7. <<>> \o x = x /\ <<>> \o (<<m.pkt>> \o x) = <<m.pkt>> \o x
    <3>1. <<m.pkt>> \o x \in Seq(PacketsOf(1))
      BY <1>2, Cons
    <3>2. QED
      BY <3>1, Cat
  <2>8. Sent1 = <<>> \o (<<>> \o (<<m.pkt>> \o x)) /\ Sent1' = <<m.pkt>> \o (<<>> \o (<<>> \o x))
    BY <1>4, <1>5, <1>6, <2>4, <2>5 DEF Sent1
  <2>9. Sent1' = Sent1
    BY <2>6, <2>7, <2>8
  <2>10. ServeInv'
    BY <1>1, <2>2, <2>3 DEF ServeInv, Both
  <2>11. QED
    BY <1>1, <1>3, <1>4, <2>5, <2>9, <2>10, MasterLeaves DEF Same, Sent0
<1>9. QED
  BY <1>7, <1>8

(* A request is served: the lock lets its core through, and changes as the *)
(* request says.                                                           *)
LEMMA MasterProcessMaps ==
    ASSUME IInv, IInv', ServeInv, MasterProcess
    PROVE  ServeInv' /\ \E c \in {0, 1} : E!Take(c)
<1>1. /\ PartTypes /\ MasterSide /\ m.pc = "process" /\ s' = s /\ fsl' = fsl /\ toM' = toM /\ toS' = toS
      /\ rx_head' = rx_head /\ rx_count' = rx_count /\ pcx_pkts' = pcx_pkts
      /\ todo' = E!Work(m.pkt) /\ m' = Goto(m, "reply") /\ Lock(m.pkt)
  BY Parts, IInvIs DEF MasterProcess, ring, slave
<1>2. m \in Board(MasterPCs, MasterRets) /\ m.pkt \in E!Packets
  BY <1>1 DEF MasterSide, MasterInv
<1>3. m.pkt.core \in {0, 1}
  BY <1>2 DEF E!Packets, E!Core
<1>4. /\ todo = <<>>
      /\ m.pkt.core = 1 => get_remote = 1
      /\ m.pkt.core = 0 => get_local = 1
      /\ get_local = 1 \/ get_remote = 1
  BY <1>1 DEF ServeInv
<1>5. get_local \in {0, 1} /\ get_remote \in {0, 1}
  BY IInvIs DEF RestType
<1>6. m'.pc = "reply"
  BY <1>1, <1>2, GotoIs DEF MasterPCs, MasterRets
<1>7. /\ m.pkt.kind = "cas1" => Locked' = m.pkt.core
      /\ m.pkt.kind = "cas2" => Locked' = -1
      /\ m.pkt.kind \notin {"cas1", "cas2"} => Locked' = Locked
      /\ get_local' = 1 \/ get_remote' = 1
      /\ Locked \in {-1, m.pkt.core}
  <2>1. CASE m.pkt.kind = "cas1" /\ m.pkt.core = 0
    BY <1>1, <1>3, <1>4, <1>5, <2>1 DEF Lock, Locked
  <2>2. CASE m.pkt.kind = "cas1" /\ m.pkt.core = 1
    BY <1>1, <1>3, <1>4, <1>5, <2>2 DEF Lock, Locked
  <2>3. CASE m.pkt.kind = "cas2"
    BY <1>1, <1>3, <1>4, <1>5, <2>3 DEF Lock, Locked
  <2>4. CASE m.pkt.kind \notin {"cas1", "cas2"}
    BY <1>1, <1>3, <1>4, <1>5, <2>4 DEF Lock, Locked
  <2>5. QED
    BY <1>3, <2>1, <2>2, <2>3, <2>4
<1>8. ServeInv'
  BY <1>6, <1>7 DEF ServeInv
<1>9. Q1' = <<>> /\ P0' = <<>> /\ Q3 = <<>> /\ Q3' = <<>> /\ Q2' = Q2 /\ Q4' = Q4 /\ Q5' = Q5 /\ Q6' = Q6
      /\ Arriving1' = Arriving1
  BY <1>1, <1>6, MasterLeaves DEF Q1, Q3, P0, When
<1>10. Collected /\ Collected'
  BY CollectedIs, CollectedNext
<1>11. PICK x \in Seq(PacketsOf(1)) : x = Q2 \o (Q3 \o (Q4 \o (Q5 \o Q6)))
  BY <1>1, TailTypes
<1>12. Sent1 = Q1 \o x /\ Sent1' = x
  <2>1. Sent1' = <<>> \o x
    BY <1>9, <1>11 DEF Sent1
  <2>2. QED
    BY <1>11, <2>1, Cat DEF Sent1
<1>13. Sent0 = P0 \o fsl[0] /\ Sent0' = fsl[0]
  <2>1. Sent0' = <<>> \o fsl[0]
    BY <1>1, <1>9 DEF Sent0
  <2>2. QED
    BY <1>1, <2>1, Cat DEF Sent0, PartTypes
<1>14. Arriving' = Arriving
  BY <1>9, <1>10 DEF Collected
<1>15. CASE m.pkt.core = 1
  <2>1. Q1 = <<m.pkt>> /\ P0 = <<>> /\ m.pkt \in PacketsOf(1)
    BY <1>1, <1>2, <1>15 DEF Q1, P0, When, PacketsOf
  <2>2. Sent1 # <<>> /\ Head(Sent1) = m.pkt /\ Tail(Sent1) = Sent1'
    BY <1>12, <2>1, Cons
  <2>3. Sent0' = Sent0
    BY <1>1, <1>13, <2>1, Cat DEF PartTypes
  <2>4. Sent[1] = Sent1 /\ Sent' = [Sent EXCEPT ![1] = Tail(Sent1)]
    BY <1>10, <2>2, <2>3, TwoIs DEF Collected
  <2>5. E!Take(1)
    BY <1>1, <1>4, <1>7, <1>14, <1>15, <2>2, <2>4 DEF E!Take, E!Nobody, Locked
  <2>6. QED
    BY <1>8, <2>5
<1>16. CASE m.pkt.core = 0
  <2>1. Q1 = <<>> /\ P0 = <<m.pkt>> /\ m.pkt \in PacketsOf(0)
    BY <1>1, <1>2, <1>16 DEF Q1, P0, When, PacketsOf
  <2>2. Sent0 # <<>> /\ Head(Sent0) = m.pkt /\ Tail(Sent0) = Sent0'
    <3>1. PICK y \in Seq(PacketsOf(0)) : y = fsl[0]
      BY <1>1 DEF PartTypes
    <3>2. <<m.pkt>> \o y # <<>> /\ Head(<<m.pkt>> \o y) = m.pkt /\ Tail(<<m.pkt>> \o y) = y
      BY <2>1, Cons
    <3>3. QED
      BY <1>13, <2>1, <3>1, <3>2
  <2>3. Sent1' = Sent1
    BY <1>12, <2>1, Cat
  <2>4. Sent[0] = Sent0 /\ Sent' = [Sent EXCEPT ![0] = Tail(Sent0)]
    BY <1>10, <2>2, <2>3, TwoIs DEF Collected
  <2>5. E!Take(0)
    BY <1>1, <1>4, <1>7, <1>14, <1>16, <2>2, <2>4 DEF E!Take, E!Nobody, Locked
  <2>6. QED
    BY <1>8, <2>5
<1>17. QED
  BY <1>3, <1>15, <1>16

(* A message for core 0 is there at once; one for core 1 is sent. *)
LEMMA MasterReplyMaps ==
    ASSUME IInv, IInv', ServeInv, MasterReply
    PROVE  ServeInv' /\ (Same \/ E!Send)
<1>1. /\ PartTypes /\ MasterSide /\ m.pc = "reply" /\ s' = s /\ fsl' = fsl /\ toM' = toM /\ toS' = toS
      /\ get_local' = get_local /\ get_remote' = get_remote
      /\ rx_head' = rx_head /\ rx_count' = rx_count /\ pcx_pkts' = pcx_pkts
      /\ todo \in Seq(E!Messages)
  BY Parts, IInvIs DEF MasterReply, ring, slave, loop, RestType
<1>2. m \in Board(MasterPCs, MasterRets) /\ m.n = 0
  BY <1>1 DEF MasterSide, MasterInv
<1>3. Q1 = <<>> /\ P0 = <<>> /\ Q3 = <<>>
  BY <1>1 DEF Q1, P0, Q3, When
<1>4. ASSUME m'.pc \in {"local", "remote", "reply", "send"}
      PROVE  Sent1' = Sent1 /\ Sent0' = Sent0 /\ Arriving1' = Arriving1 /\ Locked' = Locked
  <2>1. Q1' = <<>> /\ P0' = <<>> /\ Q3' = <<>>
    BY <1>4 DEF Q1, P0, Q3, When
  <2>2. QED
    BY <1>1, <1>3, <2>1, MasterLeaves DEF Sent0, Sent1
<1>5. CASE todo = <<>>
  <2>1. m' = Loop /\ todo' = todo
    BY <1>5 DEF MasterReply
  <2>2. m'.pc \in {"local", "remote"}
    BY <2>1, LoopIs
  <2>3. ServeInv'
    BY <1>1, <1>5, <2>1, <2>2, LoopServes DEF ServeInv, Both
  <2>4. QED
    BY <1>4, <2>1, <2>2, <2>3 DEF Same
<1>6. CASE todo # <<>> /\ Head(todo).to = 0
  <2>1. todo' = Tail(todo) /\ m' = m
    BY <1>6 DEF MasterReply
  <2>2. ServeInv'
    BY <1>1, <2>1 DEF ServeInv, Both
  <2>3. Collected /\ Collected'
    BY CollectedIs, CollectedNext
  <2>4. Sent' = Sent /\ Arriving' = Arriving /\ Arriving[0] = <<>> /\ Locked' = Locked
    BY <1>1, <1>4, <2>1, <2>3, TwoIs DEF Collected
  <2>5. E!Send
    BY <1>6, <2>1, <2>4 DEF E!Send, Locked
  <2>6. QED
    BY <2>2, <2>5
<1>7. CASE todo # <<>> /\ Head(todo).to # 0
  <2>1. m' = [m EXCEPT !.pc = "send", !.pkt = Head(todo)] /\ todo' = todo
    BY <1>7 DEF MasterReply
  <2>2. m'.pc = "send" /\ m'.pkt = Head(todo)
    BY <1>2, <2>1 DEF Board
  <2>3. ServeInv'
    BY <1>1, <1>7, <2>1, <2>2 DEF ServeInv, Both
  <2>4. QED
    BY <1>4, <2>1, <2>2, <2>3 DEF Same
<1>8. QED
  BY <1>5, <1>6, <1>7

(* The header of a message is on the link: the message is on its way. *)
LEMMA MasterSendMaps ==
    ASSUME IInv, IInv', ServeInv, MasterSend
    PROVE  ServeInv' /\ (Same \/ E!Send)
<1>1. /\ PartTypes /\ MasterSide /\ m.pc = "send" /\ s' = s /\ fsl' = fsl /\ toM' = toM
      /\ toS' = Append(toS, HalfWord(m)) /\ m' = send_aurora_pkt(m)
      /\ todo' = (IF m.n = 0 THEN Tail(todo) ELSE todo)
      /\ get_local' = get_local /\ get_remote' = get_remote
      /\ rx_head' = rx_head /\ rx_count' = rx_count /\ pcx_pkts' = pcx_pkts
  BY Parts, IInvIs DEF MasterSend, ring, loop
<1>2. m \in Board(MasterPCs, MasterRets) /\ QueueInv /\ LinkInv /\ m.pkt \in MessagesTo(1)
  BY <1>1 DEF MasterSide, MasterInv
<1>3. /\ m.n < Words => m'.pc = "send" /\ m'.n = m.n + 1
      /\ m.n = Words => m'.pc = "wait"
      /\ m.n \in Int /\ 0 <= m.n /\ m.n <= Words
  BY <1>1, <1>2, SendIs, BoardFields DEF MasterPCs
<1>4. m'.pc = "wait" \/ (m'.pc = "send" /\ m'.n # 0)
  <2>1. m.n < Words \/ m.n = Words
    BY <1>3, AuroraAssumption
  <2>2. m.n + 1 # 0
    BY <1>3
  <2>3. QED
    BY <1>3, <2>1, <2>2
<1>5. ServeInv'
  BY <1>1, <1>4 DEF ServeInv, Both
<1>6. Q1 = <<>> /\ P0 = <<>> /\ Q3 = <<>> /\ Q1' = <<>> /\ P0' = <<>> /\ Q3' = <<>>
  BY <1>1, <1>4 DEF Q1, P0, Q3, When
<1>7. Sent0' = Sent0 /\ Sent1' = Sent1 /\ Locked' = Locked /\ A1' = A1
  BY <1>1, <1>6, MasterLeaves DEF Sent0, Sent1
<1>8. /\ toS \in Seq(HalfWords(MessagesTo(1)))
      /\ HalfWord(m) \in HalfWords(MessagesTo(1)) /\ HalfWord(m).t = IF m.n = 0 THEN "hdr" ELSE "word"
  BY <1>2, LinkTypes, HalfWordIs
<1>9. CASE m.n = 0
  <2>1. ~HeaderOn(toS)
    BY <1>1, <1>2, <1>9, OutFacts, LinkTypes, LinkTurned, HandshakeHeaders
  <2>2. HalfWord(m).pkt = m.pkt
    BY <1>9 DEF HalfWord, Hdr
  <2>3. Headers(toS) = <<>> /\ Headers(toS') = <<m.pkt>>
    BY <1>1, <1>8, <1>9, <2>1, <2>2, NoHeader, HeadersSent
  <2>4. todo # <<>> /\ m.pkt = Head(todo) /\ todo' = Tail(todo)
    BY <1>1, <1>9 DEF ServeInv
  <2>5. PICK a \in Seq(MessagesTo(1)) : a = A1
    BY <1>1 DEF PartTypes
  <2>6. Arriving1 = a \o <<>> /\ Arriving1' = a \o <<m.pkt>>
    BY <1>7, <2>3, <2>5 DEF Arriving1
  <2>7. Arriving1' = Append(Arriving1, m.pkt)
    BY <1>2, <2>6, Cat
  <2>8. Collected /\ Collected'
    BY CollectedIs, CollectedNext
  <2>9. Sent' = Sent /\ Arriving[1] = Arriving1
        /\ Arriving' = [Arriving EXCEPT ![1] = Append(Arriving1, m.pkt)]
    <3>1. PICK x : x = Append(Arriving1, m.pkt)
      OBVIOUS
    <3>2. [Two(<<>>, Arriving1) EXCEPT ![1] = x] = Two(<<>>, x)
      BY TwoIs
    <3>3. Two(<<>>, Arriving1)[1] = Arriving1
      BY TwoIs
    <3>4. Arriving = Two(<<>>, Arriving1) /\ Arriving' = Two(<<>>, x)
      BY <2>7, <2>8, <3>1 DEF Collected
    <3>5. Sent' = Sent
      BY <1>7, <2>8 DEF Collected
    <3>6. QED
      BY <3>1, <3>2, <3>3, <3>4, <3>5
  <2>10. Head(todo).to = 1
    BY <1>2, <2>4 DEF MessagesTo
  <2>11. E!Send
    BY <1>7, <2>4, <2>9, <2>10 DEF E!Send, Locked
  <2>12. QED
    BY <1>5, <2>11
<1>10. CASE m.n # 0
  <2>1. Headers(toS') = Headers(toS)
    BY <1>1, <1>8, <1>10, HeadersKept DEF PartTypes
  <2>2. Arriving1' = Arriving1
    BY <1>7, <2>1 DEF Arriving1
  <2>3. QED
    BY <1>1, <1>5, <1>7, <1>10, <2>2 DEF Same
<1>11. QED
  BY <1>9, <1>10

(* All of them. *)
LEMMA MasterMaps ==
    ASSUME IInv, IInv', ServeInv, RingSuffices', Master
    PROVE  ServeInv' /\ (E!Next \/ UNCHANGED E!vars)
<1>1. Collected /\ Collected'
  BY CollectedIs, CollectedNext
<1>2. CASE MasterProcess
  BY <1>2, MasterProcessMaps DEF E!Next, E!Core
<1>3. CASE MasterReply \/ MasterSend
  BY <1>1, <1>3, MasterReplyMaps, MasterSendMaps, SameMaps DEF E!Next
<1>4. CASE MasterLocal \/ MasterRing \/ MasterLink \/ MasterRecv \/ MasterAck \/ MasterWait
  <2>1. ServeInv' /\ Same
    BY <1>4, MasterLocalSame, MasterRingSame, MasterLinkSame, MasterRecvSame, MasterAckSame,
       MasterWaitSame
  <2>2. QED
    BY <1>1, <2>1, SameMaps
<1>5. QED
  BY <1>2, <1>3, <1>4 DEF Master

-----------------------------------------------------------------------------
(* The cores, and the theorem. *)

(* A core's requests are the newest. *)
LEMMA CoreMaps ==
    ASSUME IInv, IInv', ServeInv, NEW c \in {0, 1}, CoreIssue(c)
    PROVE  ServeInv' /\ E!Issue(c)
<1>1. PICK r \in E!Requests(c) : fsl' = [fsl EXCEPT ![c] = @ \o r]
  BY DEF CoreIssue
<1>2. /\ toM' = toM /\ toS' = toS /\ s' = s /\ m' = m /\ todo' = todo
      /\ get_local' = get_local /\ get_remote' = get_remote
      /\ rx_head' = rx_head /\ rx_count' = rx_count /\ pcx_pkts' = pcx_pkts
      /\ DOMAIN fsl = {0, 1} /\ PartTypes
  BY Parts, IInvIs DEF CoreIssue, loop, ring, RestType
<1>3. ServeInv'
  BY <1>2 DEF ServeInv, Both
<1>4. /\ Q1' = Q1 /\ Q2' = Q2 /\ Q3' = Q3 /\ Q4' = Q4 /\ Q5' = Q5 /\ P0' = P0
      /\ Arriving1' = Arriving1 /\ Locked' = Locked
  BY <1>2, MasterLeaves DEF Q1, Q3, P0
<1>5. Collected /\ Collected'
  BY CollectedIs, CollectedNext
<1>6. r \in Seq(PacketsOf(c))
  BY RequestsAre
<1>7. CASE c = 1
  <2>1. Q6' = Q6 \o r /\ fsl'[0] = fsl[0]
    BY <1>1, <1>2, <1>7 DEF Q6
  <2>2. Sent0' = Sent0
    BY <1>4, <2>1 DEF Sent0
  <2>3. Sent1' = Sent1 \o r
    <3>1. Lengthened(Q1, Q2, Q3, Q4, Q5, Q6, r)
      BY <1>2, <1>6, <1>7, LongerLine DEF PartTypes
    <3>2. Sent1' = Q1 \o (Q2 \o (Q3 \o (Q4 \o (Q5 \o (Q6 \o r)))))
      BY <1>4, <2>1 DEF Sent1
    <3>3. QED
      BY <3>1, <3>2 DEF Lengthened, Sent1
  <2>4. Sent[1] = Sent1 /\ Sent' = [Sent EXCEPT ![1] = Sent1 \o r] /\ Arriving' = Arriving
    <3>1. PICK x : x = Sent1 \o r
      OBVIOUS
    <3>2. [Two(Sent0, Sent1) EXCEPT ![1] = x] = Two(Sent0, x)
      BY TwoIs
    <3>3. Two(Sent0, Sent1)[1] = Sent1
      BY TwoIs
    <3>4. Sent = Two(Sent0, Sent1) /\ Sent' = Two(Sent0, x)
      BY <1>5, <2>2, <2>3, <3>1 DEF Collected
    <3>5. Arriving' = Arriving
      BY <1>4, <1>5 DEF Collected
    <3>6. QED
      BY <3>1, <3>2, <3>3, <3>4, <3>5
  <2>5. E!Issue(1)
    BY <1>2, <1>4, <1>7, <2>4 DEF E!Issue, Locked
  <2>6. QED
    BY <1>3, <1>7, <2>5
<1>8. CASE c = 0
  <2>1. Q6' = Q6 /\ fsl'[0] = fsl[0] \o r
    BY <1>1, <1>2, <1>8 DEF Q6
  <2>2. Sent1' = Sent1
    BY <1>4, <2>1 DEF Sent1
  <2>3. Sent0' = Sent0 \o r
    <3>1. PICK a \in Seq(PacketsOf(0)), b \in Seq(PacketsOf(0)) : a = P0 /\ b = fsl[0]
      BY <1>2 DEF PartTypes
    <3>2. a \o (b \o r) = (a \o b) \o r
      BY <1>6, <1>8, Longer
    <3>3. QED
      BY <1>4, <2>1, <3>1, <3>2 DEF Sent0
  <2>4. Sent[0] = Sent0 /\ Sent' = [Sent EXCEPT ![0] = Sent0 \o r] /\ Arriving' = Arriving
    <3>1. PICK x : x = Sent0 \o r
      OBVIOUS
    <3>2. [Two(Sent0, Sent1) EXCEPT ![0] = x] = Two(x, Sent1)
      BY TwoIs
    <3>3. Two(Sent0, Sent1)[0] = Sent0
      BY TwoIs
    <3>4. Sent = Two(Sent0, Sent1) /\ Sent' = Two(x, Sent1)
      BY <1>5, <2>2, <2>3, <3>1 DEF Collected
    <3>5. Arriving' = Arriving
      BY <1>4, <1>5 DEF Collected
    <3>6. QED
      BY <3>1, <3>2, <3>3, <3>4, <3>5
  <2>5. E!Issue(0)
    BY <1>2, <1>4, <1>8, <2>4 DEF E!Issue, Locked
  <2>6. QED
    BY <1>3, <1>8, <2>5
<1>9. QED
  BY <1>7, <1>8

(* At first nothing is under way. *)
LEMMA InitMaps == Init => ServeInv /\ E!Init
<1> SUFFICES ASSUME Init PROVE ServeInv /\ E!Init
  OBVIOUS
<1>1. /\ fsl = [c \in {0, 1} |-> <<>>] /\ toM = <<>> /\ toS = <<>> /\ s = Idle("poll")
      /\ todo = <<>> /\ get_local = 1 /\ get_remote = 1 /\ m = Loop /\ rx_count = 0
  BY DEF Init
<1>2. IInv /\ Collected
  BY IInvInit, CollectedIs
<1>3. m.pc \in {"local", "remote"} /\ s.pc = "poll"
  BY <1>1, LoopIs DEF Idle
<1>4. ServeInv
  BY <1>1, <1>3 DEF ServeInv, Both
<1>5. Q1 = <<>> /\ Q3 = <<>> /\ Q5 = <<>> /\ P0 = <<>> /\ A1 = <<>> /\ Q6 = <<>> /\ fsl[0] = <<>>
  BY <1>1, <1>3 DEF Q1, Q3, Q5, Q6, P0, A1, When
<1>6. Q2 = <<>>
  BY <1>1, <1>2, IInvIs, ContentsNone DEF Q2
<1>7. Q4 = <<>> /\ Headers(toS) = <<>>
  BY <1>1, NoHeader DEF Q4, HeaderOn
<1>8. <<>> \o <<>> = <<>>
  BY EmptySeq, Cat
<1>9. Sent1 = <<>> /\ Sent0 = <<>> /\ Arriving1 = <<>>
  BY <1>5, <1>6, <1>7, <1>8 DEF Sent0, Sent1, Arriving1
<1>10. Sent = [c \in {0, 1} |-> <<>>] /\ Arriving = [c \in {0, 1} |-> <<>>]
  BY <1>2, <1>9 DEF Collected, Two
<1>11. QED
  BY <1>1, <1>4, <1>10 DEF E!Init, E!Core, E!Nobody

(***************************************************************************)
(* The two boards with the link between them (t1_system_emulation_loop     *)
(* with send_cpx_pkt, recv_aurora_pcx_pkt and recv_aurora_ack) keep the    *)
(* promise of Emulation: requests are served one at a time and in order,   *)
(* no message is lost, repeated or reordered on its way to either core,    *)
(* and nobody is served between the halves of a compare-and-swap.          *)
(***************************************************************************)
THEOREM Refines ==
    ASSUME Suffices
    PROVE  Spec => Emulated
<1>1. Init => ServeInv /\ E!Init
  BY InitMaps
<1>2. ASSUME IInv, IInv', ServeInv, RingSuffices', [Next]_vars
      PROVE  ServeInv' /\ [E!Next]_(E!vars)
  <2>1. CASE Slave
    <3>1. SlaveUnchanged
      BY <2>1 DEF Slave, SlavePoll, SlaveLink, SlaveSend, SlaveWait, SlaveRecv, SlaveAck, SlaveForward
    <3>2. QED
      BY <1>2, <2>1, <3>1, SlaveMaps, SlaveLeaves
  <2>2. CASE Master
    BY <1>2, <2>2, MasterMaps
  <2>3. CASE \E c \in {0, 1} : CoreIssue(c)
    BY <1>2, <2>3, CoreMaps DEF E!Next, E!Core
  <2>4. CASE UNCHANGED vars
    <3>1. /\ fsl' = fsl /\ s' = s /\ SlaveUnchanged /\ toM' = toM /\ toS' = toS
      BY <2>4 DEF vars, SlaveUnchanged, loop, ring
    <3>2. ServeInv' /\ Arriving1' = Arriving1 /\ Q4' = Q4 /\ Q5' = Q5 /\ Q6' = Q6
      BY <1>2, <3>1, SlaveLeaves, MasterLeaves
    <3>3. Same
      BY <3>1, <3>2, SlaveMoves
    <3>4. QED
      BY <1>2, <3>2, <3>3, CollectedIs, CollectedNext, SameMaps
  <2>5. QED
    BY <1>2, <2>1, <2>2, <2>3, <2>4 DEF Next
<1>3. QED
  BY <1>1, <1>2, IInvHolds, RingNeverOverflows, PTL DEF Spec, Emulated, E!Spec
=============================================================================
