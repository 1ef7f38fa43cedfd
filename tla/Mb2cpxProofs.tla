---------------------------- MODULE Mb2cpxProofs ----------------------------
(***************************************************************************)
(* TLAPS proofs about Mb2cpx, for every set of payloads, any mixture of    *)
(* single and atomic responses, any number of waste words, and a FIFO that *)
(* has a word in whatever cycles it likes.                                 *)
(***************************************************************************)
EXTENDS Mb2cpx, SequenceTheorems, TLAPS

-----------------------------------------------------------------------------
(* The invariant. *)

(* ws holds the words of p from word number k on, and waste behind them. *)
Rest(ws, p, k) ==
    /\ Len(ws) >= 6 - k
    /\ \A n \in 1 .. Len(ws) :
          ws[n] = IF n + k <= 6 THEN Word(p, n + k - 1) ELSE WasteWord

(* p is the packet being read, or the last one read: the FSM, the FIFO's   *)
(* head and the sender agree on the words still to come,                   *)
FeedInv(p) ==
    /\ state = "SHIFT" => \/ word = NoWord /\ Rest(feed.words, p, 5 - count)
                          \/ word = Word(p, 5 - count) /\ Rest(feed.words, p, 6 - count)
    /\ state # "SHIFT" => \/ word \in {NoWord, WasteWord} /\ Rest(feed.words, p, 6)
                          \/ word = Word(p, 1) /\ Rest(feed.words, p, 2)

(* on which half of an atomic response is next,                            *)
PairInv(p) ==
    /\ state = "IDLE" => ~atomicFirst /\ ~atomicSecond /\ (Begins => ~p.second)
    /\ state = "AT_WAIT" => ~atomicFirst /\ atomicSecond /\ (Begins => p.second)
    /\ state = "SHIFT" => (atomicFirst <=> p.atom) /\ (atomicSecond <=> p.second)
    /\ p.second => ~p.atom
    /\ state = "SHIFT" \/ Begins => (feed.pair <=> p.atom)
    /\ state # "SHIFT" /\ ~Begins => (feed.pair <=> atomicSecond)

(* and the input register ends with the words read so far.                 *)
RegInv(p) ==
    state = "SHIFT" => \A i \in count + 2 .. 5 : inputReg[i] = Word(p, i - 1 - count)

(* Nothing complete is waiting. *)
Clear(p) ==
    /\ ~atomicSecond /\ ~atomicSecondD1 /\ ~shiftOut /\ (shiftOutD1 => atomicSecondD2)
    /\ owed = IF state = "SHIFT" THEN <<p>> ELSE <<>>

(* q is complete in the input register, alone or as the first of a pair. *)
Landed(q) ==
    /\ shiftOut /\ ~atomicSecondD1 /\ ~shiftOutD1
    /\ state # "SHIFT"
    /\ inputReg = WordsOf(q) /\ owed = <<q>>

(* q is in the output register; the core takes it now. *)
Single(p, q) ==
    /\ shiftOutD1 /\ ~shiftOut /\ ~atomicSecond /\ ~atomicSecondD1 /\ ~atomicSecondD2
    /\ state = "SHIFT" => count = 3
    /\ outputReg = WordsOf(q)
    /\ owed = IF state = "SHIFT" THEN <<q, p>> ELSE <<q>>

(* q waits there for the second packet, which is not complete yet. *)
Held(q) ==
    /\ atomicSecond /\ atomicSecondD1 /\ ~shiftOut
    /\ outputReg = WordsOf(q) /\ owed = <<q>>

(* The second packet is complete: the core takes q now. *)
Paired(q) ==
    /\ ~atomicSecond /\ atomicSecondD1 /\ shiftOut
    /\ state = "IDLE"
    /\ outputReg = WordsOf(q) /\ owed = <<q>>

DeliveryInv(p) ==
    \/ Clear(p)
    \/ \E q \in Packets : Landed(q) \/ Single(p, q) \/ Held(q) \/ Paired(q)

IInv == /\ TypeOK
        /\ \E p \in Packets : FeedInv(p) /\ PairInv(p) /\ RegInv(p) /\ DeliveryInv(p)

-----------------------------------------------------------------------------
(* Words and the sequences of them. *)

(* The bits of the words, and that they are words. *)
LEMMA WordFacts ==
    /\ \A p \in Packets, n \in 1 .. 5 : /\ Word(p, n) \in Words
                                        /\ Word(p, n).exists /\ Word(p, n).valid
                                        /\ Word(p, n).pkt = p
                                        /\ Word(p, n).control <=> n = 1
    /\ WasteWord \in Words /\ ~WasteWord.control /\ ~WasteWord.valid
    /\ NoWord \in Words /\ ~NoWord.exists
<1>1. \A p \in Packets, n \in 1 .. 5 : Word(p, n) \in Words
  BY DEF Words
<1>2. \A p, n : Word(p, n).exists /\ Word(p, n).valid /\ Word(p, n).pkt = p
  BY DEF Word
<1>3. \A p, n : Word(p, n).control <=> n = 1
  <2> TAKE p, n
  <2>1. Word(p, n).control = (n = 1)
    BY DEF Word
  <2>2. QED
    BY <2>1
<1>4. WasteWord \in Words /\ NoWord \in Words
  BY DEF Words
<1>5. ~WasteWord.control /\ ~WasteWord.valid
  BY DEF WasteWord
<1>6. ~NoWord.exists
  BY DEF NoWord, WasteWord
<1>7. QED
  BY <1>1, <1>2, <1>3, <1>4, <1>5, <1>6

(* The fields of a word. *)
LEMMA WordFields ==
    ASSUME NEW x \in Words
    PROVE  x.exists \in BOOLEAN /\ x.control \in BOOLEAN /\ x.valid \in BOOLEAN
           /\ x.pkt \in Packets
<1>1. AnyPacket \in Packets
  BY CpxAssumption DEF AnyPacket, Packets
<1>2. CASE \E p \in Packets, n \in 1 .. 5 : x = Word(p, n)
  BY <1>2 DEF Word
<1>3. CASE x = WasteWord
  BY <1>1, <1>3 DEF WasteWord
<1>4. CASE x = NoWord
  <2>1. NoWord.control = WasteWord.control /\ NoWord.valid = WasteWord.valid
        /\ NoWord.pkt = WasteWord.pkt
    BY DEF NoWord, WasteWord
  <2>2. NoWord.exists = FALSE
    BY DEF NoWord, WasteWord
  <2>3. WasteWord.control \in BOOLEAN /\ WasteWord.valid \in BOOLEAN
        /\ WasteWord.pkt = AnyPacket
    BY DEF WasteWord
  <2>4. QED
    BY <1>1, <1>4, <2>1, <2>2, <2>3
<1>5. QED
  BY <1>2, <1>3, <1>4 DEF Words

(* A register of five words is a sequence, and a sequence of five a register. *)
LEMMA Registers ==
    /\ \A reg \in [1 .. 5 -> Words] : reg \in Seq(Words) /\ Len(reg) = 5 /\ reg # <<>>
    /\ \A s \in Seq(Words) : Len(s) = 5 => s \in [1 .. 5 -> Words]
<1>1. ASSUME NEW reg \in [1 .. 5 -> Words]
      PROVE  reg \in Seq(Words) /\ Len(reg) = 5 /\ reg # <<>>
  <2>1. reg \in Seq(Words)
    <3>1. 5 \in Nat
      OBVIOUS
    <3>2. QED
      BY <3>1, SeqDef
  <2>2. DOMAIN reg = 1 .. Len(reg) /\ Len(reg) \in Nat
    BY <2>1, LenProperties
  <2>3. DOMAIN reg = 1 .. 5
    OBVIOUS
  <2>4. 5 \in 1 .. Len(reg) /\ Len(reg) + 1 \notin 1 .. Len(reg)
    BY <2>2, <2>3
  <2>5. Len(reg) = 5
    BY <2>2, <2>3, <2>4
  <2>6. QED
    BY <2>1, <2>5
<1>2. \A s \in Seq(Words) : Len(s) = 5 => s \in [1 .. 5 -> Words]
  BY LenProperties
<1>3. QED
  BY <1>1, <1>2

(* A word is shifted in at the end of a register. *)
LEMMA ShiftedIn ==
    ASSUME NEW reg \in [1 .. 5 -> Words], NEW x \in Words
    PROVE  /\ Append(Tail(reg), x) \in [1 .. 5 -> Words]
           /\ \A i \in 1 .. 4 : Append(Tail(reg), x)[i] = reg[i + 1]
           /\ Append(Tail(reg), x)[5] = x
<1>1. reg \in Seq(Words) /\ Len(reg) = 5 /\ reg # <<>>
  BY Registers
<1>2. PICK n \in Nat : n = 4
  OBVIOUS
<1>3. Tail(reg) \in Seq(Words) /\ Len(Tail(reg)) = n
      /\ \A i \in 1 .. n : Tail(reg)[i] = reg[i + 1]
  <2>1. Len(reg) = n + 1
    BY <1>1, <1>2
  <2>2. QED
    BY <1>1, <2>1, HeadTailProperties
<1>4. /\ Append(Tail(reg), x) \in Seq(Words) /\ Len(Append(Tail(reg), x)) = 5
      /\ \A i \in 1 .. 4 : Append(Tail(reg), x)[i] = reg[i + 1]
      /\ Append(Tail(reg), x)[5] = x
  <2>1. ASSUME NEW s \in Seq(Words), Len(s) = n
        PROVE  /\ Append(s, x) \in Seq(Words) /\ Len(Append(s, x)) = n + 1
               /\ \A i \in 1 .. n : Append(s, x)[i] = s[i]
               /\ Append(s, x)[n + 1] = x
    BY <2>1, AppendProperties
  <2>2. n + 1 = 5
    BY <1>2
  <2>3. QED
    BY <1>2, <1>3, <2>1, <2>2
<1>5. Append(Tail(reg), x) \in [1 .. 5 -> Words]
  BY <1>4, Registers
<1>6. QED
  BY <1>4, <1>5

(* Taking the next word off the rest of a frame. *)
LEMMA RestNext ==
    ASSUME NEW ws \in Seq(Words), NEW p \in Packets, NEW k \in 1 .. 6,
           Rest(ws, p, k), ws # <<>>
    PROVE  /\ k <= 5 => Head(ws) = Word(p, k) /\ Rest(Tail(ws), p, k + 1)
           /\ k = 6 => Head(ws) = WasteWord /\ Rest(Tail(ws), p, 6)
           /\ Tail(ws) \in Seq(Words) /\ Head(ws) \in Words
<1>1. Tail(ws) \in Seq(Words) /\ Len(Tail(ws)) = Len(ws) - 1 /\ Head(ws) \in Words
      /\ \A i \in 1 .. Len(Tail(ws)) : Tail(ws)[i] = ws[i + 1]
  BY HeadTailProperties
<1>2. Len(ws) \in Nat /\ Len(ws) >= 1 /\ Head(ws) = ws[1]
  OBVIOUS
<1>3. Head(ws) = IF k <= 5 THEN Word(p, k) ELSE WasteWord
  BY <1>2 DEF Rest
<1>4. CASE k <= 5
  BY <1>1, <1>2, <1>3, <1>4 DEF Rest
<1>5. CASE k = 6
  BY <1>1, <1>2, <1>3, <1>5 DEF Rest
<1>6. QED
  BY <1>1, <1>4, <1>5

(* A new frame: its first word is given out, the others and the waste follow. *)
LEMMA RestOfFrame ==
    ASSUME NEW p \in Packets, NEW w \in Wastes
    PROVE  Tail(Frame(p, w)) \in Seq(Words) /\ Rest(Tail(Frame(p, w)), p, 2)
<1> DEFINE ww == [i \in 1 .. w |-> WasteWord]
<1> DEFINE f == Frame(p, w)
<1>1. w \in Nat
  BY CpxAssumption
<1>2. WordsOf(p) \in Seq(Words) /\ Len(WordsOf(p)) = 5
      /\ \A n \in 1 .. 5 : WordsOf(p)[n] = Word(p, n)
  BY WordFacts DEF WordsOf
<1>3. ww \in Seq(Words) /\ Len(ww) = w /\ \A n \in 1 .. w : ww[n] = WasteWord
  BY <1>1, WordFacts
<1> HIDE DEF ww
<1>4. f = WordsOf(p) \o ww
  BY DEF Frame, ww
<1>5. f \in Seq(Words) /\ Len(f) = 5 + w
      /\ \A n \in 1 .. 5 + w : f[n] = IF n <= 5 THEN Word(p, n) ELSE WasteWord
  <2>1. PICK k \in Nat : k = 5
    OBVIOUS
  <2>2. ASSUME NEW s \in Seq(Words), Len(s) = k, NEW t \in Seq(Words), Len(t) = w
        PROVE  /\ s \o t \in Seq(Words) /\ Len(s \o t) = k + w
               /\ \A n \in 1 .. k + w : (s \o t)[n] = IF n <= k THEN s[n] ELSE t[n - k]
    BY <2>2, <1>1, ConcatProperties
  <2>3. f \in Seq(Words) /\ Len(f) = k + w
        /\ \A n \in 1 .. k + w : f[n] = IF n <= k THEN WordsOf(p)[n] ELSE ww[n - k]
    BY <1>1, <1>2, <1>3, <1>4, <2>1, <2>2
  <2>4. QED
    BY <1>1, <1>2, <1>3, <2>1, <2>3
<1> HIDE DEF f
<1>6. f # <<>>
  BY <1>1, <1>5
<1>7. Tail(f) \in Seq(Words) /\ Len(Tail(f)) = 4 + w
      /\ \A i \in 1 .. 4 + w : Tail(f)[i] = f[i + 1]
  BY <1>1, <1>5, <1>6, HeadTailProperties
<1>8. Rest(Tail(f), p, 2)
  BY <1>1, <1>5, <1>7 DEF Rest
<1>9. QED
  BY <1>7, <1>8 DEF f

-----------------------------------------------------------------------------
(* Types. *)

(* The reset state is well typed, *)
LEMMA TypeInit == Init => TypeOK
<1> SUFFICES ASSUME Init PROVE TypeOK
  OBVIOUS
<1>1. inputReg \in [1 .. 5 -> Words] /\ outputReg \in [1 .. 5 -> Words] /\ word \in Words
  BY WordFacts DEF Init
<1>2. owed \in Seq(Packets) /\ Len(owed) <= MaxOwed
  BY DEF Init, MaxOwed
<1>3. feed \in [words : Seq(Words), pair : BOOLEAN]
  BY DEF Init
<1>4. QED
  <2>1. atomicFirst \in BOOLEAN /\ atomicSecond \in BOOLEAN /\ atomicSecondD1 \in BOOLEAN
        /\ atomicSecondD2 \in BOOLEAN /\ shiftOut \in BOOLEAN /\ shiftOutD1 \in BOOLEAN
    BY DEF Init
  <2>2. state = "IDLE" /\ count = 0
    BY DEF Init
  <2>3. QED
    BY <1>1, <1>2, <1>3, <2>1, <2>2 DEF TypeOK

(* What the sender does in a cycle. *)
LEMMA FeedType ==
    ASSUME TypeOK, Feed
    PROVE  feed' \in [words : Seq(Words), pair : BOOLEAN] /\ word' \in Words
<1>1. feed \in [words : Seq(Words), pair : BOOLEAN]
  BY DEF TypeOK
<1>2. CASE feed' = feed /\ word' = NoWord
  BY <1>1, <1>2, WordFacts
<1>3. CASE /\ feed.words # <<>>
           /\ word' = Head(feed.words)
           /\ feed' = [feed EXCEPT !.words = Tail(@)]
  <2>1. Head(feed.words) \in Words /\ Tail(feed.words) \in Seq(Words)
    BY <1>1, <1>3, HeadTailProperties
  <2>2. QED
    BY <1>1, <1>3, <2>1
<1>4. CASE /\ feed.words = <<>>
           /\ \E p \in NewPackets, w \in Wastes :
                /\ word' = Word(p, 1)
                /\ feed' = [words |-> Tail(Frame(p, w)), pair |-> p.atom]
  <2>1. PICK p \in NewPackets, w \in Wastes :
                /\ word' = Word(p, 1)
                /\ feed' = [words |-> Tail(Frame(p, w)), pair |-> p.atom]
    BY <1>4
  <2>2. p \in Packets
    BY DEF NewPackets
  <2>3. p.atom \in BOOLEAN
    BY <2>2, CpxAssumption DEF Packets
  <2>4. word' \in Words
    BY <2>1, <2>2, WordFacts
  <2>5. Tail(Frame(p, w)) \in Seq(Words)
    BY <2>2, RestOfFrame
  <2>6. QED
    BY <2>1, <2>3, <2>4, <2>5
<1>5. QED
  BY <1>2, <1>3, <1>4 DEF Feed

(* What the history does in a cycle. *)
LEMMA OweType ==
    ASSUME TypeOK, Owe
    PROVE  owed' \in Seq(Packets) /\ Len(owed') <= MaxOwed
<1> DEFINE left == IF Ready /\ owed # <<>> THEN Tail(owed) ELSE owed
<1>1. owed \in Seq(Packets) /\ Len(owed) <= 3 /\ word.pkt \in Packets
  BY WordFields DEF TypeOK, MaxOwed
<1>2. left \in Seq(Packets) /\ Len(left) <= 3
  BY <1>1
<1>3. \/ owed' = left
      \/ Len(left) < 3 /\ owed' = Append(left, word.pkt)
  BY DEF Owe, MaxOwed
<1> HIDE DEF left
<1>4. QED
  BY <1>1, <1>2, <1>3, AppendProperties DEF MaxOwed

(* and a clock edge keeps it so. *)
LEMMA TypeStep == TypeOK /\ [Clock]_vars => TypeOK'
<1> SUFFICES ASSUME TypeOK, [Clock]_vars PROVE TypeOK'
  OBVIOUS
<1>1. CASE Clock
  <2>1. feed' \in [words : Seq(Words), pair : BOOLEAN] /\ word' \in Words
    BY <1>1, FeedType DEF Clock
  <2>2. owed' \in Seq(Packets) /\ Len(owed') <= MaxOwed
    BY <1>1, OweType DEF Clock
  <2>3. inputReg' \in [1 .. 5 -> Words]
    BY <1>1, ShiftedIn DEF Clock, TakeWord, TypeOK
  <2>4. outputReg' \in [1 .. 5 -> Words]
    BY <1>1 DEF Clock, TypeOK
  <2>5. state' \in {"IDLE", "SHIFT", "AT_WAIT"}
    BY <1>1 DEF Clock, Idle, Shift, AtomicWait, TypeOK
  <2>6. count' \in 0 .. 3
    BY <1>1 DEF Clock, Idle, Shift, AtomicWait, TypeOK
  <2>7. Begins \in BOOLEAN
    BY DEF Begins
  <2>8. word.pkt.atom \in BOOLEAN
    BY WordFields, CpxAssumption DEF TypeOK, Packets
  <2>9. atomicFirst' \in BOOLEAN
    BY <1>1, <2>7, <2>8 DEF Clock, Idle, Shift, AtomicWait, TypeOK
  <2>10. atomicSecond' \in BOOLEAN
    BY <1>1 DEF Clock, Idle, Shift, AtomicWait, TypeOK
  <2>11. shiftOut' \in BOOLEAN
    BY <1>1 DEF Clock, Idle, Shift, AtomicWait, TypeOK
  <2>12. atomicSecondD1' \in BOOLEAN /\ atomicSecondD2' \in BOOLEAN /\ shiftOutD1' \in BOOLEAN
    BY <1>1 DEF Clock, TypeOK
  <2>13. QED
    BY <2>1, <2>2, <2>3, <2>4, <2>5, <2>6, <2>9, <2>10, <2>11, <2>12 DEF TypeOK
<1>2. CASE UNCHANGED vars
  BY <1>2 DEF vars, smVars, TypeOK
<1>3. QED
  BY <1>1, <1>2

(***************************************************************************)
(* Every register of mb2cpx and its state machine keeps its type: the      *)
(* count of the words to come stays within its two bits.                   *)
(***************************************************************************)
THEOREM TypeCorrect == Spec => []TypeOK
BY TypeInit, TypeStep, PTL DEF Spec

-----------------------------------------------------------------------------
(* The steps of the state machine, seen with the packet it reads. *)

Dropped ==
    /\ state # "SHIFT" /\ word \in {NoWord, WasteWord} /\ state' = state
    /\ ~shiftOut' /\ (atomicFirst' <=> atomicFirst) /\ (atomicSecond' <=> atomicSecond)

Started(p) ==
    /\ state # "SHIFT" /\ word = Word(p, 1) /\ state' = "SHIFT" /\ count' = 3
    /\ ~shiftOut' /\ (atomicFirst' <=> p.atom) /\ (atomicSecond' <=> p.second)

Starved ==
    /\ state = "SHIFT" /\ word = NoWord /\ state' = "SHIFT" /\ count' = count
    /\ ~shiftOut' /\ (atomicFirst' <=> atomicFirst) /\ (atomicSecond' <=> atomicSecond)

Taken(p) ==
    /\ state = "SHIFT" /\ word = Word(p, 5 - count) /\ count > 0
    /\ state' = "SHIFT" /\ count' = count - 1
    /\ ~shiftOut' /\ (atomicFirst' <=> atomicFirst) /\ (atomicSecond' <=> atomicSecond)

Completed(p) ==
    /\ state = "SHIFT" /\ word = Word(p, 5) /\ count = 0
    /\ state' = IF p.atom THEN "AT_WAIT" ELSE "IDLE"
    /\ shiftOut' /\ ~atomicFirst' /\ (atomicSecond' <=> p.atom)

(* A first word is one that begins a packet, and no other word does. *)
LEMMA BeginsFacts ==
    ASSUME TypeOK, NEW p \in Packets
    PROVE  /\ word = Word(p, 1) => Begins /\ word.exists /\ word.valid /\ word.pkt = p
           /\ \A n \in 2 .. 5 :
                word = Word(p, n) => ~Begins /\ word.exists /\ word.valid
           /\ word \in {NoWord, WasteWord} => ~Begins /\ ~(word.exists /\ word.valid)
<1>1. \A n \in 1 .. 5 : /\ Word(p, n).exists /\ Word(p, n).valid
                        /\ Word(p, n).pkt = p
                        /\ Word(p, n).control <=> n = 1
  BY WordFacts
<1>2. \A n \in 2 .. 5 : n \in 1 .. 5 /\ n # 1
  OBVIOUS
<1>3. 1 \in 1 .. 5
  OBVIOUS
<1>4. word = Word(p, 1) => Begins /\ word.exists /\ word.valid /\ word.pkt = p
  BY <1>1, <1>3 DEF Begins
<1>5. \A n \in 2 .. 5 : word = Word(p, n) => ~Begins /\ word.exists /\ word.valid
  BY <1>1, <1>2 DEF Begins
<1>6. word \in {NoWord, WasteWord} => ~Begins /\ ~(word.exists /\ word.valid)
  BY WordFacts DEF Begins
<1>7. QED
  BY <1>4, <1>5, <1>6

(* The FSM does one of these five. *)
LEMMA FsmCases ==
    ASSUME TypeOK, NEW p \in Packets, FeedInv(p), PairInv(p), Clock
    PROVE  Dropped \/ Started(p) \/ Starved \/ Taken(p) \/ Completed(p)
<1>1. Idle \/ Shift \/ AtomicWait
  BY DEF Clock
<1>2. state \in {"IDLE", "SHIFT", "AT_WAIT"} /\ count \in 0 .. 3
  BY DEF TypeOK
<1>3. CASE state # "SHIFT" /\ word \in {NoWord, WasteWord}
  <2>1. ~Begins
    BY <1>3, BeginsFacts
  <2>2. state' = state
    BY <1>1, <1>3, <2>1 DEF Idle, Shift, AtomicWait
  <2>3. ~shiftOut'
    BY <1>1, <1>3 DEF Idle, Shift, AtomicWait
  <2>4. CASE state = "IDLE"
    <3>1. ~atomicFirst /\ ~atomicSecond
      BY <2>4 DEF PairInv
    <3>2. atomicFirst' = (Begins /\ word.pkt.atom) /\ atomicSecond' = FALSE
      BY <1>1, <2>4 DEF Idle, Shift, AtomicWait
    <3>3. ~atomicFirst' /\ ~atomicSecond'
      BY <3>2, <2>1
    <3>4. QED
      BY <1>3, <2>2, <2>3, <3>1, <3>3 DEF Dropped
  <2>5. CASE state = "AT_WAIT"
    <3>1. atomicFirst' = atomicFirst /\ atomicSecond' = atomicSecond
      BY <1>1, <2>5 DEF Idle, Shift, AtomicWait
    <3>2. QED
      BY <1>3, <2>2, <2>3, <3>1 DEF Dropped
  <2>6. QED
    BY <1>2, <1>3, <2>4, <2>5
<1>4. CASE state # "SHIFT" /\ word = Word(p, 1)
  <2>1. Begins /\ word.pkt = p
    BY <1>4, BeginsFacts
  <2>2. state' = "SHIFT" /\ count' = 3
    BY <1>1, <1>4, <2>1 DEF Idle, Shift, AtomicWait
  <2>3. ~shiftOut'
    BY <1>1, <1>4 DEF Idle, Shift, AtomicWait
  <2>4. CASE state = "IDLE"
    <3>1. ~p.second
      BY <2>1, <2>4 DEF PairInv
    <3>2. atomicFirst' = (Begins /\ word.pkt.atom) /\ atomicSecond' = FALSE
      BY <1>1, <2>4 DEF Idle, Shift, AtomicWait
    <3>3. (atomicFirst' <=> p.atom) /\ ~atomicSecond'
      BY <3>2, <2>1
    <3>4. QED
      BY <1>4, <2>2, <2>3, <3>1, <3>3 DEF Started
  <2>5. CASE state = "AT_WAIT"
    <3>1. p.second /\ ~p.atom /\ ~atomicFirst /\ atomicSecond
      BY <2>1, <2>5 DEF PairInv
    <3>2. atomicFirst' = atomicFirst /\ atomicSecond' = atomicSecond
      BY <1>1, <2>5 DEF Idle, Shift, AtomicWait
    <3>3. QED
      BY <1>4, <2>2, <2>3, <3>1, <3>2 DEF Started
  <2>6. QED
    BY <1>2, <1>4, <2>4, <2>5
<1>5. CASE state = "SHIFT" /\ word = NoWord
  <2>1. ~word.exists
    BY <1>5, WordFacts
  <2>2. state' = state /\ count' = count
    BY <1>1, <1>5, <2>1 DEF Idle, Shift, AtomicWait
  <2>3. shiftOut' = FALSE /\ atomicFirst' = atomicFirst /\ atomicSecond' = atomicSecond
    BY <1>1, <1>5, <2>1 DEF Idle, Shift, AtomicWait
  <2>4. QED
    BY <1>5, <2>2, <2>3 DEF Starved
<1>6. CASE state = "SHIFT" /\ word = Word(p, 5 - count)
  <2>1. 5 - count \in 2 .. 5
    BY <1>2
  <2>2. word.exists
    BY <1>6, <2>1, BeginsFacts
  <2>3. CASE count > 0
    <3>1. state' = state /\ count' = count - 1
      BY <1>1, <1>6, <2>2, <2>3 DEF Idle, Shift, AtomicWait
    <3>2. shiftOut' = FALSE /\ atomicFirst' = atomicFirst /\ atomicSecond' = atomicSecond
      BY <1>1, <1>6, <2>2, <2>3 DEF Idle, Shift, AtomicWait
    <3>3. QED
      BY <1>6, <2>3, <3>1, <3>2 DEF Taken
  <2>4. CASE ~(count > 0)
    <3>1. count = 0 /\ word = Word(p, 5)
      BY <1>2, <1>6, <2>4
    <3>2. state' = IF atomicFirst THEN "AT_WAIT" ELSE "IDLE"
      BY <1>1, <1>6, <2>2, <2>4 DEF Idle, Shift, AtomicWait
    <3>3. shiftOut' = TRUE /\ atomicFirst' = FALSE /\ atomicSecond' = atomicFirst
      BY <1>1, <1>6, <2>2, <2>4 DEF Idle, Shift, AtomicWait
    <3>4. atomicFirst <=> p.atom
      BY <1>6 DEF PairInv
    <3>5. QED
      BY <1>6, <3>1, <3>2, <3>3, <3>4 DEF Completed
  <2>5. QED
    BY <2>3, <2>4
<1>7. QED
  BY <1>3, <1>4, <1>5, <1>6 DEF FeedInv

-----------------------------------------------------------------------------
(* The sender's step. *)

(* The sender goes on with the frame of p, of which word number k is next, *)
SameFrame(p, k) ==
    /\ feed'.pair = feed.pair
    /\ \/ word' = NoWord /\ Rest(feed'.words, p, k)
       \/ k <= 5 /\ word' = Word(p, k) /\ Rest(feed'.words, p, k + 1)
       \/ k = 6 /\ word' = WasteWord /\ Rest(feed'.words, p, 6)

(* or, past its last word, begins one of r. *)
NewFrame(r) ==
    /\ r.second = feed.pair /\ (r.second => ~r.atom) /\ feed'.pair = r.atom
    /\ word' = Word(r, 1) /\ Rest(feed'.words, r, 2)

(* The sender does one of these two. *)
LEMMA FeedCases ==
    ASSUME TypeOK, Feed, NEW p \in Packets, NEW k \in 1 .. 6, Rest(feed.words, p, k)
    PROVE  SameFrame(p, k) \/ (k = 6 /\ \E r \in Packets : NewFrame(r))
<1>1. feed \in [words : Seq(Words), pair : BOOLEAN]
  BY DEF TypeOK
<1>2. CASE feed' = feed /\ word' = NoWord
  BY <1>2 DEF SameFrame
<1>3. CASE /\ feed.words # <<>>
           /\ word' = Head(feed.words)
           /\ feed' = [feed EXCEPT !.words = Tail(@)]
  <2>1. feed'.words = Tail(feed.words) /\ feed'.pair = feed.pair
    BY <1>1, <1>3
  <2>2. /\ k <= 5 => Head(feed.words) = Word(p, k) /\ Rest(Tail(feed.words), p, k + 1)
        /\ k = 6 => Head(feed.words) = WasteWord /\ Rest(Tail(feed.words), p, 6)
    BY <1>1, <1>3, RestNext
  <2>3. k <= 5 \/ k = 6
    OBVIOUS
  <2>4. QED
    BY <1>3, <2>1, <2>2, <2>3 DEF SameFrame
<1>4. CASE /\ feed.words = <<>>
           /\ \E r \in NewPackets, w \in Wastes :
                /\ word' = Word(r, 1)
                /\ feed' = [words |-> Tail(Frame(r, w)), pair |-> r.atom]
  <2>1. PICK r \in NewPackets, w \in Wastes :
                /\ word' = Word(r, 1)
                /\ feed' = [words |-> Tail(Frame(r, w)), pair |-> r.atom]
    BY <1>4
  <2>2. r \in Packets /\ r.second = feed.pair /\ (r.second => ~r.atom)
    BY DEF NewPackets
  <2>3. feed'.words = Tail(Frame(r, w)) /\ feed'.pair = r.atom
    BY <2>1
  <2>4. Rest(feed'.words, r, 2)
    BY <2>2, <2>3, RestOfFrame
  <2>5. k = 6
    BY <1>4 DEF Rest
  <2>6. NewFrame(r)
    BY <2>1, <2>2, <2>3, <2>4 DEF NewFrame
  <2>7. QED
    BY <2>2, <2>5, <2>6
<1>5. QED
  BY <1>2, <1>3, <1>4 DEF Feed

(* What the FSM has read fits what the sender has given out. *)
LEMMA NextWord ==
    ASSUME TypeOK, NEW p \in Packets, FeedInv(p)
    PROVE  /\ Dropped => Rest(feed.words, p, 6)
           /\ Started(p) => Rest(feed.words, p, 2)
           /\ Starved => Rest(feed.words, p, 5 - count)
           /\ Taken(p) => Rest(feed.words, p, 6 - count)
           /\ Completed(p) => Rest(feed.words, p, 6)
<1>1. count \in 0 .. 3
  BY DEF TypeOK
<1>2. \A n \in 1 .. 5 : NoWord # Word(p, n)
  BY WordFacts
<1>3. WasteWord # Word(p, 1)
  BY WordFacts
<1>4. 5 - count \in 1 .. 5
  BY <1>1
<1>5. Dropped => Rest(feed.words, p, 6)
  BY <1>2, <1>3 DEF Dropped, FeedInv
<1>6. Started(p) => Rest(feed.words, p, 2)
  BY <1>2, <1>3 DEF Started, FeedInv
<1>7. Starved => Rest(feed.words, p, 5 - count)
  BY <1>2, <1>4 DEF Starved, FeedInv
<1>8. Taken(p) => Rest(feed.words, p, 6 - count)
  BY <1>2, <1>4 DEF Taken, FeedInv
<1>9. Completed(p) => Rest(feed.words, p, 6)
  BY <1>2, <1>4 DEF Completed, FeedInv
<1>10. QED
  BY <1>5, <1>6, <1>7, <1>8, <1>9

(* After a step with the same frame, p is still the packet to speak of. *)
LEMMA SameFrameStep ==
    ASSUME TypeOK, NEW p \in Packets, FeedInv(p), PairInv(p), Clock, NEW k \in 1 .. 6,
           SameFrame(p, k),
           \/ Dropped /\ k = 6
           \/ Started(p) /\ k = 2
           \/ Starved /\ k = 5 - count
           \/ Taken(p) /\ k = 6 - count
           \/ Completed(p) /\ k = 6
    PROVE  FeedInv(p)' /\ PairInv(p)'
<1> USE DEF SameFrame
<1>1. TypeOK'
  BY TypeStep
<1>2. count \in 0 .. 3
  BY DEF TypeOK
<1>3. FeedInv(p)'
  <2>1. CASE (Dropped \/ Completed(p)) /\ k = 6
    <3>1. state' # "SHIFT"
      BY <2>1 DEF Dropped, Completed
    <3>2. word' \in {NoWord, WasteWord} /\ Rest(feed'.words, p, 6)
      BY <2>1
    <3>3. QED
      BY <3>1, <3>2 DEF FeedInv
  <2>2. CASE Started(p) /\ k = 2
    <3>1. state' = "SHIFT" /\ k = 5 - count' /\ k + 1 = 6 - count'
      BY <2>2 DEF Started
    <3>2. QED
      BY <2>2, <3>1 DEF FeedInv
  <2>3. CASE Starved /\ k = 5 - count
    <3>1. state' = "SHIFT" /\ k = 5 - count' /\ k + 1 = 6 - count' /\ k # 6
      BY <2>3, <1>2 DEF Starved
    <3>2. QED
      BY <3>1 DEF FeedInv
  <2>4. CASE Taken(p) /\ k = 6 - count
    <3>1. state' = "SHIFT" /\ k = 5 - count' /\ k + 1 = 6 - count' /\ k # 6
      BY <2>4, <1>2 DEF Taken
    <3>2. QED
      BY <3>1 DEF FeedInv
  <2>5. QED
    BY <2>1, <2>2, <2>3, <2>4
<1>4. PairInv(p)'
  <2>1. p.second => ~p.atom
    BY DEF PairInv
  <2>2. feed'.pair = feed.pair
    OBVIOUS
  <2>3. CASE Dropped /\ k = 6
    <3>1. ~Begins /\ ~Begins'
      BY <2>3, <1>1, BeginsFacts, WordFacts DEF Dropped, Begins
    <3>2. QED
      BY <2>1, <2>2, <2>3, <3>1 DEF PairInv, Dropped
  <2>4. CASE Started(p)
    <3>1. Begins
      BY <2>4, BeginsFacts DEF Started
    <3>2. QED
      BY <2>1, <2>2, <2>4, <3>1 DEF PairInv, Started
  <2>5. CASE Starved \/ Taken(p)
    <3>1. state = "SHIFT" /\ state' = "SHIFT"
          /\ (atomicFirst' <=> atomicFirst) /\ (atomicSecond' <=> atomicSecond)
      BY <2>5 DEF Starved, Taken
    <3>2. QED
      BY <2>1, <2>2, <3>1 DEF PairInv
  <2>6. CASE Completed(p) /\ k = 6
    <3>1. ~Begins'
      BY <2>6, WordFacts DEF Begins
    <3>2. QED
      BY <2>1, <2>2, <2>6, <3>1 DEF PairInv, Completed
  <2>7. QED
    BY <2>3, <2>4, <2>5, <2>6
<1>5. QED
  BY <1>3, <1>4

(* After the first word of r, r is. *)
LEMMA NewFrameStep ==
    ASSUME TypeOK, NEW p \in Packets, FeedInv(p), PairInv(p), NEW r \in Packets,
           NewFrame(r), Dropped \/ Completed(p)
    PROVE  state' # "SHIFT" /\ FeedInv(r)' /\ PairInv(r)'
<1> USE DEF NewFrame
<1>1. state' # "SHIFT"
  BY DEF Dropped, Completed
<1>2. FeedInv(r)'
  BY <1>1 DEF FeedInv
<1>3. Begins'
  BY WordFacts DEF Begins
<1>4. feed.pair \in BOOLEAN /\ r.atom \in BOOLEAN /\ r.second \in BOOLEAN
  BY CpxAssumption DEF TypeOK, Packets
<1>5. feed'.pair <=> r.atom
  OBVIOUS
<1>6. r.second <=> feed.pair
  OBVIOUS
<1>7. r.second => ~r.atom
  OBVIOUS
<1>8. (state' = "IDLE" => ~atomicSecond') /\ (state' = "AT_WAIT" => atomicSecond')
      /\ ~atomicFirst' /\ (feed.pair <=> atomicSecond')
  <2>1. CASE Dropped
    <3>1. ~Begins
      BY <2>1, BeginsFacts DEF Dropped
    <3>2. feed.pair <=> atomicSecond
      BY <2>1, <3>1 DEF PairInv, Dropped
    <3>3. state \in {"IDLE", "AT_WAIT"} /\ state' = state
      BY <2>1 DEF Dropped, TypeOK
    <3>4. (atomicFirst' <=> atomicFirst) /\ (atomicSecond' <=> atomicSecond)
      BY <2>1 DEF Dropped
    <3>5. (state = "IDLE" => ~atomicSecond) /\ (state = "AT_WAIT" => atomicSecond) /\ ~atomicFirst
      BY <3>3 DEF PairInv
    <3>6. QED
      BY <3>2, <3>3, <3>4, <3>5
  <2>2. CASE Completed(p)
    <3>1. feed.pair <=> p.atom
      BY <2>2 DEF PairInv, Completed
    <3>2. ~atomicFirst' /\ (atomicSecond' <=> p.atom)
      BY <2>2 DEF Completed
    <3>3. (state' = "IDLE" => ~p.atom) /\ (state' = "AT_WAIT" => p.atom)
      BY <2>2 DEF Completed
    <3>4. QED
      BY <3>1, <3>2, <3>3
  <2>3. QED
    BY <2>1, <2>2
<1>9. PairInv(r)'
  BY <1>1, <1>3, <1>5, <1>6, <1>7, <1>8, Zenon DEF PairInv
<1>10. QED
  BY <1>1, <1>2, <1>9

(* The input register collects the words of p in order. *)
LEMMA RegStep ==
    ASSUME TypeOK, NEW p \in Packets, RegInv(p), Clock,
           Dropped \/ Started(p) \/ Starved \/ Taken(p) \/ Completed(p)
    PROVE  RegInv(p)' /\ (Completed(p) => inputReg' = WordsOf(p))
<1>1. count \in 0 .. 3 /\ inputReg \in [1 .. 5 -> Words] /\ word \in Words
  BY DEF TypeOK
<1>2. inputReg' = IF word.exists /\ word.valid THEN Append(Tail(inputReg), word) ELSE inputReg
  BY DEF Clock, TakeWord
<1>3. CASE Dropped
  BY <1>3 DEF Dropped, RegInv, Completed
<1>4. CASE Starved
  <2>1. inputReg' = inputReg
    BY <1>2, <1>4, BeginsFacts DEF Starved
  <2>2. QED
    BY <1>4, <2>1 DEF Starved, RegInv, Completed
<1>5. CASE Started(p)
  <2>1. inputReg'[5] = Word(p, 1)
    BY <1>1, <1>2, <1>5, BeginsFacts, ShiftedIn DEF Started
  <2>2. count' = 3 /\ ~Completed(p)
    BY <1>5 DEF Started, Completed
  <2>3. QED
    BY <2>1, <2>2 DEF RegInv
<1>6. CASE Taken(p) \/ Completed(p)
  <2>1. word = Word(p, 5 - count) /\ 5 - count \in 2 .. 5 /\ state = "SHIFT"
    BY <1>1, <1>6 DEF Taken, Completed
  <2>2. inputReg' = Append(Tail(inputReg), word)
    BY <1>2, <2>1, BeginsFacts
  <2>3. /\ inputReg' \in [1 .. 5 -> Words]
        /\ \A i \in 1 .. 4 : inputReg'[i] = inputReg[i + 1]
        /\ inputReg'[5] = Word(p, 5 - count)
    BY <1>1, <2>1, <2>2, ShiftedIn
  <2>4. \A i \in count + 2 .. 5 : inputReg[i] = Word(p, i - 1 - count)
    BY <2>1 DEF RegInv
  <2>5. \A i \in count + 1 .. 5 : inputReg'[i] = Word(p, i - count)
    <3> SUFFICES ASSUME NEW i \in count + 1 .. 5 PROVE inputReg'[i] = Word(p, i - count)
      OBVIOUS
    <3>1. CASE i = 5
      BY <3>1, <2>3
    <3>2. CASE i # 5
      <4>1. i \in 1 .. 4 /\ i + 1 \in count + 2 .. 5 /\ i + 1 - 1 - count = i - count
        BY <1>1, <3>2
      <4>2. QED
        BY <4>1, <2>3, <2>4
    <3>3. QED
      BY <3>1, <3>2
  <2>6. CASE Taken(p)
    <3>1. count' = count - 1
      BY <2>6 DEF Taken
    <3>2. \A i \in count' + 2 .. 5 : i \in count + 1 .. 5 /\ i - 1 - count' = i - count
      BY <1>1, <3>1
    <3>3. RegInv(p)'
      BY <2>5, <3>2 DEF RegInv
    <3>4. QED
      BY <2>6, <3>3 DEF Taken, Completed
  <2>7. CASE Completed(p)
    <3>1. count = 0 /\ state' # "SHIFT"
      BY <2>7 DEF Completed
    <3>2. \A i \in 1 .. 5 : inputReg'[i] = Word(p, i)
      BY <2>5, <3>1
    <3>3. inputReg' = WordsOf(p)
      BY <2>3, <3>2 DEF WordsOf
    <3>4. QED
      BY <3>1, <3>3 DEF RegInv
  <2>8. QED
    BY <1>6, <2>6, <2>7
<1>7. QED
  BY <1>3, <1>4, <1>5, <1>6

-----------------------------------------------------------------------------
(* Delivery. *)

(* The registers that follow others one cycle later. *)
LEMMA Delays ==
    ASSUME Clock
    PROVE  /\ atomicSecondD1' <=> atomicSecond
           /\ atomicSecondD2' <=> atomicSecondD1
           /\ shiftOutD1' <=> shiftOut
           /\ shiftOut => outputReg' = inputReg
           /\ ~shiftOut => outputReg' = outputReg
BY DEF Clock

(* The history, when there is room in it. *)
LEMMA OweCases ==
    ASSUME TypeOK, NEW p \in Packets, Clock, NEW left \in Seq(Packets),
           left = IF Ready /\ owed # <<>> THEN Tail(owed) ELSE owed, Len(left) < MaxOwed,
           Dropped \/ Started(p) \/ Starved \/ Taken(p) \/ Completed(p)
    PROVE  /\ Started(p) /\ ~p.second => owed' = Append(left, p)
           /\ ~(Started(p) /\ ~p.second) => owed' = left
<1>1. owed' = IF Begins /\ ~word.pkt.second /\ Len(left) < MaxOwed
              THEN Append(left, word.pkt) ELSE left
  BY DEF Clock, Owe
<1>2. CASE Started(p)
  <2>1. Begins /\ word.pkt = p
    BY <1>2, BeginsFacts DEF Started
  <2>2. QED
    BY <1>1, <1>2, <2>1
<1>3. CASE ~Started(p)
  <2>1. ~Begins
    <3>1. count \in 0 .. 3
      BY DEF TypeOK
    <3>2. CASE Dropped \/ Starved
      BY <3>2, BeginsFacts DEF Dropped, Starved
    <3>3. CASE Taken(p) \/ Completed(p)
      <4>1. \E n \in 2 .. 5 : word = Word(p, n)
        BY <3>1, <3>3 DEF Taken, Completed
      <4>2. QED
        BY <4>1, BeginsFacts
    <3>4. QED
      BY <1>3, <3>2, <3>3
  <2>2. QED
    BY <1>1, <1>3, <2>1
<1>4. QED
  BY <1>2, <1>3

(* Sequences of at most two packets. *)
LEMMA ShortSeqs ==
    ASSUME NEW p \in Packets, NEW q \in Packets
    PROVE  /\ <<>> \in Seq(Packets) /\ Len(<<>>) < MaxOwed
           /\ <<q>> \in Seq(Packets) /\ <<q>> # <<>> /\ Len(<<q>>) < MaxOwed
           /\ <<q, p>> \in Seq(Packets) /\ <<q, p>> # <<>>
           /\ Tail(<<q>>) = <<>> /\ Tail(<<q, p>>) = <<p>>
           /\ Head(<<q>>) = q /\ Head(<<q, p>>) = q
           /\ Append(<<>>, p) = <<p>> /\ Append(<<q>>, p) = <<q, p>>
<1>1. Append(<<q>>, p) = <<q, p>>
  <2> DEFINE s == <<q>>
             t == <<q, p>>
  <2>1. PICK n \in Nat : n = 1
    OBVIOUS
  <2>2. s \in Seq(Packets) /\ Len(s) = n /\ s[1] = q
    BY <2>1
  <2>3. t \in Seq(Packets) /\ Len(t) = n + 1 /\ t[1] = q /\ t[2] = p
    BY <2>1
  <2> HIDE DEF s, t
  <2>4. /\ Append(s, p) \in Seq(Packets) /\ Len(Append(s, p)) = n + 1
        /\ \A i \in 1 .. n : Append(s, p)[i] = s[i]
        /\ Append(s, p)[n + 1] = p
    BY <2>2, AppendProperties
  <2>5. \A i \in 1 .. n + 1 : i = 1 \/ i = n + 1
    BY <2>1
  <2>6. \A i \in 1 .. n + 1 : Append(s, p)[i] = t[i]
    BY <2>1, <2>2, <2>3, <2>4, <2>5
  <2>7. Append(s, p) = t
    BY <2>3, <2>4, <2>6, SeqEqual
  <2>8. QED
    BY <2>7 DEF s, t
<1>2. QED
  BY <1>1 DEF MaxOwed

(* What the five steps do to the flags. *)
LEMMA FsmFlags ==
    ASSUME TypeOK, NEW p \in Packets, PairInv(p),
           Dropped \/ Started(p) \/ Starved \/ Taken(p) \/ Completed(p)
    PROVE  /\ Started(p) => /\ p.second <=> atomicSecond
                            /\ atomicSecond' <=> atomicSecond
           /\ Completed(p) => p.second <=> atomicSecond
           /\ Completed(p) /\ atomicSecond => ~atomicSecond' /\ state' = "IDLE"
           /\ ~Completed(p) => ~shiftOut' /\ (atomicSecond' <=> atomicSecond)
           /\ Completed(p) => shiftOut' /\ state = "SHIFT" /\ state' # "SHIFT"
           /\ Dropped => state # "SHIFT" /\ state' = state
           /\ Started(p) => state # "SHIFT" /\ state' = "SHIFT" /\ count' = 3
           /\ Starved \/ Taken(p) => state = "SHIFT" /\ state' = "SHIFT"
           /\ state = "IDLE" => ~atomicSecond
           /\ state # "SHIFT" /\ ~atomicSecond => state = "IDLE"
<1>1. Started(p) => (p.second <=> atomicSecond)
  <2> SUFFICES ASSUME Started(p) PROVE p.second <=> atomicSecond
    OBVIOUS
  <2>1. Begins /\ state \in {"IDLE", "AT_WAIT"}
    BY BeginsFacts DEF Started, TypeOK
  <2>2. QED
    BY <2>1 DEF PairInv
<1>2. Started(p) => (atomicSecond' <=> atomicSecond)
  BY <1>1 DEF Started
<1>3. Completed(p) => (p.second <=> atomicSecond)
  BY DEF Completed, PairInv
<1>4. Completed(p) /\ atomicSecond => ~atomicSecond' /\ state' = "IDLE"
  BY <1>3 DEF Completed, PairInv
<1>5. ~Completed(p) => ~shiftOut' /\ (atomicSecond' <=> atomicSecond)
  BY <1>2 DEF Dropped, Started, Starved, Taken
<1>6. Completed(p) => shiftOut' /\ state = "SHIFT" /\ state' # "SHIFT"
  BY DEF Completed
<1>7. Dropped => state # "SHIFT" /\ state' = state
  BY DEF Dropped
<1>8. Started(p) => state # "SHIFT" /\ state' = "SHIFT" /\ count' = 3
  BY DEF Started
<1>9. Starved \/ Taken(p) => state = "SHIFT" /\ state' = "SHIFT"
  BY DEF Starved, Taken
<1>10. state = "IDLE" => ~atomicSecond
  BY DEF PairInv
<1>11. state # "SHIFT" /\ ~atomicSecond => state = "IDLE"
  BY DEF PairInv, TypeOK
<1>12. QED
  BY <1>1, <1>2, <1>3, <1>4, <1>5, <1>6, <1>7, <1>8, <1>9, <1>10, <1>11, Zenon

(* What is owed stays what the registers hold or are about to. *)
LEMMA DeliveryStep ==
    ASSUME TypeOK, NEW p \in Packets, PairInv(p), RegInv(p), DeliveryInv(p), Clock,
           Dropped \/ Started(p) \/ Starved \/ Taken(p) \/ Completed(p)
    PROVE  DeliveryInv(p)'
<1>1. Completed(p) => inputReg' = WordsOf(p)
  BY RegStep
<1>2. CASE Clear(p)
  <2>1. ~Ready
    BY <1>2 DEF Clear, Ready
  <2>2. owed = IF state = "SHIFT" THEN <<p>> ELSE <<>>
    BY <1>2 DEF Clear
  <2>3. owed' = IF Started(p) THEN Append(owed, p) ELSE owed
    <3>1. owed \in Seq(Packets) /\ Len(owed) < MaxOwed
      BY <2>2, ShortSeqs
    <3>2. Started(p) => ~p.second
      BY <1>2, FsmFlags DEF Clear
    <3>3. QED
      BY <2>1, <3>1, <3>2, OweCases
  <2>4. ~atomicSecondD1' /\ ~shiftOutD1'
    BY <1>2, Delays DEF Clear
  <2>5. CASE Completed(p)
    <3>1. owed' = <<p>>
      BY <2>2, <2>3, <2>5, FsmFlags
    <3>2. Landed(p)'
      BY <1>1, <2>4, <2>5, <3>1, FsmFlags DEF Landed
    <3>3. QED
      BY <3>2 DEF DeliveryInv
  <2>6. CASE ~Completed(p)
    <3>1. ~shiftOut' /\ ~atomicSecond'
      BY <1>2, <2>6, FsmFlags DEF Clear
    <3>2. owed' = IF state' = "SHIFT" THEN <<p>> ELSE <<>>
      BY <2>2, <2>3, <2>6, FsmFlags, ShortSeqs
    <3>3. Clear(p)'
      BY <2>4, <3>1, <3>2 DEF Clear
    <3>4. QED
      BY <3>3 DEF DeliveryInv
  <2>7. QED
    BY <2>5, <2>6
<1>3. ASSUME NEW q \in Packets, Landed(q) PROVE DeliveryInv(p)'
  <2>1. ~Ready /\ ~Completed(p) /\ ~Starved /\ ~Taken(p)
    BY <1>3, FsmFlags DEF Landed, Ready
  <2>2. /\ Started(p) /\ ~p.second => owed' = <<q, p>>
        /\ ~(Started(p) /\ ~p.second) => owed' = <<q>>
    <3>1. owed = <<q>>
      BY <1>3 DEF Landed
    <3>2. QED
      BY <2>1, <3>1, ShortSeqs, OweCases
  <2>3. ~shiftOut' /\ (atomicSecond' <=> atomicSecond) /\ (atomicSecondD1' <=> atomicSecond)
        /\ shiftOutD1' /\ ~atomicSecondD2'
    BY <1>3, <2>1, FsmFlags, Delays, Zenon DEF Landed
  <2>4. outputReg' = WordsOf(q)
    BY <1>3, Delays DEF Landed
  <2>5. CASE atomicSecond
    <3>1. owed' = <<q>>
      BY <2>2, <2>5, FsmFlags
    <3>2. Held(q)'
      BY <2>3, <2>4, <2>5, <3>1 DEF Held
    <3>3. QED
      BY <3>2 DEF DeliveryInv
  <2>6. CASE ~atomicSecond
    <3>1. owed' = IF state' = "SHIFT" THEN <<q, p>> ELSE <<q>>
      BY <2>1, <2>2, <2>6, FsmFlags
    <3>2. state' = "SHIFT" => count' = 3
      BY <2>1, FsmFlags
    <3>3. Single(p, q)'
      BY <2>3, <2>4, <2>6, <3>1, <3>2 DEF Single
    <3>4. QED
      BY <3>3 DEF DeliveryInv
  <2>7. QED
    BY <2>5, <2>6
<1>4. ASSUME NEW q \in Packets, Single(p, q) PROVE DeliveryInv(p)'
  <2>1. Ready
    BY <1>4 DEF Single, Ready
  <2>2. ~Completed(p)
    BY <1>4 DEF Single, Completed
  <2>3. owed' = IF state' = "SHIFT" THEN <<p>> ELSE <<>>
    <3> DEFINE left == IF state = "SHIFT" THEN <<p>> ELSE <<>>
    <3>1. left \in Seq(Packets) /\ Len(left) < MaxOwed
      BY ShortSeqs
    <3>2. left = IF Ready /\ owed # <<>> THEN Tail(owed) ELSE owed
      BY <1>4, <2>1, ShortSeqs DEF Single
    <3>3. Started(p) => ~p.second
      BY <1>4, FsmFlags DEF Single
    <3>4. owed' = IF Started(p) THEN Append(left, p) ELSE left
      BY <3>1, <3>2, <3>3, OweCases
    <3>5. QED
      BY <2>2, <3>4, FsmFlags, ShortSeqs
  <2>4. ~shiftOut' /\ ~atomicSecond' /\ ~atomicSecondD1' /\ ~shiftOutD1'
    BY <1>4, <2>2, FsmFlags, Delays DEF Single
  <2>5. Clear(p)'
    BY <2>3, <2>4 DEF Clear
  <2>6. QED
    BY <2>5 DEF DeliveryInv
<1>5. ASSUME NEW q \in Packets, Held(q) PROVE DeliveryInv(p)'
  <2>1. ~Ready
    BY <1>5 DEF Held, Ready
  <2>2. owed' = <<q>>
    <3>1. owed = <<q>>
      BY <1>5 DEF Held
    <3>2. Started(p) => p.second
      BY <1>5, FsmFlags DEF Held
    <3>3. QED
      BY <2>1, <3>1, <3>2, ShortSeqs, OweCases
  <2>3. atomicSecondD1' /\ outputReg' = WordsOf(q)
    BY <1>5, Delays DEF Held
  <2>4. CASE Completed(p)
    <3>1. Paired(q)'
      BY <1>5, <2>2, <2>3, <2>4, FsmFlags DEF Held, Paired
    <3>2. QED
      BY <3>1 DEF DeliveryInv
  <2>5. CASE ~Completed(p)
    <3>1. Held(q)'
      BY <1>5, <2>2, <2>3, <2>5, FsmFlags DEF Held
    <3>2. QED
      BY <3>1 DEF DeliveryInv
  <2>6. QED
    BY <2>4, <2>5
<1>6. ASSUME NEW q \in Packets, Paired(q) PROVE DeliveryInv(p)'
  <2>1. Ready
    BY <1>6 DEF Paired, Ready
  <2>2. ~Completed(p) /\ ~Starved /\ ~Taken(p)
    BY <1>6, FsmFlags DEF Paired
  <2>3. owed' = IF state' = "SHIFT" THEN <<p>> ELSE <<>>
    <3>1. <<>> = IF Ready /\ owed # <<>> THEN Tail(owed) ELSE owed
      BY <1>6, <2>1, ShortSeqs DEF Paired
    <3>2. Started(p) => ~p.second
      BY <1>6, FsmFlags DEF Paired
    <3>3. owed' = IF Started(p) THEN Append(<<>>, p) ELSE <<>>
      BY <3>1, <3>2, ShortSeqs, OweCases
    <3>4. state # "SHIFT"
      BY <1>6 DEF Paired
    <3>5. QED
      BY <2>2, <3>3, <3>4, FsmFlags, ShortSeqs
  <2>4. ~shiftOut' /\ ~atomicSecond' /\ ~atomicSecondD1' /\ atomicSecondD2'
    BY <1>6, <2>2, FsmFlags, Delays DEF Paired
  <2>5. Clear(p)'
    BY <2>3, <2>4 DEF Clear
  <2>6. QED
    BY <2>5 DEF DeliveryInv
<1>7. QED
  BY <1>2, <1>3, <1>4, <1>5, <1>6 DEF DeliveryInv

-----------------------------------------------------------------------------
(* The theorem. *)

(* The invariant holds at first, *)
LEMMA InvInit == Init => IInv
<1> SUFFICES ASSUME Init PROVE IInv
  OBVIOUS
<1>1. PICK p \in Packets : ~p.second
  <2>1. [AnyPacket EXCEPT !.second = FALSE] \in Packets
    BY CpxAssumption DEF AnyPacket, Packets
  <2>2. AnyPacket \in Packets /\ ~AnyPacket.second
    BY CpxAssumption DEF AnyPacket, Packets
  <2>3. QED
    BY <2>2
<1>2. word = NoWord /\ feed.words = <<>> /\ ~feed.pair /\ state = "IDLE" /\ owed = <<>>
  BY DEF Init
<1>3. FeedInv(p)
  BY <1>2 DEF FeedInv, Rest
<1>4. ~Begins
  BY <1>2, WordFacts DEF Begins
<1>5. PairInv(p)
  BY <1>1, <1>2, <1>4 DEF PairInv, Init
<1>6. RegInv(p) /\ Clear(p)
  BY <1>2 DEF RegInv, Clear, Init
<1>7. QED
  BY <1>3, <1>5, <1>6, TypeInit DEF IInv, DeliveryInv

(* and a clock edge preserves it, with p or with the packet just begun. *)
LEMMA InvStep == IInv /\ [Clock]_vars => IInv'
<1> SUFFICES ASSUME IInv, [Clock]_vars PROVE IInv'
  OBVIOUS
<1>1. TypeOK /\ TypeOK'
  BY TypeStep DEF IInv
<1>2. PICK p \in Packets : FeedInv(p) /\ PairInv(p) /\ RegInv(p) /\ DeliveryInv(p)
  BY DEF IInv
<1>3. CASE Clock
  <2>1. Dropped \/ Started(p) \/ Starved \/ Taken(p) \/ Completed(p)
    BY <1>1, <1>2, <1>3, FsmCases
  <2>2. RegInv(p)' /\ DeliveryInv(p)'
    BY <1>1, <1>2, <1>3, <2>1, RegStep, DeliveryStep
  <2>3. count \in 0 .. 3
    BY <1>1 DEF TypeOK
  <2>4. PICK k \in 1 .. 6 : /\ \/ Dropped /\ k = 6
                               \/ Started(p) /\ k = 2
                               \/ Starved /\ k = 5 - count
                               \/ Taken(p) /\ k = 6 - count
                               \/ Completed(p) /\ k = 6
                            /\ Rest(feed.words, p, k)
    <3>1. CASE Dropped \/ Completed(p)
      BY <1>1, <1>2, <3>1, NextWord
    <3>2. CASE Started(p)
      BY <1>1, <1>2, <3>2, NextWord
    <3>3. CASE Starved
      <4>1. 5 - count \in 1 .. 6
        BY <2>3
      <4>2. QED
        BY <1>1, <1>2, <3>3, <4>1, NextWord
    <3>4. CASE Taken(p)
      <4>1. 6 - count \in 1 .. 6
        BY <2>3, <3>4 DEF Taken
      <4>2. QED
        BY <1>1, <1>2, <3>4, <4>1, NextWord
    <3>5. QED
      BY <2>1, <3>1, <3>2, <3>3, <3>4
  <2>5. SameFrame(p, k) \/ (k = 6 /\ \E r \in Packets : NewFrame(r))
    BY <1>1, <1>3, <2>4, FeedCases DEF Clock
  <2>6. CASE SameFrame(p, k)
    <3>1. FeedInv(p)' /\ PairInv(p)'
      BY <1>1, <1>2, <1>3, <2>4, <2>6, SameFrameStep
    <3>2. QED
      BY <1>1, <2>2, <3>1 DEF IInv
  <2>7. ASSUME NEW r \in Packets, NewFrame(r), k = 6 PROVE IInv'
    <3>1. Dropped \/ Completed(p)
      BY <2>3, <2>4, <2>7 DEF Taken
    <3>2. state' # "SHIFT" /\ FeedInv(r)' /\ PairInv(r)'
      BY <1>1, <1>2, <2>7, <3>1, NewFrameStep
    <3>3. RegInv(r)'
      BY <3>2 DEF RegInv
    <3>4. DeliveryInv(r)'
      BY <2>2, <3>2 DEF DeliveryInv, Clear, Single
    <3>5. QED
      BY <1>1, <3>2, <3>3, <3>4 DEF IInv
  <2>8. QED
    BY <2>5, <2>6, <2>7
<1>4. CASE UNCHANGED vars
  <2>1. UNCHANGED <<feed, word, state, count, atomicFirst, atomicSecond, atomicSecondD1,
                    atomicSecondD2, shiftOut, shiftOutD1, inputReg, outputReg, owed>>
    BY <1>4 DEF vars, smVars
  <2>2. QED
    BY <1>1, <1>2, <2>1 DEF IInv, FeedInv, PairInv, Begins, RegInv, DeliveryInv, Clear,
        Landed, Single, Held, Paired
<1>5. QED
  BY <1>3, <1>4

(***************************************************************************)
(* Whatever the traffic and the gaps in it, what mb2cpx announces to the   *)
(* core (cpx_spc_data_rdy_cx2) is the oldest packet not yet delivered,     *)
(* with its five words in place.                                           *)
(***************************************************************************)
THEOREM PacketsInOrder == Spec => []DeliveredInOrder
<1>1. IInv => DeliveredInOrder
  <2> SUFFICES ASSUME IInv, Ready
               PROVE  owed # <<>> /\ outputReg = WordsOf(Head(owed))
    BY DEF DeliveredInOrder
  <2>1. PICK p \in Packets : DeliveryInv(p)
    BY DEF IInv
  <2>2. PICK q \in Packets : Single(p, q) \/ Paired(q)
    BY <2>1 DEF DeliveryInv, Clear, Landed, Held, Ready
  <2>3. outputReg = WordsOf(q) /\ (owed = <<q>> \/ owed = <<q, p>>)
    BY <2>2 DEF Single, Paired
  <2>4. QED
    BY <2>3, ShortSeqs
<1>2. QED
  BY <1>1, InvInit, InvStep, PTL DEF Spec
=============================================================================
