------------------------------- MODULE Mb2cpx -------------------------------
(***************************************************************************)
(* mb2cpx: reassembles the packets that the L2 emulation sends to the core *)
(* from the words of a FIFO, the two packets of an atomic response to be   *)
(* sent together.  One step is one clock edge.  The sender (add_cpx_ctl)   *)
(* puts waste words behind each packet; whether the FIFO has a word in a   *)
(* cycle is open.                                                          *)
(***************************************************************************)
EXTENDS Naturals, Sequences

CONSTANTS
    Data,     \* payloads
    Atoms,    \* values of the atomic bit that occur in the traffic
    Wastes    \* waste words that may follow a packet, three from add_cpx_ctl

ASSUME CpxAssumption ==
    /\ Data # {} /\ FALSE \in Atoms /\ Atoms \subseteq BOOLEAN
    /\ Wastes \subseteq Nat /\ Wastes # {}

MaxOwed == 3  \* bound of the history

VARIABLES
    feed,     \* the sender: packet, next word of it, and what is left after it
    word,     \* the word at the head of the FIFO, NoWord if it has none
    state, count, atomicFirst, atomicSecond, atomicSecondD1, atomicSecondD2,
    shiftOut, shiftOutD1,
    inputReg, outputReg,   \* fsl_input_reg, cpx_output_reg: five words each
    owed      \* history: packets begun at the FIFO's head and not delivered

smVars == <<state, count, atomicFirst, atomicSecond, atomicSecondD1,
            atomicSecondD2, shiftOut, shiftOutD1>>
vars == <<feed, word, smVars, inputReg, outputReg, owed>>

Packets == [data : Data, atom : Atoms, second : BOOLEAN]

(* Word number n of packet p; the control bit is set in the first. *)
Word(p, n) == [exists |-> TRUE, control |-> n = 1, valid |-> TRUE, pkt |-> p, n |-> n]
AnyPacket == [data |-> CHOOSE d \in Data : TRUE, atom |-> FALSE, second |-> FALSE]
WasteWord == [exists |-> TRUE, control |-> FALSE, valid |-> FALSE, pkt |-> AnyPacket, n |-> 0]
NoWord == [WasteWord EXCEPT !.exists = FALSE]
WordsOf(p) == [n \in 1 .. 5 |-> Word(p, n)]

Words == {Word(p, n) : p \in Packets, n \in 1 .. 5} \union {WasteWord, NoWord}

TypeOK ==
    /\ feed \in [words : Seq(Words), pair : BOOLEAN]
    /\ word \in Words
    /\ state \in {"IDLE", "SHIFT", "AT_WAIT"} /\ count \in 0 .. 3
    /\ atomicFirst \in BOOLEAN /\ atomicSecond \in BOOLEAN
    /\ atomicSecondD1 \in BOOLEAN /\ atomicSecondD2 \in BOOLEAN
    /\ shiftOut \in BOOLEAN /\ shiftOutD1 \in BOOLEAN
    /\ inputReg \in [1 .. 5 -> Words] /\ outputReg \in [1 .. 5 -> Words]
    /\ owed \in Seq(Packets) /\ Len(owed) <= MaxOwed

Init ==
    /\ feed = [words |-> <<>>, pair |-> FALSE] /\ word = NoWord
    /\ state = "IDLE" /\ count = 0 /\ atomicFirst = FALSE /\ atomicSecond = FALSE
    /\ atomicSecondD1 = FALSE /\ atomicSecondD2 = FALSE
    /\ shiftOut = FALSE /\ shiftOutD1 = FALSE
    /\ inputReg = [i \in 1 .. 5 |-> WasteWord] /\ outputReg = [i \in 1 .. 5 |-> WasteWord]
    /\ owed = <<>>

(* The five words of the packet and the waste behind it. *)
Frame(p, w) == WordsOf(p) \o [i \in 1 .. w |-> WasteWord]

(* feed.pair: the next packet is the second of an atomic response. *)
NewPackets ==
    {p \in Packets : p.second = feed.pair /\ (p.second => ~p.atom)}

(* The next word of the frame, the first of a new one, or none yet. *)
Feed ==
    \/ feed' = feed /\ word' = NoWord
    \/ /\ feed.words # <<>>
       /\ word' = Head(feed.words)
       /\ feed' = [feed EXCEPT !.words = Tail(@)]
    \/ /\ feed.words = <<>>
       /\ \E p \in NewPackets, w \in Wastes :
            /\ word' = Word(p, 1)
            /\ feed' = [words |-> Tail(Frame(p, w)), pair |-> p.atom]

Begins == word.exists /\ word.control

(* Mutation of Idle: one word too many is counted. *)
IdleLong ==
    /\ state = "IDLE"
    /\ state' = IF Begins THEN "SHIFT" ELSE "IDLE"
    /\ count' = IF Begins THEN 4 ELSE 0
    /\ atomicFirst' = (Begins /\ word.pkt.atom)
    /\ atomicSecond' = FALSE /\ shiftOut' = FALSE

(* IDLE, AT_WAIT: words without a control bit are read and dropped. *)
Idle ==
    /\ state = "IDLE"
    /\ state' = IF Begins THEN "SHIFT" ELSE "IDLE"
    /\ count' = IF Begins THEN 3 ELSE 0
    /\ atomicFirst' = (Begins /\ word.pkt.atom)
    /\ atomicSecond' = FALSE /\ shiftOut' = FALSE

AtomicWait ==
    /\ state = "AT_WAIT"
    /\ state' = IF Begins THEN "SHIFT" ELSE "AT_WAIT"
    /\ count' = IF Begins THEN 3 ELSE 0
    /\ shiftOut' = FALSE
    /\ UNCHANGED <<atomicFirst, atomicSecond>>

(* Mutation of Shift: one word less is waited for. *)
ShiftShort ==
    /\ state = "SHIFT"
    /\ IF ~word.exists
       THEN shiftOut' = FALSE /\ UNCHANGED <<state, count, atomicFirst, atomicSecond>>
       ELSE IF count > 1
       THEN shiftOut' = FALSE /\ count' = count - 1 /\ UNCHANGED <<state, atomicFirst, atomicSecond>>
       ELSE /\ state' = IF atomicFirst THEN "AT_WAIT" ELSE "IDLE"
            /\ count' = IF atomicFirst THEN 0 ELSE 3
            /\ atomicFirst' = FALSE /\ atomicSecond' = atomicFirst /\ shiftOut' = TRUE

Shift ==
    /\ state = "SHIFT"
    /\ IF ~word.exists
       THEN shiftOut' = FALSE /\ UNCHANGED <<state, count, atomicFirst, atomicSecond>>
       ELSE IF count > 0
       THEN shiftOut' = FALSE /\ count' = count - 1 /\ UNCHANGED <<state, atomicFirst, atomicSecond>>
       ELSE /\ state' = IF atomicFirst THEN "AT_WAIT" ELSE "IDLE"
            /\ count' = IF atomicFirst THEN 0 ELSE 3
            /\ atomicFirst' = FALSE /\ atomicSecond' = atomicFirst /\ shiftOut' = TRUE

(* Mutation of Ready: only the first packet of a pair is announced. *)
ReadyForPairs == atomicSecondD1 /\ shiftOut

(* cpx_spc_data_rdy_cx2: the core takes outputReg in this cycle. *)
Ready ==
    \/ ~atomicSecond /\ ~atomicSecondD2 /\ shiftOutD1
    \/ atomicSecondD1 /\ shiftOut

(* Every word that exists is read; those not valid are not kept. *)
TakeWord ==
    inputReg' = IF word.exists /\ word.valid THEN Append(Tail(inputReg), word) ELSE inputReg

(***************************************************************************)
(* The history: a packet is owed from its first word until it is           *)
(* delivered; MaxOwed bounds what is remembered, should one be lost.  The  *)
(* second packet of a pair is left out: Ready does not announce it, as     *)
(* atomicSecondD2 is still set in its cycle.                               *)
(***************************************************************************)
Owe ==
    LET left == IF Ready /\ owed # <<>> THEN Tail(owed) ELSE owed
    IN  owed' = IF Begins /\ ~word.pkt.second /\ Len(left) < MaxOwed THEN Append(left, word.pkt) ELSE left

Clock ==
    /\ Feed
    /\ Idle \/ Shift \/ AtomicWait
    /\ atomicSecondD1' = atomicSecond /\ atomicSecondD2' = atomicSecondD1
    /\ shiftOutD1' = shiftOut
    /\ TakeWord
    /\ outputReg' = IF shiftOut THEN inputReg ELSE outputReg
    /\ Owe

Spec == Init /\ [][Clock]_vars

(***************************************************************************)
(* The clock runs, and the sender completes what it has begun: the words   *)
(* of a packet, and the second packet of a pair.                           *)
(***************************************************************************)
Begun == feed.words # <<>> \/ feed.pair
FairSpec == Spec /\ WF_vars(Clock /\ (word.exists \/ shiftOut \/ shiftOutD1))
                 /\ WF_vars(Clock /\ Begun /\ word'.exists)

-----------------------------------------------------------------------------
(***************************************************************************)
(* What the core takes is the oldest packet it has not got, whole: gaps    *)
(* between words, waste words, the next packet arriving while one is in    *)
(* the output register and pairs in the traffic change nothing.            *)
(***************************************************************************)
DeliveredInOrder == Ready => owed # <<>> /\ outputReg = WordsOf(Head(owed))

(***************************************************************************)
(* While a packet is owed the core is given packets; with the order above, *)
(* none is kept back for ever.                                             *)
(***************************************************************************)
AllDelivered == owed # <<>> ~> Ready
=============================================================================
