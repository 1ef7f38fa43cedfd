----------------------------- MODULE SnetProofs -----------------------------
(***************************************************************************)
(* TLAPS proofs about Snet, for every number of buffers, size of the       *)
(* frames, limit of the interrupt, kind of MAC and traffic.                *)
(*                                                                         *)
(* The inductive invariant IInv says which thread holds which lock where,  *)
(* what the guest is doing in the middle of a frame or a message, and how  *)
(* head, tail and count fit together in each step of the loop.             *)
(***************************************************************************)
EXTENDS Snet, SequenceTheorems, TLAPS

-----------------------------------------------------------------------------
(* The inductive invariant. *)

Kinds == {"stop", "start", "mac"}
AdminOps == {"snet_init", "snet_uninit", "snet_init_rx"}

(* The administrator: which of its messages are to come. *)
AdminInv ==
  /\ admin \in [pc : {"idle", "lock", "header", "data"}, op : AdminOps \cup {"none"}, todo : Seq(Kinds)]
  /\ admin.pc # "idle" => admin.op \in AdminOps /\ admin.todo # <<>>
  /\ admin.op = "snet_init_rx" => traffic # "send"

(* The three threads hold the locks they work under. *)
LockInv ==
  /\ lock["intrlock"] = "reader" <=> reader.pc # "idle"
  /\ lock["xmitlock"] = "sender" <=> sender.pc # "idle"
  /\ lock["intrlock"] # "sender" /\ lock["xmitlock"] # "reader"
  /\ admin.pc = "lock" => lock["intrlock"] = "admin"
  /\ admin.pc \in {"header", "data"} => \A l \in Locks(admin.op) : lock[l] = "admin"
  /\ traffic = "join" => sender.pc = "idle"

(* The guest's loads are where the firmware takes them to be. *)
LoadInv ==
  /\ send_state = "sending" <=> reader.pc = "data"
  /\ send_state = "idle" => sent_data_count = 0
  /\ reader.pc = "data" => reader.left > 0 /\ sent_data_count + reader.left = FrameWords
  /\ pc \in {"tohw", "countdown", "reset", "resetcount"} => send_state = "idle"
  /\ send_state = "sending" \/ pc \in {"tohw", "countdown"} => rx_count > 0

(* And its stores, if sending and joining groups do not meet. *)
StoreInv ==
  /\ recv.state = "idle" => recv = NoMessage
  /\ recv.state = "receiving" <=> sender.pc = "data" \/ admin.pc = "data"
  /\ ~(sender.pc = "data" /\ admin.pc = "data")
  /\ sender.pc = "data" =>
       recv.type = "tx" /\ recv.size = FrameWords /\ sender.left > 0 /\ recv.count + sender.left = FrameWords
  /\ admin.pc = "data" => recv.type = "mac" /\ recv.size = 1 /\ recv.count = 0

(* The frames in the ring that are received and not read. *)
Held ==
  CASE pc = "resetcount" -> 0
    [] pc = "countdown"  -> rx_count - 1
    [] OTHER             -> rx_count

(* Interrupts are off exactly between the two halves of an update. *)
MaskInv == intrOn <=> pc \notin {"countdown", "resetcount"}

RingInv ==
  /\ pc = "countdown" => oldCount = rx_count
  /\ rx_tail = rx_head + Held \/ rx_tail = rx_head + Held - N
  /\ mac = "dma" => Len(bds) + Held <= N
  /\ mac # "dma" => bds = <<>>

OrderInv == mac = "dma" /\ ~skewed => bds = InRingOrder(rx_tail, N - Held)

TxInv ==
  /\ txBusy => pc = "wait"
  /\ pc = "tx" \/ txBusy => transmit_complete = 0

IInv == TypeOK /\ AdminInv /\ LockInv /\ LoadInv /\ MaskInv /\ RingInv /\ OrderInv /\ TxInv

-----------------------------------------------------------------------------
(* The slots of the ring. *)

(* The remainder of a number below 2 * N. *)
Wrap(i) == IF i < N THEN i ELSE i - N

(* The slot after slot i: no remainder is left to calculate with. *)
LEMMA NextSlotIs ==
    ASSUME NEW i \in Slots
    PROVE  /\ NextSlot(i) = IF i = N - 1 THEN 0 ELSE i + 1
           /\ NextSlot(i) \in Slots
BY SnetAssumption DEF NextSlot, Slots, N

(* A run of n slots from slot i on, slot by slot. *)
LEMMA RingOrderIs ==
    ASSUME NEW i \in Slots, NEW n \in 0 .. N
    PROVE  /\ InRingOrder(i, n) \in Seq(Slots) /\ Len(InRingOrder(i, n)) = n
           /\ \A k \in 1 .. n : InRingOrder(i, n)[k] = Wrap(i + k - 1)
<1>1. \A k \in 1 .. n : (i + k - 1) % N = Wrap(i + k - 1)
  BY SnetAssumption DEF Slots, N, Wrap
<1>2. \A k \in 1 .. n : (i + k - 1) % N \in Slots
  BY SnetAssumption DEF Slots, N
<1>3. n \in Nat
  BY SnetAssumption DEF N
<1>4. QED
  BY <1>1, <1>2, <1>3 DEF InRingOrder

(* A buffer taken from the front of a run of slots, and one put at its end. *)
LEMMA RingOrderTail ==
    ASSUME NEW i \in Slots, NEW n \in 1 .. N
    PROVE  /\ Head(InRingOrder(i, n)) = i
           /\ Tail(InRingOrder(i, n)) = InRingOrder(NextSlot(i), n - 1)
<1> DEFINE s == InRingOrder(i, n)
           t == InRingOrder(NextSlot(i), n - 1)
<1>0. N \in Nat \ {0} /\ n \in 0 .. N /\ n - 1 \in 0 .. N /\ NextSlot(i) \in Slots
  BY SnetAssumption, NextSlotIs DEF N
<1>1. /\ s \in Seq(Slots) /\ Len(s) = n
      /\ \A k \in 1 .. n : s[k] = Wrap(i + k - 1)
  BY <1>0, RingOrderIs
<1>2. /\ t \in Seq(Slots) /\ Len(t) = n - 1
      /\ \A k \in 1 .. n - 1 :
           t[k] = Wrap(NextSlot(i) + k - 1)
  BY <1>0, RingOrderIs
<1> HIDE DEF s, t
<1>3. s # <<>>
  BY <1>0, <1>1, EmptySeq
<1>4. Head(s) = i
  <2>1. s[1] = Wrap(i + 1 - 1)
    BY <1>0, <1>1
  <2>2. Wrap(i + 1 - 1) = i
    BY <1>0 DEF Slots, Wrap
  <2>3. QED
    BY <1>1, <1>3, <2>1, <2>2
<1>5. Tail(s) \in Seq(Slots) /\ Len(Tail(s)) = n - 1 /\ \A k \in 1 .. n - 1 : Tail(s)[k] = s[k + 1]
  BY <1>0, <1>1, <1>3, HeadTailProperties
<1>6. \A k \in 1 .. n - 1 : Tail(s)[k] = t[k]
  <2> TAKE k \in 1 .. n - 1
  <2>1. Tail(s)[k] = Wrap(i + k)
    <3>1. k + 1 \in 1 .. n /\ i + (k + 1) - 1 = i + k
      BY <1>0 DEF Slots
    <3>2. QED
      BY <1>1, <1>5, <3>1
  <2>2. NextSlot(i) = IF i = N - 1 THEN 0 ELSE i + 1
    BY NextSlotIs
  <2>3. t[k] = Wrap(NextSlot(i) + k - 1)
    BY <1>2
  <2>4. N \in Nat /\ i \in 0 .. N - 1 /\ k \in 1 .. N
    BY <1>0 DEF Slots
  <2>5. Wrap(i + k) = Wrap(NextSlot(i) + k - 1)
    BY <2>2, <2>4 DEF Wrap
  <2>6. QED
    BY <2>1, <2>3, <2>5
<1>7. Tail(s) = t
  BY <1>0, <1>2, <1>5, <1>6, SeqEqual
<1>8. QED
  BY <1>4, <1>7 DEF s, t

(* The slot behind a run of slots makes it longer by one. *)
LEMMA RingOrderAppend ==
    ASSUME NEW i \in Slots, NEW n \in 0 .. N - 1, NEW j \in Slots, j = i + n \/ j = i + n - N
    PROVE  Append(InRingOrder(i, n), j) = InRingOrder(i, n + 1)
<1> DEFINE s == InRingOrder(i, n)
           t == InRingOrder(i, n + 1)
<1>0. N \in Nat \ {0} /\ n \in 0 .. N /\ n + 1 \in 0 .. N
  BY SnetAssumption DEF N
<1>1. /\ s \in Seq(Slots) /\ Len(s) = n
      /\ \A k \in 1 .. n : s[k] = Wrap(i + k - 1)
  BY <1>0, RingOrderIs
<1>2. /\ t \in Seq(Slots) /\ Len(t) = n + 1
      /\ \A k \in 1 .. n + 1 : t[k] = Wrap(i + k - 1)
  BY <1>0, RingOrderIs
<1> HIDE DEF s, t
<1>3. /\ Append(s, j) \in Seq(Slots) /\ Len(Append(s, j)) = n + 1
      /\ \A k \in 1 .. n : Append(s, j)[k] = s[k]
      /\ Append(s, j)[n + 1] = j
  BY <1>1, AppendProperties
<1>4. \A k \in 1 .. n + 1 : Append(s, j)[k] = t[k]
  <2> TAKE k \in 1 .. n + 1
  <2>1. t[k] = Wrap(i + k - 1)
    BY <1>2
  <2>2. N \in Nat /\ i \in 0 .. N - 1 /\ j \in 0 .. N - 1 /\ n \in Nat /\ k \in 1 .. n + 1
    BY <1>0 DEF Slots
  <2>3. CASE k # n + 1
    <3>1. k \in 1 .. n
      BY <2>2, <2>3
    <3>2. QED
      BY <1>1, <1>3, <2>1, <3>1
  <2>4. CASE k = n + 1
    <3>1. Wrap(i + k - 1) = j
      BY <2>2, <2>4 DEF Wrap
    <3>2. QED
      BY <1>3, <2>1, <2>4, <3>1
  <2>5. QED
    BY <2>3, <2>4
<1>5. Append(s, j) = t
  BY <1>0, <1>2, <1>3, <1>4, SeqEqual
<1>6. QED
  BY <1>5 DEF s, t

(* A frame is taken into the ring only while a buffer is empty. *)
LEMMA NotFull ==
    ASSUME TypeOK, MaskInv, RingInv, intrOn, ~Full
    PROVE  rx_count < N
<1>1. Held = rx_count
  BY DEF MaskInv, Held
<1>2. rx_count \in 0 .. N /\ rx_head \in Slots /\ rx_tail \in Slots
  BY DEF TypeOK
<1>3. QED
  BY <1>1, <1>2, SnetAssumption DEF RingInv, Full, Slots, N

(* What becomes of a frame that comes. *)
LEMMA ReceiveCases ==
    ASSUME TypeOK, snet_recv_handler
    PROVE  \/ StoreFrame /\ start = 1 /\ ~Full
           \/ (ThrowAway(TRUE) \/ ThrowAway(FALSE)) /\ ~(start = 1 /\ ~Full)
<1>1. start \in {0, 1}
  BY DEF TypeOK
<1>2. ASSUME start = 0, start # 1
      PROVE  ThrowAway(FALSE)
  BY <1>2 DEF snet_recv_handler
<1>3. ASSUME start = 1, start # 0, Full
      PROVE  ThrowAway(TRUE)
  BY <1>3 DEF snet_recv_handler
<1>4. ASSUME start = 1, start # 0, ~Full
      PROVE  StoreFrame
  BY <1>4 DEF snet_recv_handler
<1>5. (start = 0 /\ start # 1) \/ (start = 1 /\ start # 0)
  BY <1>1
<1>6. QED
  BY <1>2, <1>3, <1>4, <1>5, Zenon

-----------------------------------------------------------------------------
(* Types. *)

(* A load keeps the types of what it writes. *)
LEMMA LoadType ==
    ASSUME TypeOK, LoadInv, mbfw_snet_load
    PROVE  /\ pc' \in {"loop", "tohw"}
           /\ send_state' \in {"idle", "sending"} /\ sent_data_count' \in 0 .. FrameWords - 1
<1>1. send_state \in {"idle", "sending"} /\ sent_data_count \in 0 .. FrameWords - 1 /\ pc = "loop"
  BY DEF TypeOK, mbfw_snet_load
<1>2. CASE send_state = "idle"
  BY <1>1, <1>2 DEF mbfw_snet_load, LoadHeader
<1>3. CASE send_state = "sending"
  BY <1>1, <1>3, SnetAssumption DEF mbfw_snet_load, LoadData
<1>4. QED
  BY <1>1, <1>2, <1>3

(* So does a store, whatever it completes. *)
LEMMA StoreType ==
    ASSUME TypeOK, NEW type \in {"tx", "data", "mac", "start", "stop"}, NEW n \in 0 .. FrameWords,
           type \in {"start", "stop"} <=> n = 0, mbfw_snet_store(type, n)
    PROVE  /\ pc' \in {"loop", "reset", "tx"} /\ macOn' \in BOOLEAN
           /\ start' \in {0, 1} /\ transmit_complete' \in {0, 1}
           /\ recv' \in [state : {"idle", "receiving"}, type : {"none", "tx", "mac", "data"},
                         size : 0 .. FrameWords, count : 0 .. FrameWords]
<1> DEFINE m == IF recv.state = "idle"
                THEN [state |-> "receiving", type |-> type, size |-> n, count |-> 0]
                ELSE [recv EXCEPT !.count = IF recv.type = "data" THEN @ ELSE @ + 1]
<1> DEFINE Words == [state : {"idle", "receiving"}, type : {"none", "tx", "mac", "data"},
                        size : 0 .. FrameWords, count : 0 .. FrameWords]
<1>0. recv \in Words /\ pc = "loop" /\ start \in {0, 1} /\ transmit_complete \in {0, 1} /\ macOn \in BOOLEAN
  BY DEF TypeOK, mbfw_snet_store
<1>1. m.count < m.size => m \in Words
  <2>1. CASE recv.state = "idle"
    BY <2>1, SnetAssumption
  <2>2. CASE recv.state # "idle"
    <3>1. recv.count + 1 \in Nat /\ recv.count \in Nat /\ recv.size \in 0 .. FrameWords
      BY <1>0, SnetAssumption
    <3>2. m = [recv EXCEPT !.count = m.count] /\ m.count \in Nat /\ m.size = recv.size
      BY <1>0, <2>2, <3>1
    <3>3. QED
      BY <1>0, <3>1, <3>2, SnetAssumption
  <2>3. QED
    BY <2>1, <2>2
<1>2. CASE m.count >= m.size
  <2>1. recv' = NoMessage /\ Command(m.type)
    BY <1>2 DEF mbfw_snet_store
  <2>2. recv' \in Words
    BY <2>1, SnetAssumption DEF NoMessage
  <2>3. QED
    BY <1>0, <2>1, <2>2 DEF Command
<1>3. CASE ~(m.count >= m.size)
  <2>1. recv' = m /\ UNCHANGED <<pc, start, macOn, transmit_complete>>
    BY <1>3 DEF mbfw_snet_store
  <2>2. m \in Words
    <3>1. m.count \in Nat /\ m.size \in Nat
      BY <1>0, SnetAssumption
    <3>2. QED
      BY <1>1, <1>3, <3>1
  <2>3. QED
    BY <1>0, <2>1, <2>2
<1>4. QED
  BY <1>2, <1>3

(* A thread that leaves gives back its own locks and no other. *)
LEMMA ReleaseType ==
    ASSUME TypeOK, NEW who \in {"reader", "sender", "admin"}
    PROVE  /\ Release(who) \in [{"intrlock", "xmitlock"} -> {"free", "reader", "sender", "admin"}]
           /\ \A l \in {"intrlock", "xmitlock"} : Release(who)[l] = IF lock[l] = who THEN "free" ELSE lock[l]
BY DEF TypeOK, Release

(* What the steps of the firmware and of the MAC leave alone. *)
LEMMA OfFirmware ==
    ASSUME snet_recv_handler \/ snet_send_handler \/ Loop
    PROVE  UNCHANGED <<lock, reader, sender, admin, recv, traffic, mac, send_state, sent_data_count>>
BY DEF snet_recv_handler, snet_send_handler, Loop, TakeFrame, CountDown, ResetRing, ResetCount,
       SetStart, EthTx, TxWait, SendInterrupt, ClearInterrupt, msgs, fixed, guest

(* Every step of the firmware and of the MAC keeps the types. *)
LEMMA FirmwareType ==
    ASSUME IInv, snet_recv_handler \/ snet_send_handler \/ Loop
    PROVE  TypeOK'
<1> USE SnetAssumption DEF ring, msgs, tx, dma, frames, fixed, guest
<1>a. TypeOK
  BY DEF IInv
<1>b. UNCHANGED <<lock, reader, sender, admin, recv, traffic, mac, send_state, sent_data_count>>
  BY OfFirmware
<1>1. CASE snet_recv_handler
  <2>1. wire' \in 0 .. Modulus - 1
    BY <1>1, <1>a DEF snet_recv_handler, TypeOK, Modulus
  <2>2. mac = "dma" => bds # <<>> /\ Head(bds) \in Slots /\ Tail(bds) \in Seq(Slots) /\ Len(Tail(bds)) <= N
    BY <1>1, <1>a DEF snet_recv_handler, TypeOK, N
  <2>3. bds' \in Seq(Slots) /\ Len(bds') <= N
    BY <1>1, <1>a, <2>2 DEF snet_recv_handler, TypeOK, EthRx
  <2>4. buf' \in [Slots -> {NoFrame} \cup 0 .. Modulus - 1]
    BY <1>1, <1>a, <2>1, <2>2 DEF snet_recv_handler, TypeOK, EthRx
  <2>5. /\ rx_head' \in Slots /\ rx_tail' \in Slots /\ rx_count' \in 0 .. N /\ oldCount' \in 0 .. N
        /\ skewed' \in BOOLEAN /\ send_intr_packet' \in BOOLEAN
    <3>1. CASE StoreFrame /\ ~Full
      <4>1. rx_count' \in 0 .. N
        <5>1. rx_count < N
          BY <1>1, <3>1, NotFull DEF snet_recv_handler, IInv
        <5>2. QED
          BY <1>a, <3>1, <5>1 DEF StoreFrame, TypeOK, N
      <4>2. QED
        BY <1>a, <3>1, <4>1, NextSlotIs DEF StoreFrame, TypeOK
    <3>2. CASE ThrowAway(TRUE) \/ ThrowAway(FALSE)
      <4>1. skewed' \in BOOLEAN
        BY <1>a, <3>2 DEF ThrowAway, TypeOK
      <4>2. send_intr_packet' \in BOOLEAN
        BY <1>a, <3>2 DEF ThrowAway, TypeOK
      <4>3. UNCHANGED ring
        BY <3>2 DEF ThrowAway
      <4>4. QED
        BY <1>a, <4>1, <4>2, <4>3 DEF TypeOK
    <3>3. QED
      BY <1>1, <1>a, <3>1, <3>2, ReceiveCases
  <2>6. UNCHANGED <<pc, intrOn, start, transmit_complete, txBusy, macOn, intr>>
    BY <1>1 DEF snet_recv_handler
  <2>7. QED
    BY <1>a, <1>b, <2>1, <2>3, <2>4, <2>5, <2>6 DEF TypeOK
<1>2. CASE snet_send_handler
  <2>1. txBusy' \in BOOLEAN /\ transmit_complete' \in {0, 1}
    BY <1>2 DEF snet_send_handler
  <2>2. UNCHANGED <<pc, intrOn, start, ring, send_intr_packet, macOn, dma, frames, intr>>
    BY <1>2 DEF snet_send_handler
  <2>3. QED
    BY <1>a, <1>b, <2>1, <2>2 DEF TypeOK
<1>3. CASE TakeFrame
  <2>1. bds' \in Seq(Slots) /\ Len(bds') <= N
    <3>1. CASE mac = "dma"
      <4>1. Held = rx_count /\ rx_count > 0
        BY <1>3 DEF IInv, LoadInv, Held, TakeFrame
      <4>2. bds' = Append(bds, rx_head) /\ Len(bds) + 1 <= N
        BY <1>3, <1>a, <3>1, <4>1 DEF TakeFrame, IInv, RingInv, TypeOK, N
      <4>3. QED
        BY <1>a, <4>2 DEF TypeOK
    <3>2. CASE mac # "dma"
      BY <1>3, <1>a, <3>2 DEF TakeFrame, TypeOK
    <3>3. QED
      BY <3>1, <3>2
  <2>2. rx_head' \in Slots /\ oldCount' \in 0 .. N /\ buf' \in [Slots -> {NoFrame} \cup 0 .. Modulus - 1]
    BY <1>3, <1>a, NextSlotIs DEF TakeFrame, TypeOK
  <2>3. pc' = "countdown" /\ intrOn' \in BOOLEAN
    BY <1>3 DEF TakeFrame
  <2>4. UNCHANGED <<start, rx_tail, rx_count, tx, send_intr_packet, macOn, wire, skewed, intr>>
    BY <1>3 DEF TakeFrame
  <2>5. QED
    BY <1>a, <1>b, <2>1, <2>2, <2>3, <2>4 DEF TypeOK
<1>4. CASE CountDown
  <2>1. rx_count' \in 0 .. N /\ oldCount' \in 0 .. N
    BY <1>4, <1>a DEF CountDown, IInv, TypeOK, RingInv, LoadInv, N
  <2>2. pc' = "loop" /\ intrOn' \in BOOLEAN
    BY <1>4 DEF CountDown
  <2>3. UNCHANGED <<start, rx_head, rx_tail, tx, send_intr_packet, macOn, dma, frames, intr>>
    BY <1>4 DEF CountDown
  <2>4. QED
    BY <1>a, <1>b, <2>1, <2>2, <2>3 DEF TypeOK
<1>5. CASE ResetRing
  <2>1. rx_head' \in Slots /\ rx_tail' \in Slots /\ buf' \in [Slots -> {NoFrame} \cup 0 .. Modulus - 1]
    BY <1>5 DEF ResetRing, Slots, N
  <2>2. pc' = "resetcount" /\ intrOn' \in BOOLEAN
    BY <1>5 DEF ResetRing
  <2>3. skewed' \in BOOLEAN
    BY <1>5, <1>a DEF ResetRing, TypeOK
  <2>4. UNCHANGED <<start, rx_count, oldCount, tx, send_intr_packet, macOn, wire, bds, intr>>
    BY <1>5 DEF ResetRing
  <2>5. QED
    BY <1>a, <1>b, <2>1, <2>2, <2>3, <2>4 DEF TypeOK
<1>6. CASE ResetCount
  <2>1. rx_count' \in 0 .. N /\ pc' = "started" /\ intrOn' \in BOOLEAN
    BY <1>6 DEF ResetCount, N
  <2>2. UNCHANGED <<start, rx_head, rx_tail, oldCount, tx, send_intr_packet, macOn, dma, frames, intr>>
    BY <1>6 DEF ResetCount
  <2>3. QED
    BY <1>a, <1>b, <2>1, <2>2 DEF TypeOK
<1>7. CASE SetStart
  BY <1>7, <1>a, <1>b DEF SetStart, TypeOK
<1>8. CASE EthTx
  <2>1. pc' \in {"wait", "loop"} /\ txBusy' \in BOOLEAN
    BY <1>8, <1>a DEF EthTx, TypeOK
  <2>2. UNCHANGED <<intrOn, start, ring, transmit_complete, send_intr_packet, macOn, dma, frames, intr>>
    BY <1>8 DEF EthTx
  <2>3. QED
    BY <1>a, <1>b, <2>1, <2>2 DEF TypeOK
<1>9. CASE TxWait
  BY <1>9, <1>a, <1>b DEF TxWait, TypeOK
<1>10. CASE SendInterrupt
  <2>1. pc' = "sent" /\ intr' \in BOOLEAN
    BY <1>10 DEF SendInterrupt
  <2>2. UNCHANGED <<intrOn, start, ring, tx, send_intr_packet, macOn, dma, frames>>
    BY <1>10 DEF SendInterrupt
  <2>3. QED
    BY <1>a, <1>b, <2>1, <2>2 DEF TypeOK
<1>11. CASE ClearInterrupt
  <2>1. pc' = "loop" /\ send_intr_packet' \in BOOLEAN
    BY <1>11 DEF ClearInterrupt
  <2>2. UNCHANGED <<intrOn, start, ring, tx, macOn, dma, frames, intr>>
    BY <1>11 DEF ClearInterrupt
  <2>3. QED
    BY <1>a, <1>b, <2>1, <2>2 DEF TypeOK
<1>12. QED
  BY <1>1, <1>2, <1>3, <1>4, <1>5, <1>6, <1>7, <1>8, <1>9, <1>10, <1>11 DEF Loop

(* What the guest's loads and stores leave alone. *)
LEMMA OfLoad ==
    ASSUME mbfw_snet_load
    PROVE  /\ UNCHANGED <<intrOn, start, ring, recv, tx, send_intr_packet, macOn, dma, frames, fixed>>
           /\ pc = "loop"
BY DEF mbfw_snet_load

(* The same of a store. *)
LEMMA OfStore ==
    ASSUME NEW type, NEW n, mbfw_snet_store(type, n)
    PROVE  /\ UNCHANGED <<intrOn, ring, send_state, sent_data_count, txBusy, send_intr_packet, dma, frames, fixed>>
           /\ pc = "loop"
BY DEF mbfw_snet_store

(* Every store of the guest is of one of these forms. *)
LEMMA GuestStores ==
    ASSUME IInv, Sender \/ Admin
    PROVE  \E type \in {"tx", "data", "mac", "start", "stop"}, n \in 0 .. FrameWords :
              /\ type \in {"start", "stop"} <=> n = 0
              /\ mbfw_snet_store(type, n)
<1>1. 0 \in 0 .. FrameWords /\ 1 \in 0 .. FrameWords /\ FrameWords \in 0 .. FrameWords /\ FrameWords # 0
  BY SnetAssumption
<1>2. CASE Sender
  BY <1>1, <1>2 DEF Sender, SendHeader, SendData
<1>3. CASE AdminData
  BY <1>1, <1>3 DEF AdminData
<1>4. CASE AdminHeader
  <2>1. Head(admin.todo) \in Kinds
    BY <1>4 DEF AdminHeader, IInv, AdminInv
  <2>2. QED
    BY <1>1, <1>4, <2>1 DEF AdminHeader, Kinds
<1>5. QED
  BY <1>2, <1>3, <1>4 DEF Admin

(* Every step of the interrupt thread keeps the types. *)
LEMMA ReaderType ==
    ASSUME IInv, Reader
    PROVE  TypeOK'
<1> USE SnetAssumption DEF ring, msgs, tx, dma, frames, fixed
<1>a. TypeOK /\ LoadInv
  BY DEF IInv
<1> DEFINE LockTypes == [{"intrlock", "xmitlock"} -> {"free", "reader", "sender", "admin"}]
           ReaderTypes == [pc : {"idle", "header", "data"}, frames : 0 .. loop_limit - 1, left : 0 .. FrameWords]
<1>b. reader \in ReaderTypes /\ lock \in LockTypes
  BY <1>a DEF TypeOK
<1>c. LeaveReader => reader' \in ReaderTypes /\ lock' \in LockTypes
  BY <1>a, ReleaseType DEF LeaveReader
<1>1. CASE ReaderEnter
  <2>1. reader' \in ReaderTypes /\ lock' \in LockTypes
    BY <1>b, <1>1 DEF ReaderEnter
  <2>2. intr' \in BOOLEAN
    BY <1>1 DEF ReaderEnter
  <2>3. UNCHANGED <<firmware, sender, admin>>
    BY <1>1 DEF ReaderEnter
  <2>4. QED
    BY <1>a, <2>1, <2>2, <2>3 DEF TypeOK, firmware
<1>2. CASE ReadHeader \/ ReadData
  <2>1. reader' \in ReaderTypes /\ lock' \in LockTypes
    <3>1. CASE ReadHeader
      <4>1. CASE send_state = "sending" \/ rx_count # 0
        <5>1. reader' = [reader EXCEPT !.pc = "data", !.left = FrameWords] /\ UNCHANGED lock
          BY <3>1, <4>1 DEF ReadHeader
        <5>2. reader' = [pc |-> "data", frames |-> reader.frames, left |-> FrameWords]
          BY <1>b, <5>1
        <5>3. QED
          BY <1>b, <5>1, <5>2
      <4>2. CASE ~(send_state = "sending" \/ rx_count # 0)
        BY <1>c, <3>1, <4>2 DEF ReadHeader
      <4>3. QED
        BY <4>1, <4>2
    <3>2. CASE ReadData
      <4>1. reader.left \in Nat /\ reader.frames \in Nat /\ reader.left <= FrameWords
        BY <1>b
      <4>2. CASE reader.left > 1
        BY <1>b, <3>2, <4>1, <4>2 DEF ReadData
      <4>3. CASE reader.left = 1 /\ reader.frames + 1 < loop_limit
        BY <1>b, <3>2, <4>1, <4>3 DEF ReadData
      <4>4. CASE ~(reader.left > 1) /\ ~(reader.left = 1 /\ reader.frames + 1 < loop_limit)
        BY <1>b, <1>c, <3>2, <4>4 DEF ReadData
      <4>5. QED
        BY <4>2, <4>3, <4>4
    <3>3. QED
      BY <1>2, <3>1, <3>2
  <2>2. mbfw_snet_load /\ UNCHANGED <<intr, sender, admin>>
    BY <1>2 DEF ReadHeader, ReadData
  <2>3. pc' \in {"loop", "tohw"} /\ send_state' \in {"idle", "sending"} /\ sent_data_count' \in 0 .. FrameWords - 1
    BY <1>a, <2>2, LoadType
  <2>4. QED
    BY <1>a, <2>1, <2>2, <2>3, OfLoad DEF TypeOK
<1>3. QED
  BY <1>1, <1>2 DEF Reader

(* The administrator always has a message left while it works. *)
LEMMA AdminStep ==
    ASSUME IInv, AdminEnter \/ AdminLock \/ Admin
    PROVE  AdminInv'
<1>a. AdminInv /\ UNCHANGED traffic
  BY GuestStores, OfStore DEF IInv, AdminEnter, AdminLock, firmware, Admin, fixed
<1> DEFINE Types == [pc : {"idle", "lock", "header", "data"}, op : AdminOps \cup {"none"}, todo : Seq(Kinds)]
<1>b. admin \in Types /\ (admin.pc # "idle" => admin.todo # <<>>)
  BY <1>a DEF AdminInv
<1>1. CASE AdminEnter
  <2>1. PICK op \in Operations, at \in {"lock", "header"} :
               admin' = [pc |-> at, op |-> op, todo |-> Messages(op)]
    BY <1>1 DEF AdminEnter
  <2>2. op \in AdminOps /\ (op = "snet_init_rx" => traffic # "send")
    BY DEF Operations, AdminOps
  <2>3. Messages(op) \in Seq(Kinds) /\ Messages(op) # <<>>
    <3>1. CASE op = "snet_init"
      BY <3>1 DEF Messages, Kinds
    <3>2. CASE op = "snet_uninit"
      BY <3>2 DEF Messages, Kinds
    <3>3. CASE op = "snet_init_rx"
      BY <3>3 DEF Messages, Kinds
    <3>4. QED
      BY <2>2, <3>1, <3>2, <3>3 DEF AdminOps
  <2>4. QED
    BY <1>a, <2>1, <2>2, <2>3 DEF AdminInv
<1>2. CASE AdminLock
  BY <1>a, <1>b, <1>2 DEF AdminLock, AdminInv
<1>3. ASSUME admin.pc \in {"header", "data"}, NextMessage
      PROVE  AdminInv'
  <2>1. CASE Len(admin.todo) = 1
    <3>1. admin' = [pc |-> "idle", op |-> "none", todo |-> <<>>]
      BY <1>3, <2>1 DEF NextMessage
    <3>2. <<>> \in Seq(Kinds)
      OBVIOUS
    <3>3. admin' \in Types
      BY <3>1, <3>2
    <3>4. QED
      BY <3>1, <3>3 DEF AdminInv
  <2>2. CASE Len(admin.todo) # 1
    <3>1. Tail(admin.todo) \in Seq(Kinds) /\ Tail(admin.todo) # <<>>
      <4>1. Len(admin.todo) \in Nat \ {0, 1}
        BY <1>b, <1>3, <2>2, EmptySeq
      <4>2. Tail(admin.todo) \in Seq(Kinds) /\ Len(Tail(admin.todo)) \in Nat \ {0}
        BY <1>b, <1>3, <4>1, HeadTailProperties
      <4>3. Len(<<>>) = 0
        OBVIOUS
      <4>4. QED
        BY <4>2, <4>3
    <3>2. QED
      BY <1>a, <1>b, <1>3, <2>2, <3>1 DEF NextMessage, AdminInv
  <2>3. QED
    BY <2>1, <2>2
<1>4. CASE AdminHeader
  BY <1>a, <1>b, <1>3, <1>4 DEF AdminHeader, AdminInv
<1>5. CASE AdminData
  BY <1>a, <1>3, <1>5 DEF AdminData
<1>6. QED
  BY <1>1, <1>2, <1>4, <1>5 DEF Admin

(* Every step of the sender and the administrator keeps the types. *)
LEMMA OtherType ==
    ASSUME IInv, SenderEnter \/ Sender \/ AdminEnter \/ AdminLock \/ Admin
    PROVE  TypeOK'
<1> USE SnetAssumption DEF ring, msgs, tx, dma, frames, fixed
<1>a. TypeOK
  BY DEF IInv
<1>b. UNCHANGED <<intr, reader>>
  BY DEF SenderEnter, Sender, SendHeader, SendData, AdminEnter, AdminLock, Admin, AdminHeader, AdminData
<1>1. admin'.pc \in {"idle", "lock", "header", "data"}
  <2>1. CASE AdminEnter \/ AdminLock \/ Admin
    BY <2>1, AdminStep DEF AdminInv
  <2>2. CASE SenderEnter \/ Sender
    BY <1>a, <2>2 DEF SenderEnter, Sender, SendHeader, SendData, TypeOK
  <2>3. QED
    BY <2>1, <2>2
<1>2. lock' \in [{"intrlock", "xmitlock"} -> {"free", "reader", "sender", "admin"}]
  <2>1. lock \in [{"intrlock", "xmitlock"} -> {"free", "reader", "sender", "admin"}]
    BY <1>a DEF TypeOK
  <2>2. Release("sender") \in [{"intrlock", "xmitlock"} -> {"free", "reader", "sender", "admin"}]
        /\ Release("admin") \in [{"intrlock", "xmitlock"} -> {"free", "reader", "sender", "admin"}]
    BY <1>a, ReleaseType
  <2>3. CASE SenderEnter \/ Sender \/ AdminEnter
    BY <2>1, <2>2, <2>3 DEF SenderEnter, Sender, SendHeader, SendData, AdminEnter
  <2>4. CASE AdminLock
    BY <2>1, <2>4 DEF AdminLock
  <2>5. CASE Admin
    BY <2>1, <2>2, <2>5 DEF Admin, AdminHeader, AdminData, NextMessage
  <2>6. QED
    BY <2>3, <2>4, <2>5
<1>3. sender' \in [pc : {"idle", "header", "data"}, left : 0 .. FrameWords]
  <2>1. sender \in [pc : {"idle", "header", "data"}, left : 0 .. FrameWords]
    BY <1>a DEF TypeOK
  <2>2. CASE SenderEnter \/ SendHeader
    BY <2>2 DEF SenderEnter, SendHeader
  <2>3. CASE SendData
    BY <2>1, <2>3 DEF SendData
  <2>4. CASE AdminEnter \/ AdminLock \/ Admin
    BY <2>1, <2>4 DEF AdminEnter, AdminLock, Admin, AdminHeader, AdminData
  <2>5. QED
    BY <2>2, <2>3, <2>4 DEF Sender
<1>4. CASE SenderEnter \/ AdminEnter \/ AdminLock
  <2>1. UNCHANGED firmware
    BY <1>4 DEF SenderEnter, AdminEnter, AdminLock
  <2>2. QED
    BY <1>a, <1>b, <1>1, <1>2, <1>3, <2>1 DEF TypeOK, firmware
<1>5. CASE Sender \/ Admin
  <2>1. PICK type \in {"tx", "data", "mac", "start", "stop"}, n \in 0 .. FrameWords :
              /\ type \in {"start", "stop"} <=> n = 0
              /\ mbfw_snet_store(type, n)
    BY <1>5, GuestStores
  <2>2. UNCHANGED <<intrOn, ring, send_state, sent_data_count, txBusy, send_intr_packet, dma, frames, fixed>>
    BY <2>1, OfStore
  <2>3. /\ pc' \in {"loop", "reset", "tx"} /\ macOn' \in BOOLEAN
        /\ start' \in {0, 1} /\ transmit_complete' \in {0, 1}
        /\ recv' \in [state : {"idle", "receiving"}, type : {"none", "tx", "mac", "data"},
                      size : 0 .. FrameWords, count : 0 .. FrameWords]
    BY <1>a, <2>1, StoreType
  <2>4. QED
    BY <1>a, <1>b, <1>1, <1>2, <1>3, <2>2, <2>3 DEF TypeOK
<1>6. QED
  BY <1>4, <1>5

-----------------------------------------------------------------------------
(* The locks, the loads and the transmission. *)

(* No step takes a lock from its owner or lets two threads share one. *)
LEMMA LockStep ==
    ASSUME IInv, Next
    PROVE  LockInv'
<1>a. TypeOK /\ LockInv
  BY DEF IInv
<1>b. /\ lock \in [{"intrlock", "xmitlock"} -> {"free", "reader", "sender", "admin"}]
      /\ reader.pc \in {"idle", "header", "data"} /\ sender.pc \in {"idle", "header", "data"}
      /\ DOMAIN reader = {"pc", "frames", "left"} /\ DOMAIN sender = {"pc", "left"}
  BY <1>a DEF TypeOK
<1>c. DOMAIN admin = {"pc", "op", "todo"}
  BY DEF IInv, AdminInv
<1>d. \A who \in {"reader", "sender", "admin"}, l \in {"intrlock", "xmitlock"} :
         Release(who)[l] = IF lock[l] = who THEN "free" ELSE lock[l]
  BY <1>a, ReleaseType
<1>e. \A op : Locks(op) \subseteq {"intrlock", "xmitlock"} /\ "intrlock" \in Locks(op)
  BY DEF Locks
<1>1. CASE snet_recv_handler \/ snet_send_handler \/ Loop
  BY <1>1, <1>a, OfFirmware DEF LockInv
<1>2. CASE ReaderEnter
  BY <1>2, <1>a, <1>b, <1>e DEF ReaderEnter, firmware, fixed, LockInv, Free
<1>3. CASE ReadHeader \/ ReadData
  <2>1. UNCHANGED <<traffic, sender, admin>> /\ reader.pc # "idle"
    BY <1>3, OfLoad DEF ReadHeader, ReadData, fixed
  <2>2. CASE LeaveReader
    BY <1>a, <1>b, <1>d, <1>e, <2>1, <2>2 DEF LeaveReader, LockInv
  <2>3. CASE UNCHANGED lock /\ reader'.pc # "idle"
    BY <1>a, <1>b, <1>e, <2>1, <2>3 DEF LockInv
  <2>4. LeaveReader \/ (UNCHANGED lock /\ reader'.pc # "idle")
    <3>1. reader \in [pc : {"idle", "header", "data"}, frames : 0 .. loop_limit - 1, left : 0 .. FrameWords]
      BY <1>a DEF TypeOK
    <3>2. SUFFICES ASSUME ~LeaveReader
                   PROVE  UNCHANGED lock /\ reader'.pc # "idle"
      OBVIOUS
    <3>3. CASE ReadHeader
      <4>1. UNCHANGED lock /\ reader' = [reader EXCEPT !.pc = "data", !.left = FrameWords]
        <5>1. send_state = "sending" \/ rx_count # 0
          BY <3>2, <3>3 DEF ReadHeader
        <5>2. QED
          BY <3>3, <5>1 DEF ReadHeader
      <4>2. reader' = [pc |-> "data", frames |-> reader.frames, left |-> FrameWords]
        BY <3>1, <4>1
      <4>3. QED
        BY <4>1, <4>2
    <3>4. CASE ReadData /\ reader.left > 1
      <4>1. UNCHANGED lock /\ reader' = [reader EXCEPT !.left = @ - 1]
        BY <3>4 DEF ReadData
      <4>2. reader'.pc = reader.pc
        BY <3>1, <4>1
      <4>3. QED
        BY <2>1, <4>1, <4>2
    <3>5. CASE ReadData /\ ~(reader.left > 1)
      BY <3>2, <3>5 DEF ReadData
    <3>6. QED
      BY <1>3, <3>3, <3>4, <3>5
  <2>5. QED
    BY <2>2, <2>3, <2>4
<1>4. CASE SenderEnter
  BY <1>4, <1>a, <1>b, <1>e DEF SenderEnter, firmware, fixed, LockInv, Free
<1>5. CASE Sender
  <2>1. UNCHANGED <<traffic, reader, admin>>
    BY <1>5, OfStore DEF Sender, SendHeader, SendData, fixed
  <2>2. sender.pc # "idle"
    BY <1>5 DEF Sender, SendHeader, SendData
  <2>3. CASE UNCHANGED lock /\ sender'.pc # "idle"
    BY <1>a, <1>b, <2>1, <2>2, <2>3 DEF LockInv
  <2>4. CASE sender'.pc = "idle" /\ lock' = Release("sender")
    BY <1>a, <1>b, <1>d, <1>e, <2>1, <2>2, <2>4 DEF LockInv
  <2>5. (UNCHANGED lock /\ sender'.pc # "idle") \/ (sender'.pc = "idle" /\ lock' = Release("sender"))
    BY <1>5, <1>b, <2>2 DEF Sender, SendHeader, SendData
  <2>6. QED
    BY <2>3, <2>4, <2>5
<1>6. CASE AdminEnter
  <2>1. UNCHANGED <<traffic, reader, sender>>
    BY <1>6 DEF AdminEnter, firmware, fixed
  <2>2. lock["intrlock"] = "free" /\ lock' = [lock EXCEPT !["intrlock"] = "admin"]
    BY <1>6 DEF AdminEnter, Free
  <2>3. lock'["intrlock"] = "admin" /\ lock'["xmitlock"] = lock["xmitlock"]
    BY <1>b, <2>2
  <2>4. admin'.pc = "header" => "xmitlock" \notin Locks(admin'.op)
    BY <1>6 DEF AdminEnter
  <2>5. admin'.pc \in {"lock", "header"}
    BY <1>6 DEF AdminEnter
  <2>6. admin'.pc \in {"header", "data"} => \A l \in Locks(admin'.op) : lock'[l] = "admin"
    BY <1>e, <2>3, <2>4, <2>5
  <2>7. QED
    BY <1>a, <2>1, <2>2, <2>3, <2>6 DEF LockInv
<1>7. CASE AdminLock
  <2>1. UNCHANGED <<traffic, reader, sender>> /\ admin'.op = admin.op /\ admin'.pc = "header"
    BY <1>7, <1>c DEF AdminLock, firmware, fixed
  <2>2. lock["xmitlock"] = "free" /\ lock' = [lock EXCEPT !["xmitlock"] = "admin"]
    BY <1>7 DEF AdminLock, Free
  <2>3. lock["intrlock"] = "admin"
    BY <1>7, <1>a DEF AdminLock, LockInv
  <2>4. lock'["intrlock"] = "admin" /\ lock'["xmitlock"] = "admin"
    BY <1>b, <2>2, <2>3
  <2>5. \A l \in Locks(admin'.op) : lock'[l] = "admin"
    BY <1>e, <2>4
  <2>6. QED
    BY <1>a, <2>1, <2>2, <2>3, <2>4, <2>5 DEF LockInv
<1>8. CASE Admin
  <2>1. UNCHANGED <<traffic, reader, sender>> /\ admin.pc \in {"header", "data"}
    BY <1>8, OfStore DEF Admin, AdminHeader, AdminData, fixed
  <2>2. CASE UNCHANGED lock /\ admin'.op = admin.op /\ admin'.pc # "lock"
    BY <1>a, <2>1, <2>2 DEF LockInv
  <2>3. CASE lock' = Release("admin") /\ admin'.pc = "idle"
    BY <1>a, <1>b, <1>d, <2>1, <2>3 DEF LockInv
  <2>4. \/ UNCHANGED lock /\ admin'.op = admin.op /\ admin'.pc # "lock"
        \/ lock' = Release("admin") /\ admin'.pc = "idle"
    <3>1. CASE NextMessage /\ Len(admin.todo) = 1
      BY <3>1 DEF NextMessage
    <3>2. CASE NextMessage /\ Len(admin.todo) # 1
      <4>1. UNCHANGED lock /\ admin' = [admin EXCEPT !.pc = "header", !.todo = Tail(@)]
        BY <3>2 DEF NextMessage
      <4>2. QED
        BY <1>c, <4>1
    <3>3. CASE ~NextMessage
      <4>1. UNCHANGED lock /\ admin' = [admin EXCEPT !.pc = "data"]
        BY <1>8, <3>3 DEF Admin, AdminHeader, AdminData
      <4>2. QED
        BY <1>c, <4>1
    <3>4. QED
      BY <3>1, <3>2, <3>3
  <2>5. QED
    BY <2>2, <2>3, <2>4
<1>9. QED
  BY <1>1, <1>2, <1>3, <1>4, <1>5, <1>6, <1>7, <1>8 DEF Next, Reader

(* A START comes only while no frame is being read. *)
LEMMA CommandNotReading ==
    ASSUME IInv, Sender \/ Admin, pc' = "reset"
    PROVE  reader.pc # "data"
<1>a. TypeOK /\ LockInv /\ AdminInv
  BY DEF IInv
<1>2. Admin
  <2>1. SUFFICES ASSUME Sender
                 PROVE  FALSE
    OBVIOUS
  <2>2. PICK t \in {"tx", "data"} : mbfw_snet_store(t, FrameWords)
    BY <2>1 DEF Sender, SendHeader, SendData
  <2>3. recv.type # "start" /\ pc = "loop"
    BY <1>a, <2>2, OfStore DEF TypeOK
  <2> DEFINE m == IF recv.state = "idle"
                  THEN [state |-> "receiving", type |-> t, size |-> FrameWords, count |-> 0]
                  ELSE [recv EXCEPT !.count = IF recv.type = "data" THEN @ ELSE @ + 1]
  <2>4. m.type # "start"
    BY <1>a, <2>3 DEF TypeOK
  <2>5. Command(m.type) \/ UNCHANGED pc
    BY <2>2 DEF mbfw_snet_store
  <2>6. pc' # "reset"
    BY <2>3, <2>4, <2>5 DEF Command
  <2>7. QED
    BY <2>6
<1>3. admin.pc \in {"header", "data"}
  BY <1>2 DEF Admin, AdminHeader, AdminData
<1>4. "intrlock" \in Locks(admin.op)
  BY DEF Locks
<1>5. lock["intrlock"] = "admin"
  BY <1>a, <1>3, <1>4 DEF LockInv
<1>6. QED
  BY <1>a, <1>5 DEF LockInv

(* No step moves one side within a frame and not the other. *)
LEMMA LoadStep ==
    ASSUME IInv, Next
    PROVE  LoadInv'
<1>a. /\ LoadInv /\ LockInv
      /\ send_state \in {"idle", "sending"} /\ sent_data_count \in Nat /\ rx_count \in Nat
      /\ reader \in [pc : {"idle", "header", "data"}, frames : 0 .. loop_limit - 1, left : 0 .. FrameWords]
      /\ FrameWords \in Nat \ {0}
  BY SnetAssumption DEF IInv, TypeOK, N
<1>1. CASE snet_recv_handler \/ snet_send_handler
  <2>1. rx_count' \in {rx_count, rx_count + 1}
    <3>1. CASE snet_recv_handler
      BY <3>1, ReceiveCases DEF IInv, StoreFrame, ThrowAway, ring
    <3>2. CASE snet_send_handler
      BY <3>2 DEF snet_send_handler, ring
    <3>3. QED
      BY <1>1, <3>1, <3>2
  <2>2. UNCHANGED <<pc, reader, send_state, sent_data_count>>
    BY <1>1 DEF snet_recv_handler, snet_send_handler, guest, msgs
  <2>3. QED
    BY <1>a, <2>1, <2>2 DEF LoadInv
<1>2. CASE Loop
  <2>1. UNCHANGED <<reader, send_state, sent_data_count>>
    BY <1>2, OfFirmware
  <2>2. CASE CountDown \/ ResetCount
    BY <1>a, <2>1, <2>2 DEF CountDown, ResetCount, LoadInv
  <2>3. CASE TakeFrame \/ ResetRing \/ SetStart \/ EthTx \/ TxWait \/ SendInterrupt \/ ClearInterrupt
    BY <1>a, <2>1, <2>3 DEF TakeFrame, ResetRing, SetStart, EthTx, TxWait, SendInterrupt, ClearInterrupt, LoadInv, ring
  <2>4. QED
    BY <1>2, <2>2, <2>3 DEF Loop
<1>3. CASE ReaderEnter
  BY <1>3, <1>a DEF ReaderEnter, firmware, msgs, ring, LoadInv
<1>4. CASE ReadHeader
  <2>1. send_state = "idle" /\ sent_data_count = 0 /\ pc = "loop"
    BY <1>4, <1>a, OfLoad DEF ReadHeader, LoadInv
  <2>2. UNCHANGED <<pc, sent_data_count, rx_count>> /\ send_state' = IF rx_count # 0 THEN "sending" ELSE "idle"
    BY <1>4, <2>1 DEF ReadHeader, mbfw_snet_load, LoadHeader, ring
  <2>3. CASE rx_count # 0
    <3>1. reader' = [reader EXCEPT !.pc = "data", !.left = FrameWords]
      BY <1>4, <2>3 DEF ReadHeader
    <3>2. reader' = [pc |-> "data", frames |-> reader.frames, left |-> FrameWords]
      BY <1>a, <3>1
    <3>3. QED
      BY <1>a, <2>1, <2>2, <2>3, <3>2 DEF LoadInv
  <2>4. CASE rx_count = 0
    BY <1>4, <1>a, <2>1, <2>2, <2>4 DEF ReadHeader, LeaveReader, LoadInv
  <2>5. QED
    BY <2>3, <2>4
<1>5. CASE ReadData
  <2>1. /\ send_state = "sending" /\ pc = "loop" /\ reader.pc = "data"
        /\ reader.left \in Nat \ {0} /\ sent_data_count + reader.left = FrameWords
    BY <1>5, <1>a, OfLoad DEF ReadData, LoadInv
  <2>2. UNCHANGED rx_count /\ LoadData
    BY <1>5, <2>1 DEF ReadData, mbfw_snet_load, ring
  <2>3. CASE reader.left > 1
    <3>1. sent_data_count' = sent_data_count + 1 /\ UNCHANGED <<pc, send_state>>
      BY <1>a, <2>1, <2>2, <2>3 DEF LoadData
    <3>2. reader' = [reader EXCEPT !.left = @ - 1]
      BY <1>5, <2>3 DEF ReadData
    <3>3. reader'.pc = "data" /\ reader'.left = reader.left - 1
      BY <1>a, <2>1, <3>2
    <3>4. QED
      BY <1>a, <2>1, <2>2, <2>3, <3>1, <3>3 DEF LoadInv
  <2>4. CASE reader.left = 1
    <3>1. pc' = "tohw" /\ send_state' = "idle" /\ sent_data_count' = 0
      BY <1>a, <2>1, <2>2, <2>4 DEF LoadData
    <3>2. reader'.pc # "data"
      BY <1>5, <2>4 DEF ReadData, LeaveReader
    <3>3. QED
      BY <1>a, <2>1, <2>2, <3>1, <3>2 DEF LoadInv
  <2>5. QED
    BY <2>1, <2>3, <2>4
<1>6. CASE SenderEnter \/ AdminEnter \/ AdminLock
  BY <1>6, <1>a DEF SenderEnter, AdminEnter, AdminLock, firmware, msgs, ring, LoadInv
<1>7. CASE Sender \/ Admin
  <2>1. PICK type \in {"tx", "data", "mac", "start", "stop"}, n \in 0 .. FrameWords :
             (type \in {"start", "stop"} <=> n = 0) /\ mbfw_snet_store(type, n)
    BY <1>7, GuestStores
  <2>2. UNCHANGED <<rx_count, send_state, sent_data_count, reader>>
    BY <1>7, <2>1, OfStore DEF ring, Sender, SendHeader, SendData, Admin, AdminHeader, AdminData
  <2>3. pc' \in {"loop", "reset", "tx"}
    BY <2>1, StoreType DEF IInv
  <2>4. pc' = "reset" => reader.pc # "data"
    BY <1>7, CommandNotReading
  <2>5. QED
    BY <1>a, <2>2, <2>3, <2>4 DEF LoadInv
<1>8. QED
  BY <1>1, <1>2, <1>3, <1>4, <1>5, <1>6, <1>7 DEF Next, Reader

(* The end of a transmission is announced only after its begin. *)
LEMMA TxStep ==
    ASSUME IInv, Next
    PROVE  TxInv'
<1>a. TxInv
  BY DEF IInv
<1>0. CASE snet_recv_handler
  BY <1>0, <1>a DEF snet_recv_handler, TxInv, tx
<1>1. CASE snet_send_handler
  <2>1. pc' = "wait" /\ txBusy' = FALSE
    BY <1>1, <1>a DEF snet_send_handler, TxInv
  <2>2. QED
    BY <2>1 DEF TxInv
<1>2. CASE Loop
  BY <1>2, <1>a DEF Loop, TakeFrame, CountDown, ResetRing, ResetCount, SetStart, EthTx, TxWait, SendInterrupt, ClearInterrupt,
                    TxInv, tx
<1>3. CASE ReaderEnter \/ SenderEnter \/ AdminEnter \/ AdminLock
  BY <1>3, <1>a DEF ReaderEnter, SenderEnter, AdminEnter, AdminLock, firmware, TxInv, tx
<1>4. CASE ReadHeader \/ ReadData
  <2>1. UNCHANGED tx /\ pc = "loop" /\ pc' \in {"loop", "tohw"}
    BY <1>4, OfLoad, LoadType DEF IInv, ReadHeader, ReadData
  <2>2. QED
    BY <1>a, <2>1 DEF TxInv, tx
<1>5. CASE Sender \/ Admin
  <2>1. PICK type \in {"tx", "data", "mac", "start", "stop"}, n \in 0 .. FrameWords : mbfw_snet_store(type, n)
    BY <1>5, GuestStores
  <2>2. UNCHANGED txBusy /\ pc = "loop"
    BY <2>1, OfStore
  <2>3. pc' = "tx" => transmit_complete' = 0
    <3>1. (\E t : Command(t)) \/ UNCHANGED pc
      BY <2>1 DEF mbfw_snet_store
    <3>2. QED
      BY <2>2, <3>1 DEF Command
  <2>4. QED
    BY <1>a, <2>2, <2>3 DEF TxInv
<1>6. QED
  BY <1>0, <1>1, <1>2, <1>3, <1>4, <1>5 DEF Next, Reader

-----------------------------------------------------------------------------
(* The ring. *)

(* Interrupts are disabled and enabled together with the loop's steps. *)
LEMMA MaskStep ==
    ASSUME IInv, Next
    PROVE  MaskInv'
<1>a. MaskInv
  BY DEF IInv
<1>1. CASE snet_recv_handler \/ snet_send_handler \/ ReaderEnter \/ SenderEnter \/ AdminEnter \/ AdminLock
  <2>1. UNCHANGED <<pc, intrOn>>
    BY <1>1 DEF snet_recv_handler, snet_send_handler, ReaderEnter, SenderEnter, AdminEnter, AdminLock, firmware
  <2>2. QED
    BY <1>a, <2>1 DEF MaskInv
<1>2. CASE TakeFrame \/ ResetRing
  BY <1>2 DEF TakeFrame, ResetRing, MaskInv
<1>3. CASE CountDown \/ ResetCount
  BY <1>3 DEF CountDown, ResetCount, MaskInv
<1>4. CASE SetStart \/ EthTx \/ TxWait \/ SendInterrupt \/ ClearInterrupt
  BY <1>a, <1>4 DEF SetStart, EthTx, TxWait, SendInterrupt, ClearInterrupt, MaskInv
<1>5. CASE ReadHeader \/ ReadData \/ Sender \/ Admin
  <2>1. pc = "loop" /\ UNCHANGED intrOn
    BY <1>5, OfLoad, OfStore, GuestStores DEF ReadHeader, ReadData
  <2>2. pc' \in {"loop", "tohw", "reset", "tx"}
    BY <1>5, LoadType, StoreType, GuestStores DEF IInv, ReadHeader, ReadData
  <2>3. QED
    BY <1>a, <2>1, <2>2 DEF MaskInv
<1>6. QED
  BY <1>1, <1>2, <1>3, <1>4, <1>5 DEF Next, Loop, Reader

(* Head, tail and count stay consistent, between the halves of an update too. *)
LEMMA RingStep ==
    ASSUME IInv, Next
    PROVE  RingInv'
<1>a. /\ RingInv /\ LoadInv
      /\ rx_head \in Slots /\ rx_tail \in Slots /\ rx_count \in 0 .. N /\ bds \in Seq(Slots)
      /\ N \in Nat \ {0} /\ mac' = mac
  BY SnetAssumption, OfLoad, GuestStores, OfStore
     DEF IInv, TypeOK, N, Next, Loop, Reader, snet_recv_handler, snet_send_handler, TakeFrame, CountDown, ResetRing,
         ResetCount, SetStart, EthTx, TxWait, SendInterrupt, ClearInterrupt, ReaderEnter, ReadHeader, ReadData, SenderEnter,
         AdminEnter, AdminLock, firmware, fixed
<1>1. CASE snet_recv_handler
  <2>1. UNCHANGED <<pc, rx_head, oldCount>> /\ Held = rx_count /\ Held' = rx_count' /\ pc # "countdown"
    <3>1. pc \notin {"countdown", "resetcount"} /\ UNCHANGED pc
      BY <1>1 DEF snet_recv_handler, IInv, MaskInv
    <3>2. UNCHANGED <<rx_head, oldCount>>
      BY <1>1, ReceiveCases DEF IInv, StoreFrame, ThrowAway, ring
    <3>3. QED
      BY <3>1, <3>2 DEF Held
  <2>2. mac = "dma" => Len(bds') = Len(bds) - 1 /\ Len(bds) > 0
    BY <1>1, <1>a DEF snet_recv_handler, EthRx
  <2>3. mac # "dma" => bds' = bds
    BY <1>1 DEF snet_recv_handler, EthRx
  <2>4. CASE StoreFrame /\ ~Full
    <3>1. rx_tail' = NextSlot(rx_tail) /\ rx_count' = rx_count + 1
      BY <2>4 DEF StoreFrame
    <3>a. rx_count < N
      BY <1>1, <2>4, NotFull DEF IInv, snet_recv_handler
    <3>b. rx_tail' = IF rx_tail = N - 1 THEN 0 ELSE rx_tail + 1
      BY <1>a, <3>1, NextSlotIs
    <3>2. rx_tail' = rx_head' + Held' \/ rx_tail' = rx_head' + Held' - N
      BY <1>a, <2>1, <3>1, <3>a, <3>b DEF RingInv, Slots
    <3>3. mac' = "dma" => Len(bds') + Held' <= N
      BY <1>a, <2>1, <2>2, <3>1 DEF RingInv
    <3>4. QED
      BY <1>a, <2>1, <2>3, <3>2, <3>3 DEF RingInv
  <2>5. CASE UNCHANGED ring
    BY <1>a, <2>1, <2>2, <2>3, <2>5 DEF RingInv, ring
  <2>6. QED
    BY <1>1, <2>4, <2>5, ReceiveCases DEF IInv, ThrowAway
<1>2. CASE TakeFrame
  <2>1. /\ Held = rx_count /\ Held' = rx_count - 1 /\ rx_count > 0
        /\ UNCHANGED <<rx_tail, rx_count>> /\ rx_head' = NextSlot(rx_head) /\ oldCount' = rx_count
        /\ pc' = "countdown"
    BY <1>2, <1>a DEF TakeFrame, Held, LoadInv
  <2>3. mac = "dma" => Len(bds') = Len(bds) + 1
    BY <1>2, <1>a DEF TakeFrame
  <2>4. mac # "dma" => bds' = bds
    BY <1>2 DEF TakeFrame
  <2>b. rx_head' = IF rx_head = N - 1 THEN 0 ELSE rx_head + 1
    BY <1>a, <2>1, NextSlotIs
  <2>5. rx_tail' = rx_head' + Held' \/ rx_tail' = rx_head' + Held' - N
    BY <1>a, <2>1, <2>b DEF RingInv, Slots
  <2>6. mac' = "dma" => Len(bds') + Held' <= N
    BY <1>a, <2>1, <2>3 DEF RingInv
  <2>7. QED
    BY <1>a, <2>1, <2>4, <2>5, <2>6 DEF RingInv
<1>3. CASE CountDown
  <2>1. Held' = Held /\ UNCHANGED <<rx_head, rx_tail, bds>> /\ pc' = "loop"
    BY <1>3, <1>a DEF CountDown, Held, RingInv, dma
  <2>3. QED
    BY <1>a, <2>1 DEF RingInv
<1>4. CASE ResetRing
  <2>1. Held' = 0 /\ rx_head' = 0 /\ rx_tail' = 0 /\ UNCHANGED bds /\ pc' = "resetcount" /\ Held = rx_count
    BY <1>4 DEF ResetRing, Held
  <2>3. QED
    BY <1>a, <2>1 DEF RingInv
<1>5. CASE ResetCount
  <2>1. Held' = Held /\ UNCHANGED <<rx_head, rx_tail, bds>> /\ pc' = "started"
    BY <1>5 DEF ResetCount, Held, dma
  <2>3. QED
    BY <1>a, <2>1 DEF RingInv
<1>6. ASSUME UNCHANGED <<ring, bds>>, pc \notin {"countdown", "resetcount"}, pc' \notin {"countdown", "resetcount"}
      PROVE  RingInv'
  <2>1. Held' = Held
    BY <1>6 DEF Held, ring
  <2>2. QED
    BY <1>a, <1>6, <2>1 DEF RingInv, ring
<1>7. CASE SetStart \/ EthTx \/ TxWait \/ SendInterrupt \/ ClearInterrupt
  BY <1>6, <1>7 DEF SetStart, EthTx, TxWait, SendInterrupt, ClearInterrupt, dma
<1>8. CASE ReadHeader \/ ReadData
  BY <1>6, <1>8, OfLoad, LoadType DEF IInv, ReadHeader, ReadData, dma
<1>9. CASE Sender \/ Admin
  BY <1>6, <1>9, GuestStores, OfStore, StoreType DEF IInv, dma
<1>10. CASE snet_send_handler \/ ReaderEnter \/ SenderEnter \/ AdminEnter \/ AdminLock
  <2>1. UNCHANGED <<pc, ring, bds>>
    BY <1>10 DEF snet_send_handler, ReaderEnter, SenderEnter, AdminEnter, AdminLock, firmware, dma
  <2>2. Held' = Held
    BY <2>1 DEF Held, ring
  <2>3. QED
    BY <1>a, <2>1, <2>2 DEF RingInv, ring
<1>11. QED
  BY <1>1, <1>2, <1>3, <1>4, <1>5, <1>7, <1>8, <1>9, <1>10 DEF Next, Loop, Reader

(* The hardware's ring and the slots stay in step until skewed. *)
LEMMA OrderStep ==
    ASSUME IInv, Next
    PROVE  OrderInv'
<1>a. /\ OrderInv /\ RingInv /\ MaskInv /\ LoadInv
      /\ rx_head \in Slots /\ rx_tail \in Slots /\ rx_count \in 0 .. N /\ bds \in Seq(Slots)
      /\ N \in Nat \ {0}
  BY SnetAssumption DEF IInv, TypeOK, N
<1> SUFFICES ASSUME mac' = "dma", ~skewed'
             PROVE  bds' = InRingOrder(rx_tail', N - Held')
  BY DEF OrderInv
<1>1. CASE snet_recv_handler
  <2>1. mac = "dma" /\ pc' = pc /\ pc \notin {"countdown", "resetcount"}
    BY <1>1, <1>a DEF snet_recv_handler, fixed, MaskInv
  <2>2. StoreFrame /\ ~Full
    <3>1. ThrowAway(TRUE) \/ ThrowAway(FALSE) => skewed'
      BY <2>1 DEF ThrowAway
    <3>2. QED
      BY <1>1, <3>1, ReceiveCases DEF IInv
  <2>3. ~skewed /\ rx_tail' = NextSlot(rx_tail) /\ rx_count' = rx_count + 1
    BY <2>2 DEF StoreFrame
  <2>4. Held = rx_count /\ Held' = rx_count + 1
    BY <2>1, <2>3 DEF Held
  <2>5. bds = InRingOrder(rx_tail, N - rx_count)
    BY <1>a, <2>1, <2>3, <2>4 DEF OrderInv
  <2>6. rx_count < N
    BY <1>1, <2>2, NotFull DEF IInv, snet_recv_handler
  <2>7. bds' = Tail(bds)
    BY <1>1, <2>1 DEF snet_recv_handler, EthRx
  <2>8. N - rx_count \in 1 .. N /\ N - rx_count - 1 = N - Held'
    BY <1>a, <2>4, <2>6
  <2>9. QED
    BY <1>a, <2>3, <2>5, <2>7, <2>8, RingOrderTail
<1>2. CASE TakeFrame
  <2>1. /\ mac = "dma" /\ skewed' = skewed /\ bds' = Append(bds, rx_head) /\ rx_tail' = rx_tail
        /\ pc = "tohw" /\ pc' = "countdown" /\ rx_count' = rx_count
    BY <1>2 DEF TakeFrame, fixed
  <2>2. rx_count > 0 /\ Held = rx_count /\ Held' = rx_count - 1
    BY <1>a, <2>1 DEF Held, LoadInv
  <2>3. bds = InRingOrder(rx_tail, N - rx_count)
    BY <1>a, <2>1, <2>2 DEF OrderInv
  <2>4. N - rx_count \in 0 .. N - 1 /\ N - rx_count + 1 = N - Held'
    BY <1>a, <2>2
  <2>5. rx_head = rx_tail + (N - rx_count) \/ rx_head = rx_tail + (N - rx_count) - N
    BY <1>a, <2>2 DEF RingInv, Slots
  <2>6. QED
    BY <1>a, <2>1, <2>3, <2>4, <2>5, RingOrderAppend
<1>3. CASE ResetRing
  <2>1. bds = InRingOrder(0, N) /\ bds' = bds /\ rx_tail' = 0 /\ pc' = "resetcount"
    BY <1>3 DEF ResetRing, fixed
  <2>2. N - Held' = N
    BY <1>a, <2>1 DEF Held
  <2>3. QED
    BY <2>1, <2>2
<1>4. ASSUME UNCHANGED <<mac, skewed, bds, rx_tail>>, Held' = Held
      PROVE  bds' = InRingOrder(rx_tail', N - Held')
  BY <1>a, <1>4 DEF OrderInv
<1>5. CASE CountDown
  BY <1>4, <1>5, <1>a DEF CountDown, dma, fixed, Held, RingInv
<1>6. CASE ResetCount
  BY <1>4, <1>6 DEF ResetCount, dma, fixed, Held
<1>7. ASSUME UNCHANGED <<ring, dma, fixed>>, pc \notin {"countdown", "resetcount"}, pc' \notin {"countdown", "resetcount"}
      PROVE  bds' = InRingOrder(rx_tail', N - Held')
  BY <1>4, <1>7 DEF ring, dma, fixed, Held
<1>8. CASE SetStart \/ EthTx \/ TxWait \/ SendInterrupt \/ ClearInterrupt
  BY <1>7, <1>8 DEF SetStart, EthTx, TxWait, SendInterrupt, ClearInterrupt
<1>9. CASE ReadHeader \/ ReadData
  BY <1>7, <1>9, OfLoad, LoadType DEF IInv, ReadHeader, ReadData
<1>10. CASE Sender \/ Admin
  BY <1>7, <1>10, GuestStores, OfStore, StoreType DEF IInv
<1>11. CASE snet_send_handler \/ ReaderEnter \/ SenderEnter \/ AdminEnter \/ AdminLock
  <2>1. UNCHANGED <<pc, ring, dma, fixed>>
    BY <1>11 DEF snet_send_handler, ReaderEnter, SenderEnter, AdminEnter, AdminLock, firmware
  <2>2. QED
    BY <1>4, <2>1 DEF ring, dma, fixed, Held
<1>12. QED
  BY <1>1, <1>2, <1>3, <1>5, <1>6, <1>8, <1>9, <1>10, <1>11 DEF Next, Loop, Reader

-----------------------------------------------------------------------------
(* The invariant, and what it says of the ring and the transmit buffer. *)

(* The invariant holds at power-on and after every step. *)
LEMMA InitInv == Init => IInv
<1> SUFFICES ASSUME Init PROVE IInv
  OBVIOUS
<1>0. N \in Nat \ {0} /\ 0 \in Slots /\ 0 \in 0 .. N /\ Held = 0 /\ FrameWords \in Nat \ {0} /\ loop_limit \in Nat \ {0}
  BY SnetAssumption DEF Init, Held, N, Slots
<1>1. TypeOK
  <2>1. bds \in Seq(Slots) /\ Len(bds) <= N
    BY <1>0, RingOrderIs DEF Init
  <2>2. /\ intrOn \in BOOLEAN /\ send_intr_packet \in BOOLEAN /\ macOn \in BOOLEAN
        /\ txBusy \in BOOLEAN /\ skewed \in BOOLEAN /\ intr \in BOOLEAN
    BY DEF Init
  <2>3. recv \in [state : {"idle", "receiving"}, type : {"none", "tx", "mac", "data"},
               size : 0 .. FrameWords, count : 0 .. FrameWords]
    BY <1>0 DEF Init, NoMessage
  <2>4. /\ lock \in [{"intrlock", "xmitlock"} -> {"free", "reader", "sender", "admin"}]
        /\ reader \in [pc : {"idle", "header", "data"}, frames : 0 .. loop_limit - 1, left : 0 .. FrameWords]
        /\ sender \in [pc : {"idle", "header", "data"}, left : 0 .. FrameWords]
        /\ admin.pc \in {"idle", "lock", "header", "data"}
    BY <1>0 DEF Init
  <2>5. wire \in 0 .. Modulus - 1 /\ buf \in [Slots -> {NoFrame} \cup 0 .. Modulus - 1]
    BY DEF Init, Modulus
  <2>6. QED
    BY <1>0, <2>1, <2>2, <2>3, <2>4, <2>5 DEF Init, TypeOK
<1>2. AdminInv
  BY DEF Init, AdminInv
<1>3. LockInv
  BY DEF Init, LockInv
<1>4. LoadInv
  BY DEF Init, LoadInv
<1>5. MaskInv
  BY DEF Init, MaskInv
<1>6. RingInv
  BY <1>0, RingOrderIs DEF Init, RingInv
<1>7. OrderInv
  BY <1>0 DEF Init, OrderInv
<1>8. TxInv
  BY DEF Init, TxInv
<1>9. QED
  BY <1>1, <1>2, <1>3, <1>4, <1>5, <1>6, <1>7, <1>8 DEF IInv

(* Every step preserves the invariant. *)
LEMMA InvStep == IInv /\ [Next]_vars => IInv'
<1> SUFFICES ASSUME IInv, [Next]_vars PROVE IInv'
  OBVIOUS
<1>1. CASE Next
  <2>1. TypeOK'
    BY <1>1, FirmwareType, ReaderType, OtherType DEF Next
  <2>2. AdminInv'
    <3>1. CASE AdminEnter \/ AdminLock \/ Admin
      BY <3>1, AdminStep
    <3>2. CASE snet_recv_handler \/ snet_send_handler \/ Loop \/ Reader \/ SenderEnter \/ Sender
      <4>1. UNCHANGED <<admin, traffic>>
        BY <3>2, OfFirmware, OfLoad, OfStore
           DEF Reader, ReaderEnter, ReadHeader, ReadData, SenderEnter, Sender, SendHeader, SendData, firmware, fixed
      <4>2. QED
        BY <4>1 DEF IInv, AdminInv
    <3>3. QED
      BY <1>1, <3>1, <3>2 DEF Next
  <2>3. LockInv' /\ LoadInv' /\ MaskInv' /\ RingInv' /\ OrderInv' /\ TxInv'
    BY <1>1, LockStep, LoadStep, MaskStep, RingStep, OrderStep, TxStep
  <2>4. QED
    BY <2>1, <2>2, <2>3 DEF IInv
<1>2. CASE UNCHANGED vars
  <2>1. UNCHANGED <<pc, intrOn, start, rx_head, rx_tail, rx_count, oldCount, send_state, sent_data_count, recv,
                    transmit_complete, txBusy, send_intr_packet, macOn, bds, skewed, wire, buf, mac, traffic,
                    intr, lock, reader, sender, admin>>
    BY <1>2 DEF vars, ring, msgs, tx, dma, frames, fixed, guest
  <2>2. Held' = Held
    BY <2>1 DEF Held
  <2>3. TypeOK' /\ AdminInv' /\ LockInv' /\ LoadInv'
    BY <2>1 DEF IInv, TypeOK, AdminInv, LockInv, LoadInv
  <2>4. MaskInv' /\ RingInv' /\ OrderInv' /\ TxInv'
    BY <2>1, <2>2 DEF IInv, MaskInv, RingInv, OrderInv, TxInv
  <2>5. QED
    BY <2>3, <2>4 DEF IInv
<1>3. QED
  BY <1>1, <1>2

(* So it holds in every reachable state. *)
LEMMA Inductive == Spec => []IInv
BY InitInv, InvStep, PTL DEF Spec

(* Types, of the ring and the counters above all: the ring never holds     *)
(* more than SNET_RX_BUFS_COUNT frames, and no counter leaves its range.   *)
THEOREM TypeCorrect == Spec => []TypeOK
<1>1. IInv => TypeOK
  BY DEF IInv
<1>2. QED
  BY <1>1, Inductive, PTL

(* Whatever the handler and the loop do to head, tail and count, they      *)
(* describe the same frames whenever the loop is back.                     *)
THEOREM CountsAgree == Spec => []CountAgrees
<1>1. IInv => CountAgrees
  <2> SUFFICES ASSUME IInv, pc = "loop"
               PROVE  (rx_tail - rx_head) % N = rx_count % N
    BY DEF CountAgrees
  <2>1. Held = rx_count
    BY DEF Held
  <2>2. N \in Nat \ {0} /\ rx_head \in 0 .. N - 1 /\ rx_tail \in 0 .. N - 1 /\ rx_count \in 0 .. N
    BY SnetAssumption DEF IInv, TypeOK, Slots, N
  <2>3. rx_tail - rx_head = rx_count \/ rx_tail - rx_head = rx_count - N
    BY <2>1, <2>2 DEF IInv, RingInv
  <2>4. (rx_count - N) % N = rx_count % N
    BY <2>2
  <2>5. QED
    BY <2>3, <2>4
<1>2. QED
  BY <1>1, Inductive, PTL

(* With DMA, until a frame is thrown away or a START finds the hardware    *)
(* elsewhere, the hardware holds the buffers of the empty slots in order.  *)
THEOREM HardwareInOrder == Spec => []BuffersInOrder
<1>1. IInv => BuffersInOrder
  BY DEF IInv, OrderInv, BuffersInOrder, Held
<1>2. QED
  BY <1>1, Inductive, PTL

(* The loop never comes back to the guest, which would write the next      *)
(* message to tx_buf, while the MAC may still be reading it.               *)
THEOREM TxBufferKept == Spec => []TxBufferStable
<1>1. IInv => TxBufferStable
  BY DEF IInv, TxInv, TxBufferStable
<1>2. QED
  BY <1>1, Inductive, PTL

-----------------------------------------------------------------------------
(* The framing of the messages, where the guest does not do both. *)

(* The guest sends frames or joins groups: the two have no lock in common. *)
Apart == "both" \notin Traffic
FramingInv == traffic \in Traffic /\ StoreInv

(* Sender and administrator are not both in the middle of a message. *)
LEMMA OneSender ==
    ASSUME Apart, IInv, FramingInv, admin.pc \in {"header", "data"}
    PROVE  sender.pc = "idle"
<1>1. traffic \in {"send", "join"}
  BY SnetAssumption DEF Apart, FramingInv
<1>2. CASE traffic = "send"
  <2>1. "xmitlock" \in Locks(admin.op)
    BY <1>2 DEF IInv, AdminInv, Locks
  <2>2. lock["xmitlock"] = "admin"
    BY <2>1 DEF IInv, LockInv
  <2>3. QED
    BY <2>2 DEF IInv, LockInv
<1>3. CASE traffic = "join"
  BY <1>3 DEF IInv, LockInv
<1>4. QED
  BY <1>1, <1>2, <1>3

(* No step moves one side within a message and not the other. *)
LEMMA FramingStep ==
    ASSUME Apart, IInv, FramingInv, Next
    PROVE  FramingInv'
<1>a. /\ StoreInv /\ AdminInv /\ FrameWords \in Nat \ {0}
      /\ recv \in [state : {"idle", "receiving"}, type : {"none", "tx", "mac", "data"},
                   size : 0 .. FrameWords, count : 0 .. FrameWords]
      /\ sender \in [pc : {"idle", "header", "data"}, left : 0 .. FrameWords]
      /\ admin \in [pc : {"idle", "lock", "header", "data"}, op : AdminOps \cup {"none"}, todo : Seq(Kinds)]
  BY SnetAssumption DEF IInv, TypeOK, AdminInv, FramingInv
<1>b. traffic' \in Traffic
  BY OfFirmware, OfLoad, OfStore, GuestStores
     DEF FramingInv, Next, Reader, ReaderEnter, ReadHeader, ReadData, SenderEnter, AdminEnter, AdminLock, firmware, fixed
<1> SUFFICES StoreInv'
  BY <1>b DEF FramingInv
<1>1. CASE snet_recv_handler \/ snet_send_handler \/ Loop \/ Reader
  <2>1. UNCHANGED <<recv, sender, admin>>
    BY <1>1, OfFirmware, OfLoad DEF Reader, ReaderEnter, ReadHeader, ReadData, firmware, msgs
  <2>2. QED
    BY <1>a, <2>1 DEF StoreInv
<1>2. CASE SenderEnter \/ AdminEnter \/ AdminLock
  <2>1. UNCHANGED recv
    BY <1>2 DEF SenderEnter, AdminEnter, AdminLock, firmware, msgs
  <2>2. (admin.pc # "data" /\ admin'.pc # "data") \/ UNCHANGED admin
    BY <1>2, <1>a DEF SenderEnter, AdminEnter, AdminLock
  <2>3. (sender.pc # "data" /\ sender'.pc # "data") \/ UNCHANGED sender
    BY <1>2 DEF SenderEnter, AdminEnter, AdminLock
  <2>4. QED
    BY <1>a, <2>1, <2>2, <2>3 DEF StoreInv
<1>3. CASE SendHeader
  <2>1. admin.pc # "data" /\ UNCHANGED admin /\ sender' = [pc |-> "data", left |-> FrameWords]
    BY <1>3, OneSender DEF SendHeader
  <2>2. recv.state = "idle"
    BY <1>3, <1>a, <2>1 DEF SendHeader, StoreInv
  <2>3. recv' = [state |-> "receiving", type |-> "tx", size |-> FrameWords, count |-> 0]
    BY <1>3, <1>a, <2>2 DEF SendHeader, mbfw_snet_store
  <2>4. QED
    BY <1>a, <2>1, <2>3 DEF StoreInv
<1>4. CASE SendData
  <2>1. admin.pc # "data" /\ UNCHANGED admin /\ sender.pc = "data"
    BY <1>4, OneSender DEF SendData
  <2>2. /\ recv.state = "receiving" /\ recv.type = "tx" /\ recv.size = FrameWords
        /\ sender.left \in Nat \ {0} /\ recv.count \in Nat /\ recv.count + sender.left = FrameWords
    BY <1>a, <2>1 DEF StoreInv
  <2> DEFINE m == [recv EXCEPT !.count = @ + 1]
  <2>3. recv' = IF m.count >= m.size THEN NoMessage ELSE m
    BY <1>4, <2>2 DEF SendData, mbfw_snet_store
  <2>4. m = [state |-> "receiving", type |-> "tx", size |-> FrameWords, count |-> recv.count + 1]
    BY <1>a, <2>2
  <2>5. CASE sender.left > 1
    <3>1. recv' = [state |-> "receiving", type |-> "tx", size |-> FrameWords, count |-> recv.count + 1]
      BY <1>a, <2>2, <2>3, <2>4, <2>5
    <3>2. sender' = [sender EXCEPT !.left = @ - 1]
      BY <1>4, <2>5 DEF SendData
    <3>3. sender'.pc = "data" /\ sender'.left = sender.left - 1
      BY <1>a, <2>1, <3>2
    <3>4. QED
      BY <1>a, <2>1, <2>2, <2>5, <3>1, <3>3 DEF StoreInv
  <2>6. CASE sender.left = 1
    <3>1. recv' = NoMessage
      BY <1>a, <2>2, <2>3, <2>4, <2>6
    <3>2. sender'.pc = "idle"
      BY <1>4, <2>6 DEF SendData
    <3>3. QED
      BY <2>1, <3>1, <3>2 DEF StoreInv, NoMessage
  <2>7. QED
    BY <2>2, <2>5, <2>6
<1>5. ASSUME NextMessage, UNCHANGED sender, sender.pc = "idle", recv' = NoMessage
      PROVE  StoreInv'
  <2>1. CASE Len(admin.todo) = 1
    BY <1>5, <2>1 DEF NextMessage, StoreInv, NoMessage
  <2>2. CASE Len(admin.todo) # 1
    <3>1. admin' = [admin EXCEPT !.pc = "header", !.todo = Tail(@)]
      BY <1>5, <2>2 DEF NextMessage
    <3>2. admin'.pc = "header"
      BY <1>a, <3>1
    <3>3. QED
      BY <1>5, <3>2 DEF StoreInv, NoMessage
  <2>3. QED
    BY <2>1, <2>2
<1>6. CASE AdminHeader
  <2>1. sender.pc = "idle" /\ UNCHANGED sender /\ recv.state = "idle"
    BY <1>6, <1>a, OneSender DEF AdminHeader, StoreInv
  <2>2. CASE Head(admin.todo) = "mac"
    <3>1. mbfw_snet_store("mac", 1) /\ admin' = [admin EXCEPT !.pc = "data"]
      BY <1>6, <2>2 DEF AdminHeader
    <3>2. recv' = [state |-> "receiving", type |-> "mac", size |-> 1, count |-> 0]
      BY <2>1, <3>1 DEF mbfw_snet_store
    <3>3. admin'.pc = "data"
      BY <1>a, <3>1
    <3>4. QED
      BY <2>1, <3>2, <3>3 DEF StoreInv
  <2>3. CASE Head(admin.todo) # "mac"
    <3>1. mbfw_snet_store(Head(admin.todo), 0) /\ NextMessage
      BY <1>6, <2>3 DEF AdminHeader
    <3>2. recv' = NoMessage
      BY <2>1, <3>1 DEF mbfw_snet_store
    <3>3. QED
      BY <1>5, <2>1, <3>1, <3>2
  <2>4. QED
    BY <2>2, <2>3
<1>7. CASE AdminData
  <2>1. sender.pc = "idle" /\ UNCHANGED sender /\ admin.pc = "data" /\ NextMessage
    BY <1>7, OneSender DEF AdminData
  <2>2. recv.state = "receiving" /\ recv.type = "mac" /\ recv.size = 1 /\ recv.count = 0
    BY <1>a, <2>1 DEF StoreInv
  <2> DEFINE m == [recv EXCEPT !.count = @ + 1]
  <2>3. recv' = IF m.count >= m.size THEN NoMessage ELSE m
    BY <1>7, <2>2 DEF AdminData, mbfw_snet_store
  <2>4. m.count = 1 /\ m.size = 1
    BY <1>a, <2>2
  <2>5. QED
    BY <1>5, <2>1, <2>3, <2>4
<1>8. QED
  BY <1>1, <1>2, <1>3, <1>4, <1>6, <1>7 DEF Next, Sender, Admin

(* The same of the framing invariant, with the traffic kept apart. *)
LEMMA FramingInductive ==
    ASSUME Apart
    PROVE  Spec => [](IInv /\ FramingInv)
<1>1. Init => FramingInv
  BY DEF Init, FramingInv, StoreInv, NoMessage
<1>2. IInv /\ FramingInv /\ [Next]_vars => FramingInv'
  <2>1. IInv /\ FramingInv /\ Next => FramingInv'
    BY FramingStep
  <2>2. FramingInv /\ UNCHANGED vars => FramingInv'
    BY DEF FramingInv, StoreInv, vars, msgs, fixed, guest
  <2>3. QED
    BY <2>1, <2>2
<1>3. QED
  BY <1>1, <1>2, Inductive, PTL DEF Spec

(* The two sides agree on where in a message they are, if the guest only   *)
(* sends or only joins groups; for the other direction that is no          *)
(* condition.  Where it does both the run snet_locks shows what happens.   *)
THEOREM MessagesFramed ==
    ASSUME Apart
    PROVE  Spec => []MessageFraming
<1>1. IInv /\ FramingInv => MessageFraming
  <2> SUFFICES ASSUME IInv, FramingInv PROVE MessageFraming
    OBVIOUS
  <2>1. /\ send_state = "sending" <=> reader.pc = "data"
        /\ reader.pc = "data" => sent_data_count + reader.left = FrameWords /\ rx_count > 0
    BY DEF IInv, LoadInv
  <2>2. StoreInv
    BY DEF FramingInv
  <2>3. QED
    <3>1. (recv.state = "receiving") <=> (sender.pc = "data" \/ admin.pc = "data")
      BY <2>2 DEF StoreInv
    <3>2. /\ sender.pc = "data" => recv.type = "tx" /\ recv.count + sender.left = FrameWords
          /\ admin.pc = "data" => recv.type = "mac" /\ recv.count = 0
      BY <2>2 DEF StoreInv
    <3>3. QED
      BY <2>1, <3>1, <3>2 DEF MessageFraming
<1>2. QED
  BY <1>1, FramingInductive, PTL

(* Then a word of data is never taken for the header of a message.         *)
THEOREM TypesKnown ==
    ASSUME Apart
    PROVE  Spec => []KnownTypes
<1>1. IInv /\ FramingInv => KnownTypes
  <2> SUFFICES ASSUME IInv, FramingInv PROVE recv.type # "data"
    BY DEF KnownTypes
  <2>1. recv.state \in {"idle", "receiving"} /\ StoreInv
    BY DEF IInv, TypeOK, FramingInv
  <2>2. CASE recv.state = "idle"
    BY <2>1, <2>2 DEF StoreInv, NoMessage
  <2>3. CASE recv.state = "receiving"
    BY <2>1, <2>3 DEF StoreInv
  <2>4. QED
    BY <2>1, <2>2, <2>3
<1>2. QED
  BY <1>1, FramingInductive, PTL

-----------------------------------------------------------------------------
(* The queue of frames that the guest sees. *)

Contents(first, n, b) == [k \in 1 .. n |-> b[(first + k - 1) % N]]
Frames == {NoFrame} \cup 0 .. Modulus - 1

(* The queue is the part of the ring that is received and not read. *)
LEMMA ReceivedIs == Received = Contents(rx_head, Held, buf)
BY DEF Received, Contents, Held

(* The frames in a run of slots, slot by slot. *)
LEMMA ContentsIs ==
    ASSUME NEW i \in Slots, NEW n \in 0 .. N, NEW b \in [Slots -> Frames]
    PROVE  /\ Contents(i, n, b) \in Seq(Frames) /\ Len(Contents(i, n, b)) = n
           /\ \A k \in 1 .. n : Wrap(i + k - 1) \in Slots /\ Contents(i, n, b)[k] = b[Wrap(i + k - 1)]
<1>1. \A k \in 1 .. n : (i + k - 1) % N = Wrap(i + k - 1)
  BY SnetAssumption DEF Slots, N, Wrap
<1>2. \A k \in 1 .. n : (i + k - 1) % N \in Slots
  BY SnetAssumption DEF Slots, N
<1>3. n \in Nat
  BY SnetAssumption DEF N
<1>4. QED
  BY <1>1, <1>2, <1>3 DEF Contents

(* A frame stored behind a run of slots is appended to its contents. *)
LEMMA ContentsAppend ==
    ASSUME NEW i \in Slots, NEW n \in 0 .. N - 1, NEW j \in Slots, j = i + n \/ j = i + n - N,
           NEW b \in [Slots -> Frames], NEW v \in Frames
    PROVE  Contents(i, n + 1, [b EXCEPT ![j] = v]) = Append(Contents(i, n, b), v)
<1> DEFINE c == [b EXCEPT ![j] = v]
           s == Contents(i, n, b)
           t == Contents(i, n + 1, c)
<1>0. N \in Nat \ {0} /\ n \in 0 .. N /\ n + 1 \in 0 .. N /\ c \in [Slots -> Frames]
  BY SnetAssumption DEF N
<1>c. c[j] = v /\ \A x \in Slots : x # j => c[x] = b[x]
  BY <1>0
<1> HIDE DEF c
<1>1. s \in Seq(Frames) /\ Len(s) = n
      /\ \A k \in 1 .. n : Wrap(i + k - 1) \in Slots /\ s[k] = b[Wrap(i + k - 1)]
  BY <1>0, ContentsIs
<1>2. t \in Seq(Frames) /\ Len(t) = n + 1
      /\ \A k \in 1 .. n + 1 : t[k] = c[Wrap(i + k - 1)]
  BY <1>0, ContentsIs
<1> HIDE DEF s, t
<1>3. /\ Append(s, v) \in Seq(Frames) /\ Len(Append(s, v)) = n + 1
      /\ \A k \in 1 .. n : Append(s, v)[k] = s[k]
      /\ Append(s, v)[n + 1] = v
  BY <1>1, AppendProperties
<1>4. \A k \in 1 .. n + 1 : t[k] = Append(s, v)[k]
  <2> TAKE k \in 1 .. n + 1
  <2>1. t[k] = c[Wrap(i + k - 1)]
    BY <1>2
  <2>2. N \in Nat /\ i \in 0 .. N - 1 /\ j \in 0 .. N - 1 /\ n \in 0 .. N - 1 /\ k \in 1 .. n + 1
    BY <1>0 DEF Slots
  <2>3. CASE k # n + 1
    <3>1. k \in 1 .. n
      BY <2>2, <2>3
    <3>2. Wrap(i + k - 1) # j /\ Wrap(i + k - 1) \in Slots
      BY <2>2, <3>1 DEF Wrap, Slots
    <3>3. c[Wrap(i + k - 1)] = b[Wrap(i + k - 1)]
      BY <1>c, <3>2
    <3>4. QED
      BY <1>1, <1>3, <2>1, <3>1, <3>3
  <2>4. CASE k = n + 1
    <3>1. Wrap(i + k - 1) = j
      BY <2>2, <2>4 DEF Wrap
    <3>2. QED
      BY <1>3, <1>c, <2>1, <2>4, <3>1
  <2>5. QED
    BY <2>3, <2>4
<1>5. t = Append(s, v)
  BY <1>0, <1>2, <1>3, <1>4, SeqEqual
<1>6. QED
  BY <1>5 DEF s, t, c

(* A frame taken from the first slot is taken from the front. *)
LEMMA ContentsTail ==
    ASSUME NEW i \in Slots, NEW n \in 1 .. N, NEW b \in [Slots -> Frames], NEW v \in Frames
    PROVE  /\ Contents(i, n, b) # <<>>
           /\ Contents(NextSlot(i), n - 1, [b EXCEPT ![i] = v]) = Tail(Contents(i, n, b))
<1> DEFINE c == [b EXCEPT ![i] = v]
           s == Contents(i, n, b)
           t == Contents(NextSlot(i), n - 1, c)
<1>0. N \in Nat \ {0} /\ n \in 0 .. N /\ n - 1 \in 0 .. N /\ c \in [Slots -> Frames] /\ NextSlot(i) \in Slots
  BY SnetAssumption, NextSlotIs DEF N
<1>c. c[i] = v /\ \A x \in Slots : x # i => c[x] = b[x]
  BY <1>0
<1> HIDE DEF c
<1>1. s \in Seq(Frames) /\ Len(s) = n
      /\ \A k \in 1 .. n : Wrap(i + k - 1) \in Slots /\ s[k] = b[Wrap(i + k - 1)]
  BY <1>0, ContentsIs
<1>2. t \in Seq(Frames) /\ Len(t) = n - 1
      /\ \A k \in 1 .. n - 1 : t[k] = c[Wrap(NextSlot(i) + k - 1)]
  BY <1>0, ContentsIs
<1> HIDE DEF s, t
<1>3. s # <<>>
  BY <1>0, <1>1, EmptySeq
<1>4. Tail(s) \in Seq(Frames) /\ Len(Tail(s)) = n - 1 /\ \A k \in 1 .. n - 1 : Tail(s)[k] = s[k + 1]
  BY <1>0, <1>1, <1>3, HeadTailProperties
<1>5. \A k \in 1 .. n - 1 : t[k] = Tail(s)[k]
  <2> TAKE k \in 1 .. n - 1
  <2>1. N \in Nat /\ i \in 0 .. N - 1 /\ n \in 1 .. N /\ k \in 1 .. n - 1
    BY <1>0 DEF Slots
  <2>2. Tail(s)[k] = b[Wrap(i + k)]
    <3>1. k + 1 \in 1 .. n /\ i + (k + 1) - 1 = i + k
      BY <2>1
    <3>2. QED
      BY <1>1, <1>4, <3>1
  <2>3. NextSlot(i) = IF i = N - 1 THEN 0 ELSE i + 1
    BY NextSlotIs
  <2>4. Wrap(NextSlot(i) + k - 1) = Wrap(i + k) /\ Wrap(i + k) # i /\ Wrap(i + k) \in Slots
    BY <2>1, <2>3 DEF Wrap, Slots
  <2>5. c[Wrap(i + k)] = b[Wrap(i + k)]
    BY <1>c, <2>4
  <2>6. QED
    BY <1>2, <2>2, <2>4, <2>5
<1>6. t = Tail(s)
  BY <1>0, <1>2, <1>4, <1>5, SeqEqual
<1>7. QED
  BY <1>3, <1>6 DEF s, t, c

(* No slots, no frames. *)
LEMMA ContentsEmpty ==
    ASSUME NEW i, NEW b
    PROVE  Contents(i, 0, b) = <<>>
BY DEF Contents

(* A step that keeps the ring and the frames keeps the queue. *)
LEMMA QueueKept ==
    ASSUME UNCHANGED <<rx_head, wire, buf, skewed>>, Held' = Held
    PROVE  UNCHANGED Queue!vars
<1>1. Received' = Received
  BY ReceivedIs DEF Received, Held
<1>2. QED
  BY <1>1 DEF Queue!vars

(* Every step is one of the queue's, or none. *)
LEMMA QueueStep ==
    ASSUME IInv, Next
    PROVE  [Queue!Next /\ (skewed => skewed')]_(Queue!vars)
<1>a. /\ RingInv /\ MaskInv /\ LoadInv /\ OrderInv
      /\ rx_head \in Slots /\ rx_tail \in Slots /\ rx_count \in 0 .. N /\ bds \in Seq(Slots)
      /\ wire \in 0 .. Modulus - 1 /\ buf \in [Slots -> Frames] /\ N \in Nat \ {0}
  BY SnetAssumption DEF IInv, TypeOK, N, Frames
<1>c. ~skewed /\ ~skewed' /\ skewed' \in BOOLEAN => skewed' = skewed
  BY DEF IInv, TypeOK
<1>b. Received' = Contents(rx_head', Held', buf')
  BY DEF Received, Contents, Held
<1>1. CASE snet_recv_handler
  <2>1. pc' = pc /\ mac' = mac /\ pc \notin {"countdown", "resetcount"}
    BY <1>1, <1>a DEF snet_recv_handler, fixed, MaskInv
  <2>2. wire' # wire /\ wire' \in Frames /\ Held = rx_count /\ Held' = rx_count'
    BY <1>1, <1>a, <2>1 DEF snet_recv_handler, Modulus, Frames, Held
  <2>3. CASE StoreFrame /\ start = 1 /\ ~Full
    <3>1. rx_head' = rx_head /\ rx_count' = rx_count + 1 /\ skewed' = skewed
      BY <2>3 DEF StoreFrame
    <3>2. rx_count < N
      BY <1>1, <2>3, NotFull DEF IInv, snet_recv_handler
    <3>3. skewed \/ buf' = [buf EXCEPT ![rx_tail] = wire']
      <4>1. CASE mac = "dma" /\ ~skewed
        <5>1. bds = InRingOrder(rx_tail, N - rx_count) /\ N - rx_count \in 1 .. N
          BY <1>a, <2>2, <3>2, <4>1 DEF OrderInv
        <5>2. Head(bds) = rx_tail
          BY <1>a, <5>1, RingOrderTail
        <5>3. QED
          BY <1>1, <4>1, <5>2 DEF snet_recv_handler, EthRx
      <4>2. CASE mac # "dma"
        <5>1. start = 1 /\ ~Full
          BY <2>3
        <5>2. QED
          BY <1>1, <4>2, <5>1 DEF snet_recv_handler, EthRx
      <4>3. QED
        BY <4>1, <4>2
    <3>4. CASE skewed
      BY <3>1, <3>4 DEF Queue!Next
    <3>5. CASE ~skewed
      <4>1. rx_tail = rx_head + rx_count \/ rx_tail = rx_head + rx_count - N
        BY <1>a, <2>2 DEF RingInv
      <4>2. rx_count \in 0 .. N - 1
        BY <1>a, <3>2
      <4>3. Received' = Append(Received, wire')
        BY <1>a, <1>b, <2>2, <3>1, <3>3, <3>5, <4>1, <4>2, ContentsAppend, ReceivedIs
      <4>4. Len(Received) < N
        BY <1>a, <2>2, <3>2, ReceivedIs, ContentsIs
      <4>5. Queue!Arrive
        BY <2>2, <3>1, <4>3, <4>4 DEF Queue!Arrive
      <4>6. QED
        BY <3>1, <3>5, <4>5 DEF Queue!Next
    <3>6. QED
      BY <3>4, <3>5
  <2>4. CASE (ThrowAway(TRUE) \/ ThrowAway(FALSE)) /\ ~(start = 1 /\ ~Full)
    <3>1. UNCHANGED ring /\ (skewed => skewed')
      BY <2>4 DEF ThrowAway
    <3>2. CASE skewed'
      BY <3>1, <3>2 DEF Queue!Next
    <3>3. CASE ~skewed'
      <4>1. mac # "dma" /\ ~skewed
        BY <2>4, <3>3 DEF ThrowAway
      <4>2. buf' = buf
        <5>1. ~(start = 1 /\ ~Full)
          BY <2>4
        <5>2. QED
          BY <1>1, <4>1, <5>1 DEF snet_recv_handler, EthRx
      <4>3. Received' = Received
        BY <1>b, <2>2, <3>1, <4>2, ReceivedIs DEF ring
      <4>4. skewed' = skewed
        <5>1. skewed' \in BOOLEAN
          BY <1>1, FirmwareType DEF TypeOK
        <5>2. QED
          BY <1>c, <3>3, <4>1, <5>1
      <4>5. Queue!Arrive
        BY <2>2, <4>3, <4>4 DEF Queue!Arrive
      <4>6. QED
        BY <4>1, <4>5 DEF Queue!Next
    <3>4. QED
      BY <3>2, <3>3
  <2>5. QED
    BY <1>1, <2>3, <2>4, ReceiveCases DEF IInv
<1>2. CASE TakeFrame
  <2>1. Held = rx_count /\ Held' = rx_count - 1 /\ rx_count \in 1 .. N
    BY <1>2, <1>a DEF TakeFrame, Held, LoadInv
  <2>2. buf' = [buf EXCEPT ![rx_head] = NoFrame] /\ rx_head' = NextSlot(rx_head) /\ UNCHANGED <<wire, skewed>>
    BY <1>2 DEF TakeFrame
  <2>3. NoFrame \in Frames
    BY DEF Frames
  <2>4. Received # <<>> /\ Received' = Tail(Received)
    BY <1>a, <1>b, <2>1, <2>2, <2>3, ContentsTail, ReceivedIs
  <2>5. Queue!Read
    BY <2>2, <2>4 DEF Queue!Read
  <2>6. QED
    BY <2>2, <2>5 DEF Queue!Next
<1>3. CASE ResetRing
  <2>1. Held' = 0 /\ wire' = wire /\ (skewed => skewed')
    BY <1>3 DEF ResetRing, Held
  <2>2. Received' = <<>>
    BY <1>b, <2>1, ContentsEmpty
  <2>3. CASE skewed'
    BY <2>1, <2>3 DEF Queue!Next
  <2>4. CASE ~skewed'
    <3>1. ~skewed /\ skewed' = skewed
      <4>1. skewed' \in BOOLEAN
        BY <1>3, FirmwareType DEF TypeOK, Loop
      <4>2. QED
        BY <1>c, <2>1, <2>4, <4>1
    <3>2. Queue!Empty
      BY <2>1, <2>2, <3>1 DEF Queue!Empty
    <3>3. QED
      BY <3>1, <3>2 DEF Queue!Next
  <2>5. QED
    BY <2>3, <2>4
<1>4. CASE CountDown
  BY <1>4, <1>a, QueueKept DEF CountDown, dma, frames, Held, RingInv
<1>5. CASE ResetCount
  BY <1>5, QueueKept DEF ResetCount, dma, frames, Held
<1>6. ASSUME UNCHANGED <<ring, dma, frames>>, pc \notin {"countdown", "resetcount"}, pc' \notin {"countdown", "resetcount"}
      PROVE  UNCHANGED Queue!vars
  BY <1>6, QueueKept DEF ring, dma, frames, Held
<1>7. CASE SetStart \/ EthTx \/ TxWait \/ SendInterrupt \/ ClearInterrupt
  BY <1>6, <1>7 DEF SetStart, EthTx, TxWait, SendInterrupt, ClearInterrupt
<1>8. CASE ReadHeader \/ ReadData
  BY <1>6, <1>8, OfLoad, LoadType DEF IInv, ReadHeader, ReadData
<1>9. CASE Sender \/ Admin
  BY <1>6, <1>9, GuestStores, OfStore, StoreType DEF IInv
<1>10. CASE snet_send_handler \/ ReaderEnter \/ SenderEnter \/ AdminEnter \/ AdminLock
  <2>1. UNCHANGED <<pc, ring, dma, frames>>
    BY <1>10 DEF snet_send_handler, ReaderEnter, SenderEnter, AdminEnter, AdminLock, firmware
  <2>2. QED
    BY <2>1, QueueKept DEF ring, dma, frames, Held
<1>11. QED
  BY <1>1, <1>2, <1>3, <1>4, <1>5, <1>7, <1>8, <1>9, <1>10 DEF Next, Loop, Reader

(* The device is the bounded queue of FrameQueue: the guest reads the      *)
(* frames that came, in order, each once and as it came, until one is      *)
(* thrown away with DMA or a START finds the hardware elsewhere.           *)
THEOREM FramesInOrder == Spec => ReceivesInOrder
<1>1. Init => Queue!Init
  BY ContentsEmpty, ReceivedIs DEF Init, Queue!Init, Held
<1>2. IInv /\ [Next]_vars => [Queue!Next /\ (skewed => skewed')]_(Queue!vars)
  <2>1. UNCHANGED vars => UNCHANGED Queue!vars
    BY QueueKept DEF vars, ring, dma, frames, Held
  <2>2. QED
    BY <2>1, QueueStep
<1>3. QED
  BY <1>1, <1>2, Inductive, PTL DEF Spec, ReceivesInOrder, Queue!Spec
=============================================================================
