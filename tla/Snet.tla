-------------------------------- MODULE Snet --------------------------------
(***************************************************************************)
(* The simple Ethernet device: the firmware's mbfw_snet.c with the MAC     *)
(* drivers below it (FIFO: xemac, xemaclite; DMA: xlltemac) and the driver *)
(* of the Solaris guest, snet.c, above it.                                 *)
(*                                                                         *)
(* The firmware is its loop, one guest access at a time, interrupted by    *)
(* the handlers wherever interrupts are enabled.  The guest is an          *)
(* interrupt thread, a sender, and an administrator that starts and stops  *)
(* the interface or joins groups; their hypervisor calls are single loads  *)
(* and stores, which the loop serves in any order.  Sizes are in words of  *)
(* 8 bytes.  Frames are numbered as they come, modulo three.               *)
(***************************************************************************)
EXTENDS Integers, Sequences, FiniteSets

CONSTANTS
  SNET_RX_BUFS_COUNT,  \* receive buffers (16)
  FrameWords,          \* size of every frame
  loop_limit,          \* frames the guest reads per interrupt (4)
  Macs,                \* kinds of MAC: "fifo", "dma"
  Traffic              \* bound: what the guest does in one behaviour, "send"
                       \* frames, "join" groups, or "both"

ASSUME SnetAssumption ==
  /\ SNET_RX_BUFS_COUNT \in Nat \ {0} /\ FrameWords \in Nat \ {0}
  /\ loop_limit \in Nat \ {0} /\ Macs \subseteq {"fifo", "dma"}
  /\ Traffic \subseteq {"send", "join", "both"}

VARIABLES
  pc,                   \* where the firmware's loop is
  intrOn,               \* its interrupts are enabled
  start, rx_head, rx_tail, rx_count,
  oldCount,             \* rx_count as read for rx_count--
  send_state, sent_data_count,
  recv,                 \* the message being received: [state, type, size, count]
  transmit_complete, send_intr_packet,
  mac, macOn, txBusy,   \* the MAC: its kind, started, transmitting
  wire,                 \* number of the last frame that came
  buf,                  \* the frame in each receive buffer
  bds,                  \* DMA: buffers of the hardware, in ring order
  skewed,               \* DMA: a buffer was not returned, or slots were renumbered
  traffic,              \* see Traffic
  intr,                 \* an interrupt is pending at the guest
  lock,                 \* owners of intrlock and xmitlock
  reader, sender, admin

ring   == <<rx_head, rx_tail, rx_count, oldCount>>
msgs   == <<send_state, sent_data_count, recv>>
tx     == <<transmit_complete, txBusy>>
dma    == <<bds, skewed>>
frames == <<wire, buf>>
fixed  == <<mac, traffic>>
guest  == <<intr, lock, reader, sender, admin>>
vars   == <<pc, intrOn, start, ring, msgs, tx, send_intr_packet, macOn, dma, frames, fixed, guest>>

N == SNET_RX_BUFS_COUNT
Slots == 0 .. N - 1
NextSlot(i) == (i + 1) % N
InRingOrder(first, n) == [k \in 1 .. n |-> (first + k - 1) % N]
NoFrame == -1
Modulus == 3
NoMessage == [state |-> "idle", type |-> "none", size |-> 0, count |-> 0]
-----------------------------------------------------------------------------
(***************************************************************************)
(* The interrupt handlers.                                                 *)
(***************************************************************************)

\* The ring is full.
\* (Mutant: it is not tested.)
FullIgnored == FALSE
Full == rx_tail = rx_head /\ rx_count > 0

\* (Mutant: interrupt only for the first frame.)
StoreFrameEdge ==
  /\ rx_tail' = NextSlot(rx_tail) /\ rx_count' = rx_count + 1
  /\ send_intr_packet' = (send_intr_packet \/ rx_count = 0)
  /\ UNCHANGED <<rx_head, oldCount, skewed>>
StoreFrame ==
  /\ rx_tail' = NextSlot(rx_tail) /\ rx_count' = rx_count + 1
  /\ send_intr_packet' = TRUE
  /\ UNCHANGED <<rx_head, oldCount, skewed>>
ThrowAway(interrupt) ==
  /\ skewed' = (skewed \/ mac = "dma")
  /\ send_intr_packet' = (send_intr_packet \/ interrupt)
  /\ UNCHANGED ring

\* eth_rx: a FIFO delivers into the buffer of the tail, or into
\* throwaway_pkt; DMA has already written the hardware's next buffer.
\* (Mutant: a FIFO always delivers into the buffer of the tail.)
EthRxIntoTail(stored) ==
  /\ bds' = IF mac = "dma" THEN Tail(bds) ELSE bds
  /\ buf' = [buf EXCEPT ![IF mac = "dma" THEN Head(bds) ELSE rx_tail] = wire']
EthRx(stored) ==
  IF mac = "dma"
  THEN bds' = Tail(bds) /\ buf' = [buf EXCEPT ![Head(bds)] = wire']
  ELSE UNCHANGED bds /\ buf' = IF stored THEN [buf EXCEPT ![rx_tail] = wire'] ELSE buf

\* A frame comes and is taken from the MAC: it is thrown away if the
\* interface is not started or the ring is full.
snet_recv_handler ==
  /\ intrOn /\ macOn /\ (mac = "dma" => bds # <<>>)
  /\ wire' = (wire + 1) % Modulus
  /\ EthRx(start = 1 /\ ~Full)
  /\ CASE start = 0           -> ThrowAway(FALSE)
       [] start = 1 /\ Full   -> ThrowAway(TRUE)
       [] start = 1 /\ ~Full  -> StoreFrame
  /\ UNCHANGED <<pc, intrOn, start, msgs, tx, macOn, fixed, guest>>

\* The frame has left.
snet_send_handler ==
  /\ intrOn /\ txBusy
  /\ txBusy' = FALSE /\ transmit_complete' = 1
  /\ UNCHANGED <<pc, intrOn, start, ring, msgs, send_intr_packet, macOn, dma, frames, fixed, guest>>
-----------------------------------------------------------------------------
(***************************************************************************)
(* The firmware's loop: a guest access at "loop", then what it entails.    *)
(***************************************************************************)

\* A load of the guest: a header, or the next word of the frame at the head.
LoadHeader ==
  /\ send_state' = IF rx_count # 0 THEN "sending" ELSE "idle"
  /\ UNCHANGED <<pc, sent_data_count>>
LoadData ==
  IF sent_data_count + 1 >= FrameWords
  THEN pc' = "tohw" /\ send_state' = "idle" /\ sent_data_count' = 0
  ELSE sent_data_count' = sent_data_count + 1 /\ UNCHANGED <<pc, send_state>>
mbfw_snet_load ==
  /\ pc = "loop"
  /\ CASE send_state = "idle"    -> LoadHeader
       [] send_state = "sending" -> LoadData
  /\ UNCHANGED <<intrOn, start, ring, recv, tx, send_intr_packet, macOn, dma, frames, fixed>>

\* The frame was read: with interrupts disabled its buffer goes back to the
\* hardware, the head moves, and the count is read and written.
\* (Mutants: interrupts stay enabled; the buffer after the head is returned.)
TakeFrameUnmasked ==
  /\ pc = "tohw" /\ pc' = "countdown"
  /\ bds' = IF mac = "dma" THEN Append(bds, rx_head) ELSE bds
  /\ rx_head' = NextSlot(rx_head) /\ oldCount' = rx_count
  /\ buf' = [buf EXCEPT ![rx_head] = NoFrame]
  /\ UNCHANGED <<intrOn, start, rx_tail, rx_count, msgs, tx, send_intr_packet, macOn, wire, skewed, fixed, guest>>
TakeFrameLate ==
  /\ pc = "tohw" /\ pc' = "countdown" /\ intrOn' = FALSE
  /\ bds' = IF mac = "dma" THEN Append(bds, NextSlot(rx_head)) ELSE bds
  /\ rx_head' = NextSlot(rx_head) /\ oldCount' = rx_count
  /\ buf' = [buf EXCEPT ![rx_head] = NoFrame]
  /\ UNCHANGED <<start, rx_tail, rx_count, msgs, tx, send_intr_packet, macOn, wire, skewed, fixed, guest>>
TakeFrame ==
  /\ pc = "tohw" /\ pc' = "countdown" /\ intrOn' = FALSE
  /\ bds' = IF mac = "dma" THEN Append(bds, rx_head) ELSE bds
  /\ rx_head' = NextSlot(rx_head) /\ oldCount' = rx_count
  /\ buf' = [buf EXCEPT ![rx_head] = NoFrame]
  /\ UNCHANGED <<start, rx_tail, rx_count, msgs, tx, send_intr_packet, macOn, wire, skewed, fixed, guest>>
CountDown ==
  /\ pc = "countdown" /\ pc' = "loop" /\ intrOn' = TRUE
  /\ rx_count' = oldCount - 1 /\ oldCount' = 0
  /\ UNCHANGED <<start, rx_head, rx_tail, msgs, tx, send_intr_packet, macOn, dma, frames, fixed, guest>>

\* What a complete message makes the firmware do.
\* (Mutant: the end of the previous transmission is not forgotten.)
CommandKeepingComplete(type) ==
  CASE type = "start" -> macOn' = TRUE /\ pc' = "reset" /\ UNCHANGED <<start, transmit_complete>>
    [] type = "stop"  -> macOn' = FALSE /\ start' = 0 /\ UNCHANGED <<pc, transmit_complete>>
    [] type = "tx" /\ start = 1 -> pc' = "tx" /\ UNCHANGED <<start, macOn, transmit_complete>>
    [] OTHER          -> UNCHANGED <<pc, start, macOn, transmit_complete>>
Command(type) ==
  CASE type = "start" -> macOn' = TRUE /\ pc' = "reset" /\ UNCHANGED <<start, transmit_complete>>
    [] type = "stop"  -> macOn' = FALSE /\ start' = 0 /\ UNCHANGED <<pc, transmit_complete>>
    [] type = "tx" /\ start = 1 -> transmit_complete' = 0 /\ pc' = "tx" /\ UNCHANGED <<start, macOn>>
    [] OTHER          -> UNCHANGED <<pc, start, macOn, transmit_complete>>

\* A store of the guest: the header of a message, or its next word.  A word
\* of data taken for a header begins a message of an unknown type.
mbfw_snet_store(type, size) ==
  /\ pc = "loop"
  /\ LET m == IF recv.state = "idle"
              THEN [state |-> "receiving", type |-> type, size |-> size, count |-> 0]
              ELSE [recv EXCEPT !.count = IF recv.type = "data" THEN @ ELSE @ + 1]
     IN IF m.count >= m.size
        THEN recv' = NoMessage /\ Command(m.type)
        ELSE recv' = m /\ UNCHANGED <<pc, start, macOn, transmit_complete>>
  /\ UNCHANGED <<intrOn, ring, send_state, sent_data_count, txBusy, send_intr_packet, dma, frames, fixed>>

\* START, after eth_start: the ring is emptied with interrupts disabled,
\* whatever it held and wherever the hardware is in its own ring.
ResetRing ==
  /\ pc = "reset" /\ pc' = "resetcount" /\ intrOn' = FALSE
  /\ rx_head' = 0 /\ rx_tail' = 0
  /\ buf' = [i \in Slots |-> NoFrame]
  /\ skewed' = (skewed \/ (mac = "dma" /\ bds # InRingOrder(0, N)))
  /\ UNCHANGED <<start, rx_count, oldCount, msgs, tx, send_intr_packet, macOn, wire, bds, fixed, guest>>
ResetCount ==
  /\ pc = "resetcount" /\ pc' = "started" /\ intrOn' = TRUE
  /\ rx_count' = 0
  /\ UNCHANGED <<start, rx_head, rx_tail, oldCount, msgs, tx, send_intr_packet, macOn, dma, frames, fixed, guest>>
SetStart ==
  /\ pc = "started" /\ pc' = "loop" /\ start' = 1
  /\ UNCHANGED <<intrOn, ring, msgs, tx, send_intr_packet, macOn, dma, frames, fixed, guest>>

\* TX: the frame is given to the MAC, which may refuse it; then the loop
\* waits for the handler.
EthTx ==
  /\ pc = "tx"
  /\ \/ pc' = "wait" /\ txBusy' = TRUE
     \/ pc' = "loop" /\ UNCHANGED txBusy
  /\ UNCHANGED <<intrOn, start, ring, msgs, transmit_complete, send_intr_packet, macOn, dma, frames, fixed, guest>>
TxWait ==
  /\ pc = "wait" /\ transmit_complete = 1 /\ pc' = "loop"
  /\ UNCHANGED <<intrOn, start, ring, msgs, tx, send_intr_packet, macOn, dma, frames, fixed, guest>>

\* Round the loop: the guest is interrupted, and then the flag is cleared,
\* with the request of a frame that came in between.
SendInterrupt ==
  /\ pc = "loop" /\ send_intr_packet
  /\ pc' = "sent" /\ intr' = TRUE
  /\ UNCHANGED <<intrOn, start, ring, msgs, tx, send_intr_packet, macOn, dma, frames, fixed, lock, reader, sender, admin>>
ClearInterrupt ==
  /\ pc = "sent" /\ pc' = "loop"
  /\ send_intr_packet' = FALSE
  /\ UNCHANGED <<intrOn, start, ring, msgs, tx, macOn, dma, frames, fixed, guest>>

Loop == TakeFrame \/ CountDown \/ ResetRing \/ ResetCount \/ SetStart \/ EthTx \/ TxWait
        \/ SendInterrupt \/ ClearInterrupt
-----------------------------------------------------------------------------
(***************************************************************************)
(* The guest.                                                              *)
(***************************************************************************)
Free(l) == lock[l] = "free"
Release(who) == [l \in DOMAIN lock |-> IF lock[l] = who THEN "free" ELSE lock[l]]
firmware == <<pc, intrOn, start, ring, msgs, tx, send_intr_packet, macOn, dma, frames, fixed>>

\* snet_intr: up to loop_limit frames, under intrlock, until there is none.
ReaderEnter ==
  /\ reader.pc = "idle" /\ intr /\ Free("intrlock")
  /\ intr' = FALSE /\ lock' = [lock EXCEPT !["intrlock"] = "reader"]
  /\ reader' = [pc |-> "header", frames |-> 0, left |-> 0]
  /\ UNCHANGED <<firmware, sender, admin>>
LeaveReader == reader' = [pc |-> "idle", frames |-> 0, left |-> 0] /\ lock' = Release("reader")
ReadHeader ==
  /\ reader.pc = "header" /\ mbfw_snet_load
  /\ IF send_state = "sending" \/ rx_count # 0
     THEN reader' = [reader EXCEPT !.pc = "data", !.left = FrameWords] /\ UNCHANGED lock
     ELSE LeaveReader
  /\ UNCHANGED <<intr, sender, admin>>
ReadData ==
  /\ reader.pc = "data" /\ mbfw_snet_load
  /\ CASE reader.left > 1 -> reader' = [reader EXCEPT !.left = @ - 1] /\ UNCHANGED lock
       [] reader.left = 1 /\ reader.frames + 1 < loop_limit ->
            reader' = [pc |-> "header", frames |-> reader.frames + 1, left |-> 0] /\ UNCHANGED lock
       [] OTHER -> LeaveReader
  /\ UNCHANGED <<intr, sender, admin>>
Reader == ReaderEnter \/ ReadHeader \/ ReadData

\* snet_send_msg: a frame under xmitlock.  That the link is up was tested
\* before the lock was taken, so it may have been stopped since.
SenderEnter ==
  /\ traffic # "join" /\ sender.pc = "idle" /\ Free("xmitlock")
  /\ lock' = [lock EXCEPT !["xmitlock"] = "sender"]
  /\ sender' = [pc |-> "header", left |-> 0]
  /\ UNCHANGED <<firmware, intr, reader, admin>>
SendHeader ==
  /\ sender.pc = "header" /\ mbfw_snet_store("tx", FrameWords)
  /\ sender' = [pc |-> "data", left |-> FrameWords]
  /\ UNCHANGED <<intr, lock, reader, admin>>
SendData ==
  /\ sender.pc = "data" /\ mbfw_snet_store("data", FrameWords)
  /\ IF sender.left > 1
     THEN sender' = [sender EXCEPT !.left = @ - 1] /\ UNCHANGED lock
     ELSE sender' = [pc |-> "idle", left |-> 0] /\ lock' = Release("sender")
  /\ UNCHANGED <<intr, reader, admin>>
Sender == SendHeader \/ SendData

\* The administrator: which messages an operation sends, and its locks.
\* Every caller of snet_init has param_linkup cleared before (snet_stop at
\* attach and in snet_uninit, or the caller itself), so it stops the device
\* and then starts it twice, on a running interface too.
\* snet_init_rx (groups, promiscuous mode, address) has intrlock alone.
Messages(op) ==
  CASE op = "snet_init"    -> <<"stop", "stop", "stop", "mac", "start", "start">>
    [] op = "snet_uninit"  -> <<"stop">>
    [] op = "snet_init_rx" -> <<"stop", "mac", "start">>
Operations == {"snet_init", "snet_uninit"} \cup IF traffic = "send" THEN {} ELSE {"snet_init_rx"}
\* (Mutant: none takes xmitlock.)
LocksIntrOnly(op) == {"intrlock"}
Locks(op) == IF op = "snet_init_rx" THEN {"intrlock"} ELSE {"intrlock", "xmitlock"}

\* mutex_enter: every operation takes intrlock first, and before it does
\* anything that others see.
AdminEnter ==
  /\ admin.pc = "idle" /\ Free("intrlock")
  /\ lock' = [lock EXCEPT !["intrlock"] = "admin"]
  /\ \E op \in Operations :
       admin' = [pc |-> IF "xmitlock" \in Locks(op) THEN "lock" ELSE "header",
                 op |-> op, todo |-> Messages(op)]
  /\ UNCHANGED <<firmware, intr, reader, sender>>
AdminLock ==
  /\ admin.pc = "lock" /\ Free("xmitlock")
  /\ lock' = [lock EXCEPT !["xmitlock"] = "admin"]
  /\ admin' = [admin EXCEPT !.pc = "header"]
  /\ UNCHANGED <<firmware, intr, reader, sender>>
NextMessage ==
  IF Len(admin.todo) = 1
  THEN admin' = [pc |-> "idle", op |-> "none", todo |-> <<>>] /\ lock' = Release("admin")
  ELSE admin' = [admin EXCEPT !.pc = "header", !.todo = Tail(@)] /\ UNCHANGED lock
AdminHeader ==
  /\ admin.pc = "header"
  /\ IF Head(admin.todo) = "mac"
     THEN mbfw_snet_store("mac", 1) /\ admin' = [admin EXCEPT !.pc = "data"] /\ UNCHANGED lock
     ELSE mbfw_snet_store(Head(admin.todo), 0) /\ NextMessage
  /\ UNCHANGED <<intr, reader, sender>>
AdminData ==
  /\ admin.pc = "data" /\ mbfw_snet_store("data", 1) /\ NextMessage
  /\ UNCHANGED <<intr, reader, sender>>
Admin == AdminHeader \/ AdminData
-----------------------------------------------------------------------------
Init ==
  /\ pc = "loop" /\ intrOn = TRUE
  /\ start = 0 /\ rx_head = 0 /\ rx_tail = 0 /\ rx_count = 0 /\ oldCount = 0
  /\ send_state = "idle" /\ sent_data_count = 0 /\ recv = NoMessage
  /\ transmit_complete = 0 /\ txBusy = FALSE /\ send_intr_packet = FALSE
  /\ mac \in Macs /\ macOn = FALSE
  /\ bds = IF mac = "dma" THEN InRingOrder(0, N) ELSE <<>>
  /\ wire = 0 /\ buf = [i \in Slots |-> NoFrame]
  /\ skewed = FALSE
  /\ traffic \in Traffic
  /\ intr = FALSE /\ lock = [l \in {"intrlock", "xmitlock"} |-> "free"]
  /\ reader = [pc |-> "idle", frames |-> 0, left |-> 0]
  /\ sender = [pc |-> "idle", left |-> 0]
  /\ admin = [pc |-> "idle", op |-> "none", todo |-> <<>>]

Next == \/ snet_recv_handler \/ snet_send_handler \/ Loop
        \/ Reader \/ SenderEnter \/ Sender \/ AdminEnter \/ AdminLock \/ Admin

\* The MicroBlaze and the handlers run, frames keep coming, and the threads
\* of the guest run.  Strong fairness where others come in between: every
\* turn of the loop tests send_intr_packet and then polls the cores, whose
\* accesses are served in turn (Aurora, NoStarvation), and a mutex goes to a
\* thread that waits.
Fairness ==
  /\ WF_vars(TakeFrame \/ CountDown \/ ResetRing \/ ResetCount \/ SetStart \/ EthTx \/ TxWait \/ ClearInterrupt)
  /\ WF_vars(snet_recv_handler) /\ WF_vars(snet_send_handler)
  /\ SF_vars(SendInterrupt) /\ SF_vars(Reader) /\ SF_vars(Sender) /\ SF_vars(AdminLock \/ Admin)
Spec == Init /\ [][Next]_vars /\ Fairness
-----------------------------------------------------------------------------
\* Types, of the ring and the counters above all.
TypeOK ==
  /\ pc \in {"loop", "tohw", "countdown", "reset", "resetcount", "started", "tx", "wait", "sent"}
  /\ intrOn \in BOOLEAN /\ send_intr_packet \in BOOLEAN /\ macOn \in BOOLEAN
  /\ txBusy \in BOOLEAN /\ skewed \in BOOLEAN /\ intr \in BOOLEAN
  /\ start \in {0, 1} /\ transmit_complete \in {0, 1}
  /\ rx_head \in Slots /\ rx_tail \in Slots /\ rx_count \in 0 .. N /\ oldCount \in 0 .. N
  /\ send_state \in {"idle", "sending"} /\ sent_data_count \in 0 .. FrameWords - 1
  /\ recv \in [state : {"idle", "receiving"}, type : {"none", "tx", "mac", "data"},
               size : 0 .. FrameWords, count : 0 .. FrameWords]
  /\ wire \in 0 .. Modulus - 1 /\ buf \in [Slots -> {NoFrame} \cup 0 .. Modulus - 1]
  /\ mac \in Macs /\ bds \in Seq(Slots) /\ Len(bds) <= N
  /\ lock \in [{"intrlock", "xmitlock"} -> {"free", "reader", "sender", "admin"}]
  /\ reader \in [pc : {"idle", "header", "data"}, frames : 0 .. loop_limit - 1, left : 0 .. FrameWords]
  /\ sender \in [pc : {"idle", "header", "data"}, left : 0 .. FrameWords]
  /\ admin.pc \in {"idle", "lock", "header", "data"}

\* Whatever the handler and the loop do to head, tail and count, and in
\* whatever order, they describe the same frames whenever the loop is back.
CountAgrees == pc = "loop" => (rx_tail - rx_head) % N = rx_count % N

\* The two sides agree on where in a message they are: the firmware takes a
\* word for what the guest means it to be.
MessageFraming ==
  /\ (send_state = "sending") <=> (reader.pc = "data")
  /\ reader.pc = "data" => sent_data_count + reader.left = FrameWords /\ (pc = "loop" => rx_count > 0)
  /\ (recv.state = "receiving") <=> (sender.pc = "data" \/ admin.pc = "data")
  /\ sender.pc = "data" => recv.type = "tx" /\ recv.count + sender.left = FrameWords
  /\ admin.pc = "data" => recv.type = "mac" /\ recv.count = 0

\* mbfw_snet_store reports "received unknown msg type" as an error of the
\* program: while the interface runs, a word of data is never taken for a
\* header.  The locks of the guest ("protect xmit-side fields", snet.h) are
\* there to keep messages apart; a sender and snet_init_rx have no lock in
\* common, and the property fails.
KnownTypes == start = 1 => recv.type # "data"

\* With DMA the slots of the ring and the buffers of the hardware are two
\* rings without any link between them.  Until a frame is thrown away, or a
\* START finds the hardware elsewhere than at its first buffer, the hardware
\* holds exactly the buffers of the empty slots, in the order of the slots:
\* what the guest reads is the frame that was received.
BuffersInOrder ==
  pc = "loop" /\ mac = "dma" /\ ~skewed => bds = InRingOrder(rx_tail, N - rx_count)

\* The guest reads the frames that came, in order, each once and as it came.
\* The frames received are those from the head on; between moving the head
\* and the count, and while both are reset, the loop counts them as done.
Received ==
  LET n == CASE pc = "resetcount" -> 0 [] pc = "countdown" -> rx_count - 1 [] OTHER -> rx_count
  IN [k \in 1 .. n |-> buf[(rx_head + k - 1) % N]]
Queue == INSTANCE FrameQueue WITH Capacity <- N, queue <- Received, broken <- skewed
ReceivesInOrder == Queue!Spec

\* While frames keep coming, a received frame is eventually read, though the
\* guest reads only so many per interrupt.
FramesRead ==
  (rx_count > 0 /\ start = 1 /\ ~skewed) ~> (pc \in {"tohw", "reset"} \/ start = 0 \/ skewed)

\* The guest's next message goes to the same tx_buf: the loop never comes
\* back to the guest while the MAC may still be reading it.
TxBufferStable == txBusy => pc = "wait"
=============================================================================
