----------------------------- MODULE FrameQueue -----------------------------
(***************************************************************************)
(* What the simple Ethernet device (mbfw_snet.c) promises to the guest     *)
(* about receiving: a bounded queue.  A frame that comes is put at the end *)
(* or lost; frames are read from the front, each once and unchanged; a     *)
(* START empties the queue.  Where the device keeps frames in the buffers  *)
(* of the hardware it may break that promise, once and for all; module     *)
(* Snet says when.                                                         *)
(***************************************************************************)
EXTENDS Naturals, Sequences

CONSTANT Capacity

VARIABLES
  wire,    \* the last frame that came
  queue,   \* frames received and not yet read
  broken   \* nothing is promised any more

vars == <<wire, queue, broken>>

Init == queue = <<>> /\ broken = FALSE

Arrive ==
  /\ wire' # wire
  /\ \/ UNCHANGED queue
     \/ Len(queue) < Capacity /\ queue' = Append(queue, wire')
  /\ UNCHANGED broken
Read ==
  /\ queue # <<>> /\ queue' = Tail(queue)
  /\ UNCHANGED <<wire, broken>>
Empty ==
  /\ queue' = <<>>
  /\ UNCHANGED <<wire, broken>>

Next == broken' \/ (~broken /\ (Arrive \/ Read \/ Empty))
Spec == Init /\ [][Next /\ (broken => broken')]_vars
=============================================================================
