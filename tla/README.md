# A TLA+ verification of PLC4OpenSPARC

The repository puts a *proactive load-and-check* unit (PLC) into the load-store
unit of the OpenSPARC T1 core, and ports the FPGA bridge between the core and
an emulated L2 cache to a Maxeler card. Behind the bridge, firmware on a
MicroBlaze stands in for the L2 cache, memory and devices. This directory holds
TLA+ models of the parts that carry their logic, the TLC runs that check them on small instances,
and TLAPS proofs for all instances. Paths below are relative to `src/`.

## 1. The system

    program --stores/loads--> LSU + PLC unit + D-cache       (PLC Module/)
                                 |  PCX request   ^ CPX response
                                 v                |
                        pcx2mb / mb2cpx bridge           (Maxeler CCX/SPARC IO/)
                                 |  4..5-word FIFO packets
                                 v                |
           L2-emulation firmware: process(), reverse directory, atomics
                     (Maxeler CCX/.../CPUCode, OpenSPARC T1/.../ccx-firmware)
                                 |  Aurora link to a second board, MAC, UART
                                 v
                     second core, Ethernet, console

| part | state | operations | hard behaviour | what makes it right |
|---|---|---|---|---|
| `plc_adder` | FSM, tuple register, `add_flag` | a store after the indicator | unrelated stores between the two halves | tuples are the halves of one pair |
| `plc_list` | 32 tuples, `size`, `fetch_ptr`, `store_counter`, `plc_check_flag` | add, search, count, fetch | search of the bus a cycle after the store; full list; wrap of the pointer | tuples stay; a check follows each stored pair, only then |
| `plc_checker` | FSM, `data_o`, `plc_error` | read two slots, compare two cycles later | pipelined with a memory the core also uses; pause by reset | errors are genuine; all mismatches found |
| `plc_wrapper` | `check_enable` | muxes, pause | one cycle races of check, access and flag | the two above, together |
| `pcx2mb` | request pipeline, 5 credit counters, 10 entries, send FSM | accept, queue, send, grant | speculative requests, atomic pairs, full FIFO | no request lost, doubled or reordered; grant per request |
| `mb2cpx` | shift register, FSM | reassemble, deliver | gaps between words, atomic pairs, misplaced control bit | packets delivered whole and in order |
| `reverse_dir` | tags of I$ and D$ ways | add, search, invalidate | the same line in two ways or caches | is what the L1s hold |
| L2 emulation | memory, directory, lock-out flags | load, ifill, store, block store, swap, CAS, invalidations | replies are applied late; two cores; invalidations look in one cache first | L1s coherent with memory |
| floating point | operands per core, rounding mode | two requests per instruction | requests of two cores interleave | results of their own operands and mode |
| emulation loop, Aurora | ring of 32 packets, lock-out flags, link | poll, forward, acknowledge | two boards, both send; waiting for an acknowledgement while requests arrive | no packet lost, repeated or reordered; no deadlock, no starvation |
| `snet` and MAC drivers | ring of 16 frames, two protocol FSMs, hardware's buffers | receive and send interrupt, load, store | interrupt against main loop; reset by the guest; full ring | frames in order; count right; both sides at the same word |
| guest driver `snet.c` | two locks | read, send, start, stop, join | its threads interleave their words | one message at a time |

### Components left out

The rest of `OpenSPARC T1/` is the vendored T1 design (cores, L2, DRAM, JBI,
FPU...), its FPGA system and operating-system changes; the repository does not
develop it. zlib, softfloat and gunzip are third-party; netlists, memory images
and IP drivers are generated. `lsu.v` is the T1 load-store unit with an
instance of `plc_wrapper` whose port names are those of an older version
(`addr_in`, `way_in`): it does not elaborate with the present wrapper, so the
wrapper is modelled at its own ports.

## 2. Plan

Done, in the order written; `A <- B` reads "A is built on B".

| modules | what |
|---|---|
| `PlcBase`, `Dcache`, `PlcAdder`, `PlcList`, `PlcChecker` | the blocks of the PLC unit, one module each |
| `Plc` <- the five above | `plc_wrapper`: all blocks clocked together, properties, inductive invariant |
| `PlcEddi` <- `Plc` | the unit driven by a program with the store discipline it is made for |
| `PlcProofs` <- `Plc`; `PlcEddiProofs` <- `PlcEddi` | theorems about the unit, in any order of stimuli and under the discipline |
| `PcxBase`, `PcxCore`, `Pcx2mbEntries`, `Pcx2mbSm` | the core's request monitors, the buffer and the state machine of `pcx2mb` |
| `Pcx2mb` <- the four above | `pcx2mb` between the core and a FIFO |
| `PcxLink` | abstract: a FIFO of packets with two credits per destination; `Pcx2mb` implements it |
| `Pcx2mbProofs` <- `Pcx2mb` | theorems, the refinement of `PcxLink` among them |
| `Mb2cpx` | `mb2cpx` between the sender's framing and the core |
| `Mb2cpxProofs` <- `Mb2cpx` | theorems |
| `ReverseDir` | `mbfw_reverse_dir.c`, as operators on a directory |
| `L2Emul` <- `ReverseDir` | the request handlers of `mbfw_l2_emul.c` against one or more cores with their L1 caches |
| `L2EmulProofs` <- `L2Emul` | theorems |
| `Fpu` | what the two halves of a floating-point instruction leave for each other (`mbfw_fpu.c`) |
| `Emulation` | abstract: requests served in order and one at a time, replies in order, compare-and-swap exclusive |
| `Aurora` | the loops of both boards and the link between them; implements `Emulation` |
| `AuroraProofs` <- `Aurora`, `AuroraRefines` <- `AuroraProofs` | theorems, and the refinement of `Emulation` |
| `FrameQueue` | abstract: a bounded queue of frames |
| `Snet` | firmware device, MAC drivers and guest driver; implements `FrameQueue` |
| `SnetProofs` <- `Snet` | theorems, the refinement of `FrameQueue` among them |

`MCPlc`, `MCPlcLoaded`, `MCPlcEddi`, `MCPcx2mb` and `MCL2Emul` define constants,
stimuli and symmetry for TLC; the other modules are checked as they are.

If the code is developed further: the Maxeler loop, once it sends messages to
other cores, and the driver of the Ubuntu guest.

## 3. How the models correspond to the code

The hardware parts are synchronous: one TLA+ step is one clock edge. A variable
is a register (or a group that always moves together); a combinational signal
is an operator of the current state and the inputs. Each module has a *tick*
operator that gives the next value of its registers from its inputs, and the
composing module conjoins the ticks, so all of them read the same old state as
nonblocking assignments do. A step in which no register changes is a stutter.

### PLC unit

| module | code | state | actions |
|---|---|---|---|
| `Dcache` | `bw_r_dcd` as seen by `plc_wrapper` | array `mem`, the access in M `m`, data `wb` | `CacheTick` |
| `PlcAdder` | `plc_adder` | `adder`, `addTuple`, `addFlag` | `AwaitIndicator`, `TakeOriginal`, `TakeDuplicate` |
| `PlcList` | `plc_list` | `list`, `size`, `fetchPtr`, `fetchTuple`, `storeCounter`, `storeDone`, `checkFlag` | `Add`, `Fetch`, `Store`, `RaiseCheck` |
| `PlcChecker` | `plc_checker` | `chk`, `dataO`, `plcError` | `Begin`, `FirstAddress`, `SecondAddress`, `SaveOriginal`, `Compare` |
| `Plc` | `plc_wrapper` | `checkEnable` | `Clock(s)` for a stimulus `s` of the core, `Reset` |

`storeCounter` is the set of indices whose one-bit counter is set. A stimulus
is what the core puts on the ports in one cycle: an access (read, write or
none; the array is single ported), the address on the read port, the address
and data on the write port, and the indicator. The address on the write port
matters in cycles without a write as well, because `plc_list` decides a check
one cycle after a store from the address it sees then; so `bus` is part of every
stimulus. The wrapper's muxes are `PortAccess`, its pause is `Pause`. The data
pipeline is modelled stage by stage, since the checker compares data two
cycles behind the addresses. Reset leaves the array and its pipeline as they are.

`PlcEddi` writes down what the code assumes of programs. `plc_guts.v:232`
demands that add, store and fetch be mutually exclusive, but nothing enforces it:
`plc_wrapper` wires the store flag straight to the core's write enable.
`Discipline` writes it out, and excludes what the code does not defend against:

- anything between the stores of an original and of its duplicate, which come "right
  after" each other (`plc_guts.v:269`);
- the original of a tuple stored in the very cycle the tuple is added: the search does not see
  the tuple yet (`plc_guts.v:284`), and its parity stays inverted;
- a store of something else while the adder collects a tuple: the adder takes any
  two stores (`plc_adder.v:36`);
- stores to slot 0/0 (finding 1).

What is on the write bus in a cycle without a store is free. `EddiAssumption` says only that no
slot has two roles and that 0/0 has none; originals and duplicates are in any ways, so
programs with the core's one-hot ways are among those covered.

`Dcache` takes the address and the way of a read together. In the array itself
(`bw_r_dcd.v:496-507`, with `alt_mx_sel` 0 by `plc_wrapper.v:74`) the way of a read is selected
in WB, two cycles after its address, and nothing in the wrapper delays the way the checker presents. `lsu.v`
does not connect the wrapper to that array, so this is left to the integration: the
model is of an array that delays the way with the address.

### Request bridge

`PcxCore` is the core's half of the protocol: two-entry monitors (`full0`,
`full1`), the request in stage PQ, and the conditions under which one may be
selected, among them the speculation that a third fits (`MaySelect` looks at the
monitors before the request in PQ has been counted). Which request is selected
is left open. `Pcx2mbEntries` is entry 1 and the chain of `pcx2mb_entry`;
a packet keeps its identity instead of 124 bits, and `pos` counts the words
shifted out of entry 1. `Pcx2mbSm` is `pcx2mb_sm`, one action per state.
`Pcx2mb` adds the stages PA and PX and the counters of `pcx2mb_link_ctr`, two
bits wide with the wrap of the decrement. `full` is an input that takes any
value in any cycle.

`PcxLink` is what the core may rely on. The refinement mapping in `Pcx2mb`
takes as the queue everything accepted and not yet out: entry 1 while it is
being sent, the active entries (counted by `Queued`: they stand in line behind
entry 1, which is proved), the second half of an atomic in PX, the
accepted request in PA; as the credits in use, what the core's monitors count.
The mapping is of the state alone: no history variable is needed.

### Response bridge

`Mb2cpx` contains the state machine with its delayed flags, the input shift
register and the output register. `Feed` is the sender: `add_cpx_ctl` frames five
words and pads them with waste words; a FIFO word is an abstract record with its
control and valid bits, its packet and its number. The history variable `owed`
lists the packets begun and not delivered. Second packets of a pair are not in
it, because the code never announces them (see Findings); that their presence
disturbs nothing else is what `mb2cpx` shows.

### L2 emulation

`ReverseDir` counts addresses in 16-byte granules: one is a line of the data
cache, two are a line of the instruction cache. `L2Emul` has the directories
(`ddir`, `idir`), the FIFOs (`pcx`, `cpx`) and, as environment, what each way of
each L1 cache really holds (`l1d`, `l1i`). One handler is one step, since the
firmware is one thread; what interleaves is the handlers of both cores with the
arrival of replies, which a core applies in order but any time later. A handler
is an operator from a record of the state to the next one, composed as the
functions call each other (`process_load_fast` calls `return_load_req`, and so on).

Memory is not a variable. Every copy of a line, in a cache or in a reply, carries
a mark: the number of stores of its own core whose acknowledgement still has to
update it, `Stale` if memory has changed in any other way, `Zeroed` if only the
zeroing of a block store has. That decides coherence without data values.

Only line requests wait in `pcx`, because only these depend on what the core
holds at the time it sends them (the way to be replaced, and that the line is
absent). Any other request can be sent at any time, so it is taken to be sent
when its turn comes; nothing between the two times can depend on it.
From the core's RTL is taken that atomics and prefetches are not cacheable
(`lsu_dctl.v:6050-6058`), that a second load of a line under way asks for the
same way (`lsu_qctl1.v:589`), and that fetches are aligned (`sparc_ifu_ifqdp.v:451`);
replies take effect where `lsu_qctl2.v` and `sparc_ifu_ifqctl.v` fill and invalidate.

### Floating point

`Fpu` keeps what the code indexes by core in `cpu_fp`, and softfloat's
`float_rounding_mode` as the one global it is. A result is a record of what it was
computed from. That requests of two cores interleave is the freedom `Emulation`
gives and `Aurora` implements.

### Two boards

In `Aurora` each board has a program counter in a record (`s`, `m`). Polling,
sending or receiving one half word, and handling a packet are a step each; the
two boards interleave at that grain, so a board may wait for an acknowledgement
while packets of the other come first (`MasterWait`, `SlaveWait`, then the ring).
`recv_pcx_pkt` falls off its end without a value after a whole packet; as the
rest of the program needs, that value is taken to be non-negative. Every packet is valid,
since a core sends no other: the `continue` on an invalid one (`mbfw_l2_emul.c:1142`, `:1189`) is not modelled. The FIFO from
a board to its core is taken to have room.

The refinement mapping collects what is under way: the requests of core 1 not
served are those in its FIFO, in the slave's hands, on the link, in the master's
hands and in the ring, in this order; arriving messages likewise. No history
variable is needed.

### Ethernet

`Snet` models the loop of the firmware between accesses of the guest in small
steps (`pc`), because its interrupt handlers run between any two of them where
interrupts are enabled (`intrOn`): `rx_count--` is a read and a write, and the code
disables interrupts around it. With a FIFO MAC the handler reads the frame into the buffer
of the tail, or throws it away; with DMA the hardware has already written the next
buffer of its own ring (`bds`), which `mbfw_snet.c` never consults.
The loop sends the interrupt to the guest and clears the flag in two steps, `SendInterrupt` and
`ClearInterrupt` (`mbfw_l2_emul.c:1155-1158`), so a flag set in between is lost. No frame is: the
guest's reads reach the device only after the loop has gone on, and find that frame in the count.

The guest is three threads: the interrupt routine, a sender, and an
administrator, each sending one word per step under the locks of `snet.c` (a
hypervisor call is a sequence of loads or stores that other threads' may come between). START,
the MAC message and STOP are sent in the numbers `snet_init`, `snet_uninit` and
`snet_init_rx` send them (three STOPs, the MAC, and START twice in `snet_init`).
`snet_init` would send one pair fewer with `param_linkup` still set, but each of its
callers has cleared it before.

`skewed` is a history variable: a frame was thrown away with DMA, so its buffer
was not given back, or a START renumbered the slots while the hardware was
elsewhere in its ring. From then on the device does not keep its promise, and
`FrameQueue` says so (`broken`); up to then it does, and with a FIFO it always does.
`Received` maps the slots from the head on to the queue; between the two updates
of the head and the count it already counts the frame as read.

## 4. What the runs check

| run | result | shows |
|---|---|---|
| `plc` | passes | In any order of stores, reads, indicators and resets: an error is always genuine, the check flag lasts one cycle, tuples stay. `Inv` is the invariant the proofs use. |
| `plc_loaded` | passes | With a full list of three tuples, a check that the core does not disturb reports a mismatch of any of them (liveness). |
| `plc_eddi` | passes | Under the store discipline, pairs in any ways: tuples are the halves of one pair; a stored duplicate requests a check if the originals are in way 0, and none if its own is in another way, as all of the core's one-hot ways are (finding 2); no error is reported of a program that stored equal values. |
| `plc_unused` | violation | Finding 1. |
| `plc_duplicate` | violation | Finding 2. |
| `pcx2mb` | passes | The bridge implements `PcxLink`; the bridge's and the core's counters agree; both drop the same requests; the control bit marks first words; credits come back (liveness). |
| `mb2cpx` | passes | Packets reach the core once, whole, in order, and without waiting for a further word (liveness). |
| `l2` | passes | Whatever two cores send and however late they apply replies: the directory is, way by way, what the L1s will hold; no copy of a line goes stale, but for instruction-cache copies that a block store's zeroing forgets; no line is in a data and an instruction cache at once, which the invalidations rely on. |
| `fpu_rounding` | violation | Finding 3. |
| `aurora` | passes | The boards implement `Emulation`; the link never holds more than the handshake allows and nobody reads a half word it does not expect; the ring is large enough if a core has no more requests under way than the ring has slots (`Suffices`: assumed, not derived from the core); each core gets its turn (liveness). |
| `snet_locks` | violation | Finding 4. |
| `snet` | passes | With interrupts anywhere the code allows them: head, tail and count agree, both sides are at the same word of a message, the transmit buffer is not rewritten while in use, frames are read in order, once and as received (`FrameQueue`), and eventually (liveness). |

### Bounds

- `plc`: two addresses, one way, two values, `ListCap` 2, so that the list is full
  with one tuple and further ones are refused. Which tuple is compared is not at stake here; what the
  core does in each cycle of the pipeline is, and that is unrestricted.
- `plc_loaded`: `ListCap` 4, so three tuples: a first, a middle and a last one
  take different ways through the checker. Registration is over (no indicator);
  that removes nothing from a check. Some tuples share a slot, so one
  store can make or mend two mismatches.
- `plc_eddi`: a pair with its original in way 0, one with its original in way 1, and a slot
  of neither, `ListCap` 4. A pair may be registered twice. The idle write bus carries any
  of the slots. The core's reads are all of the one slot: their only effect
  is to take the port. A behaviour is followed until the program stores different values to a
  pair (`UntilCorrupt`): `NoFalseAlarm` says nothing of what comes after, and the other two
  properties depend on no value.
- `pcx2mb`: two destinations, so four packets at most, and `LastEntry` 4, the
  proportion of the code (five destinations, ten packets, ten entries). One
  payload: packets are told apart by destination, atomic bit and half, and the
  bridge looks at nothing else.
- `mb2cpx`: two payloads, any gaps, no or three waste words. `MaxOwed` 3 bounds
  the history, more than the two packets the registers can hold.
- `l2`: two interchangeable cores, one set, two ways, so that lines compete for ways
  and one may move. Granules 2 and 3 are both data lines and the halves of one
  instruction line; 0 starts the L2 line of four granules and is only written, so
  that block stores zero it. `MaxOut` 2 requests in flight, of one core or both;
  `MaxReplies` 3 replies under way to a core: one handler sends up to two, so a
  handler's replies meet an earlier one that is still under way. With more sets the sets would not interact.
- `aurora`: a packet is a header and two half words: a first, a middle and a
  last one. Requests of four kinds: a store (a message to each core), an interrupt
  (to the other core only) and the halves of a compare-and-swap. A core has two
  requests or messages in the system at most, and the ring has two slots: that is
  the assumption `Suffices`, 32 slots against what a core may have outstanding. The
  firmware relies on it as well; nothing here derives it from the core.
- `snet`: two buffers (the ring fills and wraps), frames of two words, two frames
  per interrupt, frames numbered modulo three so that neighbours differ. In a
  behaviour the guest either sends frames or joins groups (`traffic`): doing both breaks
  the framing (finding 4, whose run has `Traffic` "both"). Both kinds of MAC.

### Fairness

- `plc_loaded` assumes `ClockRuns`: weak fairness of a clock edge without reset
  while a check is requested or under way: the clock does not stop. This
  specification has no reset, so nothing is claimed of a check cut short by one.
- `pcx2mb` assumes weak fairness of the clock while something is in flight and
  the FIFO has room, and that the FIFO has room infinitely often. Its reader is
  the host's loop, which reads whenever it is idle. Without the second assumption
  no credit need ever return.
- `mb2cpx` assumes that the clock runs while a word or a finished packet is
  there, and that the sender completes what it has begun: a packet, and the second of a
  pair. `add_cpx_ctl` prepares all words of a packet before any is sent.
- `aurora` assumes weak fairness of each board: both run for ever.
- `snet` assumes weak fairness of the firmware's steps and of the handlers, and that frames
  keep coming. Strong fairness is assumed of `SendInterrupt` (every turn of the loop tests the flag,
  though accesses of the guest come in between) and of the accesses of each guest thread, the
  administrator's second mutex included: the loop polls the cores again after each interrupt it sends, and serves
  their accesses in turn, which is what `NoStarvation` of `Aurora` shows; a mutex is handed to a
  thread that waits.
- `l2`, `fpu_rounding` and `snet_locks` check safety only.

Every property has a plausible mutation of the code that violates it under the
bounds of its run. The mutated definitions stand before the ones they replace,
marked "Mutation of" or "Mutant".

### Findings

1. `plc_guts.v:379` searches the unused entries too; they hold address 0, way 0.
   A store there is counted in entries nobody registered, and until
   the next store there no check is raised.
2. `plc_guts.v:382` compares both ways of a tuple with one way number, so a
   duplicate is found only if the original's way is 0. Ways on the bus are
   one-hot in the core.
3. `mbfw_fpu.c:133` stores the rounding mode in softfloat's global, and
   `process_fp_2` never restores it, though it restores everything else for the
   core and even reads the saved mode. If a request of the other core comes
   between the halves, the result is rounded by the other's mode. Without its last
   conjunct, the mode, `OwnInstruction` holds in the same model: operands and
   opcodes never mix.
4. `snet.c:931`, `:959`, `:966`, `:986`: `snet_init_rx` sends STOP, MAC and START
   under `intrlock` alone. `snet_init` and `snet_uninit` take `xmitlock` too, and
   `snet.h:254` has it "protect xmit-side fields". While a frame is being sent the
   words interleave: the frame is completed with words of the other
   messages, and what is left of it is taken for a header, which the firmware
   reports as an error (`mbfw_snet.c:407`). The hypervisor that copies a message to
   the device is not in the repository and is taken not to serialise calls; if it
   did, the `send_buffer` that both fill before the call would still mix a header
   of one with the data of the other.

Further differences are built into the models as the code has them.

- A full list drops a tuple although `add_done` is raised (`add_done` is left open).
- `mb2cpx_sm.v:224`: the second packet of an atomic response is never
  announced, because `atomic_second_d2` is still set in its cycle; `ccx2mb_doc.txt:90-91`
  says that both are sent back to back. Latent, as the sender never sets the
  atomic bit.
- `ccx2mb_doc.txt:44` speaks of up to two stored requests, while the code has ten places.
- `ccx2mb_doc.txt:101-103` says that a packet with too few chunks is discarded, while
  `mb2cpx_sm` does not look at the control bit in SHIFT, so the next packet's
  words complete it; the traffic in the model has whole packets only.
- `pcx2mb_sm.v:242` uses the atomic bit of entry 2 also when entry 2 is empty and
  entry 1 is loaded from the request in PA. An atomic loaded that way is granted after
  its first half, against the comment at line 273. Both grants still come once
  each, so `ImplementsLink`, `CountersAgree` and `CreditsReturn` hold.
- `is_l2_miss` (`mbfw_l2_emul.c:760-792`) looks for instruction-cache copies with an
  address that the first loop has already moved past the line, so copies of the
  zeroed line survive. `NoStaleCopies` allows exactly these (`Zeroed`).
- `xlltemac`: comments at `mbfw_snet.c:201` and `:208` say that the paths which throw a frame
  away are not reached with this MAC. A frame between `eth_start` and `start = 1` reaches the first;
  and the second START of `snet_init` renumbers the slots if a frame came after the first. This is
  `skewed`. A full ring leaves the hardware no buffer, so no frame reaches the second.

Observations that concern code a run leaves out:

- A DMA transmit error leaves the flag that the loop of `xlltemac` waits for
  unset (`mbfw_xlltemac_intr.c:80-87`); the error is not an action of `Snet`.
- In the Maxeler firmware the call of `init_l1_reverse_dir` is commented out
  (`init.c:127`), `process` returns -1 for the first half of a compare-and-swap where
  the loop exchanges one reply for each request, and all calls of `send_cpx_pkt` are commented out.

## 5. What is proved

The theorems hold for every value of the constants that their modules'
assumptions admit. They follow the same lines everywhere: an inductive invariant
(checked with TLC first), a lemma for each action that preserves it, and the
theorem from these by temporal steps.

| module | theorem | statement |
|---|---|---|
| `PlcProofs` | `TypeCorrect`, `PipelineInvariant` | `Spec => []TypeOK`, `Spec => []Inv` |
| | `ErrorsAreGenuine` | `Spec => ErrorIsGenuine` |
| | `CheckFlagPulses` | `Spec => CheckFlagIsPulse` |
| | `TuplesStay` | `Spec => RegisteredForever` |
| `PlcEddiProofs` | `EddiInvariant` | `EddiSpec => []EddiIInv` |
| | `OnlyPairsRegistered` | `EddiSpec => []PairsAligned` |
| | `ChecksRequested` | `EddiSpec => []CheckAfterDuplicate` |
| | `ParitiesOfRegistered` | `EddiSpec => []OnlyRegisteredCounted` |
| | `NoFalseAlarms` | `EddiSpec => NoFalseAlarm` |
| `Pcx2mbProofs` | `TypeCorrect`, `Inductive` | `Spec => []TypeOK`, `Spec => []IInv` |
| | `FirstWordMarked` | `Spec => []ControlMarksFirst` |
| | `CountersStayEqual` | `Spec => []CountersAgree` |
| | `SquashedAreDropped` | `Spec => DropsAgree` |
| | `BridgeIsLink` | `Spec => ImplementsLink` |
| `Mb2cpxProofs` | `TypeCorrect` | `Spec => []TypeOK` |
| | `PacketsInOrder` | `Spec => []DeliveredInOrder` |
| `L2EmulProofs` | `Inductive`, `Typed` | `Spec => []IInv`, `Spec => []TypeOK` |
| | `DirectoryIsMirror` | `Spec => []DirectoryMirrorsL1` |
| | `Coherent` | `Spec => []NoStaleCopies` |
| | `Separate` | `Spec => []DataOrInstruction` |
| `AuroraProofs` | `TypeCorrect` | `Spec => []TypeOK` |
| | `HandshakeBounded` | `Spec => []HandshakeBoundsLink` |
| | `RingNeverOverflows` | `Suffices` gives `Spec => []RingSuffices` |
| `AuroraRefines` | `Refines` | `Suffices` gives `Spec => Emulated` |
| `SnetProofs` | `TypeCorrect` | `Spec => []TypeOK` |
| | `CountsAgree` | `Spec => []CountAgrees` |
| | `HardwareInOrder` | `Spec => []BuffersInOrder` |
| | `TxBufferKept` | `Spec => []TxBufferStable` |
| | `MessagesFramed` | `Apart` gives `Spec => []MessageFraming` |
| | `TypesKnown` | `Apart` gives `Spec => []KnownTypes` |
| | `FramesInOrder` | `Spec => ReceivesInOrder` |

### Assumptions

- `BaseAssumption` of `PlcBase`: addresses, ways and values contain 0 (the reset
  value), the list has room for two, stimuli are well formed. `EddiAssumption` of
  `PlcEddi` adds that no slot has two roles and 0/0 none. It says nothing of
  ways: where a result depends on them, its statement says so (`CheckAfterDuplicate`, `ParityInv`).
- `PcxAssumption` of `PcxBase`: there is a destination's worth of payload, and two
  places in the buffer for each destination, as in the code: five destinations, ten entries.
- `CpxAssumption` of `Mb2cpx`: the constants are not empty, and single responses exist.
- `DirAssumption` of `ReverseDir` and `L2Assumption` of `L2Emul`: there are ways, sets and places
  for replies, and fetches are aligned. The number of cores, the lines and the
  length of everything under way are not restricted.
- `AuroraAssumption` of `Aurora`: counts are positive, and the halves of a
  compare-and-swap come as a pair of kinds. `Suffices` (`MaxOut <= MAX_PCX_PKTS`) is the condition under
  which the code's ring of 32 is never full: without it the master gives up.
- `SnetAssumption` of `Snet`: counts are positive. `Apart` is the condition that finding 4
  needs to fail: no guest both sends frames and joins groups.

`OnlyRegisteredCounted` and `KnownTypes` are violated in general (findings 1 and 4, in
runs of their own). The theorems say under which condition on programs and guests they
hold, so that it is this condition that the findings break. `DuplicateFound` (finding 2) has no
such theorem, for no condition on a program of the core's would give it; `ChecksRequested` says for
which pairs a check comes and for which none does.

### The arguments

**PLC unit.** `ErrorIsGenuine` is not inductive: the comparison in `DE` or `LE` reads two
registers, and that these hold the two halves of one tuple depends on what was on
the cache port two cycles ago. `Inv` says where the data are:

- `SecondRead`, `OddArrives`, `EvenArrives`, `NextFollows` say, for each state of
  the checker, which half of which tuple is in M, in WB and in `dataO`;
- for these, no store may be between the two reads of a pair
  (`NoStoreBetween`), which holds because the checker has the port while it
  presents addresses (`PortHeld`) and any access of the core pauses it;
- the tuple fetched must be a registered one or all zeros
  (`FetchedEntry`, `UnusedZero`): the checker may fetch behind the end of an
  empty list, and a zero tuple compares a slot with itself;
- a new check must not meet the checker in the middle of a pair. The flag
  comes up only in the cycle after a store (`StoreSeen`), when the checker is
  idle or past its first address (`FlagState`), and with even counters (`FlagEven`),
  which is also why it never lasts two cycles.

**EDDI programs.** `NoFalseAlarm` and `CheckAfterDuplicate` compare what the program
stored, what the list counts and what is in the array, each a cycle or two apart. `EddiIInv` ties them together:
`PairInv` (what is registered or being registered is a pair), `ParityInv` (only counters of registered
tuples are odd; one whose original is in way 0 is odd exactly while its duplicate is due), `MemInv` (unless
the program stored unequal values, both halves of a tuple are equal in the
array, counting a duplicate still in M) and `LastCompareInv` (no duplicate is in
M when the last pair is compared).

**Request bridge.** Nothing in the code says that a request finds room: an entry
takes what its predecessor cannot, and the last one has no successor. `IInv` shows
it by counting. The core's monitors and the bridge's counters agree up to what is
between them (`CountersAgree`), a counter is the number of packets of its destination in the buffer or sent and
not granted (`CreditInv`), so each destination has two packets at most, and by the pigeonhole lemmas
`TwoOfEach` and `Room` the line is never full when a packet arrives. `LineInv(n)` says that the active
entries are the first `n` with halves adjacent, `StateInv(n)` and `HalvesInv(n)` what each state
of `pcx2mb_sm` presumes about the line and about a half that is still to come, and `WordInv`
relates `count`, `pos` and `control`.
For the refinement, the queue of `PcxLink` is cut into entry 1, line, packet taken
and second half. `FrontStep` and `OutStep` show that a clock sends a word, sends a last
word and drops the head, or neither; `HeldNext` that what arrives goes to the end;
and counting the packets of a destination in the queue (`At`) gives the credits.

**Response bridge.** The invariant names the packet `p` being read and, in
`DeliveryInv`, where an earlier packet `q` is: complete in the input register, in the
output register, or waiting there for its second half. `FeedInv` says which
word of `p` the sender, the FIFO and the counter are at; `PairInv` which half of
an atomic is next; `RegInv` which words are in the register. That the next packet cannot
overwrite `q` is a matter of cycles, and of `count`.

**L2 emulation.** The three properties speak of caches that have applied everything
under way, which is not what they hold when a handler runs. `Replay` is therefore a function of
the number of replies applied, and its lemmas (`ReplayAppend`, `ReplayTail`) reduce
a reply sent to one more application at the end, and a reply received to
one less at the front: receiving leaves the end as it is. `IInv` is `Good` of the state, and
`Wanted` of the requests:

- `CoreOK`, of each core: its directories are typed and name no line twice
  (`Unique`), they mirror the caches at the end (`MirrorsD`, `MirrorsI`), and an acknowledgement
  that names a way finds there, when its turn comes, the line with a
  mark it still owes (`Acks`): nothing sent earlier replaces the line, because
  the directory would have forgotten it;
- `Apart` and `UpToDate`, which are `DataOrInstruction` and `NoStaleCopies`;
- `Wanted`: a request asks for what is neither in the directory nor asked for by
  another one, except by a second load of the line for the same way. Without it
  a line might be added to two ways, and the search would invalidate one.

Writing memory marks copies in caches and replies alike, so marking and
replaying commute. A handler is a chain of operators; each is shown to only take
lines away from each core (`Cleared`, `Clears`), or to bring in one that is
nowhere else (`LoadServed`, `IfillServed`), and the chain follows. What a core
may ask for depends on its caches as they are now; `WhereData` and `WhereInstr` find a line that the
directory has in the cache or in a reply under way, which is
what the core's rules for requests exclude.

**Two boards.** `Handshake` gives the shape of both directions of the link in terms of
what each board has sent and read (`Flow`): acknowledgements, then a stretch of one
packet, then acknowledgements, one at most in all. It is symmetric, so each of a board's steps is
shown once. `RoomInv` bounds the ring by what core 1 may have under
way. For the refinement, `ServeInv` adds which requests have been served and which
messages remain to be sent; a packet under way is in exactly one of the places that the
mapping concatenates (`Sent0`, `Sent1`, `Arriving1`), and each step moves it from one
to the next or leaves the concatenation alone.

**Ethernet.** `LockInv` says which thread is where when it holds which lock, `LoadInv`
and `StoreInv` at which word guest and device are, `RingInv` and `OrderInv` how head,
tail, count and the hardware's ring relate, also between the two updates
of a count (`Held`). `CountAgrees` is about the loop only, but an interrupt may
fall into the middle of the update, which is why `MaskInv` is needed.
`FramingInv` is separate, for it needs `Apart`.

### Model-checked only

- Liveness under fairness, which the prover cannot do: `CheckFindsMismatch`, `CreditsReturn`,
  `AllDelivered`, `FramesRead`, `NoStarvation`.
- The violations.

## 6. Not modelled

`PROJECT.json` lists each part with its reason. In short:

- **Maxeler firmware**: a single-core descendant of the original, modelled in
  `L2Emul`, with its messages to other cores disabled and a loop around the
  vendor's streaming library. `add_cpx_ctl` is in `Mb2cpx`.
- **Glue of the bridge**: wiring.
- **Arithmetic**: softfloat, zlib and checksums are third-party or pure functions.
- **Device registers** (UART, IOB), address translation, statistics, printing,
  unpacking: stateless, or constants; a core sees them as replies that fill nothing
  (`process_device` of `L2Emul`).
- **L2 emulation**: debug commands, time-outs and what is inside an interrupt
  packet.
- **Ethernet**: polling mode, the checksum switch, DMA errors, interrupts without a
  frame, frames the DMA still delivers after STOP, and the vendor's MAC library below the drivers.
- **Ubuntu guest**: the network driver sends the same messages with one lock
  and none in open and stop; the disk driver copies to a RAM disk.
- **The T1 itself** is vendored. Only what the modelled parts face is taken: the
  request monitors, the pipeline of the data array, and the L1 caches' rules for requests and
  replies named in section 3.

Within the hardware models, left out are outputs the wrapper leaves open, the
parity, test and scan logic of the array, and resets of the bridges after power-on.
