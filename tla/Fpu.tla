-------------------------------- MODULE Fpu --------------------------------
(***************************************************************************)
(* Floating point for the cores (mbfw_fpu.c).  An instruction with two     *)
(* operands comes as two requests: process_fp_1 keeps what the first one   *)
(* says, for each core, and process_fp_2 computes; one with a single       *)
(* operand is computed by process_fp_1.  The arithmetic is softfloat's,    *)
(* which reads the rounding mode from a global of its own.                 *)
(*                                                                         *)
(* The emulation loop serves one request at a time, those of a core in     *)
(* order, but those of two cores in any order (see module Emulation: only  *)
(* a compare-and-swap locks the other core out).  Operands, opcode and     *)
(* rounding mode of an instruction are the instruction itself, and a       *)
(* result is what it was computed from.                                    *)
(***************************************************************************)
EXTENDS Naturals, Sequences

CONSTANTS
  Core,     \* each uses its first thread, so core and cpu_id are the same
  Modes,    \* rounding modes of the FSR, "to_zero" among them
  MaxOut    \* bound: requests of a core that are not served yet

VARIABLES
  fsl,                  \* requests of each core
  cpu_fp,               \* cpu_fp_opcode, _cc, _rs2_float, _rs2_double
  float_rounding_mode,  \* softfloat's global
  cpx                   \* the last reply to each core

vars == <<fsl, cpu_fp, float_rounding_mode, cpx>>

\* Arithmetic with two operands; conversions to a floating-point number,
\* which round as the FSR says, and to an integer, which truncate.
Instructions == [op : {"binary", "to_float", "to_integer"}, mode : Modes]
Nothing == [op |-> "none", mode |-> "none"]

Request(half, i) == [half |-> half, instr |-> i]
Halves(i) == IF i.op = "binary" THEN <<Request(1, i), Request(2, i)>> ELSE <<Request(1, i)>>

\* A reply, computed with the second operand and the opcode of instruction
\* i2, the first operand of i1 and a rounding mode.
Result(i1, i2, mode) == [rs1 |-> i1, rs2 |-> i2, mode |-> mode]
NoResult == Result(Nothing, Nothing, "none")

Init ==
  /\ fsl = [c \in Core |-> <<>>]
  /\ cpu_fp = [c \in Core |-> Nothing]
  /\ float_rounding_mode = "nearest_even"
  /\ cpx = [c \in Core |-> NoResult]

\* The core sends the halves of an instruction one right after the other.
Execute(c) == \E i \in Instructions :
  /\ Len(fsl[c]) + Len(Halves(i)) <= MaxOut
  /\ fsl' = [fsl EXCEPT ![c] = @ \o Halves(i)]
  /\ UNCHANGED <<cpu_fp, float_rounding_mode, cpx>>

Serve(c, half) ==
  /\ fsl[c] # <<>> /\ Head(fsl[c]).half = half
  /\ fsl' = [fsl EXCEPT ![c] = Tail(@)]

process_fp_1(c) ==
  /\ Serve(c, 1)
  /\ LET i == Head(fsl[c]).instr
         mode == IF i.op = "to_integer" THEN "to_zero" ELSE i.mode
     IN  /\ cpu_fp' = [cpu_fp EXCEPT ![c] = i]
         /\ float_rounding_mode' = mode
         /\ cpx' = IF i.op = "binary" THEN cpx ELSE [cpx EXCEPT ![c] = Result(i, i, mode)]

process_fp_2(c) ==
  /\ Serve(c, 2)
  /\ cpx' = [cpx EXCEPT ![c] = Result(Head(fsl[c]).instr, cpu_fp[c], float_rounding_mode)]
  /\ UNCHANGED <<cpu_fp, float_rounding_mode>>

Next == \E c \in Core : Execute(c) \/ process_fp_1(c) \/ process_fp_2(c)
Spec == Init /\ [][Next]_vars
-----------------------------------------------------------------------------
\* "For multi-core support, the following global variables may need to be in
\* a data structure indexed by core id" (mbfw_fpu.c:69): what the requests of
\* one core set is not used for another, so that a result is computed from
\* the operands, the opcode and the rounding mode of its own instruction.
\* The rounding mode is not indexed by core, and the property fails.
OwnInstruction == \A c \in Core :
  LET r == cpx[c] IN r.rs1.op = "binary" => r.rs2 = r.rs1 /\ r.mode = r.rs1.mode
=============================================================================
