---------------------------- MODULE Instructions ----------------------------
(***************************************************************************)
(* The recorded instruction trace that drives the pipeline of lab4         *)
(* (instr.h, sim-safe.c): what an instruction reads and writes, and which  *)
(* earlier instruction produces each of its operands.                      *)
(***************************************************************************)
EXTENDS Integers, Sequences

CONSTANTS
  Reg,                 \* the registers of the map table
  Traces               \* the traces sim_main may have recorded

VARIABLE trace         \* the trace being simulated, never modified

MAX_INPUT_REGS == 3
MAX_OUTPUT_REGS == 2

\* What the opcode flags tell apart: integer computations and loads ("int"),
\* stores, floating-point computations, branches, jumps and calls ("branch"),
\* and traps.  pisa.def gives every opcode exactly one of these classes.
Kind == {"int", "store", "fp", "branch", "trap"}

\* A missing operand of an instruction.
DNA == -1

Instr == [kind  : Kind,
          r_in  : [1..MAX_INPUT_REGS -> Reg \cup {DNA}],
          r_out : [1..MAX_OUTPUT_REGS -> Reg \cup {DNA}]]

ASSUME RegAssumption == DNA \notin Reg

\* A program executes at least one instruction, and no store of pisa.def has
\* an output register.
ASSUME TraceAssumption ==
  \A t \in Traces :
    /\ t \in Seq(Instr) /\ t # << >>
    /\ \A i \in DOMAIN t, k \in 1..MAX_OUTPUT_REGS :
         t[i].kind = "store" => t[i].r_out[k] = DNA

-----------------------------------------------------------------------------
sim_num_insn == Len(trace)
Insn == DOMAIN trace

IS_STORE(i)  == trace[i].kind = "store"
IS_BRANCH(i) == trace[i].kind = "branch"
IS_TRAP(i)   == trace[i].kind = "trap"

\* The registers an instruction writes.
Outputs(i) == {trace[i].r_out[k] : k \in 1..MAX_OUTPUT_REGS} \ {DNA}

\* Instruction p computes a new value of register r.  Branches, calls among
\* them, leave the pipeline without writing.
Writes(p, r) == trace[p].kind \in {"int", "fp"} /\ r \in Outputs(p)

\* Operand k of instruction i is the value that p writes: in program order, p
\* is the last instruction before i to write the register.
Produces(p, i, k) ==
  LET r == trace[i].r_in[k]
  IN  /\ p \in Insn /\ p < i
      /\ Writes(p, r)
      /\ \A q \in Insn : p < q /\ q < i => ~Writes(q, r)

=============================================================================
