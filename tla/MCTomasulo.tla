----------------------------- MODULE MCTomasulo -----------------------------
(***************************************************************************)
(* Traces for checking the Tomasulo pipeline.                              *)
(***************************************************************************)
EXTENDS Tomasulo

\* An instruction with at most two operands and one output.
Op(kind, in1, in2, out) == [kind |-> kind, r_in |-> <<in1, in2, DNA>>, r_out |-> <<out, DNA>>]

Branch == Op("branch", 1, DNA, DNA)
Trap   == Op("trap", DNA, DNA, DNA)

\* Chains, antidependences and rewrites of two registers through both kinds
\* of units, a store that reads what they write, a branch and a trap.
Mixed == {Op("int", 1, DNA, 2), Op("int", 2, 1, 1), Op("fp", 1, 1, 2), Op("fp", DNA, DNA, 1),
          Op("store", 1, 2, DNA), Branch, Trap}

\* Longer traces of instructions that compete for the same register and bus.
Contending == {Op("int", 1, DNA, 2), Op("int", 2, 1, 1), Op("fp", 1, 1, 2), Op("fp", DNA, DNA, 1)}

MixedTraces == UNION {[1..n -> Mixed] : n \in 1..4} \cup [1..5 -> Contending]

\* As long as the instruction queue: all of it is dequeued when the trace ends.
QueueLong == {[i \in 1..INSTR_QUEUE_SIZE |-> Op("int", 1, DNA, 2)]}

\* Five independent integer instructions, of which the fifth waits one cycle
\* for a station, eight branches, taken from the queue while it executes, and
\* an instruction after them.
BranchesAtEnd ==
  {[i \in 1..14 |-> IF i \in 6..13 THEN Branch ELSE Op("int", 1, DNA, 2)]}
=============================================================================
