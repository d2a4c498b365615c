------------------------------ MODULE Dataflow ------------------------------
(***************************************************************************)
(* What an out-of-order pipeline promises: instructions of the trace start *)
(* in any order that respects the flow of values between them, and an      *)
(* instruction's result is available only after it started.  Nothing is    *)
(* said about stations, units, tags, buses or time.                        *)
(***************************************************************************)
EXTENDS Instructions

VARIABLES
  started,             \* instructions that have begun to execute
  finished             \* instructions whose result every consumer can see

dataflowVars == <<trace, started, finished>>

DataflowInit == trace \in Traces /\ started = {} /\ finished = {}

\* Every operand of instruction i has been produced.
OperandsAvailable(i) ==
  \A k \in 1..MAX_INPUT_REGS, p \in Insn : Produces(p, i, k) => p \in finished

\* Several instructions may start at once; none starts twice.
Start ==
  \E S \in SUBSET Insn :
    /\ \A i \in S : i \notin started /\ OperandsAvailable(i)
    /\ started' = started \cup S
    /\ UNCHANGED <<trace, finished>>

\* Results become visible one at a time.
Finish ==
  \E i \in started \ finished :
    /\ finished' = finished \cup {i}
    /\ UNCHANGED <<trace, started>>

DataflowNext == Start \/ Finish

DataflowSpec == DataflowInit /\ [][DataflowNext]_dataflowVars

=============================================================================
