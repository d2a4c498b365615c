------------------------------ MODULE Tomasulo ------------------------------
(***************************************************************************)
(* The Tomasulo pipeline of src/lab4/tomasulo.c: a trace-driven, cycle by  *)
(* cycle simulation of an out-of-order processor with an instruction       *)
(* queue, reservation stations, functional units, a map table and one      *)
(* common data bus.                                                        *)
(*                                                                         *)
(* An instruction is its index in the trace (1, 2, ...), the field `index' *)
(* of instruction_t, and 0 is the NULL pointer.  The arrays reservINT,     *)
(* reservFP, fuINT and fuFP are sets of instructions with a capacity: no   *)
(* code looks at the slot an instruction is in.  Each cycle runs the five  *)
(* stage functions in the order of runTomasulo, one action each.           *)
(***************************************************************************)
EXTENDS Instructions, FiniteSets

CONSTANTS
  INSTR_QUEUE_SIZE,
  RESERV_INT_SIZE, RESERV_FP_SIZE,
  FU_INT_SIZE, FU_FP_SIZE,
  FU_INT_LATENCY, FU_FP_LATENCY,
  MaxCycle             \* bound of the model: no cycle after this one

ASSUME SizeAssumption ==
  /\ INSTR_QUEUE_SIZE \in Nat \ {0}
  /\ RESERV_INT_SIZE \in Nat \ {0} /\ RESERV_FP_SIZE \in Nat \ {0}
  /\ FU_INT_SIZE \in Nat \ {0} /\ FU_FP_SIZE \in Nat \ {0}
  /\ FU_INT_LATENCY \in Nat \ {0} /\ FU_FP_LATENCY \in Nat \ {0}
  /\ MaxCycle \in Nat

VARIABLES
  stage,               \* the function runTomasulo calls next, or "done"
  cycle,               \* runTomasulo's cycle counter
  fetch_index,         \* the index of the last instruction fetched
  instr_queue, instr_queue_head, instr_queue_size,
  reserv,              \* reserv["INT"] is reservINT, reserv["FP"] is reservFP
  fu,                  \* fu["INT"] is fuINT, fu["FP"] is fuFP
  commonDataBus,
  map_table,
  Q,                   \* Q[i][k]: the producer of operand k that i waits for
  tom_dispatch_cycle, tom_issue_cycle, tom_execute_cycle, tom_cdb_cycle

queueVars == <<instr_queue, instr_queue_head, instr_queue_size>>
cycleVars == <<tom_dispatch_cycle, tom_issue_cycle, tom_execute_cycle, tom_cdb_cycle>>
vars == <<trace, stage, cycle, fetch_index, queueVars, reserv, fu,
          commonDataBus, map_table, Q, cycleVars>>

-----------------------------------------------------------------------------
Class == {"INT", "FP"}
Stage == {"retire", "cdb", "execute", "issue", "fetch", "done"}

NULL == 0

\* USES_INT_FU and USES_FP_FU: the stations and units an instruction uses.
ClassOf(i) == IF trace[i].kind = "fp" THEN "FP" ELSE "INT"

RESERV_SIZE(c) == IF c = "INT" THEN RESERV_INT_SIZE ELSE RESERV_FP_SIZE
FU_SIZE(c)     == IF c = "INT" THEN FU_INT_SIZE ELSE FU_FP_SIZE
LATENCY(c)     == IF c = "INT" THEN FU_INT_LATENCY ELSE FU_FP_LATENCY

\* The instructions that wait in a reservation station.
Stationed == reserv["INT"] \cup reserv["FP"]

\* runTomasulo calls the stages in this order, once per cycle.
Step(from, to) == stage = from /\ stage' = to

-----------------------------------------------------------------------------
(* The instruction queue, a circular array.                                *)

\* C's remainder takes the sign of the dividend.
CRemainder(a, b) == IF a < 0 THEN -((-a) % b) ELSE a % b

instr_queue_is_empty == instr_queue_size = 0
instr_queue_is_full  == instr_queue_size = INSTR_QUEUE_SIZE
instr_queue_peek     == instr_queue[instr_queue_head]

\* The index instr_queue_peek_tail reads when the queue holds `size' elements.
TailIndex(size) == CRemainder(instr_queue_head + size - 1, INSTR_QUEUE_SIZE)

\* Mutant of instr_queue_dequeue: the head does not wrap around.
instr_queue_dequeue_NoWrap ==
  /\ instr_queue' = [instr_queue EXCEPT ![instr_queue_head] = NULL]
  /\ instr_queue_head' = instr_queue_head + 1
  /\ instr_queue_size' = instr_queue_size - 1

instr_queue_dequeue ==
  /\ instr_queue' = [instr_queue EXCEPT ![instr_queue_head] = NULL]
  /\ instr_queue_head' = (instr_queue_head + 1) % INSTR_QUEUE_SIZE
  /\ instr_queue_size' = instr_queue_size - 1

\* Mutant of instr_queue_enqueue: the insertion ignores the head.
instr_queue_enqueue_FromZero(i) ==
  /\ instr_queue' = [instr_queue EXCEPT ![instr_queue_size % INSTR_QUEUE_SIZE] = i]
  /\ instr_queue_size' = instr_queue_size + 1
  /\ UNCHANGED instr_queue_head

instr_queue_enqueue(i) ==
  /\ instr_queue' =
       [instr_queue EXCEPT ![(instr_queue_head + instr_queue_size) % INSTR_QUEUE_SIZE] = i]
  /\ instr_queue_size' = instr_queue_size + 1
  /\ UNCHANGED instr_queue_head

-----------------------------------------------------------------------------
(* runTomasulo's initial state: everything empty, cycle 1.                 *)
Init ==
  /\ trace \in Traces
  /\ stage = "retire"
  /\ cycle = 1
  /\ fetch_index = 0
  /\ instr_queue = [s \in 0..(INSTR_QUEUE_SIZE - 1) |-> NULL]
  /\ instr_queue_head = 0
  /\ instr_queue_size = 0
  /\ reserv = [c \in Class |-> {}]
  /\ fu = [c \in Class |-> {}]
  /\ commonDataBus = NULL
  /\ map_table = [r \in Reg |-> NULL]
  /\ Q = [i \in Insn |-> [k \in 1..MAX_INPUT_REGS |-> NULL]]
  /\ tom_dispatch_cycle = [i \in Insn |-> 0]
  /\ tom_issue_cycle = [i \in Insn |-> 0]
  /\ tom_execute_cycle = [i \in Insn |-> 0]
  /\ tom_cdb_cycle = [i \in Insn |-> 0]

-----------------------------------------------------------------------------
(* The stages.                                                             *)

\* An array of producers without the instruction on the bus.
Cleared(producers) ==
  [x \in DOMAIN producers |->
     IF producers[x] = commonDataBus THEN NULL ELSE producers[x]]

\* Mutant of CDB_To_retire: mappings are removed by register.
CDB_To_retire_ByRegister ==
  /\ Step("retire", "cdb")
  /\ Q' = [i \in Insn |-> IF i \in Stationed THEN Cleared(Q[i]) ELSE Q[i]]
  /\ map_table' = [r \in Reg |-> IF commonDataBus # NULL /\ r \in Outputs(commonDataBus)
                                  THEN NULL ELSE map_table[r]]
  /\ commonDataBus' = NULL
  /\ UNCHANGED <<trace, cycle, fetch_index, queueVars, reserv, fu, cycleVars>>

\* Mutant of CDB_To_retire: only the integer stations listen to the bus.
CDB_To_retire_IntOnly ==
  /\ Step("retire", "cdb")
  /\ Q' = [i \in Insn |-> IF i \in reserv["INT"] THEN Cleared(Q[i]) ELSE Q[i]]
  /\ map_table' = Cleared(map_table)
  /\ commonDataBus' = NULL
  /\ UNCHANGED <<trace, cycle, fetch_index, queueVars, reserv, fu, cycleVars>>

\* The result on the bus reaches the waiting stations and the map table.
CDB_To_retire ==
  /\ Step("retire", "cdb")
  /\ Q' = [i \in Insn |-> IF i \in Stationed THEN Cleared(Q[i]) ELSE Q[i]]
  /\ map_table' = Cleared(map_table)
  /\ commonDataBus' = NULL
  /\ UNCHANGED <<trace, cycle, fetch_index, queueVars, reserv, fu, cycleVars>>

\* The instructions of a unit whose latency has passed.  Nothing leaves a
\* unit while the bus is taken.
Finished(c) ==
  {i \in fu[c] : commonDataBus = NULL /\ tom_execute_cycle[i] + LATENCY(c) <= cycle}

CompletedStores == {i \in Finished("INT") : IS_STORE(i)}
\* Mutant of ReadyForCDB: integer units have priority on the bus.
ReadyForCDB_IntFirst ==
  LET ints == Finished("INT") \ CompletedStores
  IN  IF ints # {} THEN ints ELSE Finished("FP")

ReadyForCDB == (Finished("INT") \ CompletedStores) \cup Finished("FP")

\* The instructions `leaving' give up their unit and their station.
Remove(leaving) ==
  /\ fu' = [c \in Class |-> fu[c] \ leaving]
  /\ reserv' = [c \in Class |-> reserv[c] \ leaving]

\* Completed stores leave; the oldest of the other finished instructions
\* takes the bus.
execute_To_CDB ==
  /\ Step("cdb", "execute")
  /\ \/ /\ ReadyForCDB = {}
        /\ Remove(CompletedStores)
        /\ UNCHANGED <<commonDataBus, tom_cdb_cycle>>
     \/ \E insn \in ReadyForCDB :
          /\ \A other \in ReadyForCDB : insn <= other
          /\ Remove(CompletedStores \cup {insn})
          /\ commonDataBus' = insn
          /\ tom_cdb_cycle' = [tom_cdb_cycle EXCEPT ![insn] = cycle]
  /\ UNCHANGED <<trace, cycle, fetch_index, queueVars, map_table, Q,
                 tom_dispatch_cycle, tom_issue_cycle, tom_execute_cycle>>

\* Mutant of ReadyForExecute: only the first operand is looked at.
ReadyForExecute_FirstOperand(c) == {i \in reserv[c] \ fu[c] : Q[i][1] = NULL}

\* Mutant of ReadyForExecute: an executing instruction is ready again.
ReadyForExecute_Again(c) ==
  {i \in reserv[c] : \A k \in 1..MAX_INPUT_REGS : Q[i][k] = NULL}

\* The instructions of a station that have all operands and no unit yet.
ReadyForExecute(c) ==
  {i \in reserv[c] \ fu[c] : \A k \in 1..MAX_INPUT_REGS : Q[i][k] = NULL}

\* issue_To_execute_helper fills the free units with the oldest ready
\* instructions: `moved' is what its loop inserts.
issue_To_execute_helper(c, moved) ==
  LET ready == ReadyForExecute(c)
      free  == FU_SIZE(c) - Cardinality(fu[c])
  IN  /\ moved \subseteq ready
      /\ \A i \in moved, j \in ready \ moved : i < j
      /\ Cardinality(moved) = IF Cardinality(ready) < free THEN Cardinality(ready) ELSE free

issue_To_execute ==
  /\ Step("execute", "issue")
  /\ \E ints \in SUBSET ReadyForExecute("INT"), fps \in SUBSET ReadyForExecute("FP") :
       /\ issue_To_execute_helper("INT", ints)
       /\ issue_To_execute_helper("FP", fps)
       /\ fu' = [c \in Class |-> fu[c] \cup (IF c = "INT" THEN ints ELSE fps)]
       /\ tom_execute_cycle' =
            [i \in Insn |-> IF i \in ints \cup fps THEN cycle ELSE tom_execute_cycle[i]]
  /\ UNCHANGED <<trace, cycle, fetch_index, queueVars, reserv, commonDataBus,
                 map_table, Q, tom_dispatch_cycle, tom_issue_cycle, tom_cdb_cycle>>

\* Mutant of StationFull: one instruction too many.
StationFull_OffByOne(c) == Cardinality(reserv[c]) > RESERV_SIZE(c)

StationFull(c) == Cardinality(reserv[c]) = RESERV_SIZE(c)

\* Mutant of Tags: outputs are entered into the map table first.
Tags_AfterOutputs(insn) ==
  [k \in 1..MAX_INPUT_REGS |->
     LET r == trace[insn].r_in[k]
     IN  IF r \in Outputs(insn) THEN insn
         ELSE IF r # DNA /\ map_table[r] # NULL THEN map_table[r] ELSE Q[insn][k]]

\* Mutant of Tags: only the first operand is looked up.
Tags_FirstOperand(insn) ==
  [k \in 1..MAX_INPUT_REGS |->
     LET r == trace[insn].r_in[k]
     IN  IF k = 1 /\ r # DNA /\ map_table[r] # NULL THEN map_table[r] ELSE Q[insn][k]]

\* The producers of insn's operands, as the map table knows them.
Tags(insn) ==
  [k \in 1..MAX_INPUT_REGS |->
     LET r == trace[insn].r_in[k]
     IN  IF r # DNA /\ map_table[r] # NULL THEN map_table[r] ELSE Q[insn][k]]

\* The head of the queue enters its reservation station; its operands are
\* looked up before its outputs are entered into the map table.
Issue(insn) ==
  /\ ~IS_BRANCH(insn)
  /\ ~StationFull(ClassOf(insn))
  /\ instr_queue_dequeue
  /\ reserv' = [reserv EXCEPT ![ClassOf(insn)] = @ \cup {insn}]
  /\ tom_issue_cycle' = [tom_issue_cycle EXCEPT ![insn] = cycle]
  /\ Q' = [Q EXCEPT ![insn] = Tags(insn)]
  /\ map_table' = [r \in Reg |-> IF r \in Outputs(insn) THEN insn ELSE map_table[r]]

\* A branch leaves the queue and is not simulated further.
DropBranch(insn) ==
  /\ IS_BRANCH(insn)
  /\ instr_queue_dequeue
  /\ UNCHANGED <<reserv, tom_issue_cycle, Q, map_table>>

\* The head of the queue waits for a free station.
Stall(insn) ==
  /\ ~IS_BRANCH(insn)
  /\ StationFull(ClassOf(insn))
  /\ UNCHANGED <<queueVars, reserv, tom_issue_cycle, Q, map_table>>

dispatch_To_issue ==
  /\ Step("issue", "fetch")
  /\ \/ instr_queue_is_empty /\ UNCHANGED <<queueVars, reserv, tom_issue_cycle, Q, map_table>>
     \/ /\ ~instr_queue_is_empty
        /\ \/ Stall(instr_queue_peek)
           \/ DropBranch(instr_queue_peek)
           \/ Issue(instr_queue_peek)
  /\ UNCHANGED <<trace, cycle, fetch_index, fu, commonDataBus,
                 tom_dispatch_cycle, tom_execute_cycle, tom_cdb_cycle>>

\* The next instruction that is not a trap enters the queue.  After the end
\* of the trace every call still increments fetch_index.
fetch ==
  \/ instr_queue_is_full /\ UNCHANGED <<fetch_index, queueVars>>
  \/ /\ ~instr_queue_is_full
     /\ \E next \in (fetch_index + 1)..(fetch_index + 1 + sim_num_insn) :
          /\ \A i \in (fetch_index + 1)..(next - 1) : i \in Insn /\ IS_TRAP(i)
          /\ next \in Insn => ~IS_TRAP(next)
          /\ fetch_index' = next
          /\ IF next \in Insn THEN instr_queue_enqueue(next) ELSE UNCHANGED queueVars

\* The instruction instr_queue_peek_tail returns.  With an empty queue whose
\* head is 0 it reads the word before the array, which may hold anything.
PeekedTail(insn) ==
  LET tail == TailIndex(instr_queue_size')
  IN  IF tail < 0 THEN insn \in Insn \cup {NULL} ELSE insn = instr_queue'[tail]

is_simulation_done ==
  /\ fetch_index' > sim_num_insn
  /\ \A c \in Class : reserv[c] = {} /\ fu[c] = {}

\* fetch, dispatch, and the end of the cycle in runTomasulo's loop.
fetch_To_dispatch ==
  /\ stage = "fetch"
  /\ cycle < MaxCycle
  /\ fetch
  /\ \E insn \in Insn \cup {NULL} :
       /\ PeekedTail(insn)
       /\ tom_dispatch_cycle' =
            [i \in Insn |-> IF i = insn /\ tom_dispatch_cycle[i] = 0
                            THEN cycle ELSE tom_dispatch_cycle[i]]
  /\ cycle' = cycle + 1
  /\ stage' = IF is_simulation_done THEN "done" ELSE "retire"
  /\ UNCHANGED <<trace, reserv, fu, commonDataBus, map_table, Q,
                 tom_issue_cycle, tom_execute_cycle, tom_cdb_cycle>>

Next ==
  \/ CDB_To_retire
  \/ execute_To_CDB
  \/ issue_To_execute
  \/ dispatch_To_issue
  \/ fetch_To_dispatch

Spec == Init /\ [][Next]_vars

\* runTomasulo is one sequential loop: it keeps running.
FairSpec == Spec /\ WF_vars(Next)

-----------------------------------------------------------------------------
(* Properties.                                                             *)

IdOrNull == Insn \cup {NULL}

\* Every variable has its type: tags, mappings and queue slots name
\* instructions of the trace or are empty.
TypeOK ==
  /\ trace \in Traces
  /\ stage \in Stage
  /\ cycle \in Nat \ {0}
  /\ fetch_index \in Nat
  /\ instr_queue \in [0..(INSTR_QUEUE_SIZE - 1) -> IdOrNull]
  /\ instr_queue_head \in 0..(INSTR_QUEUE_SIZE - 1)
  /\ instr_queue_size \in 0..INSTR_QUEUE_SIZE
  /\ reserv \in [Class -> SUBSET Insn]
  /\ fu \in [Class -> SUBSET Insn]
  /\ commonDataBus \in IdOrNull
  /\ map_table \in [Reg -> IdOrNull]
  /\ Q \in [Insn -> [1..MAX_INPUT_REGS -> IdOrNull]]
  /\ tom_dispatch_cycle \in [Insn -> Nat]
  /\ tom_issue_cycle \in [Insn -> Nat]
  /\ tom_execute_cycle \in [Insn -> Nat]
  /\ tom_cdb_cycle \in [Insn -> Nat]

\* CDB_To_retire has broadcast the result of p.
Retired(p) == tom_cdb_cycle[p] # 0 /\ commonDataBus # p

Issued(i) == tom_issue_cycle[i] # 0

\* The k-th instruction waiting in the queue.
Queued(k) == instr_queue[(instr_queue_head + k) % INSTR_QUEUE_SIZE]

\* The tags of a waiting instruction are exactly the producers, in program
\* order, of its operands that have not been broadcast: no wake-up is lost
\* when a result passes on the bus in the cycle its consumer is issued, and
\* no tag is left that names a result already broadcast or a wrong writer.
TagsExact ==
  \A i \in Stationed, k \in 1..MAX_INPUT_REGS, p \in Insn :
    Q[i][k] = p <=> Produces(p, i, k) /\ ~Retired(p)

\* The map table names, for each register, the last issued writer while its
\* result is pending: the retirement of an earlier writer of the same
\* register does not remove the mapping of a later one.
MapExact ==
  \A r \in Reg, p \in Insn :
    map_table[r] = p <=>
      /\ Writes(p, r) /\ Issued(p) /\ ~Retired(p)
      /\ \A q \in Insn : p < q /\ Writes(q, r) => ~Issued(q)

\* "All RAW dependences need to have been resolved with stalls before an
\* instruction enters execute": an instruction executes strictly after the
\* cycle in which each of its operands was on the bus.
RAWResolved ==
  \A i \in Insn, k \in 1..MAX_INPUT_REGS, p \in Insn :
    tom_execute_cycle[i] # 0 /\ Produces(p, i, k) =>
      tom_cdb_cycle[p] # 0 /\ tom_cdb_cycle[p] < tom_execute_cycle[i]

\* The common data bus carries one result per cycle, after its latency, and
\* an instruction that has finished is never overtaken on the bus by a
\* younger one, whichever unit either is in.
OldestFirst ==
  \A i \in Insn : tom_cdb_cycle[i] # 0 =>
    /\ tom_execute_cycle[i] # 0
    /\ tom_execute_cycle[i] + LATENCY(ClassOf(i)) <= tom_cdb_cycle[i]
    /\ \A j \in Insn :
         /\ j # i => tom_cdb_cycle[j] # tom_cdb_cycle[i]
         /\ /\ j < i /\ ~IS_STORE(j) /\ tom_execute_cycle[j] # 0
            /\ tom_execute_cycle[j] + LATENCY(ClassOf(j)) <= tom_cdb_cycle[i]
            => tom_cdb_cycle[j] # 0 /\ tom_cdb_cycle[j] < tom_cdb_cycle[i]

\* insn_array_insert_insn drops an instruction silently when the array is
\* full: it never does.  An issued instruction keeps its station until it
\* has been on the bus, an executing one keeps its unit, and only stations
\* of its own class are used.
StationsHold ==
  /\ \A c \in Class :
       /\ Cardinality(reserv[c]) <= RESERV_SIZE(c)
       /\ Cardinality(fu[c]) <= FU_SIZE(c)
       /\ fu[c] = {i \in reserv[c] : tom_execute_cycle[i] # 0}
  /\ \A i \in Insn : Issued(i) /\ ~IS_STORE(i) /\ tom_cdb_cycle[i] = 0 =>
       i \in reserv[ClassOf(i)]
  /\ \A c \in Class : \A i \in reserv[c] :
       c = ClassOf(i) /\ Issued(i) /\ tom_cdb_cycle[i] = 0

\* The circular queue holds, in program order and without gaps, exactly the
\* instructions fetched and not yet taken; every other slot is empty, and
\* everything before the head of the queue has been issued.
QueueInOrder ==
  /\ \A k \in 0..(INSTR_QUEUE_SIZE - 1) : Queued(k) # NULL <=> k < instr_queue_size
  /\ \A k \in 1..(instr_queue_size - 1) : Queued(k - 1) < Queued(k)
  /\ \A i \in Insn : i <= fetch_index /\ trace[i].kind \in {"int", "store", "fp"} =>
       \/ Issued(i) /\ \A k \in 0..(instr_queue_size - 1) : i < Queued(k)
       \/ ~Issued(i) /\ \E k \in 0..(instr_queue_size - 1) : i = Queued(k)
  /\ \A i \in Insn : i > fetch_index => ~Issued(i)

\* The time stamps are those of the first time: no instruction enters a
\* stage twice, although its station is read again in every cycle it
\* executes and the tail of the queue is peeked at in every cycle.
EntersOnce ==
  [][\A i \in Insn :
       /\ tom_dispatch_cycle[i] # 0 => tom_dispatch_cycle'[i] = tom_dispatch_cycle[i]
       /\ tom_issue_cycle[i] # 0 => tom_issue_cycle'[i] = tom_issue_cycle[i]
       /\ tom_execute_cycle[i] # 0 => tom_execute_cycle'[i] = tom_execute_cycle[i]
       /\ tom_cdb_cycle[i] # 0 => tom_cdb_cycle'[i] = tom_cdb_cycle[i]]_vars

\* The simulation ends, before the bound of the model: no instruction waits
\* for ever for a tag, a unit, a station or the bus.
Terminates == <>(stage = "done")

\* Comment of instr_queue_peek_tail: "Peek at the last instruction".  The
\* slot that was read at the end of the cycle is one of the queue's.
PeekInQueue ==
  stage \in {"retire", "done"} /\ cycle > 1 =>
    TailIndex(instr_queue_size) \in DOMAIN instr_queue

\* Comment of is_simulation_done: "simulation is done only if the entire
\* pipeline is empty".  No instruction is left in the queue.
PipelineEmptyAtEnd == stage = "done" => instr_queue_is_empty

\* The pipeline implements the flow of values between instructions: what has
\* started and what has been broadcast, for the abstract specification.
DF == INSTANCE Dataflow WITH
  started  <- {i \in Insn : tom_execute_cycle[i] # 0},
  finished <- {i \in Insn : Retired(i)}

ImplementsDataflow == DF!DataflowSpec

=============================================================================
