-------------------------- MODULE Tomasulo_proofs --------------------------
(***************************************************************************)
(* Proofs about the Tomasulo pipeline, for every trace and every size and  *)
(* latency.                                                                *)
(***************************************************************************)
EXTENDS Tomasulo, FiniteSetTheorems, TLAPS

N == INSTR_QUEUE_SIZE

\* The instructions that are issued to a station.
Sim(i) == trace[i].kind \in {"int", "store", "fp"}

-----------------------------------------------------------------------------
(* The trace.                                                              *)

\* Instructions are numbered from 1 and have the shape of Instr.
LEMMA TraceFacts ==
  ASSUME trace \in Traces
  PROVE  /\ sim_num_insn \in Nat \ {0} /\ Insn = 1..sim_num_insn
         /\ \A i \in Insn : i \in Nat /\ i # NULL
         /\ \A i \in Insn : /\ trace[i].kind \in Kind
                            /\ \A k \in 1..MAX_INPUT_REGS : trace[i].r_in[k] \in Reg \cup {DNA}
                            /\ trace[i].kind = "store" => Outputs(i) = {}
<1>1. trace \in Seq(Instr) /\ trace # << >>  BY TraceAssumption
<1>2. sim_num_insn \in Nat \ {0} /\ Insn = 1..sim_num_insn  BY <1>1 DEF sim_num_insn, Insn
<1>3. \A i \in Insn : trace[i] \in Instr  BY <1>1 DEF Insn
<1>4. \A i \in Insn : i \in Nat /\ i # NULL  BY <1>2 DEF NULL
<1>5. ASSUME NEW i \in Insn, trace[i].kind = "store" PROVE Outputs(i) = {}
  <2>1. \A k \in 1..MAX_OUTPUT_REGS : trace[i].r_out[k] = DNA
    BY <1>5, TraceAssumption DEF Insn
  <2>2. QED  BY <2>1 DEF Outputs
<1>6. QED  BY <1>2, <1>3, <1>4, <1>5 DEF Instr

\* The trace does not change, nor what is defined from it.
LEMMA TraceKept ==
  ASSUME UNCHANGED trace
  PROVE  /\ Insn' = Insn /\ sim_num_insn' = sim_num_insn /\ IdOrNull' = IdOrNull
         /\ \A i : (Sim(i)' <=> Sim(i)) /\ (IS_STORE(i)' <=> IS_STORE(i)) /\ ClassOf(i)' = ClassOf(i)
         /\ \A p, r : Writes(p, r)' <=> Writes(p, r)
         /\ \A p, i, k : Produces(p, i, k)' <=> Produces(p, i, k)
BY DEF Insn, sim_num_insn, IdOrNull, Sim, IS_STORE, ClassOf, Writes, Outputs, Produces

-----------------------------------------------------------------------------
(* The circular queue.                                                     *)

QueueType ==
  /\ instr_queue \in [0..(N - 1) -> IdOrNull]
  /\ instr_queue_head \in 0..(N - 1)
  /\ instr_queue_size \in 0..N

\* A position of the queue as an index of the array.
LEMMA Wrap ==
  ASSUME NEW h \in 0..(N - 1), NEW k \in 0..N
  PROVE  (h + k) % N = IF h + k < N THEN h + k ELSE h + k - N
BY SizeAssumption DEF N

\* Taking the head shifts the queue.
LEMMA Dequeued ==
  ASSUME QueueType, ~instr_queue_is_empty, instr_queue_dequeue, UNCHANGED trace
  PROVE  /\ QueueType' /\ instr_queue_size' = instr_queue_size - 1
         /\ \A k \in 0..(N - 2) : Queued(k)' = Queued(k + 1)
         /\ Queued(N - 1)' = NULL
<1> DEFINE h == instr_queue_head
           h2 == instr_queue_head'
<1>1. N \in Nat \ {0}  BY SizeAssumption DEF N
<1>2. /\ instr_queue \in [0..(N - 1) -> IdOrNull] /\ h \in 0..(N - 1)
      /\ instr_queue_size \in 1..N
  BY <1>1 DEF QueueType, instr_queue_is_empty
<1>3. /\ instr_queue' = [instr_queue EXCEPT ![h] = NULL] /\ h2 = (h + 1) % N
      /\ instr_queue_size' = instr_queue_size - 1
  BY DEF instr_queue_dequeue, N
<1>4. h2 = IF h + 1 < N THEN h + 1 ELSE 0
  <2>1. 1 \in 0..N  BY <1>1
  <2>2. (h + 1) % N = IF h + 1 < N THEN h + 1 ELSE h + 1 - N  BY <1>2, <2>1, Wrap, Zenon
  <2>3. QED  BY <1>1, <1>2, <1>3, <2>2
<1>5. QueueType'
  <2>1. IdOrNull' = IdOrNull /\ NULL \in IdOrNull  BY DEF IdOrNull, Insn
  <2>2. QED  BY <1>1, <1>2, <1>3, <1>4, <2>1 DEF QueueType
<1>6. ASSUME NEW k \in 0..(N - 2) PROVE Queued(k)' = Queued(k + 1)
  <2>1. (h2 + k) % N = (h + (k + 1)) % N /\ (h + (k + 1)) % N # h /\ (h + (k + 1)) % N \in 0..(N - 1)
    <3>1. k + 1 \in 0..N /\ k \in 0..N /\ h2 \in 0..(N - 1)  BY <1>1, <1>2, <1>4
    <3>2. (h + (k + 1)) % N = IF h + (k + 1) < N THEN h + (k + 1) ELSE h + (k + 1) - N
      BY <1>2, <3>1, Wrap, Zenon
    <3>3. (h2 + k) % N = IF h2 + k < N THEN h2 + k ELSE h2 + k - N
      BY <3>1, Wrap, Zenon
    <3> HIDE DEF h, h2
    <3>4. QED  BY <1>1, <1>2, <1>4, <3>2, <3>3
  <2>2. QED  BY <1>2, <1>3, <2>1 DEF Queued, N
<1>7. Queued(N - 1)' = NULL
  <2>1. (h2 + (N - 1)) % N = h
    <3>1. N - 1 \in 0..N /\ h2 \in 0..(N - 1)  BY <1>1, <1>2, <1>4
    <3>2. (h2 + (N - 1)) % N = IF h2 + (N - 1) < N THEN h2 + (N - 1) ELSE h2 + (N - 1) - N
      BY <3>1, Wrap, Zenon
    <3> HIDE DEF h, h2
    <3>3. QED  BY <1>1, <1>2, <1>4, <3>2
  <2>2. QED  BY <1>2, <1>3, <2>1 DEF Queued, N
<1>8. QED  BY <1>3, <1>5, <1>6, <1>7

\* An insertion into a queue that is not full goes after its last element.
LEMMA Enqueued ==
  ASSUME QueueType, ~instr_queue_is_full, NEW i \in Insn, instr_queue_enqueue(i), UNCHANGED trace
  PROVE  /\ QueueType' /\ instr_queue_size' = instr_queue_size + 1
         /\ \A k \in 0..(N - 1) : Queued(k)' = IF k = instr_queue_size THEN i ELSE Queued(k)
<1> DEFINE h == instr_queue_head
           n == instr_queue_size
<1>1. N \in Nat \ {0}  BY SizeAssumption DEF N
<1>2. instr_queue \in [0..(N - 1) -> IdOrNull] /\ h \in 0..(N - 1) /\ n \in 0..(N - 1)
  BY <1>1 DEF QueueType, instr_queue_is_full, N
<1>3. /\ instr_queue' = [instr_queue EXCEPT ![(h + n) % N] = i]
      /\ instr_queue_size' = n + 1 /\ instr_queue_head' = h
  BY DEF instr_queue_enqueue, N
<1> HIDE DEF h, n
<1>4. \A k \in 0..(N - 1) :
        /\ (h + k) % N \in 0..(N - 1)
        /\ (h + k) % N = (h + n) % N => k = n
  <2>1. \A k \in 0..(N - 1) : (h + k) % N = IF h + k < N THEN h + k ELSE h + k - N
    BY <1>1, <1>2, Wrap
  <2>2. QED  BY <1>1, <1>2, <2>1
<1>5. QueueType'
  <2>1. IdOrNull' = IdOrNull /\ i \in IdOrNull  BY DEF IdOrNull, Insn
  <2>2. QED  BY <1>1, <1>2, <1>3, <2>1 DEF QueueType, h, n
<1>6. ASSUME NEW k \in 0..(N - 1) PROVE Queued(k)' = IF k = n THEN i ELSE Queued(k)
  <2>1. Queued(k)' = instr_queue'[(h + k) % N] /\ Queued(k) = instr_queue[(h + k) % N]
    BY <1>3 DEF Queued, N, h
  <2>2. QED  BY <1>2, <1>3, <1>4, <2>1
<1>7. QED  BY <1>3, <1>5, <1>6 DEF n

-----------------------------------------------------------------------------
(* What the queue holds.                                                   *)

\* The first instr_queue_size positions hold fetched instructions, in program
\* order, and the others nothing.
Slots ==
  /\ \A k \in 0..(N - 1) : k < instr_queue_size =>
       Queued(k) \in Insn /\ Queued(k) <= fetch_index /\ trace[Queued(k)].kind # "trap"
  /\ \A k \in 0..(N - 1) : k >= instr_queue_size => Queued(k) = NULL
  /\ \A j, k \in 0..(N - 1) : j < k /\ k < instr_queue_size => Queued(j) < Queued(k)

\* An instruction fetched is either issued, and older than all in the queue,
\* or in the queue.
Taken ==
  /\ \A i \in Insn : Issued(i) => i <= fetch_index /\ Sim(i)
  /\ \A i \in Insn, k \in 0..(N - 1) : Issued(i) /\ k < instr_queue_size => i < Queued(k)
  /\ \A i \in Insn : i <= fetch_index /\ Sim(i) /\ ~Issued(i) =>
       \E k \in 0..(N - 1) : k < instr_queue_size /\ i = Queued(k)

QueueInv == QueueType /\ Slots /\ Taken

\* The head of the queue is the oldest instruction not issued.
LEMMA HeadOldest ==
  ASSUME trace \in Traces, fetch_index \in Nat, QueueInv, ~instr_queue_is_empty,
         NEW h, h = instr_queue_peek
  PROVE  /\ h \in Insn /\ h = Queued(0) /\ trace[h].kind # "trap" /\ ~Issued(h)
         /\ \A i \in Insn : Issued(i) => i < h
         /\ \A i \in Insn : i < h /\ Sim(i) => Issued(i)
<1>1. N \in Nat \ {0} /\ 0 \in 0..(N - 1)  BY SizeAssumption DEF N
<1>2. QueueType /\ Slots /\ Taken  BY DEF QueueInv
<1>3. 0 < instr_queue_size /\ instr_queue_size \in 1..N  BY <1>1, <1>2 DEF instr_queue_is_empty, QueueType
<1>4. h = Queued(0)
  <2>1. instr_queue_head \in 0..(N - 1)  BY <1>2 DEF QueueType
  <2>2. (instr_queue_head + 0) % N = instr_queue_head  BY <1>1, <2>1
  <2>3. QED  BY <2>2 DEF Queued, instr_queue_peek, N
<1>5. h \in Insn /\ h <= fetch_index /\ trace[h].kind # "trap"
  BY <1>1, <1>2, <1>3, <1>4 DEF Slots
<1>6. \A i \in Insn : i \in Nat  BY TraceFacts
<1>7. \A i \in Insn : Issued(i) => i < h  BY <1>1, <1>2, <1>3, <1>4 DEF Taken
<1>8. ~Issued(h)  BY <1>5, <1>6, <1>7
<1>9. ASSUME NEW i \in Insn, i < h, Sim(i), ~Issued(i) PROVE FALSE
  <2>1. i <= fetch_index  BY <1>5, <1>6, <1>9
  <2>2. PICK k \in 0..(N - 1) : k < instr_queue_size /\ i = Queued(k)
    BY <1>2, <1>9, <2>1 DEF Taken
  <2>3. k = 0 \/ 0 < k  BY <1>1
  <2>4. QED  BY <1>1, <1>2, <1>3, <1>4, <1>5, <1>6, <1>9, <2>2, <2>3 DEF Slots
<1>10. QED  BY <1>4, <1>5, <1>7, <1>8, <1>9

\* Taking the head, and issuing it unless it is a branch.
LEMMA TakeHead ==
  ASSUME trace \in Traces, fetch_index \in Nat, QueueInv, ~instr_queue_is_empty,
         instr_queue_dequeue, UNCHANGED <<trace, fetch_index>>,
         NEW h, h = instr_queue_peek,
         \A i \in Insn : Issued(i)' <=> Issued(i) \/ (i = h /\ Sim(h))
  PROVE  QueueInv'
<1>1. N \in Nat \ {0} /\ 0 \in 0..(N - 1)  BY SizeAssumption DEF N
<1>2. QueueType /\ Slots /\ Taken  BY DEF QueueInv
<1>3. /\ QueueType' /\ instr_queue_size' = instr_queue_size - 1
      /\ \A k \in 0..(N - 2) : Queued(k)' = Queued(k + 1)
      /\ Queued(N - 1)' = NULL
  BY <1>2, Dequeued
<1>4. /\ h \in Insn /\ h = Queued(0)
      /\ \A i \in Insn : Issued(i) => i < h
  BY HeadOldest
<1>5. instr_queue_size \in 1..N  BY <1>1, <1>2 DEF instr_queue_is_empty, QueueType
<1>6. Insn' = Insn /\ trace' = trace /\ fetch_index' = fetch_index /\ \A i : Sim(i)' <=> Sim(i)
  BY TraceKept
<1>7. \A i \in Insn : i \in Nat  BY TraceFacts
<1>8. \A k \in 0..(N - 1) : k < instr_queue_size' =>
        k \in 0..(N - 2) /\ k + 1 \in 0..(N - 1) /\ k + 1 < instr_queue_size
  BY <1>1, <1>3, <1>5
<1>9. Slots'
  <2>1. ASSUME NEW k \in 0..(N - 1), k < instr_queue_size'
        PROVE  Queued(k)' \in Insn /\ Queued(k)' <= fetch_index /\ trace[Queued(k)'].kind # "trap"
    BY <1>2, <1>3, <1>8, <2>1 DEF Slots
  <2>2. ASSUME NEW k \in 0..(N - 1), k >= instr_queue_size' PROVE Queued(k)' = NULL
    <3>1. CASE k = N - 1  BY <1>3, <3>1
    <3>2. CASE k # N - 1
      <4>1. k \in 0..(N - 2) /\ k + 1 \in 0..(N - 1) /\ k + 1 >= instr_queue_size
        BY <1>1, <1>3, <1>5, <2>2, <3>2
      <4>2. QED  BY <1>2, <1>3, <4>1 DEF Slots
    <3>3. QED  BY <3>1, <3>2
  <2>3. ASSUME NEW j \in 0..(N - 1), NEW k \in 0..(N - 1), j < k, k < instr_queue_size'
        PROVE  Queued(j)' < Queued(k)'
    <3>1. /\ j \in 0..(N - 2) /\ j + 1 \in 0..(N - 1) /\ k \in 0..(N - 2) /\ k + 1 \in 0..(N - 1)
          /\ j + 1 < k + 1 /\ k + 1 < instr_queue_size
      BY <1>1, <1>3, <1>5, <2>3
    <3>2. Queued(j)' = Queued(j + 1) /\ Queued(k)' = Queued(k + 1)  BY <1>3, <3>1
    <3>3. QED  BY <1>2, <3>1, <3>2 DEF Slots
  <2>4. QED  BY <1>6, <2>1, <2>2, <2>3 DEF Slots
<1>10. Taken'
  <2>1. ASSUME NEW i \in Insn, Issued(i)' PROVE i <= fetch_index /\ Sim(i)
    <3>1. h <= fetch_index  BY <1>1, <1>2, <1>4, <1>5 DEF Slots
    <3>2. QED  BY <1>2, <1>4, <2>1, <3>1 DEF Taken
  <2>2. ASSUME NEW i \in Insn, NEW k \in 0..(N - 1), Issued(i)', k < instr_queue_size'
        PROVE  i < Queued(k)'
    <3>1. /\ k + 1 \in 0..(N - 1) /\ k + 1 < instr_queue_size /\ 0 < k + 1
          /\ Queued(k)' = Queued(k + 1)
      BY <1>1, <1>3, <1>5, <2>2
    <3>2. h < Queued(k + 1)  BY <1>1, <1>2, <1>4, <3>1 DEF Slots
    <3>3. Issued(i) => i < Queued(k + 1)  BY <1>2, <3>1 DEF Taken
    <3>4. QED  BY <2>2, <3>1, <3>2, <3>3
  <2>3. ASSUME NEW i \in Insn, i <= fetch_index, Sim(i), ~Issued(i)'
        PROVE  \E k \in 0..(N - 1) : k < instr_queue_size' /\ i = Queued(k)'
    <3>1. ~Issued(i) /\ i # h  BY <2>3
    <3>2. PICK k \in 0..(N - 1) : k < instr_queue_size /\ i = Queued(k)
      BY <1>2, <2>3, <3>1 DEF Taken
    <3>3. k # 0  BY <1>4, <3>1, <3>2
    <3>4. /\ k - 1 \in 0..(N - 2) /\ k - 1 \in 0..(N - 1) /\ k - 1 < instr_queue_size'
          /\ (k - 1) + 1 = k
      BY <1>1, <1>3, <1>5, <3>2, <3>3
    <3>5. Queued(k - 1)' = Queued((k - 1) + 1)  BY <1>3, <3>4
    <3>6. QED  BY <3>2, <3>4, <3>5
  <2>4. QED  BY <1>6, <2>1, <2>2, <2>3 DEF Taken
<1>11. QED  BY <1>3, <1>9, <1>10 DEF QueueInv

\* Fetching the next instruction that is not a trap.
LEMMA FetchNext ==
  ASSUME trace \in Traces, fetch_index \in Nat, QueueInv, fetch,
         UNCHANGED <<trace, tom_issue_cycle>>
  PROVE  QueueInv' /\ fetch_index' \in Nat
<1>1. N \in Nat \ {0} /\ 0 \in 0..(N - 1)  BY SizeAssumption DEF N
<1>2. QueueType /\ Slots /\ Taken  BY DEF QueueInv
<1>3. /\ Insn' = Insn /\ trace' = trace /\ IdOrNull' = IdOrNull
      /\ \A i : (Sim(i)' <=> Sim(i))
  BY TraceKept
<1>4. \A i : Issued(i)' <=> Issued(i)  BY DEF Issued
<1>5. sim_num_insn \in Nat /\ \A i \in Insn : i \in Nat  BY TraceFacts
<1>6. CASE UNCHANGED <<fetch_index, queueVars>>
  <2>1. \A k : Queued(k)' = Queued(k)  BY <1>6 DEF Queued, queueVars
  <2>2. instr_queue_size' = instr_queue_size /\ fetch_index' = fetch_index /\ QueueType'
    BY <1>2, <1>3, <1>6 DEF queueVars, QueueType
  <2>3. Slots'  BY <1>2, <1>3, <2>1, <2>2 DEF Slots
  <2>4. Taken'  BY <1>2, <1>3, <1>4, <2>1, <2>2 DEF Taken
  <2>5. QED  BY <2>2, <2>3, <2>4 DEF QueueInv
<1>7. CASE ~instr_queue_is_full /\ ~UNCHANGED <<fetch_index, queueVars>>
  <2>1. PICK next \in (fetch_index + 1)..(fetch_index + 1 + sim_num_insn) :
          /\ \A i \in (fetch_index + 1)..(next - 1) : i \in Insn /\ IS_TRAP(i)
          /\ next \in Insn => ~IS_TRAP(next)
          /\ fetch_index' = next
          /\ IF next \in Insn THEN instr_queue_enqueue(next) ELSE UNCHANGED queueVars
    BY <1>7 DEF fetch
  <2>2. next \in Nat /\ fetch_index < next  BY <1>5
  <2>3. \A i \in Insn : i <= next /\ Sim(i) => i <= fetch_index \/ i = next
    BY <1>5, <2>1, <2>2 DEF IS_TRAP, Sim
  <2>4. CASE next \notin Insn
    <3>1. \A k : Queued(k)' = Queued(k)  BY <2>1, <2>4 DEF Queued, queueVars
    <3>2. instr_queue_size' = instr_queue_size /\ QueueType'
      BY <1>2, <1>3, <2>1, <2>4 DEF queueVars, QueueType
    <3>3. Slots'
      <4>1. \A k \in 0..(N - 1) : k < instr_queue_size => Queued(k) <= next /\ Queued(k) \in Nat
        BY <1>2, <1>5, <2>2 DEF Slots
      <4>2. QED  BY <1>2, <1>3, <2>1, <3>1, <3>2, <4>1 DEF Slots
    <3>4. Taken'
      <4>1. \A i \in Insn : Issued(i) => i <= next  BY <1>2, <1>5, <2>2 DEF Taken
      <4>2. \A i \in Insn : i <= next /\ Sim(i) => i <= fetch_index  BY <2>3, <2>4
      <4>3. QED  BY <1>2, <1>3, <1>4, <2>1, <3>1, <3>2, <4>1, <4>2 DEF Taken
    <3>5. QED  BY <2>1, <2>2, <3>2, <3>3, <3>4 DEF QueueInv
  <2>5. CASE next \in Insn
    <3>1. /\ QueueType' /\ instr_queue_size' = instr_queue_size + 1
          /\ \A k \in 0..(N - 1) : Queued(k)' = IF k = instr_queue_size THEN next ELSE Queued(k)
      BY <1>2, <1>7, <2>1, <2>5, Enqueued
    <3>2. instr_queue_size \in 0..(N - 1)
      BY <1>1, <1>2, <1>7 DEF QueueType, instr_queue_is_full, N
    <3>3. trace[next].kind # "trap"  BY <2>1, <2>5 DEF IS_TRAP
    <3>4. \A k \in 0..(N - 1) : k < instr_queue_size =>
            Queued(k) \in Nat /\ Queued(k) < next
      BY <1>2, <1>5, <2>2 DEF Slots
    <3>5. Slots'
      <4>1. ASSUME NEW k \in 0..(N - 1), k < instr_queue_size'
            PROVE  Queued(k)' \in Insn /\ Queued(k)' <= next /\ trace[Queued(k)'].kind # "trap"
        <5>1. k = instr_queue_size \/ k < instr_queue_size  BY <3>1, <3>2, <4>1
        <5>2. QED  BY <1>2, <2>2, <2>5, <3>1, <3>3, <3>4, <5>1 DEF Slots
      <4>2. ASSUME NEW k \in 0..(N - 1), k >= instr_queue_size' PROVE Queued(k)' = NULL
        <5>1. k # instr_queue_size /\ k >= instr_queue_size  BY <3>1, <3>2, <4>2
        <5>2. QED  BY <1>2, <3>1, <5>1 DEF Slots
      <4>3. ASSUME NEW j \in 0..(N - 1), NEW k \in 0..(N - 1), j < k, k < instr_queue_size'
            PROVE  Queued(j)' < Queued(k)'
        <5>1. j < instr_queue_size /\ j # instr_queue_size /\ (k = instr_queue_size \/ k < instr_queue_size)
          BY <3>1, <3>2, <4>3
        <5>2. Queued(j)' = Queued(j)  BY <3>1, <5>1
        <5>3. CASE k = instr_queue_size  BY <3>1, <3>4, <5>1, <5>2, <5>3
        <5>4. CASE k # instr_queue_size  BY <1>2, <3>1, <4>3, <5>1, <5>2, <5>4 DEF Slots
        <5>5. QED  BY <5>3, <5>4
      <4>4. QED  BY <1>3, <2>1, <4>1, <4>2, <4>3 DEF Slots
    <3>6. Taken'
      <4>1. \A i \in Insn : Issued(i) => i <= next /\ Sim(i) /\ i < next
        BY <1>2, <1>5, <2>2 DEF Taken
      <4>2. ASSUME NEW i \in Insn, NEW k \in 0..(N - 1), Issued(i), k < instr_queue_size'
            PROVE  i < Queued(k)'
        <5>1. k = instr_queue_size \/ k < instr_queue_size  BY <3>1, <3>2, <4>2
        <5>2. QED  BY <1>2, <3>1, <4>1, <4>2, <5>1 DEF Taken
      <4>3. ASSUME NEW i \in Insn, i <= next, Sim(i), ~Issued(i)
            PROVE  \E k \in 0..(N - 1) : k < instr_queue_size' /\ i = Queued(k)'
        <5>1. CASE i = next
          <6>1. PICK k \in 0..(N - 1) : k = instr_queue_size  BY <3>2
          <6>2. Queued(k)' = next /\ k < instr_queue_size'  BY <3>1, <3>2, <6>1
          <6>3. QED  BY <5>1, <6>2
        <5>2. CASE i # next
          <6>1. i <= fetch_index  BY <2>3, <4>3, <5>2
          <6>2. PICK k \in 0..(N - 1) : k < instr_queue_size /\ i = Queued(k)
            BY <1>2, <4>3, <6>1 DEF Taken
          <6>3. k < instr_queue_size' /\ k # instr_queue_size  BY <3>1, <3>2, <6>2
          <6>4. QED  BY <3>1, <6>2, <6>3
        <5>3. QED  BY <5>1, <5>2
      <4>4. QED  BY <1>3, <1>4, <2>1, <4>1, <4>2, <4>3 DEF Taken
    <3>7. QED  BY <2>1, <2>2, <3>1, <3>5, <3>6 DEF QueueInv
  <2>6. QED  BY <2>4, <2>5
<1>8. QED  BY <1>6, <1>7 DEF fetch

-----------------------------------------------------------------------------
(* The inductive invariant.                                                *)

\* The type of what is not the queue.
Types ==
  /\ trace \in Traces /\ stage \in Stage /\ cycle \in Nat \ {0} /\ fetch_index \in Nat
  /\ reserv \in [Class -> SUBSET Insn] /\ fu \in [Class -> SUBSET Insn]
  /\ commonDataBus \in IdOrNull
  /\ map_table \in [Reg -> IdOrNull]
  /\ Q \in [Insn -> [1..MAX_INPUT_REGS -> IdOrNull]]
  /\ tom_dispatch_cycle \in [Insn -> Nat] /\ tom_issue_cycle \in [Insn -> Nat]
  /\ tom_execute_cycle \in [Insn -> Nat] /\ tom_cdb_cycle \in [Insn -> Nat]

\* When results were on the bus: before execute_To_CDB has run all were in
\* earlier cycles, afterwards only the one that is still there is of this cycle.
Clock ==
  /\ stage \in {"retire", "cdb"} => \A p \in Insn : tom_cdb_cycle[p] < cycle
  /\ stage \in {"execute", "issue", "fetch"} =>
       \A p \in Insn : /\ tom_cdb_cycle[p] <= cycle
                       /\ tom_cdb_cycle[p] = cycle => p = commonDataBus
  /\ commonDataBus # NULL => tom_cdb_cycle[commonDataBus] # 0
  /\ stage = "cdb" => commonDataBus = NULL

\* The part of StationsHold that does not count.
Held ==
  /\ \A c \in Class : fu[c] = {i \in reserv[c] : tom_execute_cycle[i] # 0}
  /\ \A i \in Insn : Issued(i) /\ ~IS_STORE(i) /\ tom_cdb_cycle[i] = 0 => i \in reserv[ClassOf(i)]
  /\ \A c \in Class : \A i \in reserv[c] : c = ClassOf(i) /\ Issued(i) /\ tom_cdb_cycle[i] = 0

\* An instruction that has not been issued has left no trace.
Untouched ==
  \A i \in Insn : ~Issued(i) =>
    /\ tom_execute_cycle[i] = 0 /\ tom_cdb_cycle[i] = 0
    /\ \A k \in 1..MAX_INPUT_REGS : Q[i][k] = NULL

Capacity ==
  \A c \in Class : Cardinality(reserv[c]) <= RESERV_SIZE(c) /\ Cardinality(fu[c]) <= FU_SIZE(c)

\* Stations and units are in use as recorded, and hold no more than they can.
Places == Held /\ Untouched /\ Capacity

\* Tags, map table and times of execution are right.
Flow == MapExact /\ TagsExact /\ RAWResolved /\ OldestFirst

Inv == Types /\ QueueInv /\ Clock /\ Places /\ Flow

\* The queue does not change.
LEMMA QueueKept ==
  ASSUME QueueInv, UNCHANGED <<trace, fetch_index, queueVars, tom_issue_cycle>>
  PROVE  QueueInv'
<1>1. QueueType /\ Slots /\ Taken  BY DEF QueueInv
<1>2. /\ Insn' = Insn /\ trace' = trace /\ IdOrNull' = IdOrNull /\ fetch_index' = fetch_index
      /\ \A i : (Sim(i)' <=> Sim(i))
  BY TraceKept
<1>3. \A i : Issued(i)' <=> Issued(i)  BY DEF Issued
<1>4. \A k : Queued(k)' = Queued(k)  BY DEF Queued, queueVars
<1>5. instr_queue_size' = instr_queue_size /\ QueueType'
  BY <1>1, <1>2 DEF queueVars, QueueType
<1>6. Slots'  BY <1>1, <1>2, <1>4, <1>5 DEF Slots
<1>7. Taken'  BY <1>1, <1>2, <1>3, <1>4, <1>5 DEF Taken
<1>8. QED  BY <1>5, <1>6, <1>7 DEF QueueInv

\* Sets of instructions are finite.
LEMMA FiniteInsn ==
  ASSUME trace \in Traces, NEW S, S \subseteq Insn
  PROVE  IsFiniteSet(S) /\ Cardinality(S) \in Nat
<1>1. Insn = 1..sim_num_insn /\ sim_num_insn \in Nat  BY TraceFacts
<1>2. IsFiniteSet(Insn)  BY <1>1, FS_Interval
<1>3. IsFiniteSet(S)  BY <1>2, FS_Subset
<1>4. QED  BY <1>3, FS_CardinalityType

-----------------------------------------------------------------------------
(* CDB_To_retire.                                                          *)

\* The result on the bus is broadcast.
LEMMA RetireStep ==
  ASSUME Inv, CDB_To_retire
  PROVE  Inv'
<1>1. /\ Types /\ QueueInv /\ Clock /\ Held /\ Untouched /\ Capacity
      /\ MapExact /\ TagsExact /\ RAWResolved /\ OldestFirst
  BY DEF Inv, Places, Flow
<1>2. /\ stage = "retire" /\ stage' = "cdb" /\ trace' = trace /\ cycle' = cycle
      /\ fetch_index' = fetch_index /\ reserv' = reserv /\ fu' = fu
      /\ tom_dispatch_cycle' = tom_dispatch_cycle /\ tom_issue_cycle' = tom_issue_cycle
      /\ tom_execute_cycle' = tom_execute_cycle /\ tom_cdb_cycle' = tom_cdb_cycle
      /\ commonDataBus' = NULL /\ UNCHANGED queueVars
  BY DEF CDB_To_retire, Step, cycleVars
<1>3. /\ Insn' = Insn /\ IdOrNull' = IdOrNull
      /\ \A i : (IS_STORE(i)' <=> IS_STORE(i)) /\ ClassOf(i)' = ClassOf(i)
      /\ \A p, r : Writes(p, r)' <=> Writes(p, r)
      /\ \A p, i, k : Produces(p, i, k)' <=> Produces(p, i, k)
  BY <1>2, TraceKept
<1>4. \A i : Issued(i)' <=> Issued(i)  BY <1>2 DEF Issued
<1>5. \A i \in Insn : i \in Nat /\ i # NULL  BY <1>1, TraceFacts DEF Types
<1>6. \A p \in Insn : Retired(p)' <=> Retired(p) \/ p = commonDataBus
  BY <1>1, <1>2, <1>5 DEF Retired, Clock
<1>7. /\ map_table' \in [Reg -> IdOrNull]
      /\ \A r \in Reg, p \in Insn : map_table'[r] = p <=> map_table[r] = p /\ p # commonDataBus
  <2>1. map_table \in [Reg -> IdOrNull] /\ NULL \in IdOrNull  BY <1>1 DEF Types, IdOrNull
  <2>2. map_table' = [r \in Reg |-> IF map_table[r] = commonDataBus THEN NULL ELSE map_table[r]]
    BY <2>1 DEF CDB_To_retire, Cleared
  <2>3. QED  BY <1>5, <2>1, <2>2
<1>8. /\ Q' \in [Insn -> [1..MAX_INPUT_REGS -> IdOrNull]]
      /\ \A i \in Stationed, k \in 1..MAX_INPUT_REGS, p \in Insn :
           Q'[i][k] = p <=> Q[i][k] = p /\ p # commonDataBus
      /\ \A i \in Insn : i \notin Stationed => Q'[i] = Q[i]
  <2>1. Q \in [Insn -> [1..MAX_INPUT_REGS -> IdOrNull]] /\ NULL \in IdOrNull /\ Stationed \subseteq Insn
    BY <1>1 DEF Types, IdOrNull, Stationed, Class
  <2>2. Q' = [i \in Insn |-> IF i \in Stationed THEN Cleared(Q[i]) ELSE Q[i]]
    BY DEF CDB_To_retire
  <2>3. ASSUME NEW i \in Insn
        PROVE  Cleared(Q[i]) = [k \in 1..MAX_INPUT_REGS |->
                                  IF Q[i][k] = commonDataBus THEN NULL ELSE Q[i][k]]
    BY <2>1 DEF Cleared
  <2>4. ASSUME NEW i \in Insn PROVE Cleared(Q[i]) \in [1..MAX_INPUT_REGS -> IdOrNull]
    <3>1. \A k \in 1..MAX_INPUT_REGS : Q[i][k] \in IdOrNull  BY <2>1
    <3>2. QED  BY <2>1, <2>3, <3>1
  <2>5. Q' \in [Insn -> [1..MAX_INPUT_REGS -> IdOrNull]]  BY <2>1, <2>2, <2>4
  <2>6. ASSUME NEW i \in Stationed, NEW k \in 1..MAX_INPUT_REGS, NEW p \in Insn
        PROVE  Q'[i][k] = p <=> Q[i][k] = p /\ p # commonDataBus
    <3>1. Q'[i][k] = IF Q[i][k] = commonDataBus THEN NULL ELSE Q[i][k]
      BY <2>1, <2>2, <2>3
    <3>2. QED  BY <1>5, <3>1
  <2>7. QED  BY <2>2, <2>5, <2>6
<1>9. Types'
  BY <1>1, <1>2, <1>3, <1>7, <1>8 DEF Types, Stage, IdOrNull
<1>10. QueueInv'  BY <1>1, <1>2, QueueKept
<1>11. Clock'  BY <1>1, <1>2, <1>3 DEF Clock
<1>12. Places'
  <2>1. Held'  BY <1>1, <1>2, <1>3, <1>4 DEF Held
  <2>2. Capacity'  BY <1>1, <1>2 DEF Capacity, RESERV_SIZE, FU_SIZE
  <2>3. \A i \in Insn : ~Issued(i) => i \notin Stationed  BY <1>1 DEF Held, Stationed, Class
  <2>4. Untouched'  BY <1>1, <1>2, <1>3, <1>4, <1>8, <2>3 DEF Untouched
  <2>5. QED  BY <2>1, <2>2, <2>4 DEF Places
<1>13. Flow'
  <2>1. MapExact'
    <3>1. SUFFICES ASSUME NEW r \in Reg, NEW p \in Insn
                   PROVE  map_table'[r] = p <=>
                            /\ Writes(p, r) /\ Issued(p) /\ ~Retired(p)'
                            /\ \A q \in Insn : p < q /\ Writes(q, r) => ~Issued(q)
      BY <1>3, <1>4 DEF MapExact
    <3>2. map_table[r] = p <=>
            /\ Writes(p, r) /\ Issued(p) /\ ~Retired(p)
            /\ \A q \in Insn : p < q /\ Writes(q, r) => ~Issued(q)
      BY <1>1 DEF MapExact
    <3>3. QED  BY <1>6, <1>7, <3>2
  <2>2. TagsExact'
    <3>1. Stationed' = Stationed /\ Stationed \subseteq Insn  BY <1>1, <1>2 DEF Stationed, Types, Class
    <3>2. SUFFICES ASSUME NEW i \in Stationed, NEW k \in 1..MAX_INPUT_REGS, NEW p \in Insn
                   PROVE  Q'[i][k] = p <=> Produces(p, i, k) /\ ~Retired(p)'
      BY <1>3, <3>1 DEF TagsExact
    <3>3. Q[i][k] = p <=> Produces(p, i, k) /\ ~Retired(p)  BY <1>1 DEF TagsExact
    <3>4. QED  BY <1>6, <1>8, <3>3
  <2>3. RAWResolved'  BY <1>1, <1>2, <1>3 DEF RAWResolved
  <2>4. OldestFirst'  BY <1>1, <1>2, <1>3 DEF OldestFirst, LATENCY
  <2>5. QED  BY <2>1, <2>2, <2>3, <2>4 DEF Flow
<1>14. QED  BY <1>9, <1>10, <1>11, <1>12, <1>13 DEF Inv

-----------------------------------------------------------------------------
(* execute_To_CDB.                                                         *)

\* What execute_To_CDB does: the instructions in `leaving' are executing ones;
\* each is a store, or it is the oldest that finished and takes the bus.
LEMMA CDBEffect ==
  ASSUME Inv, execute_To_CDB
  PROVE  \E leaving \in SUBSET Insn :
           /\ fu' = [c \in Class |-> fu[c] \ leaving]
           /\ reserv' = [c \in Class |-> reserv[c] \ leaving]
           /\ \/ /\ \A i \in leaving : IS_STORE(i)
                 /\ commonDataBus' = NULL /\ tom_cdb_cycle' = tom_cdb_cycle
              \/ \E insn \in Insn :
                   /\ insn \in ReadyForCDB /\ insn \in leaving
                   /\ \A other \in ReadyForCDB : insn <= other
                   /\ \A i \in leaving : IS_STORE(i) \/ i = insn
                   /\ commonDataBus' = insn
                   /\ tom_cdb_cycle' = [tom_cdb_cycle EXCEPT ![insn] = cycle]
<1>1. stage = "cdb" /\ commonDataBus = NULL /\ fu["INT"] \subseteq Insn /\ fu["FP"] \subseteq Insn
  BY DEF Inv, Clock, Types, execute_To_CDB, Step, Class
<1>2. /\ ReadyForCDB \subseteq Insn /\ CompletedStores \subseteq Insn
      /\ \A i \in CompletedStores : IS_STORE(i)
  BY <1>1 DEF ReadyForCDB, CompletedStores, Finished
<1>3. CASE Remove(CompletedStores) /\ UNCHANGED <<commonDataBus, tom_cdb_cycle>>
  <2>1. CompletedStores \in SUBSET Insn  BY <1>2
  <2>2. QED  BY <1>1, <1>2, <1>3, <2>1 DEF Remove
<1>4. ASSUME NEW insn \in ReadyForCDB,
             \A other \in ReadyForCDB : insn <= other,
             Remove(CompletedStores \cup {insn}),
             commonDataBus' = insn, tom_cdb_cycle' = [tom_cdb_cycle EXCEPT ![insn] = cycle]
      PROVE  \E leaving \in SUBSET Insn :
               /\ fu' = [c \in Class |-> fu[c] \ leaving]
               /\ reserv' = [c \in Class |-> reserv[c] \ leaving]
               /\ insn \in leaving
               /\ \A i \in leaving : IS_STORE(i) \/ i = insn
  <2> DEFINE L == CompletedStores \cup {insn}
  <2>1. L \in SUBSET Insn  BY <1>2
  <2>2. insn \in L /\ \A i \in L : IS_STORE(i) \/ i = insn  BY <1>2
  <2>3. /\ fu' = [c \in Class |-> fu[c] \ L] /\ reserv' = [c \in Class |-> reserv[c] \ L]
    BY <1>4 DEF Remove
  <2> HIDE DEF L
  <2>4. QED  BY <2>1, <2>2, <2>3
<1>5. QED  BY <1>2, <1>3, <1>4 DEF execute_To_CDB

\* Finished instructions leave their places.
LEMMA CDBStep ==
  ASSUME Inv, execute_To_CDB
  PROVE  Inv'
<1>1. /\ Types /\ QueueInv /\ Clock /\ Held /\ Untouched /\ Capacity
      /\ MapExact /\ TagsExact /\ RAWResolved /\ OldestFirst
  BY DEF Inv, Places, Flow
<1>2. /\ stage = "cdb" /\ stage' = "execute" /\ trace' = trace /\ cycle' = cycle
      /\ fetch_index' = fetch_index /\ map_table' = map_table /\ Q' = Q
      /\ tom_dispatch_cycle' = tom_dispatch_cycle /\ tom_issue_cycle' = tom_issue_cycle
      /\ tom_execute_cycle' = tom_execute_cycle
      /\ UNCHANGED queueVars
  BY DEF execute_To_CDB, Step
<1>3. /\ Insn' = Insn /\ IdOrNull' = IdOrNull
      /\ \A i : (IS_STORE(i)' <=> IS_STORE(i)) /\ ClassOf(i)' = ClassOf(i)
      /\ \A p, r : Writes(p, r)' <=> Writes(p, r)
      /\ \A p, i, k : Produces(p, i, k)' <=> Produces(p, i, k)
  BY <1>2, TraceKept
<1>4. \A i : Issued(i)' <=> Issued(i)  BY <1>2 DEF Issued
<1>5. \A i \in Insn : i \in Nat /\ i # NULL  BY <1>1, TraceFacts DEF Types
<1>6. commonDataBus = NULL /\ (\A p \in Insn : tom_cdb_cycle[p] < cycle) /\ cycle \in Nat \ {0}
  BY <1>1, <1>2 DEF Clock, Types
<1>7. PICK leaving \in SUBSET Insn :
        /\ fu' = [c \in Class |-> fu[c] \ leaving]
        /\ reserv' = [c \in Class |-> reserv[c] \ leaving]
        /\ \/ /\ \A i \in leaving : IS_STORE(i)
              /\ commonDataBus' = NULL /\ tom_cdb_cycle' = tom_cdb_cycle
           \/ \E insn \in Insn :
                /\ insn \in ReadyForCDB /\ insn \in leaving
                /\ \A other \in ReadyForCDB : insn <= other
                /\ \A i \in leaving : IS_STORE(i) \/ i = insn
                /\ commonDataBus' = insn
                /\ tom_cdb_cycle' = [tom_cdb_cycle EXCEPT ![insn] = cycle]
  BY CDBEffect
<1>8. /\ tom_cdb_cycle \in [Insn -> Nat] /\ tom_execute_cycle \in [Insn -> Nat]
      /\ reserv \in [Class -> SUBSET Insn] /\ fu \in [Class -> SUBSET Insn]
  BY <1>1 DEF Types
<1>9. /\ tom_cdb_cycle' \in [Insn -> Nat] /\ commonDataBus' \in IdOrNull
      /\ \A p \in Insn : p # commonDataBus' => tom_cdb_cycle'[p] = tom_cdb_cycle[p]
      /\ commonDataBus' # NULL => /\ tom_cdb_cycle'[commonDataBus'] = cycle
                                  /\ commonDataBus' \in Insn
                                  /\ commonDataBus' \in ReadyForCDB
                                  /\ commonDataBus' \in leaving
                                  /\ \A other \in ReadyForCDB : commonDataBus' <= other
      /\ \A i \in leaving : IS_STORE(i) \/ i = commonDataBus'
  BY <1>5, <1>6, <1>7, <1>8 DEF IdOrNull
<1>10. commonDataBus' # NULL =>
         /\ tom_cdb_cycle[commonDataBus'] = 0 /\ tom_execute_cycle[commonDataBus'] # 0
         /\ Issued(commonDataBus')
         /\ tom_execute_cycle[commonDataBus'] + LATENCY(ClassOf(commonDataBus')) <= cycle
  <2>1. ASSUME NEW x \in ReadyForCDB
        PROVE  /\ tom_cdb_cycle[x] = 0 /\ tom_execute_cycle[x] # 0 /\ Issued(x)
               /\ tom_execute_cycle[x] + LATENCY(ClassOf(x)) <= cycle
    <3>1. PICK c \in Class : x \in Finished(c)  BY DEF ReadyForCDB, Class
    <3>2. x \in fu[c] /\ tom_execute_cycle[x] + LATENCY(c) <= cycle  BY <3>1 DEF Finished
    <3>3. QED  BY <1>1, <3>2 DEF Held
  <2>2. PICK x : x = commonDataBus'  OBVIOUS
  <2>3. x # NULL => /\ tom_cdb_cycle[x] = 0 /\ tom_execute_cycle[x] # 0 /\ Issued(x)
                    /\ tom_execute_cycle[x] + LATENCY(ClassOf(x)) <= cycle
    BY <1>9, <2>1, <2>2
  <2>4. QED  BY <2>2, <2>3
<1>11. \A p \in Insn : Retired(p)' <=> Retired(p)
  BY <1>5, <1>6, <1>9, <1>10 DEF Retired
<1>12. \A c \in Class : reserv'[c] = reserv[c] \ leaving /\ fu'[c] = fu[c] \ leaving
  BY <1>7
<1>13. Types'
  <2>1. reserv' \in [Class -> SUBSET Insn] /\ fu' \in [Class -> SUBSET Insn]  BY <1>7, <1>8
  <2>2. QED  BY <1>1, <1>2, <1>3, <1>9, <2>1 DEF Types, Stage
<1>14. QueueInv'  BY <1>1, <1>2, QueueKept
<1>15. Clock'
  <2>1. \A p \in Insn : tom_cdb_cycle'[p] <= cycle /\ (tom_cdb_cycle'[p] = cycle => p = commonDataBus')
    BY <1>5, <1>6, <1>8, <1>9
  <2>2. commonDataBus' # NULL => tom_cdb_cycle'[commonDataBus'] # 0  BY <1>6, <1>9
  <2>3. QED  BY <1>2, <1>3, <2>1, <2>2 DEF Clock
<1>16. Places'
  <2>1. Held'
    <3>1. \A c \in Class : fu'[c] = {i \in reserv'[c] : tom_execute_cycle[i] # 0}
      BY <1>1, <1>12 DEF Held
    <3>2. ASSUME NEW i \in Insn, Issued(i), ~IS_STORE(i), tom_cdb_cycle'[i] = 0
          PROVE  i \in reserv'[ClassOf(i)]
      <4>1. i # commonDataBus'  BY <1>5, <1>6, <1>9, <3>2
      <4>2. i \notin leaving /\ tom_cdb_cycle[i] = 0  BY <1>9, <3>2, <4>1
      <4>3. i \in reserv[ClassOf(i)]  BY <1>1, <3>2, <4>2 DEF Held
      <4>4. ClassOf(i) \in Class  BY DEF ClassOf, Class
      <4>5. QED  BY <1>12, <4>2, <4>3, <4>4
    <3>3. ASSUME NEW c \in Class, NEW i \in reserv'[c]
          PROVE  c = ClassOf(i) /\ Issued(i) /\ tom_cdb_cycle'[i] = 0
      <4>1. i \in reserv[c] /\ i \notin leaving /\ i \in Insn  BY <1>8, <1>12, <3>3
      <4>2. c = ClassOf(i) /\ Issued(i) /\ tom_cdb_cycle[i] = 0  BY <1>1, <4>1 DEF Held
      <4>3. i # commonDataBus'  BY <1>5, <1>9, <4>1
      <4>4. QED  BY <1>9, <4>1, <4>2, <4>3
    <3>4. QED  BY <1>2, <1>3, <1>4, <3>1, <3>2, <3>3 DEF Held
  <2>2. Untouched'
    <3>1. ASSUME NEW i \in Insn, ~Issued(i) PROVE tom_cdb_cycle'[i] = 0
      <4>1. i # commonDataBus'  BY <1>5, <1>10, <3>1
      <4>2. QED  BY <1>1, <1>9, <3>1, <4>1 DEF Untouched
    <3>2. QED  BY <1>1, <1>2, <1>3, <1>4, <3>1 DEF Untouched
  <2>3. Capacity'
    <3>1. SUFFICES ASSUME NEW c \in Class
                   PROVE  /\ Cardinality(reserv'[c]) <= RESERV_SIZE(c)
                          /\ Cardinality(fu'[c]) <= FU_SIZE(c)
      BY DEF Capacity, RESERV_SIZE, FU_SIZE
    <3>2. ASSUME NEW S, S \subseteq Insn
          PROVE  /\ Cardinality(S \ leaving) <= Cardinality(S)
                 /\ Cardinality(S) \in Nat /\ Cardinality(S \ leaving) \in Nat
      <4>1. S \ leaving \in SUBSET S /\ S \ leaving \subseteq Insn  BY <3>2
      <4>2. trace \in Traces  BY <1>1 DEF Types
      <4>3. IsFiniteSet(S) /\ Cardinality(S) \in Nat /\ Cardinality(S \ leaving) \in Nat
        BY <3>2, <4>1, <4>2, FiniteInsn
      <4>4. QED  BY <4>1, <4>3, FS_Subset
    <3>3. reserv[c] \subseteq Insn /\ fu[c] \subseteq Insn  BY <1>8
    <3>4. Cardinality(reserv[c]) <= RESERV_SIZE(c) /\ Cardinality(fu[c]) <= FU_SIZE(c)
      BY <1>1 DEF Capacity
    <3>5. RESERV_SIZE(c) \in Nat /\ FU_SIZE(c) \in Nat
      BY SizeAssumption DEF RESERV_SIZE, FU_SIZE
    <3>6. /\ Cardinality(reserv[c] \ leaving) <= Cardinality(reserv[c])
          /\ Cardinality(reserv[c]) \in Nat /\ Cardinality(reserv[c] \ leaving) \in Nat
          /\ Cardinality(fu[c] \ leaving) <= Cardinality(fu[c])
          /\ Cardinality(fu[c]) \in Nat /\ Cardinality(fu[c] \ leaving) \in Nat
      BY <3>2, <3>3
    <3>7. reserv'[c] = reserv[c] \ leaving /\ fu'[c] = fu[c] \ leaving  BY <1>12
    <3>8. QED  BY <3>4, <3>5, <3>6, <3>7
  <2>4. QED  BY <2>1, <2>2, <2>3 DEF Places
<1>17. Flow'
  <2>1. MapExact'
    <3>1. SUFFICES ASSUME NEW r \in Reg, NEW p \in Insn
                   PROVE  map_table[r] = p <=>
                            /\ Writes(p, r) /\ Issued(p) /\ ~Retired(p)'
                            /\ \A q \in Insn : p < q /\ Writes(q, r) => ~Issued(q)
      BY <1>2, <1>3, <1>4 DEF MapExact
    <3>2. QED  BY <1>1, <1>11 DEF MapExact
  <2>2. TagsExact'
    <3>1. Stationed' \subseteq Stationed  BY <1>12 DEF Stationed, Class
    <3>2. SUFFICES ASSUME NEW i \in Stationed, NEW k \in 1..MAX_INPUT_REGS, NEW p \in Insn
                   PROVE  Q[i][k] = p <=> Produces(p, i, k) /\ ~Retired(p)'
      BY <1>2, <1>3, <3>1 DEF TagsExact
    <3>3. QED  BY <1>1, <1>11 DEF TagsExact
  <2>3. RAWResolved'
    <3>1. SUFFICES ASSUME NEW i \in Insn, NEW k \in 1..MAX_INPUT_REGS, NEW p \in Insn,
                          tom_execute_cycle[i] # 0, Produces(p, i, k)
                   PROVE  tom_cdb_cycle'[p] # 0 /\ tom_cdb_cycle'[p] < tom_execute_cycle[i]
      BY <1>2, <1>3 DEF RAWResolved
    <3>2. tom_cdb_cycle[p] # 0 /\ tom_cdb_cycle[p] < tom_execute_cycle[i]
      BY <1>1, <3>1 DEF RAWResolved
    <3>3. p # commonDataBus'  BY <1>5, <1>10, <3>2
    <3>4. QED  BY <1>9, <3>2, <3>3
  <2>4. OldestFirst'
    <3>1. \A i \in Insn : LATENCY(ClassOf(i)) \in Nat \ {0}
      BY SizeAssumption DEF LATENCY
    <3>2. SUFFICES ASSUME NEW i \in Insn, tom_cdb_cycle'[i] # 0
                   PROVE  /\ tom_execute_cycle[i] # 0
                          /\ tom_execute_cycle[i] + LATENCY(ClassOf(i)) <= tom_cdb_cycle'[i]
                          /\ \A j \in Insn :
                               /\ j # i => tom_cdb_cycle'[j] # tom_cdb_cycle'[i]
                               /\ /\ j < i /\ ~IS_STORE(j) /\ tom_execute_cycle[j] # 0
                                  /\ tom_execute_cycle[j] + LATENCY(ClassOf(j)) <= tom_cdb_cycle'[i]
                                  => tom_cdb_cycle'[j] # 0 /\ tom_cdb_cycle'[j] < tom_cdb_cycle'[i]
      BY <1>2, <1>3 DEF OldestFirst, LATENCY
    <3>3. CASE i = commonDataBus'
      <4>1. tom_cdb_cycle'[i] = cycle /\ \A other \in ReadyForCDB : i <= other  BY <1>5, <1>9, <3>3
      <4>2. tom_execute_cycle[i] # 0 /\ tom_execute_cycle[i] + LATENCY(ClassOf(i)) <= cycle
        BY <1>5, <1>10, <3>3
      <4>3. \A j \in Insn : j # i => tom_cdb_cycle'[j] = tom_cdb_cycle[j]  BY <1>9, <3>3
      <4>4. ASSUME NEW j \in Insn, j < i, ~IS_STORE(j), tom_execute_cycle[j] # 0,
                   tom_execute_cycle[j] + LATENCY(ClassOf(j)) <= cycle, tom_cdb_cycle[j] = 0
            PROVE  FALSE
        <5>1. Issued(j)  BY <1>1, <4>4 DEF Untouched
        <5>2. j \in reserv[ClassOf(j)]  BY <1>1, <4>4, <5>1 DEF Held
        <5>3. j \in fu[ClassOf(j)]  BY <1>1, <4>4, <5>2 DEF Held, ClassOf, Class
        <5>4. j \in Finished(ClassOf(j))  BY <1>6, <4>4, <5>3 DEF Finished
        <5>5. j \in ReadyForCDB  BY <4>4, <5>4 DEF ReadyForCDB, CompletedStores, ClassOf
        <5>6. QED  BY <1>5, <4>1, <4>4, <5>5
      <4>5. QED  BY <1>5, <1>6, <1>8, <4>1, <4>2, <4>3, <4>4
    <3>4. CASE i # commonDataBus'
      <4>1. tom_cdb_cycle'[i] = tom_cdb_cycle[i] /\ tom_cdb_cycle[i] # 0  BY <1>9, <3>2, <3>4
      <4>2. /\ tom_execute_cycle[i] # 0
            /\ tom_execute_cycle[i] + LATENCY(ClassOf(i)) <= tom_cdb_cycle[i]
            /\ \A j \in Insn :
                 /\ j # i => tom_cdb_cycle[j] # tom_cdb_cycle[i]
                 /\ /\ j < i /\ ~IS_STORE(j) /\ tom_execute_cycle[j] # 0
                    /\ tom_execute_cycle[j] + LATENCY(ClassOf(j)) <= tom_cdb_cycle[i]
                    => tom_cdb_cycle[j] # 0 /\ tom_cdb_cycle[j] < tom_cdb_cycle[i]
        BY <1>1, <4>1 DEF OldestFirst
      <4>3. ASSUME NEW j \in Insn
            PROVE  /\ j # i => tom_cdb_cycle'[j] # tom_cdb_cycle[i]
                   /\ /\ j < i /\ ~IS_STORE(j) /\ tom_execute_cycle[j] # 0
                      /\ tom_execute_cycle[j] + LATENCY(ClassOf(j)) <= tom_cdb_cycle[i]
                      => tom_cdb_cycle'[j] # 0 /\ tom_cdb_cycle'[j] < tom_cdb_cycle[i]
        <5>1. CASE j = commonDataBus'
          <6>1. tom_cdb_cycle[j] = 0 /\ tom_cdb_cycle'[j] = cycle /\ tom_cdb_cycle[i] < cycle
            BY <1>5, <1>6, <1>9, <1>10, <5>1
          <6>2. QED  BY <1>6, <1>8, <4>2, <6>1
        <5>2. CASE j # commonDataBus'
          <6>1. tom_cdb_cycle'[j] = tom_cdb_cycle[j]  BY <1>9, <5>2
          <6>2. QED  BY <4>2, <6>1
        <5>3. QED  BY <5>1, <5>2
      <4>4. QED  BY <4>1, <4>2, <4>3
    <3>5. QED  BY <3>3, <3>4
  <2>5. QED  BY <2>1, <2>2, <2>3, <2>4 DEF Flow
<1>18. QED  BY <1>13, <1>14, <1>15, <1>16, <1>17 DEF Inv

-----------------------------------------------------------------------------
(* issue_To_execute.                                                       *)

\* What issue_To_execute does: the instructions in `moved' are stationed, have
\* all operands and start to execute.
LEMMA ExecuteEffect ==
  ASSUME Inv, issue_To_execute
  PROVE  \E moved \in SUBSET Insn :
           /\ \A i \in moved : /\ i \in reserv[ClassOf(i)] /\ i \notin fu[ClassOf(i)]
                               /\ \A k \in 1..MAX_INPUT_REGS : Q[i][k] = NULL
           /\ fu' = [c \in Class |-> fu[c] \cup {i \in moved : ClassOf(i) = c}]
           /\ tom_execute_cycle' =
                [i \in Insn |-> IF i \in moved THEN cycle ELSE tom_execute_cycle[i]]
           /\ \A c \in Class : Cardinality(fu'[c]) <= FU_SIZE(c)
<1>1. Types /\ Held /\ Capacity  BY DEF Inv, Places
<1>2. PICK ints \in SUBSET ReadyForExecute("INT"), fps \in SUBSET ReadyForExecute("FP") :
       /\ issue_To_execute_helper("INT", ints)
       /\ issue_To_execute_helper("FP", fps)
       /\ fu' = [c \in Class |-> fu[c] \cup (IF c = "INT" THEN ints ELSE fps)]
       /\ tom_execute_cycle' =
            [i \in Insn |-> IF i \in ints \cup fps THEN cycle ELSE tom_execute_cycle[i]]
  BY DEF issue_To_execute
<1> DEFINE moved == ints \cup fps
<1>3. \A c \in Class : reserv[c] \subseteq Insn /\ fu[c] \subseteq Insn  BY <1>1 DEF Types
<1>4. /\ \A i \in ints : i \in reserv["INT"] /\ i \notin fu["INT"] /\ ClassOf(i) = "INT"
      /\ \A i \in fps : i \in reserv["FP"] /\ i \notin fu["FP"] /\ ClassOf(i) = "FP"
      /\ \A i \in moved, k \in 1..MAX_INPUT_REGS : Q[i][k] = NULL
  <2>1. \A c \in Class : \A i \in ReadyForExecute(c) :
          /\ i \in reserv[c] /\ i \notin fu[c]
          /\ \A k \in 1..MAX_INPUT_REGS : Q[i][k] = NULL
    BY DEF ReadyForExecute
  <2>2. \A c \in Class : \A i \in reserv[c] : ClassOf(i) = c  BY <1>1 DEF Held
  <2>3. "INT" \in Class /\ "FP" \in Class  BY DEF Class
  <2>4. QED  BY <1>2, <2>1, <2>2, <2>3
<1>5. moved \in SUBSET Insn  BY <1>3, <1>4 DEF Class
<1>6. \A c \in Class : fu'[c] = fu[c] \cup {i \in moved : ClassOf(i) = c}
  <2>1. {i \in moved : ClassOf(i) = "INT"} = ints /\ {i \in moved : ClassOf(i) = "FP"} = fps
    BY <1>4
  <2>2. QED  BY <1>2, <2>1 DEF Class
<1>7. fu' = [c \in Class |-> fu[c] \cup {i \in moved : ClassOf(i) = c}]
  BY <1>2, <1>6
<1>8. ASSUME NEW c \in Class, NEW S \in SUBSET ReadyForExecute(c), issue_To_execute_helper(c, S)
      PROVE  Cardinality(fu[c] \cup S) <= FU_SIZE(c)
  <2>1. ReadyForExecute(c) \subseteq Insn /\ fu[c] \subseteq Insn /\ S \subseteq Insn
    BY <1>3 DEF ReadyForExecute
  <2>2. /\ IsFiniteSet(fu[c]) /\ IsFiniteSet(S) /\ Cardinality(fu[c]) \in Nat
        /\ Cardinality(S) \in Nat /\ Cardinality(ReadyForExecute(c)) \in Nat
    BY <1>1, <2>1, FiniteInsn DEF Types
  <2>3. Cardinality(S) <= FU_SIZE(c) - Cardinality(fu[c])
    <3>1. Cardinality(S) = IF Cardinality(ReadyForExecute(c)) < FU_SIZE(c) - Cardinality(fu[c])
                           THEN Cardinality(ReadyForExecute(c))
                           ELSE FU_SIZE(c) - Cardinality(fu[c])
      BY <1>8 DEF issue_To_execute_helper
    <3>2. FU_SIZE(c) \in Nat  BY SizeAssumption DEF FU_SIZE
    <3>3. QED  BY <2>2, <3>1, <3>2
  <2>4. Cardinality(fu[c] \cup S) = Cardinality(fu[c]) + Cardinality(S) - Cardinality(fu[c] \cap S)
    BY <2>2, FS_Union
  <2>5. Cardinality(fu[c] \cap S) \in Nat
    <3>1. fu[c] \cap S \subseteq Insn  BY <2>1
    <3>2. QED  BY <1>1, <3>1, FiniteInsn DEF Types
  <2>6. FU_SIZE(c) \in Nat  BY SizeAssumption DEF FU_SIZE
  <2>7. QED  BY <2>2, <2>3, <2>4, <2>5, <2>6
<1>9. \A c \in Class : Cardinality(fu'[c]) <= FU_SIZE(c)
  <2>1. /\ Cardinality(fu["INT"] \cup ints) <= FU_SIZE("INT")
        /\ Cardinality(fu["FP"] \cup fps) <= FU_SIZE("FP")
    BY <1>2, <1>8 DEF Class
  <2>2. fu'["INT"] = fu["INT"] \cup ints /\ fu'["FP"] = fu["FP"] \cup fps
    BY <1>2 DEF Class
  <2>3. QED  BY <2>1, <2>2 DEF Class
<1>10. \A i \in moved : i \in reserv[ClassOf(i)] /\ i \notin fu[ClassOf(i)]  BY <1>4
<1>11. tom_execute_cycle' = [i \in Insn |-> IF i \in moved THEN cycle ELSE tom_execute_cycle[i]]
  BY <1>2
<1> HIDE DEF moved
<1>12. QED  BY <1>4, <1>5, <1>7, <1>9, <1>10, <1>11

\* Ready instructions start to execute.
LEMMA ExecuteStep ==
  ASSUME Inv, issue_To_execute
  PROVE  Inv'
<1>1. /\ Types /\ QueueInv /\ Clock /\ Held /\ Untouched /\ Capacity
      /\ MapExact /\ TagsExact /\ RAWResolved /\ OldestFirst
  BY DEF Inv, Places, Flow
<1>2. /\ stage = "execute" /\ stage' = "issue" /\ trace' = trace /\ cycle' = cycle
      /\ fetch_index' = fetch_index /\ map_table' = map_table /\ Q' = Q /\ reserv' = reserv
      /\ commonDataBus' = commonDataBus /\ tom_cdb_cycle' = tom_cdb_cycle
      /\ tom_dispatch_cycle' = tom_dispatch_cycle /\ tom_issue_cycle' = tom_issue_cycle
      /\ UNCHANGED queueVars
  BY DEF issue_To_execute, Step
<1>3. /\ Insn' = Insn /\ IdOrNull' = IdOrNull
      /\ \A i : (IS_STORE(i)' <=> IS_STORE(i)) /\ ClassOf(i)' = ClassOf(i)
      /\ \A p, r : Writes(p, r)' <=> Writes(p, r)
      /\ \A p, i, k : Produces(p, i, k)' <=> Produces(p, i, k)
  BY <1>2, TraceKept
<1>4. \A i : (Issued(i)' <=> Issued(i)) /\ (Retired(i)' <=> Retired(i))  BY <1>2 DEF Issued, Retired
<1>5. \A i \in Insn : i \in Nat /\ i # NULL  BY <1>1, TraceFacts DEF Types
<1>6. PICK moved \in SUBSET Insn :
           /\ \A i \in moved : /\ i \in reserv[ClassOf(i)] /\ i \notin fu[ClassOf(i)]
                               /\ \A k \in 1..MAX_INPUT_REGS : Q[i][k] = NULL
           /\ fu' = [c \in Class |-> fu[c] \cup {i \in moved : ClassOf(i) = c}]
           /\ tom_execute_cycle' =
                [i \in Insn |-> IF i \in moved THEN cycle ELSE tom_execute_cycle[i]]
           /\ \A c \in Class : Cardinality(fu'[c]) <= FU_SIZE(c)
  BY ExecuteEffect
<1>7. /\ cycle \in Nat \ {0} /\ tom_cdb_cycle \in [Insn -> Nat] /\ tom_execute_cycle \in [Insn -> Nat]
      /\ reserv \in [Class -> SUBSET Insn] /\ fu \in [Class -> SUBSET Insn]
      /\ \A p \in Insn : tom_cdb_cycle[p] <= cycle /\ (tom_cdb_cycle[p] = cycle => p = commonDataBus)
  BY <1>1, <1>2 DEF Types, Clock
<1>8. \A i \in Insn : tom_execute_cycle'[i] = IF i \in moved THEN cycle ELSE tom_execute_cycle[i]
  BY <1>6
<1>9. \A i \in moved : /\ i \in Insn /\ Issued(i) /\ tom_cdb_cycle[i] = 0 /\ tom_execute_cycle[i] = 0
                       /\ i \in Stationed
  <2>1. \A i : ClassOf(i) \in Class  BY DEF ClassOf, Class
  <2>2. QED  BY <1>1, <1>6, <2>1 DEF Held, Stationed, Class
<1>10. Types'
  <2>1. fu' \in [Class -> SUBSET Insn] /\ tom_execute_cycle' \in [Insn -> Nat]
    BY <1>6, <1>7
  <2>2. QED  BY <1>1, <1>2, <1>3, <2>1 DEF Types, Stage
<1>11. QueueInv'  BY <1>1, <1>2, QueueKept
<1>12. Clock'  BY <1>1, <1>2, <1>3 DEF Clock
<1>13. Places'
  <2>1. Held'
    <3>1. ASSUME NEW c \in Class PROVE fu'[c] = {i \in reserv[c] : tom_execute_cycle'[i] # 0}
      <4>1. fu[c] = {i \in reserv[c] : tom_execute_cycle[i] # 0}  BY <1>1 DEF Held
      <4>2. fu'[c] = fu[c] \cup {i \in moved : ClassOf(i) = c}  BY <1>6
      <4>3. \A i \in reserv[c] : i \in Insn /\ ClassOf(i) = c  BY <1>1, <1>7 DEF Held
      <4>4. \A i \in moved : ClassOf(i) = c => i \in reserv[c]  BY <1>6
      <4>5. QED  BY <1>7, <1>8, <4>1, <4>2, <4>3, <4>4
    <3>2. QED  BY <1>1, <1>2, <1>3, <1>4, <3>1 DEF Held
  <2>2. Untouched'  BY <1>1, <1>2, <1>3, <1>4, <1>8, <1>9 DEF Untouched
  <2>3. Capacity'  BY <1>1, <1>2, <1>6 DEF Capacity, RESERV_SIZE, FU_SIZE
  <2>4. QED  BY <2>1, <2>2, <2>3 DEF Places
<1>14. Flow'
  <2>1. MapExact'  BY <1>1, <1>2, <1>3, <1>4 DEF MapExact
  <2>2. TagsExact'
    <3>1. Stationed' = Stationed  BY <1>2 DEF Stationed
    <3>2. QED  BY <1>1, <1>2, <1>3, <1>4, <3>1 DEF TagsExact
  <2>3. RAWResolved'
    <3>1. SUFFICES ASSUME NEW i \in Insn, NEW k \in 1..MAX_INPUT_REGS, NEW p \in Insn,
                          tom_execute_cycle'[i] # 0, Produces(p, i, k)
                   PROVE  tom_cdb_cycle[p] # 0 /\ tom_cdb_cycle[p] < tom_execute_cycle'[i]
      BY <1>2, <1>3 DEF RAWResolved
    <3>2. CASE i \in moved
      <4>1. Q[i][k] # p  BY <1>5, <1>6, <3>2
      <4>2. Retired(p)  BY <1>1, <1>9, <3>1, <3>2, <4>1 DEF TagsExact
      <4>3. tom_cdb_cycle[p] # 0 /\ tom_cdb_cycle[p] # cycle  BY <1>7, <4>2 DEF Retired
      <4>4. QED  BY <1>7, <1>8, <3>2, <4>3
    <3>3. CASE i \notin moved
      <4>1. tom_execute_cycle'[i] = tom_execute_cycle[i]  BY <1>8, <3>3
      <4>2. QED  BY <1>1, <3>1, <4>1 DEF RAWResolved
    <3>4. QED  BY <3>2, <3>3
  <2>4. OldestFirst'
    <3>1. \A i \in Insn : LATENCY(ClassOf(i)) \in Nat \ {0}
      BY SizeAssumption DEF LATENCY
    <3>2. SUFFICES ASSUME NEW i \in Insn, tom_cdb_cycle[i] # 0
                   PROVE  /\ tom_execute_cycle'[i] # 0
                          /\ tom_execute_cycle'[i] + LATENCY(ClassOf(i)) <= tom_cdb_cycle[i]
                          /\ \A j \in Insn :
                               /\ j # i => tom_cdb_cycle[j] # tom_cdb_cycle[i]
                               /\ /\ j < i /\ ~IS_STORE(j) /\ tom_execute_cycle'[j] # 0
                                  /\ tom_execute_cycle'[j] + LATENCY(ClassOf(j)) <= tom_cdb_cycle[i]
                                  => tom_cdb_cycle[j] # 0 /\ tom_cdb_cycle[j] < tom_cdb_cycle[i]
      BY <1>2, <1>3 DEF OldestFirst, LATENCY
    <3>3. tom_execute_cycle'[i] = tom_execute_cycle[i]  BY <1>8, <1>9, <3>2
    <3>4. /\ tom_execute_cycle[i] # 0
          /\ tom_execute_cycle[i] + LATENCY(ClassOf(i)) <= tom_cdb_cycle[i]
          /\ \A j \in Insn :
               /\ j # i => tom_cdb_cycle[j] # tom_cdb_cycle[i]
               /\ /\ j < i /\ ~IS_STORE(j) /\ tom_execute_cycle[j] # 0
                  /\ tom_execute_cycle[j] + LATENCY(ClassOf(j)) <= tom_cdb_cycle[i]
                  => tom_cdb_cycle[j] # 0 /\ tom_cdb_cycle[j] < tom_cdb_cycle[i]
      BY <1>1, <3>2 DEF OldestFirst
    <3>5. ASSUME NEW j \in Insn, j \in moved
          PROVE  ~(tom_execute_cycle'[j] + LATENCY(ClassOf(j)) <= tom_cdb_cycle[i])
      <4>1. tom_execute_cycle'[j] = cycle  BY <1>8, <3>5
      <4>2. tom_cdb_cycle[i] <= cycle /\ tom_cdb_cycle[i] \in Nat  BY <1>7
      <4>3. LATENCY(ClassOf(j)) \in Nat \ {0}  BY <3>1
      <4>4. QED  BY <1>7, <4>1, <4>2, <4>3
    <3>6. \A j \in Insn : j \notin moved => tom_execute_cycle'[j] = tom_execute_cycle[j]  BY <1>8
    <3>7. QED  BY <3>3, <3>4, <3>5, <3>6
  <2>5. QED  BY <2>1, <2>2, <2>3, <2>4 DEF Flow
<1>15. QED  BY <1>10, <1>11, <1>12, <1>13, <1>14 DEF Inv

-----------------------------------------------------------------------------
(* dispatch_To_issue.                                                      *)

\* The head of the queue is issued.
LEMMA IssueStep ==
  ASSUME Inv, ~instr_queue_is_empty, NEW h, h = instr_queue_peek, Issue(h),
         stage = "issue", stage' = "fetch",
         UNCHANGED <<trace, cycle, fetch_index, fu, commonDataBus,
                     tom_dispatch_cycle, tom_execute_cycle, tom_cdb_cycle>>
  PROVE  Inv'
<1>1. /\ Types /\ QueueInv /\ Clock /\ Held /\ Untouched /\ Capacity
      /\ MapExact /\ TagsExact /\ RAWResolved /\ OldestFirst
  BY DEF Inv, Places, Flow
<1>2. /\ Insn' = Insn /\ IdOrNull' = IdOrNull
      /\ \A i : (IS_STORE(i)' <=> IS_STORE(i)) /\ ClassOf(i)' = ClassOf(i)
      /\ \A p, r : Writes(p, r)' <=> Writes(p, r)
      /\ \A p, i, k : Produces(p, i, k)' <=> Produces(p, i, k)
  BY TraceKept
<1>3. trace \in Traces /\ fetch_index \in Nat /\ cycle \in Nat \ {0} /\ cycle # 0
  BY <1>1 DEF Types
<1>4. \A i \in Insn : i \in Nat /\ i # NULL  BY <1>3, TraceFacts
<1>5. /\ h \in Insn /\ trace[h].kind # "trap" /\ ~Issued(h)
      /\ \A i \in Insn : Issued(i) => i < h
      /\ \A i \in Insn : i < h /\ Sim(i) => Issued(i)
  BY <1>1, <1>3, HeadOldest
<1>6. /\ ~IS_BRANCH(h) /\ ~StationFull(ClassOf(h)) /\ instr_queue_dequeue
      /\ reserv' = [reserv EXCEPT ![ClassOf(h)] = @ \cup {h}]
      /\ tom_issue_cycle' = [tom_issue_cycle EXCEPT ![h] = cycle]
      /\ Q' = [Q EXCEPT ![h] = Tags(h)]
      /\ map_table' = [r \in Reg |-> IF r \in Outputs(h) THEN h ELSE map_table[r]]
  BY DEF Issue
<1>7. Sim(h)
  <2>1. trace[h].kind \in Kind  BY <1>3, <1>5, TraceFacts
  <2>2. QED  BY <1>5, <1>6, <2>1 DEF Sim, Kind, IS_BRANCH
<1>8. \A r : r \in Outputs(h) <=> Writes(h, r)
  <2>1. trace[h].kind = "store" => Outputs(h) = {}  BY <1>3, <1>5, TraceFacts
  <2>2. QED  BY <1>7, <2>1 DEF Sim, Writes
<1>9. \A p, r : Writes(p, r) => Sim(p)  BY DEF Writes, Sim
<1>10. /\ tom_issue_cycle' \in [Insn -> Nat]
       /\ \A i \in Insn : Issued(i)' <=> Issued(i) \/ i = h
  <2>1. tom_issue_cycle \in [Insn -> Nat]  BY <1>1 DEF Types
  <2>2. QED  BY <1>3, <1>5, <1>6, <2>1 DEF Issued
<1>11. \A p : Retired(p)' <=> Retired(p)  BY DEF Retired
<1>12. tom_cdb_cycle[h] = 0 /\ tom_execute_cycle[h] = 0 /\ ~Retired(h)
       /\ \A k \in 1..MAX_INPUT_REGS : Q[h][k] = NULL
  BY <1>1, <1>5 DEF Untouched, Retired
<1>13. ClassOf(h) \in Class /\ \A c \in Class :
         reserv'[c] = IF c = ClassOf(h) THEN reserv[c] \cup {h} ELSE reserv[c]
  <2>1. ClassOf(h) \in Class  BY DEF ClassOf, Class
  <2>2. reserv \in [Class -> SUBSET Insn]  BY <1>1 DEF Types
  <2>3. QED  BY <1>6, <2>1, <2>2
<1>14. /\ Tags(h) \in [1..MAX_INPUT_REGS -> IdOrNull]
       /\ \A k \in 1..MAX_INPUT_REGS :
            Tags(h)[k] = IF trace[h].r_in[k] # DNA /\ map_table[trace[h].r_in[k]] # NULL
                         THEN map_table[trace[h].r_in[k]] ELSE NULL
       /\ \A k \in 1..MAX_INPUT_REGS : trace[h].r_in[k] \in Reg \cup {DNA}
  <2>1. \A k \in 1..MAX_INPUT_REGS : trace[h].r_in[k] \in Reg \cup {DNA}
    BY <1>3, <1>5, TraceFacts
  <2>2. \A k \in 1..MAX_INPUT_REGS :
            Tags(h)[k] = IF trace[h].r_in[k] # DNA /\ map_table[trace[h].r_in[k]] # NULL
                         THEN map_table[trace[h].r_in[k]] ELSE NULL
    BY <1>12 DEF Tags
  <2>3. map_table \in [Reg -> IdOrNull] /\ NULL \in IdOrNull  BY <1>1 DEF Types, IdOrNull
  <2>4. \A k \in 1..MAX_INPUT_REGS : Tags(h)[k] \in IdOrNull  BY <2>1, <2>2, <2>3
  <2>5. Tags(h) = [k \in 1..MAX_INPUT_REGS |-> Tags(h)[k]]  BY DEF Tags
  <2>6. QED  BY <2>1, <2>2, <2>4, <2>5
<1>15. /\ Q' \in [Insn -> [1..MAX_INPUT_REGS -> IdOrNull]]
       /\ Q'[h] = Tags(h) /\ \A i \in Insn : i # h => Q'[i] = Q[i]
  <2>1. Q \in [Insn -> [1..MAX_INPUT_REGS -> IdOrNull]]  BY <1>1 DEF Types
  <2>2. QED  BY <1>5, <1>6, <1>14, <2>1
<1>16. Types'
  <2>1. reserv' \in [Class -> SUBSET Insn]  BY <1>1, <1>5, <1>6, <1>13 DEF Types
  <2>2. map_table' \in [Reg -> IdOrNull]  BY <1>1, <1>5, <1>6 DEF Types, IdOrNull
  <2>3. QED  BY <1>1, <1>2, <1>10, <1>15, <2>1, <2>2 DEF Types, Stage
<1>17. QueueInv'
  <2>1. \A i \in Insn : Issued(i)' <=> Issued(i) \/ (i = h /\ Sim(h))  BY <1>7, <1>10
  <2>2. QED  BY <1>1, <1>3, <1>6, <2>1, TakeHead
<1>18. Clock'  BY <1>1, <1>2 DEF Clock
<1>19. Places'
  <2>1. Held'
    <3>1. ASSUME NEW c \in Class PROVE fu[c] = {i \in reserv'[c] : tom_execute_cycle[i] # 0}
      <4>1. fu[c] = {i \in reserv[c] : tom_execute_cycle[i] # 0}  BY <1>1 DEF Held
      <4>2. QED  BY <1>12, <1>13, <4>1
    <3>2. ASSUME NEW i \in Insn, Issued(i)', ~IS_STORE(i), tom_cdb_cycle[i] = 0
          PROVE  i \in reserv'[ClassOf(i)]
      <4>1. ClassOf(i) \in Class  BY DEF ClassOf, Class
      <4>2. CASE i = h  BY <1>13, <4>2
      <4>3. CASE i # h
        <5>1. i \in reserv[ClassOf(i)]  BY <1>1, <1>10, <3>2, <4>3 DEF Held
        <5>2. QED  BY <1>13, <4>1, <5>1
      <4>4. QED  BY <4>2, <4>3
    <3>3. ASSUME NEW c \in Class, NEW i \in reserv'[c]
          PROVE  c = ClassOf(i) /\ Issued(i)' /\ tom_cdb_cycle[i] = 0
      <4>1. (i = h /\ c = ClassOf(h)) \/ i \in reserv[c]
        <5>1. CASE c = ClassOf(h)
          <6>1. reserv'[c] = reserv[c] \cup {h}  BY <1>13, <5>1
          <6>2. QED  BY <3>3, <5>1, <6>1
        <5>2. CASE c # ClassOf(h)
          <6>1. reserv'[c] = reserv[c]  BY <1>13, <5>2
          <6>2. QED  BY <3>3, <6>1
        <5>3. QED  BY <5>1, <5>2
      <4>2. reserv[c] \subseteq Insn  BY <1>1 DEF Types
      <4>3. QED  BY <1>1, <1>5, <1>10, <1>12, <4>1, <4>2 DEF Held
    <3>4. QED  BY <1>2, <3>1, <3>2, <3>3 DEF Held
  <2>2. Untouched'
    <3>1. ASSUME NEW i \in Insn, ~Issued(i)'
          PROVE  /\ tom_execute_cycle[i] = 0 /\ tom_cdb_cycle[i] = 0
                 /\ \A k \in 1..MAX_INPUT_REGS : Q'[i][k] = NULL
      BY <1>1, <1>10, <1>15, <3>1 DEF Untouched
    <3>2. QED  BY <1>2, <3>1 DEF Untouched
  <2>3. Capacity'
    <3>1. SUFFICES ASSUME NEW c \in Class
                   PROVE  Cardinality(reserv'[c]) <= RESERV_SIZE(c)
      BY <1>1 DEF Capacity, RESERV_SIZE, FU_SIZE
    <3>2. reserv[c] \subseteq Insn  BY <1>1 DEF Types
    <3>3. IsFiniteSet(reserv[c]) /\ Cardinality(reserv[c]) \in Nat
      BY <1>3, <3>2, FiniteInsn
    <3>4. Cardinality(reserv[c]) <= RESERV_SIZE(c)  BY <1>1 DEF Capacity
    <3>5. Cardinality(reserv[c] \cup {h}) =
            IF h \in reserv[c] THEN Cardinality(reserv[c]) ELSE Cardinality(reserv[c]) + 1
      BY <3>3, FS_AddElement
    <3>6. c = ClassOf(h) => Cardinality(reserv[c]) # RESERV_SIZE(c)  BY <1>6 DEF StationFull
    <3>7. RESERV_SIZE(c) \in Nat  BY SizeAssumption DEF RESERV_SIZE
    <3>8. QED  BY <1>13, <3>3, <3>4, <3>5, <3>6, <3>7
  <2>4. QED  BY <2>1, <2>2, <2>3 DEF Places
<1>20. Flow'
  <2>1. MapExact'
    <3>1. SUFFICES ASSUME NEW r \in Reg, NEW p \in Insn
                   PROVE  map_table'[r] = p <=>
                            /\ Writes(p, r) /\ Issued(p)' /\ ~Retired(p)
                            /\ \A q \in Insn : p < q /\ Writes(q, r) => ~Issued(q)'
      BY <1>2, <1>11 DEF MapExact
    <3>2. map_table[r] = p <=>
            /\ Writes(p, r) /\ Issued(p) /\ ~Retired(p)
            /\ \A q \in Insn : p < q /\ Writes(q, r) => ~Issued(q)
      BY <1>1 DEF MapExact
    <3>3. map_table'[r] = IF Writes(h, r) THEN h ELSE map_table[r]  BY <1>6, <1>8
    <3>4. CASE Writes(h, r) /\ p = h
      <4>1. \A q \in Insn : h < q => ~Issued(q)'  BY <1>4, <1>5, <1>10
      <4>2. QED  BY <1>5, <1>10, <1>12, <3>3, <3>4, <4>1
    <3>5. CASE Writes(h, r) /\ p # h
      <4>1. Issued(p)' => p < h  BY <1>5, <1>10, <3>5
      <4>2. QED  BY <1>5, <1>10, <3>3, <3>5, <4>1
    <3>6. CASE ~Writes(h, r)
      BY <1>5, <1>10, <3>2, <3>3, <3>6
    <3>7. QED  BY <3>4, <3>5, <3>6
  <2>2. TagsExact'
    <3>1. Stationed' = Stationed \cup {h} /\ Stationed \subseteq Insn
      BY <1>1, <1>13 DEF Stationed, Class, Types
    <3>2. SUFFICES ASSUME NEW i \in Stationed \cup {h}, NEW k \in 1..MAX_INPUT_REGS, NEW p \in Insn
                   PROVE  Q'[i][k] = p <=> Produces(p, i, k) /\ ~Retired(p)
      BY <1>2, <1>11, <3>1 DEF TagsExact
    <3>3. CASE i # h  BY <1>1, <1>15, <3>1, <3>2, <3>3 DEF TagsExact
    <3>4. CASE i = h
      <4> DEFINE r == trace[h].r_in[k]
      <4>1. Q'[h][k] = IF r # DNA /\ map_table[r] # NULL THEN map_table[r] ELSE NULL
        BY <1>14, <1>15
      <4>2. r \in Reg \/ r = DNA  BY <1>14
      <4>3. Produces(p, h, k) <=> /\ p < h /\ Writes(p, r)
                                  /\ \A q \in Insn : p < q /\ q < h => ~Writes(q, r)
        BY DEF Produces
      <4> HIDE DEF r
      <4>4. CASE r = DNA
        <5>1. ~Writes(p, r)  BY <4>4 DEF Writes, Outputs
        <5>2. QED  BY <1>4, <3>4, <4>1, <4>3, <4>4, <5>1
      <4>5. CASE r # DNA
        <5>1. r \in Reg  BY <4>2, <4>5
        <5>2. map_table[r] = p <=>
                /\ Writes(p, r) /\ Issued(p) /\ ~Retired(p)
                /\ \A q \in Insn : p < q /\ Writes(q, r) => ~Issued(q)
          BY <1>1, <5>1 DEF MapExact
        <5>3. Q'[h][k] = p <=> map_table[r] = p  BY <1>4, <4>1, <4>5
        <5>4. ASSUME map_table[r] = p PROVE Produces(p, h, k) /\ ~Retired(p)
          <6>1. p < h  BY <1>5, <5>2, <5>4
          <6>2. \A q \in Insn : p < q /\ q < h => ~Writes(q, r)  BY <1>5, <1>9, <5>2, <5>4
          <6>3. QED  BY <4>3, <5>2, <5>4, <6>1, <6>2
        <5>5. ASSUME Produces(p, h, k), ~Retired(p) PROVE map_table[r] = p
          <6>1. Writes(p, r) /\ Issued(p)  BY <1>5, <1>9, <4>3, <5>5
          <6>2. ASSUME NEW q \in Insn, p < q, Writes(q, r), Issued(q) PROVE FALSE
            <7>1. q < h  BY <1>5, <6>2
            <7>2. QED  BY <4>3, <5>5, <6>2, <7>1
          <6>3. QED  BY <5>2, <5>5, <6>1, <6>2
        <5>6. QED  BY <3>4, <5>3, <5>4, <5>5
      <4>6. QED  BY <4>4, <4>5
    <3>5. QED  BY <3>3, <3>4
  <2>3. RAWResolved'  BY <1>1, <1>2 DEF RAWResolved
  <2>4. OldestFirst'  BY <1>1, <1>2 DEF OldestFirst, LATENCY
  <2>5. QED  BY <2>1, <2>2, <2>3, <2>4 DEF Flow
<1>21. QED  BY <1>16, <1>17, <1>18, <1>19, <1>20 DEF Inv

\* dispatch_To_issue: the head of the queue stalls, is dropped or is issued.
LEMMA DispatchStep ==
  ASSUME Inv, dispatch_To_issue
  PROVE  Inv'
<1>1. /\ Types /\ QueueInv /\ Clock /\ Held /\ Untouched /\ Capacity
      /\ MapExact /\ TagsExact /\ RAWResolved /\ OldestFirst
  BY DEF Inv, Places, Flow
<1>2. /\ stage = "issue" /\ stage' = "fetch"
      /\ UNCHANGED <<trace, cycle, fetch_index, fu, commonDataBus,
                     tom_dispatch_cycle, tom_execute_cycle, tom_cdb_cycle>>
  BY DEF dispatch_To_issue, Step
<1>3. ASSUME UNCHANGED <<reserv, tom_issue_cycle, Q, map_table>>, QueueInv' PROVE Inv'
  <2>1. /\ Insn' = Insn /\ IdOrNull' = IdOrNull
        /\ \A i : (IS_STORE(i)' <=> IS_STORE(i)) /\ ClassOf(i)' = ClassOf(i)
        /\ \A p, r : Writes(p, r)' <=> Writes(p, r)
        /\ \A p, i, k : Produces(p, i, k)' <=> Produces(p, i, k)
    BY <1>2, TraceKept
  <2>2. \A i : (Issued(i)' <=> Issued(i)) /\ (Retired(i)' <=> Retired(i))
    BY <1>2, <1>3 DEF Issued, Retired
  <2>3. Types'  BY <1>1, <1>2, <1>3, <2>1 DEF Types, Stage
  <2>4. Clock'  BY <1>1, <1>2, <2>1 DEF Clock
  <2>5. Held'  BY <1>1, <1>2, <1>3, <2>1, <2>2 DEF Held
  <2>6. Untouched'  BY <1>1, <1>2, <1>3, <2>1, <2>2 DEF Untouched
  <2>7. Capacity'  BY <1>1, <1>2, <1>3 DEF Capacity, RESERV_SIZE, FU_SIZE
  <2>8. MapExact'  BY <1>1, <1>3, <2>1, <2>2 DEF MapExact
  <2>9. TagsExact'
    <3>1. Stationed' = Stationed  BY <1>3 DEF Stationed
    <3>2. QED  BY <1>1, <1>3, <2>1, <2>2, <3>1 DEF TagsExact
  <2>10. RAWResolved' /\ OldestFirst'
    BY <1>1, <1>2, <2>1 DEF RAWResolved, OldestFirst, LATENCY
  <2>11. QED
    BY <1>3, <2>3, <2>4, <2>5, <2>6, <2>7, <2>8, <2>9, <2>10 DEF Inv, Places, Flow
<1>4. CASE UNCHANGED <<queueVars, reserv, tom_issue_cycle, Q, map_table>>
  <2>1. QueueInv'  BY <1>1, <1>2, <1>4, QueueKept
  <2>2. QED  BY <1>3, <1>4, <2>1
<1>5. CASE ~instr_queue_is_empty /\ DropBranch(instr_queue_peek)
  <2>1. PICK h : h = instr_queue_peek  OBVIOUS
  <2>2. /\ IS_BRANCH(h) /\ instr_queue_dequeue /\ UNCHANGED <<reserv, tom_issue_cycle, Q, map_table>>
    BY <1>5, <2>1 DEF DropBranch
  <2>3. ~Sim(h)  BY <2>2 DEF Sim, IS_BRANCH
  <2>4. \A i \in Insn : Issued(i)' <=> Issued(i) \/ (i = h /\ Sim(h))
    BY <2>2, <2>3 DEF Issued
  <2>5. trace \in Traces /\ fetch_index \in Nat  BY <1>1 DEF Types
  <2>6. QueueInv'  BY <1>1, <1>2, <1>5, <2>1, <2>2, <2>4, <2>5, TakeHead
  <2>7. QED  BY <1>3, <2>2, <2>6
<1>6. CASE ~instr_queue_is_empty /\ Issue(instr_queue_peek)
  <2>1. PICK h : h = instr_queue_peek  OBVIOUS
  <2>2. Issue(h)  BY <1>6, <2>1
  <2>3. QED  BY <1>2, <1>6, <2>1, <2>2, IssueStep
<1>7. QED  BY <1>4, <1>5, <1>6 DEF dispatch_To_issue, Stall

-----------------------------------------------------------------------------
(* fetch_To_dispatch.                                                      *)

\* Fetching changes the queue and the clock only.
LEMMA FetchStep ==
  ASSUME Inv, fetch_To_dispatch
  PROVE  Inv'
<1>1. /\ Types /\ QueueInv /\ Clock /\ Held /\ Untouched /\ Capacity
      /\ MapExact /\ TagsExact /\ RAWResolved /\ OldestFirst
  BY DEF Inv, Places, Flow
<1>2. /\ stage = "fetch" /\ stage' \in {"done", "retire"} /\ fetch /\ cycle' = cycle + 1
      /\ UNCHANGED <<trace, reserv, fu, commonDataBus, map_table, Q,
                     tom_issue_cycle, tom_execute_cycle, tom_cdb_cycle>>
  BY DEF fetch_To_dispatch
<1>3. /\ Insn' = Insn /\ IdOrNull' = IdOrNull
      /\ \A i : (IS_STORE(i)' <=> IS_STORE(i)) /\ ClassOf(i)' = ClassOf(i)
      /\ \A p, r : Writes(p, r)' <=> Writes(p, r)
      /\ \A p, i, k : Produces(p, i, k)' <=> Produces(p, i, k)
  BY <1>2, TraceKept
<1>4. \A i : (Issued(i)' <=> Issued(i)) /\ (Retired(i)' <=> Retired(i))
  BY <1>2 DEF Issued, Retired
<1>5. QueueInv' /\ fetch_index' \in Nat  BY <1>1, <1>2, FetchNext DEF Types
<1>6. Types'
  <2>1. PICK insn \in Insn \cup {NULL} :
          tom_dispatch_cycle' =
            [i \in Insn |-> IF i = insn /\ tom_dispatch_cycle[i] = 0
                            THEN cycle ELSE tom_dispatch_cycle[i]]
    BY DEF fetch_To_dispatch
  <2>2. cycle \in Nat \ {0} /\ tom_dispatch_cycle \in [Insn -> Nat]  BY <1>1 DEF Types
  <2>3. tom_dispatch_cycle' \in [Insn -> Nat] /\ cycle' \in Nat \ {0}  BY <1>2, <2>1, <2>2
  <2>4. QED  BY <1>1, <1>2, <1>3, <1>5, <2>3 DEF Types, Stage
<1>7. Clock'
  <2>1. \A p \in Insn : tom_cdb_cycle[p] \in Nat /\ tom_cdb_cycle[p] <= cycle /\ cycle \in Nat
    BY <1>1, <1>2 DEF Types, Clock
  <2>2. \A p \in Insn : tom_cdb_cycle'[p] < cycle'  BY <1>2, <2>1
  <2>3. commonDataBus' # NULL => tom_cdb_cycle'[commonDataBus'] # 0  BY <1>1, <1>2 DEF Clock
  <2>4. QED  BY <1>2, <1>3, <2>2, <2>3 DEF Clock
<1>8. Held'  BY <1>1, <1>2, <1>3, <1>4 DEF Held
<1>9. Untouched'  BY <1>1, <1>2, <1>3, <1>4 DEF Untouched
<1>10. Capacity'  BY <1>1, <1>2 DEF Capacity, RESERV_SIZE, FU_SIZE
<1>11. MapExact'  BY <1>1, <1>2, <1>3, <1>4 DEF MapExact
<1>12. TagsExact'
  <2>1. Stationed' = Stationed  BY <1>2 DEF Stationed
  <2>2. QED  BY <1>1, <1>2, <1>3, <1>4, <2>1 DEF TagsExact
<1>13. RAWResolved' /\ OldestFirst'
  BY <1>1, <1>2, <1>3 DEF RAWResolved, OldestFirst, LATENCY
<1>14. QED
  BY <1>5, <1>6, <1>7, <1>8, <1>9, <1>10, <1>11, <1>12, <1>13 DEF Inv, Places, Flow

-----------------------------------------------------------------------------
(* The theorems.                                                           *)

\* Initially nothing has happened.
LEMMA InitInv == Init => Inv
<1> SUFFICES ASSUME Init PROVE Inv
  OBVIOUS
<1>1. N \in Nat \ {0}  BY SizeAssumption DEF N
<1>2. /\ trace \in Traces /\ stage = "retire" /\ cycle = 1 /\ fetch_index = 0
      /\ instr_queue = [s \in 0..(N - 1) |-> NULL] /\ instr_queue_head = 0 /\ instr_queue_size = 0
      /\ reserv = [c \in Class |-> {}] /\ fu = [c \in Class |-> {}] /\ commonDataBus = NULL
      /\ map_table = [r \in Reg |-> NULL]
      /\ Q = [i \in Insn |-> [k \in 1..MAX_INPUT_REGS |-> NULL]]
      /\ tom_dispatch_cycle = [i \in Insn |-> 0] /\ tom_issue_cycle = [i \in Insn |-> 0]
      /\ tom_execute_cycle = [i \in Insn |-> 0] /\ tom_cdb_cycle = [i \in Insn |-> 0]
  BY DEF Init, N
<1>3. NULL \in IdOrNull /\ \A i \in Insn : i \in Nat /\ i # NULL /\ i >= 1
  BY <1>2, TraceFacts DEF IdOrNull, NULL
<1>4. Types  BY <1>2, <1>3 DEF Types, Stage
<1>5. \A i \in Insn : ~Issued(i) /\ ~Retired(i) /\ tom_execute_cycle[i] = 0 /\ tom_cdb_cycle[i] = 0
  BY <1>2 DEF Issued, Retired
<1>6. QueueInv
  <2>1. QueueType  BY <1>1, <1>2, <1>3 DEF QueueType
  <2>2. \A k \in 0..(N - 1) : Queued(k) = NULL
    <3>1. \A k \in 0..(N - 1) : (0 + k) % N \in 0..(N - 1)  BY <1>1
    <3>2. QED  BY <1>2, <3>1 DEF Queued, N
  <2>3. Slots  BY <1>1, <1>2, <2>2 DEF Slots
  <2>4. Taken  BY <1>2, <1>3, <1>5 DEF Taken
  <2>5. QED  BY <2>1, <2>3, <2>4 DEF QueueInv
<1>7. Clock  BY <1>2, <1>5 DEF Clock
<1>8. Held /\ Untouched  BY <1>2, <1>5 DEF Held, Untouched
<1>9. Capacity
  <2>1. Cardinality({}) = 0  BY FS_EmptySet
  <2>2. \A c \in Class : reserv[c] = {} /\ fu[c] = {}  BY <1>2
  <2>3. \A c \in Class : RESERV_SIZE(c) \in Nat /\ FU_SIZE(c) \in Nat
    BY SizeAssumption DEF RESERV_SIZE, FU_SIZE
  <2>4. QED  BY <2>1, <2>2, <2>3 DEF Capacity
<1>10. MapExact  BY <1>2, <1>3, <1>5 DEF MapExact
<1>11. TagsExact  BY <1>2 DEF TagsExact, Stationed, Class
<1>12. RAWResolved /\ OldestFirst  BY <1>5 DEF RAWResolved, OldestFirst
<1>13. QED  BY <1>4, <1>6, <1>7, <1>8, <1>9, <1>10, <1>11, <1>12 DEF Inv, Places, Flow

\* Every stage keeps the invariant.
LEMMA NextInv == Inv /\ [Next]_vars => Inv'
<1> SUFFICES ASSUME Inv, [Next]_vars PROVE Inv'
  OBVIOUS
<1>1. CASE CDB_To_retire  BY <1>1, RetireStep
<1>2. CASE execute_To_CDB  BY <1>2, CDBStep
<1>3. CASE issue_To_execute  BY <1>3, ExecuteStep
<1>4. CASE dispatch_To_issue  BY <1>4, DispatchStep
<1>5. CASE fetch_To_dispatch  BY <1>5, FetchStep
<1>6. CASE UNCHANGED vars
  <2>1. /\ Types /\ QueueInv /\ Clock /\ Held /\ Untouched /\ Capacity
        /\ MapExact /\ TagsExact /\ RAWResolved /\ OldestFirst
    BY DEF Inv, Places, Flow
  <2>2. /\ trace' = trace /\ stage' = stage /\ cycle' = cycle /\ fetch_index' = fetch_index
        /\ reserv' = reserv /\ fu' = fu /\ commonDataBus' = commonDataBus
        /\ map_table' = map_table /\ Q' = Q /\ tom_dispatch_cycle' = tom_dispatch_cycle
        /\ tom_issue_cycle' = tom_issue_cycle /\ tom_execute_cycle' = tom_execute_cycle
        /\ tom_cdb_cycle' = tom_cdb_cycle /\ UNCHANGED queueVars
    BY <1>6 DEF vars, cycleVars
  <2>3. /\ Insn' = Insn /\ IdOrNull' = IdOrNull
        /\ \A i : (IS_STORE(i)' <=> IS_STORE(i)) /\ ClassOf(i)' = ClassOf(i)
        /\ \A p, r : Writes(p, r)' <=> Writes(p, r)
        /\ \A p, i, k : Produces(p, i, k)' <=> Produces(p, i, k)
    BY <2>2, TraceKept
  <2>4. \A i : (Issued(i)' <=> Issued(i)) /\ (Retired(i)' <=> Retired(i))
    BY <2>2 DEF Issued, Retired
  <2>5. Types' /\ QueueInv'
    <3>1. QueueInv'  BY <2>1, <2>2, QueueKept
    <3>2. QED  BY <2>1, <2>2, <2>3, <3>1 DEF Types
  <2>6. Clock'  BY <2>1, <2>2, <2>3 DEF Clock
  <2>7. Held'  BY <2>1, <2>2, <2>3, <2>4 DEF Held
  <2>8. Untouched'  BY <2>1, <2>2, <2>3, <2>4 DEF Untouched
  <2>9. Capacity'  BY <2>1, <2>2 DEF Capacity, RESERV_SIZE, FU_SIZE
  <2>10. MapExact'  BY <2>1, <2>2, <2>3, <2>4 DEF MapExact
  <2>11. TagsExact'
    <3>1. Stationed' = Stationed  BY <2>2 DEF Stationed
    <3>2. QED  BY <2>1, <2>2, <2>3, <2>4, <3>1 DEF TagsExact
  <2>12. RAWResolved' /\ OldestFirst'
    BY <2>1, <2>2, <2>3 DEF RAWResolved, OldestFirst, LATENCY
  <2>13. QED
    BY <2>5, <2>6, <2>7, <2>8, <2>9, <2>10, <2>11, <2>12 DEF Inv, Places, Flow
<1>7. QED  BY <1>1, <1>2, <1>3, <1>4, <1>5, <1>6 DEF Next

\* The invariant always holds.
LEMMA Invariant == Spec => []Inv
BY InitInv, NextInv, PTL DEF Spec

\* What the invariant says of the state.
LEMMA InvariantImplies ==
  ASSUME Inv
  PROVE  /\ TypeOK /\ QueueInOrder /\ StationsHold
         /\ TagsExact /\ MapExact /\ RAWResolved /\ OldestFirst
<1>1. /\ Types /\ QueueType /\ Slots /\ Taken /\ Held /\ Capacity
      /\ MapExact /\ TagsExact /\ RAWResolved /\ OldestFirst
  BY DEF Inv, QueueInv, Places, Flow
<1>2. TypeOK  BY <1>1 DEF TypeOK, Types, QueueType, N
<1>3. StationsHold  BY <1>1 DEF StationsHold, Held, Capacity
<1>4. N \in Nat \ {0} /\ instr_queue_size \in 0..N  BY <1>1, SizeAssumption DEF QueueType, N
<1>5. \A i \in Insn : i \in Nat /\ i # NULL  BY <1>1, TraceFacts DEF Types
<1>6. QueueInOrder
  <2>1. \A k \in 0..(N - 1) : Queued(k) # NULL <=> k < instr_queue_size
    BY <1>1, <1>4, <1>5 DEF Slots
  <2>2. ASSUME NEW k \in 1..(instr_queue_size - 1) PROVE Queued(k - 1) < Queued(k)
    <3>1. k - 1 \in 0..(N - 1) /\ k \in 0..(N - 1) /\ k - 1 < k /\ k < instr_queue_size  BY <1>4
    <3>2. QED  BY <1>1, <3>1 DEF Slots
  <2>3. \A k : k \in 0..(instr_queue_size - 1) <=> k \in 0..(N - 1) /\ k < instr_queue_size
    BY <1>4
  <2>4. ASSUME NEW i \in Insn, i <= fetch_index, trace[i].kind \in {"int", "store", "fp"}
        PROVE  \/ Issued(i) /\ \A k \in 0..(instr_queue_size - 1) : i < Queued(k)
               \/ ~Issued(i) /\ \E k \in 0..(instr_queue_size - 1) : i = Queued(k)
    <3>1. CASE Issued(i)  BY <1>1, <2>3, <3>1 DEF Taken
    <3>2. CASE ~Issued(i)
      <4>1. \E k \in 0..(N - 1) : k < instr_queue_size /\ i = Queued(k)
        BY <1>1, <2>4, <3>2 DEF Taken, Sim
      <4>2. QED  BY <2>3, <3>2, <4>1
    <3>3. QED  BY <3>1, <3>2
  <2>5. ASSUME NEW i \in Insn, i > fetch_index PROVE ~Issued(i)
    <3>1. fetch_index \in Nat  BY <1>1 DEF Types
    <3>2. QED  BY <1>1, <1>5, <2>5, <3>1 DEF Taken
  <2>6. QED  BY <2>1, <2>2, <2>4, <2>5 DEF QueueInOrder, N
<1>7. QED  BY <1>1, <1>2, <1>3, <1>6

\* Tags, mappings and queue slots always name instructions of the trace, for
\* every trace and every size of queue, stations and units.
THEOREM PipelineTypeCorrect == Spec => []TypeOK
BY Invariant, InvariantImplies, PTL

\* The circular queue holds exactly the fetched instructions that were not yet
\* taken, in program order.
THEOREM QueueCorrect == Spec => []QueueInOrder
BY Invariant, InvariantImplies, PTL

\* No instruction is dropped for want of a station or a unit, and none leaves
\* its station early.
THEOREM StationsCorrect == Spec => []StationsHold
BY Invariant, InvariantImplies, PTL

\* A waiting instruction waits for exactly the pending producers of its
\* operands.
THEOREM TagsCorrect == Spec => []TagsExact
BY Invariant, InvariantImplies, PTL

\* The map table names the pending last writers, and only them.
THEOREM MapCorrect == Spec => []MapExact
BY Invariant, InvariantImplies, PTL

\* An instruction executes after all its operands were on the bus.
THEOREM DependencesResolved == Spec => []RAWResolved
BY Invariant, InvariantImplies, PTL

\* The bus carries one result per cycle and never lets a younger instruction
\* overtake an older one that has finished.
THEOREM BusInOrder == Spec => []OldestFirst
BY Invariant, InvariantImplies, PTL

-----------------------------------------------------------------------------
(* Steps.                                                                  *)

\* The time stamps are written once.
Stamps ==
  \A i \in Insn :
    /\ tom_dispatch_cycle[i] # 0 => tom_dispatch_cycle'[i] = tom_dispatch_cycle[i]
    /\ tom_issue_cycle[i] # 0 => tom_issue_cycle'[i] = tom_issue_cycle[i]
    /\ tom_execute_cycle[i] # 0 => tom_execute_cycle'[i] = tom_execute_cycle[i]
    /\ tom_cdb_cycle[i] # 0 => tom_cdb_cycle'[i] = tom_cdb_cycle[i]

\* No stage overwrites a time stamp.
LEMMA StampsKept == Inv /\ [Next]_vars => [Stamps]_vars
<1> SUFFICES ASSUME Inv, Next PROVE Stamps
  OBVIOUS
<1>1. /\ Types /\ QueueInv /\ Clock /\ Held  BY DEF Inv, Places
<1>2. CASE CDB_To_retire  BY <1>2 DEF CDB_To_retire, cycleVars, Stamps
<1>3. CASE execute_To_CDB
  <2>1. /\ tom_dispatch_cycle' = tom_dispatch_cycle /\ tom_issue_cycle' = tom_issue_cycle
        /\ tom_execute_cycle' = tom_execute_cycle
    BY <1>3 DEF execute_To_CDB
  <2>2. ASSUME NEW insn \in ReadyForCDB PROVE insn \in Insn /\ tom_cdb_cycle[insn] = 0
    <3>1. PICK c \in Class : insn \in fu[c]  BY DEF ReadyForCDB, Finished, Class
    <3>2. QED  BY <1>1, <3>1 DEF Held, Types
  <2>3. \/ tom_cdb_cycle' = tom_cdb_cycle
        \/ \E insn \in ReadyForCDB : tom_cdb_cycle' = [tom_cdb_cycle EXCEPT ![insn] = cycle]
    BY <1>3 DEF execute_To_CDB
  <2>4. \A i \in Insn : tom_cdb_cycle[i] # 0 => tom_cdb_cycle'[i] = tom_cdb_cycle[i]
    BY <1>1, <2>2, <2>3 DEF Types
  <2>5. QED  BY <2>1, <2>4 DEF Stamps
<1>4. CASE issue_To_execute
  <2>1. /\ tom_dispatch_cycle' = tom_dispatch_cycle /\ tom_issue_cycle' = tom_issue_cycle
        /\ tom_cdb_cycle' = tom_cdb_cycle
    BY <1>4 DEF issue_To_execute
  <2>2. PICK moved \in SUBSET Insn :
          /\ \A i \in moved : i \in reserv[ClassOf(i)] /\ i \notin fu[ClassOf(i)]
          /\ tom_execute_cycle' =
               [i \in Insn |-> IF i \in moved THEN cycle ELSE tom_execute_cycle[i]]
    BY <1>4, ExecuteEffect
  <2>3. \A i \in moved : tom_execute_cycle[i] = 0  BY <1>1, <2>2 DEF Held, ClassOf, Class
  <2>4. QED  BY <2>1, <2>2, <2>3 DEF Stamps
<1>5. CASE dispatch_To_issue
  <2>1. /\ tom_dispatch_cycle' = tom_dispatch_cycle /\ tom_execute_cycle' = tom_execute_cycle
        /\ tom_cdb_cycle' = tom_cdb_cycle
    BY <1>5 DEF dispatch_To_issue
  <2>2. PICK h : h = instr_queue_peek  OBVIOUS
  <2>3. \/ tom_issue_cycle' = tom_issue_cycle
        \/ ~instr_queue_is_empty /\ tom_issue_cycle' = [tom_issue_cycle EXCEPT ![h] = cycle]
    BY <1>5, <2>2 DEF dispatch_To_issue, Stall, DropBranch, Issue
  <2>4. ~instr_queue_is_empty => ~Issued(h)  BY <1>1, <2>2, HeadOldest DEF Types
  <2>5. \A i \in Insn : tom_issue_cycle[i] # 0 => tom_issue_cycle'[i] = tom_issue_cycle[i]
    BY <1>1, <2>3, <2>4 DEF Types, Issued
  <2>6. QED  BY <2>1, <2>5 DEF Stamps
<1>6. CASE fetch_To_dispatch
  <2>1. /\ tom_issue_cycle' = tom_issue_cycle /\ tom_execute_cycle' = tom_execute_cycle
        /\ tom_cdb_cycle' = tom_cdb_cycle
    BY <1>6 DEF fetch_To_dispatch
  <2>2. PICK insn \in Insn \cup {NULL} :
          tom_dispatch_cycle' =
            [i \in Insn |-> IF i = insn /\ tom_dispatch_cycle[i] = 0
                            THEN cycle ELSE tom_dispatch_cycle[i]]
    BY <1>6 DEF fetch_To_dispatch
  <2>3. QED  BY <2>1, <2>2 DEF Stamps
<1>7. QED  BY <1>2, <1>3, <1>4, <1>5, <1>6 DEF Next

\* No instruction enters a stage of the pipeline twice.
THEOREM StampedOnce == Spec => EntersOnce
<1>1. Inv /\ [Next]_vars => [Stamps]_vars  BY StampsKept
<1>2. QED  BY <1>1, Invariant, PTL DEF Spec, EntersOnce, Stamps

-----------------------------------------------------------------------------
(* The pipeline implements the flow of values.                             *)

\* The instructions that have started and those whose result was broadcast.
startedSet == {i \in Insn : tom_execute_cycle[i] # 0}
finishedSet == {i \in Insn : Retired(i)}

\* A stage starts instructions whose operands are there, makes one result
\* visible, or changes neither set.
LEMMA FlowStep == Inv /\ [Next]_vars => [DF!DataflowNext]_(DF!dataflowVars)
<1> SUFFICES ASSUME Inv, [Next]_vars PROVE DF!DataflowNext \/ UNCHANGED DF!dataflowVars
  OBVIOUS
<1>1. /\ Types /\ QueueInv /\ Clock /\ Held /\ Untouched /\ TagsExact /\ OldestFirst
  BY DEF Inv, Places, Flow
<1>2. ASSUME trace' = trace, startedSet' = startedSet, finishedSet' = finishedSet
      PROVE  UNCHANGED DF!dataflowVars
  BY <1>2 DEF DF!dataflowVars, startedSet, finishedSet
<1>3. \A i \in Insn : i \in Nat /\ i # NULL  BY <1>1, TraceFacts DEF Types
<1>4. ASSUME trace' = trace, tom_execute_cycle' = tom_execute_cycle PROVE startedSet' = startedSet
  BY <1>4, TraceKept DEF startedSet
<1>5. ASSUME trace' = trace, \A i \in Insn : Retired(i)' <=> Retired(i)
      PROVE  finishedSet' = finishedSet
  BY <1>5, TraceKept DEF finishedSet
<1>6. CASE CDB_To_retire
  <2>1. /\ trace' = trace /\ tom_execute_cycle' = tom_execute_cycle /\ tom_cdb_cycle' = tom_cdb_cycle
        /\ commonDataBus' = NULL
    BY <1>6 DEF CDB_To_retire, cycleVars
  <2>2. startedSet' = startedSet  BY <1>4, <2>1
  <2>3. \A p \in Insn : Retired(p)' <=> Retired(p) \/ p = commonDataBus
    BY <1>1, <1>3, <2>1 DEF Retired, Clock
  <2>4. CASE commonDataBus = NULL
    <3>1. \A p \in Insn : Retired(p)' <=> Retired(p)  BY <1>3, <2>3, <2>4
    <3>2. finishedSet' = finishedSet  BY <1>5, <2>1, <3>1
    <3>3. QED  BY <1>2, <2>1, <2>2, <3>2
  <2>5. CASE commonDataBus # NULL
    <3>1. commonDataBus \in Insn  BY <1>1, <2>5 DEF Types, IdOrNull
    <3>2. tom_execute_cycle[commonDataBus] # 0 /\ ~Retired(commonDataBus)
      BY <1>1, <2>5, <3>1 DEF Clock, OldestFirst, Retired
    <3>3. commonDataBus \in startedSet \ finishedSet  BY <3>1, <3>2 DEF startedSet, finishedSet
    <3>4. finishedSet' = finishedSet \cup {commonDataBus}
      <4>1. Insn' = Insn  BY <2>1, TraceKept
      <4>2. QED  BY <2>3, <3>1, <4>1 DEF finishedSet
    <3>5. DF!Finish  BY <2>1, <2>2, <3>3, <3>4 DEF DF!Finish, startedSet, finishedSet
    <3>6. QED  BY <3>5 DEF DF!DataflowNext
  <2>6. QED  BY <2>4, <2>5
<1>7. CASE execute_To_CDB
  <2>1. trace' = trace /\ tom_execute_cycle' = tom_execute_cycle  BY <1>7 DEF execute_To_CDB
  <2>2. commonDataBus = NULL /\ tom_cdb_cycle \in [Insn -> Nat]
    BY <1>1, <1>7 DEF execute_To_CDB, Step, Clock, Types
  <2>3. \/ commonDataBus' = commonDataBus /\ tom_cdb_cycle' = tom_cdb_cycle
        \/ \E insn \in ReadyForCDB : /\ commonDataBus' = insn
                                     /\ tom_cdb_cycle' = [tom_cdb_cycle EXCEPT ![insn] = cycle]
    BY <1>7 DEF execute_To_CDB
  <2>4. ASSUME NEW insn \in ReadyForCDB PROVE insn \in Insn /\ tom_cdb_cycle[insn] = 0
    <3>1. PICK c \in Class : insn \in fu[c]  BY DEF ReadyForCDB, Finished, Class
    <3>2. QED  BY <1>1, <3>1 DEF Held, Types
  <2>5. \A i \in Insn : Retired(i)' <=> Retired(i)
    BY <1>3, <2>2, <2>3, <2>4 DEF Retired
  <2>6. QED  BY <1>2, <1>4, <1>5, <2>1, <2>5
<1>8. CASE issue_To_execute
  <2>1. trace' = trace /\ commonDataBus' = commonDataBus /\ tom_cdb_cycle' = tom_cdb_cycle
    BY <1>8 DEF issue_To_execute
  <2>2. finishedSet' = finishedSet  BY <1>5, <2>1 DEF Retired
  <2>3. PICK moved \in SUBSET Insn :
          /\ \A i \in moved : /\ i \in reserv[ClassOf(i)] /\ i \notin fu[ClassOf(i)]
                              /\ \A k \in 1..MAX_INPUT_REGS : Q[i][k] = NULL
          /\ tom_execute_cycle' =
               [i \in Insn |-> IF i \in moved THEN cycle ELSE tom_execute_cycle[i]]
    BY <1>8, ExecuteEffect
  <2>4. \A i \in moved : i \in Stationed /\ tom_execute_cycle[i] = 0
    BY <1>1, <2>3 DEF Held, ClassOf, Class, Stationed
  <2>5. \A i \in moved : i \notin startedSet /\ DF!OperandsAvailable(i)
    <3>1. ASSUME NEW i \in moved, NEW k \in 1..MAX_INPUT_REGS, NEW p \in Insn, Produces(p, i, k)
          PROVE  Retired(p)
      <4>1. Q[i][k] # p  BY <1>3, <2>3
      <4>2. QED  BY <1>1, <2>4, <3>1, <4>1 DEF TagsExact
    <3>2. \A i \in moved : i \notin startedSet  BY <2>4 DEF startedSet
    <3>3. DF!Insn = Insn /\ DF!MAX_INPUT_REGS = MAX_INPUT_REGS
      BY DEF DF!Insn, Insn, DF!MAX_INPUT_REGS, MAX_INPUT_REGS
    <3>4. \A p, i, k : DF!Produces(p, i, k) <=> Produces(p, i, k)
      BY DEF DF!Produces, Produces, DF!Writes, Writes, DF!Outputs, Outputs, DF!Insn, Insn,
             DF!MAX_OUTPUT_REGS, MAX_OUTPUT_REGS, DF!DNA, DNA
    <3>5. QED  BY <3>1, <3>2, <3>3, <3>4 DEF DF!OperandsAvailable
  <2>6. startedSet' = startedSet \cup moved
    <3>1. Insn' = Insn /\ cycle # 0  BY <1>1, <2>1, TraceKept DEF Types
    <3>2. QED  BY <2>3, <3>1 DEF startedSet
  <2>7. DF!Start
    <3>1. moved \in SUBSET DF!Insn  BY DEF DF!Insn, Insn
    <3>2. QED  BY <2>1, <2>2, <2>5, <2>6, <3>1 DEF DF!Start, startedSet, finishedSet
  <2>8. QED  BY <2>7 DEF DF!DataflowNext
<1>9. CASE dispatch_To_issue \/ fetch_To_dispatch \/ UNCHANGED vars
  <2>1. /\ trace' = trace /\ tom_execute_cycle' = tom_execute_cycle
        /\ tom_cdb_cycle' = tom_cdb_cycle /\ commonDataBus' = commonDataBus
    BY <1>9 DEF dispatch_To_issue, fetch_To_dispatch, vars, cycleVars
  <2>2. \A i \in Insn : Retired(i)' <=> Retired(i)  BY <2>1 DEF Retired
  <2>3. QED  BY <1>2, <1>4, <1>5, <2>1, <2>2
<1>10. QED  BY <1>6, <1>7, <1>8, <1>9 DEF Next

\* The pipeline is an implementation of the flow of values between the
\* instructions of the trace: whatever it reorders, no instruction starts
\* before its operands were broadcast.
THEOREM DataflowImplemented == Spec => ImplementsDataflow
<1>1. Init => DF!DataflowInit
  BY DEF Init, DF!DataflowInit, Retired
<1>2. QED  BY <1>1, Invariant, FlowStep, PTL DEF Spec, ImplementsDataflow, DF!DataflowSpec
=============================================================================
