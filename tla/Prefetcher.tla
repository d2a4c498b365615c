----------------------------- MODULE Prefetcher -----------------------------
(***************************************************************************)
(* The prefetchers that lab 5 adds to src/lab5/cache.c: next-line, stride  *)
(* (a reference prediction table indexed by the program counter), and the  *)
(* open-ended one, a stride prefetcher that falls back on a queue of past  *)
(* misses.                                                                 *)
(*                                                                         *)
(* A program counter is the number of its instruction: the code drops the  *)
(* low bits that are always 0.  Sizes are powers of two, so that shifting  *)
(* and masking are division and remainder.                                 *)
(***************************************************************************)
EXTENDS Integers

CONSTANTS
  Program,             \* its accesses: <<instruction, "Read" or "Write", address>>
  ADDR_SPACE,          \* number of values of the unsigned type md_addr_t
  bsize,               \* size of a cache block
  Configurations,      \* pairs of a prefetch_type (0 none, 1 next-line, 2 open-ended,
                       \* > 2 stride) and a replacement policy
  RPT_DEFAULT_SIZE, MISS_QUEUE_MAX_SIZE

PC   == {access[1] : access \in Program}
Addr == {access[3] : access \in Program}

\* Neither the program nor an extrapolation of its strides touches the first
\* block of the address space, which holds no segment of a program: the code
\* takes the address 0 for "no block" and "no miss".
ASSUME LayoutAssumption ==
  /\ ADDR_SPACE \in Nat \ {0} /\ bsize \in Nat \ {0}
  /\ Addr \subseteq bsize..(ADDR_SPACE - 1)
  /\ \A a \in Addr : (a + bsize) % ADDR_SPACE >= bsize
  /\ \A a, b, c \in Addr : (a + (b - c)) % ADDR_SPACE >= bsize

ASSUME TableAssumption ==
  /\ Configurations \subseteq Nat \X {"LRU", "FIFO", "Random"}
  /\ RPT_DEFAULT_SIZE \in Nat \ {0} /\ MISS_QUEUE_MAX_SIZE \in Nat \ {0}

VARIABLES
  prefetch_type, policy,
  rpt,                 \* the reference prediction table, one record per entry
  miss_queue, miss_queue_head, miss_queue_size,
  prefetch_addr,       \* the address about to be prefetched, or 0
  latest,              \* history: the last two accesses of each table entry
  misses               \* history: the last MISS_QUEUE_MAX_SIZE misses

queueVars == <<miss_queue, miss_queue_head, miss_queue_size, misses>>
configVars == <<prefetch_type, policy>>
prefetcherVars == <<rpt, latest, queueVars>>

-----------------------------------------------------------------------------
(* The reference prediction table.                                         *)

rpt_size == IF prefetch_type = 2 THEN RPT_DEFAULT_SIZE ELSE prefetch_type

\* Only these types have a table.
RptIndex == IF prefetch_type >= 2 THEN 0..(rpt_size - 1) ELSE {}

index(pc) == pc % rpt_size
tag(pc)   == pc \div rpt_size

\* The instructions of a program have a nonzero tag in every table: programs
\* start far above address 0.
ASSUME ProgramAssumption ==
  /\ PC \subseteq Nat /\ Program \subseteq PC \X {"Read", "Write"} \X Addr
  /\ \A pc \in PC : pc \div RPT_DEFAULT_SIZE # 0
  /\ \A pc \in PC, c \in Configurations : c[1] > 2 => pc \div c[1] # 0

rpt_state_t == {"Initial", "Transient", "Steady", "NoPrediction"}

RptEntry == [tag : Nat, prev_addr : Nat, stride : Nat, is_negative : BOOLEAN,
             state : rpt_state_t]

get_next_rpt_state(state, condition) ==
  CASE state = "Initial"      -> IF condition THEN "Steady" ELSE "Transient"
    [] state = "Transient"    -> IF condition THEN "Steady" ELSE "NoPrediction"
    [] state = "Steady"       -> IF condition THEN "Steady" ELSE "Initial"
    [] state = "NoPrediction" -> IF condition THEN "Transient" ELSE "NoPrediction"

\* Mutant of NewEntry: the new owner inherits state and stride.
NewEntry_Inherits(e, t, addr) == [e EXCEPT !.tag = t, !.prev_addr = addr]

\* The instruction with tag t takes over an entry.
NewEntry(e, t, addr) ==
  [tag |-> t, prev_addr |-> addr, stride |-> 0, is_negative |-> FALSE, state |-> "Initial"]

\* The same instruction accesses addr after e.prev_addr.
NextEntry(e, addr) ==
  LET new_stride  == IF addr > e.prev_addr THEN addr - e.prev_addr ELSE e.prev_addr - addr
      is_negative == e.prev_addr > addr
      condition   == new_stride = e.stride /\ is_negative = e.is_negative
      next        == get_next_rpt_state(e.state, condition)
      update      == ~condition /\ next \in {"Transient", "NoPrediction"}
  IN  [tag         |-> e.tag,
       prev_addr   |-> addr,
       stride      |-> IF update THEN new_stride ELSE e.stride,
       is_negative |-> IF update THEN is_negative ELSE e.is_negative,
       state       |-> next]

\* The entry of pc after the access to addr.
UpdatedEntry(pc, addr) ==
  LET e == rpt[index(pc)]
  IN  IF e.tag = tag(pc) THEN NextEntry(e, addr) ELSE NewEntry(e, tag(pc), addr)

\* The address one stride after addr, as an unsigned number.
Extrapolated(e, addr) ==
  (addr + (IF e.is_negative THEN -e.stride ELSE e.stride)) % ADDR_SPACE

-----------------------------------------------------------------------------
(* The circular queue of misses.  The head is kept modulo the queue's      *)
(* size: the code increments it without bound and uses it only as part of  *)
(* the index of an insertion.                                              *)

QueueSlots == 0..(MISS_QUEUE_MAX_SIZE - 1)

\* The last entries of a history, newest first.
Recent(history, entry, n) == [k \in 1..n |-> IF k = 1 THEN entry ELSE history[k - 1]]

miss_queue_insert(addr) ==
  LET full == miss_queue_size = MISS_QUEUE_MAX_SIZE
      head == IF full THEN miss_queue_head + 1 ELSE miss_queue_head
      insert_index == (head + miss_queue_size) % MISS_QUEUE_MAX_SIZE
  IN  /\ miss_queue' = [miss_queue EXCEPT ![insert_index] = addr]
      /\ miss_queue_head' = head % MISS_QUEUE_MAX_SIZE
      /\ miss_queue_size' = IF full THEN miss_queue_size ELSE miss_queue_size + 1
      /\ misses' = Recent(misses, addr, MISS_QUEUE_MAX_SIZE)

\* The miss recorded after the first slot that holds addr is prefetched, if
\* there is one.
miss_queue_get_next_miss_addr(addr) ==
  \/ /\ \A i \in QueueSlots : miss_queue'[i] # addr
     /\ prefetch_addr' = 0
  \/ \E i \in QueueSlots :
       /\ miss_queue'[i] = addr /\ \A j \in QueueSlots : j < i => miss_queue'[j] # addr
       /\ prefetch_addr' = miss_queue'[(i + 1) % MISS_QUEUE_MAX_SIZE]

-----------------------------------------------------------------------------
(* What an access prefetches.                                              *)

next_line_prefetcher(addr) == prefetch_addr' = (addr + bsize) % ADDR_SPACE

stride_prefetcher(pc, addr) ==
  LET e == UpdatedEntry(pc, addr)
  IN  prefetch_addr' = IF rpt[index(pc)].tag = tag(pc) /\ e.state # "NoPrediction"
                       THEN Extrapolated(e, addr) ELSE 0

open_ended_prefetcher(pc, addr) ==
  LET e == UpdatedEntry(pc, addr)
  IN  IF rpt[index(pc)].tag = tag(pc) /\ e.state = "Steady"
      THEN prefetch_addr' = Extrapolated(e, addr)
      ELSE miss_queue_get_next_miss_addr(addr)

\* The prefetcher chooses what to prefetch and learns of the access.
generate_prefetch(pc, addr) ==
  /\ \/ prefetch_type = 0 /\ prefetch_addr' = 0
     \/ prefetch_type = 1 /\ next_line_prefetcher(addr)
     \/ prefetch_type = 2 /\ open_ended_prefetcher(pc, addr)
     \/ prefetch_type > 2 /\ stride_prefetcher(pc, addr)
  /\ IF prefetch_type >= 2
     THEN /\ rpt' = [rpt EXCEPT ![index(pc)] = UpdatedEntry(pc, addr)]
          /\ latest' = [latest EXCEPT ![index(pc)] =
                          Recent(@, [pc |-> pc, addr |-> addr], 2)]
     ELSE UNCHANGED <<rpt, latest>>

\* Allocated and zeroed by cache_create.
PrefetcherInit ==
  /\ \E c \in Configurations : prefetch_type = c[1] /\ policy = c[2]
  /\ rpt = [i \in RptIndex |-> [tag |-> 0, prev_addr |-> 0, stride |-> 0,
                                is_negative |-> FALSE, state |-> "Initial"]]
  /\ miss_queue = [i \in QueueSlots |-> 0]
  /\ miss_queue_head = 0
  /\ miss_queue_size = 0
  /\ prefetch_addr = 0
  /\ latest = [i \in RptIndex |-> [k \in 1..2 |-> [pc |-> 0, addr |-> 0]]]
  /\ misses = [k \in 1..MISS_QUEUE_MAX_SIZE |-> 0]

=============================================================================
