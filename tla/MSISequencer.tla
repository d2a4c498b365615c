---------------------------- MODULE MSISequencer ----------------------------
(***************************************************************************)
(* The sequencer of each processor (mem/ruby/system/Sequencer.cc): it      *)
(* accepts loads and stores, at most one per line and MaxOutstanding in    *)
(* all, hands them to its cache controller through the mandatory queue and *)
(* is called back when they complete.  Instruction fetches behave as loads *)
(* do; LL/SC, locked and flush accesses are not modelled.                  *)
(*                                                                         *)
(* A store replaces a few bytes of a block and keeps the others, so what   *)
(* it leaves depends on the block it is merged into: Merge is the contents *)
(* of a block after one more store.  With Merge injective, a block agrees  *)
(* with lastWritten only if it reflects every store made to the line.      *)
(***************************************************************************)
EXTENDS MSINetwork

CONSTANTS
  Workload,        \* the <<cache, line, operation>> the processors may issue
  MaxOutstanding,  \* m_max_outstanding_requests
  Merge            \* the contents of a block after a store into it

ASSUME WorkloadAssumption ==
  /\ Workload \subseteq Cache \X Addr \X {"Load", "Store"}
  /\ MaxOutstanding \in Nat \ {0}
  /\ IsFiniteSet(Addr)
  /\ Merge \in [DataBlk -> Value]

VARIABLES
  requestTable,    \* m_readRequestTable and m_writeRequestTable, by line
  mandatoryQueue,  \* the lines whose request waits in the mandatory queue
  lastWritten      \* history: each line's contents with all completed stores

seqVars == <<requestTable, mandatoryQueue, lastWritten>>

SeqTypeOK ==
  /\ requestTable \in [Cache -> [Addr -> {"None", "Load", "Store"}]]
  /\ mandatoryQueue \in [Cache -> SUBSET Addr]
  /\ lastWritten \in [Addr -> Value]

SeqInit(initial) ==
  /\ requestTable = [c \in Cache |-> [a \in Addr |-> "None"]]
  /\ mandatoryQueue = [c \in Cache |-> {}]
  /\ lastWritten = initial

Outstanding(c) == {a \in Addr : requestTable[c][a] # "None"}

\* makeRequest: a full table (BufferFull) and a line with a request already
\* (Aliased) turn the access down, anything else is queued for the cache.
makeRequest(c, a, op) ==
  /\ <<c, a, op>> \in Workload
  /\ Cardinality(Outstanding(c)) < MaxOutstanding
  /\ requestTable[c][a] = "None"
  /\ requestTable' = [requestTable EXCEPT ![c][a] = op]
  /\ mandatoryQueue' = [mandatoryQueue EXCEPT ![c] = @ \cup {a}]
  /\ UNCHANGED lastWritten

\* The request for line a is the one the mandatory queue shows.
Queued(c, a, op) == a \in mandatoryQueue[c] /\ requestTable[c][a] = op

\* Mutant: the request stays in the mandatory queue.
popMandatoryQueue_Forgotten(c, a) == UNCHANGED mandatoryQueue

popMandatoryQueue(c, a) ==
  mandatoryQueue' = [mandatoryQueue EXCEPT ![c] = @ \ {a}]

readCallback(c, a) ==
  /\ requestTable' = [requestTable EXCEPT ![c][a] = "None"]
  /\ UNCHANGED lastWritten

writeCallback(c, a) ==
  /\ requestTable' = [requestTable EXCEPT ![c][a] = "None"]
  /\ lastWritten' = [lastWritten EXCEPT ![a] = Merge[@]]
=============================================================================
