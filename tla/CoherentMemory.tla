--------------------------- MODULE CoherentMemory ---------------------------
(***************************************************************************)
(* What the memory system promises to the processors: there is one memory, *)
(* every access happens at one instant between its issue and its           *)
(* completion, and it does complete.  No caches, no messages.              *)
(***************************************************************************)
CONSTANTS Cache, Addr, Value, None, Workload, Merge, InitialBlk

VARIABLES
  memory,    \* the contents of each line
  pending,   \* the access that each processor has outstanding for each line
  reply      \* what the last completed load returned

memVars == <<memory, pending, reply>>

AbsInit ==
  /\ memory = InitialBlk
  /\ pending = [c \in Cache |-> [a \in Addr |-> "None"]]
  /\ reply = None

Issue(c, a, op) ==
  /\ <<c, a, op>> \in Workload
  /\ pending[c][a] = "None"
  /\ pending' = [pending EXCEPT ![c][a] = op]
  /\ UNCHANGED <<memory, reply>>

Load(c, a) ==
  /\ pending[c][a] = "Load"
  /\ pending' = [pending EXCEPT ![c][a] = "None"]
  /\ reply' = [cache |-> c, addr |-> a, blk |-> memory[a]]
  /\ UNCHANGED memory

Store(c, a) ==
  /\ pending[c][a] = "Store"
  /\ pending' = [pending EXCEPT ![c][a] = "None"]
  /\ memory' = [memory EXCEPT ![a] = Merge[@]]
  /\ UNCHANGED reply

AbsNext ==
  \E c \in Cache, a \in Addr :
    (\E op \in {"Load", "Store"} : Issue(c, a, op)) \/ Load(c, a) \/ Store(c, a)

AbsSpec ==
  /\ AbsInit /\ [][AbsNext]_memVars
  /\ \A c \in Cache, a \in Addr : WF_memVars(Load(c, a)) /\ WF_memVars(Store(c, a))
=============================================================================
