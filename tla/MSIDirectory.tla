---------------------------- MODULE MSIDirectory ----------------------------
(***************************************************************************)
(* The directory controller (lab6/gem5/src/mem/protocol/MSI-dir.sm) and    *)
(* the memory controller behind it, which hands every request back to the  *)
(* directory after a delay.  One action per transition of the file, or per *)
(* group of transitions that run the same SLICC actions.                   *)
(*                                                                         *)
(* The directory entry keeps the line's memory contents in DataBlk; a line *)
(* has a TBE exactly when its state is transient, and the TBE's block is   *)
(* never read.                                                             *)
(***************************************************************************)
EXTENDS MSINetwork

CONSTANT MaxWBAcks   \* bound on the write-back acks on their way to one cache

ASSUME MaxWBAcksAssumption == MaxWBAcks \in Nat \ {0}

VARIABLES
  dirState,   \* getState: TBEState, else DirectoryState
  owner,      \* Entry.Owner
  sharers,    \* Entry.Sharers
  dirBlk,     \* Entry.DataBlk
  memQueue    \* the requests inside memBuffer

dirVars == <<dirState, owner, sharers, dirBlk, memQueue>>

DirStable == {"I", "S", "M"}

DirTransient == {"IM_M", "IS_M", "MS_M", "MS_D", "MI_M"}

MemoryMsg ==
  [type: {"MEMORY_READ", "MEMORY_WB"}, addr: Addr, requestor: Cache, data: DataBlk]

DirTypeOK ==
  /\ dirState \in [Addr -> DirStable \cup DirTransient]
  /\ owner \in [Addr -> SUBSET Cache]
  /\ sharers \in [Addr -> SUBSET Cache]
  /\ dirBlk \in [Addr -> DataBlk]
  /\ memQueue \subseteq MemoryMsg

DirInit(initial) ==
  /\ dirState = [a \in Addr |-> "I"]
  /\ owner = [a \in Addr |-> {}]
  /\ sharers = [a \in Addr |-> {}]
  /\ dirBlk = initial
  /\ memQueue = {}

-----------------------------------------------------------------------------
(* Updates shared by the transitions.                                      *)

\* setState runs last, on the owner and sharers the transition leaves, and
\* asserts that M has one owner and no sharers and that I has neither.
setState(a, s, own, shr) ==
  /\ dirState' = [dirState EXCEPT ![a] = s]
  /\ owner' = [owner EXCEPT ![a] = own]
  /\ sharers' = [sharers EXCEPT ![a] = shr]
  /\ fault' = IF s = "M" /\ ~(Cardinality(own) = 1 /\ shr = {}) THEN "DirAssertM"
              ELSE IF s = "I" /\ ~(own = {} /\ shr = {}) THEN "DirAssertI"
              ELSE fault

\* cs_clearSharers, c_clearOwner, aos_addOwnertoSharers, ars2_addRequestorToSharers
\* and kk_removeRequestSharer: the set that the transition leaves in the entry.
\* Mutants: the owner stays; the old owner, or the requestor, is not recorded.
clearSharers(a) == {}

clearOwner_Forgotten(a) == owner[a]

clearOwner(a) == {}

addOwnertoSharers_Forgotten(a) == sharers[a]

addOwnertoSharers(a) == sharers[a] \cup owner[a]

addRequestorToSharers_Forgotten(a, c) == sharers[a]

addRequestorToSharers(a, c) == sharers[a] \cup {c}

removeRequestSharer(a, c) == sharers[a] \ {c}

\* Mutant: the block is not written.
writeDataToDirectory_Forgotten(a, v) == UNCHANGED dirBlk

writeDataToDirectory(a, v) == dirBlk' = [dirBlk EXCEPT ![a] = v]

\* Mutant: the answer will be sent to the directory itself.
queueMemory_ToSelf(a, type, c, v) ==
  memQueue' =
    memQueue \cup {[type |-> type, addr |-> a, requestor |-> DirOf[a], data |-> v]}

queueMemory(a, type, c, v) ==
  memQueue' = memQueue \cup {[type |-> type, addr |-> a, requestor |-> c, data |-> v]}

\* Mutant: the answer stays in the queue.
popMemQueue_Forgotten(m) == UNCHANGED memQueue

\* qm_popMemQueue
popMemQueue(m) == memQueue' = memQueue \ {m}

\* Mutant: the eviction is not acknowledged.
sendWriteBackAck_Forgotten(d, c, a) == UNCHANGED forwardNet

sendWriteBackAck(d, c, a) ==
  forwardNet' = Send(forwardNet, d, c, [type |-> "WB_ACK", addr |-> a, requestor |-> None])

sendData(d, c, a, v, n) ==
  responseNet' = Send(responseNet, d, c, [type |-> "DATA_FROM_DIR", addr |-> a,
                                          data |-> v, ackCount |-> n])

\* f_forwardRequest, to the owner
forward(d, dsts, type, a, c) ==
  forwardNet' = Multicast(forwardNet, d, dsts, [type |-> type, addr |-> a, requestor |-> c])

\* fwm_sendFwdInvToSharersMinusRequestor
invalidateSharers(d, a, c) == forward(d, sharers[a] \ {c}, "INV", a, c)

\* Mutant: the request stays at the head and is served again.
popRequest_Forgotten(d, c) == UNCHANGED <<requestNet, requestHead>>

\* i_popIncomingRequestQueue
popRequest(d, c) ==
  /\ requestNet' = Pop(requestNet, c, d)
  /\ requestHead' = Release(requestHead, d)

-----------------------------------------------------------------------------
(* requestQueue_in.                                                        *)

RequestEvent(c, m) ==
  CASE m.type = "PUTM" -> IF c \in owner[m.addr] THEN "PUTM_Owner" ELSE "PUTM_NotOwner"
    [] m.type = "PUTS" ->
         IF Cardinality(sharers[m.addr]) < 2 THEN "PUTS_Last" ELSE "PUTS_NotLast"
    [] OTHER -> m.type

Requested(d, c, events, states) ==
  /\ AtHead(requestNet, requestHead, c, d)
  /\ RequestEvent(c, Head(requestNet[c][d])) \in events
  /\ dirState[Head(requestNet[c][d]).addr] \in states

\* I, GETS -> IS_M
GETS_I(d, c) ==
  LET a == Head(requestNet[c][d]).addr IN
  /\ Requested(d, c, {"GETS"}, {"I"})
  /\ queueMemory(a, "MEMORY_READ", c, dirBlk[a])
  /\ popRequest(d, c)
  /\ setState(a, "IS_M", owner[a], addRequestorToSharers(a, c))
  /\ UNCHANGED <<dirBlk, forwardNet, responseNet, forwardHead>>

\* I, GETM -> IM_M
GETM_I(d, c) ==
  LET a == Head(requestNet[c][d]).addr IN
  /\ Requested(d, c, {"GETM"}, {"I"})
  /\ queueMemory(a, "MEMORY_READ", c, dirBlk[a])
  /\ popRequest(d, c)
  /\ setState(a, "IM_M", {c}, sharers[a])
  /\ UNCHANGED <<dirBlk, forwardNet, responseNet, forwardHead>>

\* S, GETS
GETS_S(d, c) ==
  LET a == Head(requestNet[c][d]).addr IN
  /\ Requested(d, c, {"GETS"}, {"S"})
  /\ sendData(d, c, a, dirBlk[a], 0)
  /\ popRequest(d, c)
  /\ setState(a, "S", owner[a], addRequestorToSharers(a, c))
  /\ UNCHANGED <<dirBlk, memQueue, forwardNet, forwardHead>>

\* Mutant: the requestor is counted even if it is one of the sharers.
AckCount_All(a, c) == 0 - Cardinality(sharers[a])

\* The count that ds2 and d send along with the data: minus the number of
\* sharers that the requestor must hear from.
AckCount(a, c) ==
  IF c \in sharers[a] THEN 1 - Cardinality(sharers[a]) ELSE 0 - Cardinality(sharers[a])

\* S, GETM -> M
GETM_S(d, c) ==
  LET a == Head(requestNet[c][d]).addr IN
  /\ Requested(d, c, {"GETM"}, {"S"})
  /\ sendData(d, c, a, dirBlk[a], AckCount(a, c))
  /\ invalidateSharers(d, a, c)
  /\ popRequest(d, c)
  /\ setState(a, "M", {c}, clearSharers(a))
  /\ UNCHANGED <<dirBlk, memQueue, forwardHead>>

\* M, GETS -> MS_D: the old owner and the requestor become the sharers.
GETS_M(d, c) ==
  LET a == Head(requestNet[c][d]).addr IN
  /\ Requested(d, c, {"GETS"}, {"M"})
  /\ forward(d, owner[a], "GETS", a, c)
  /\ popRequest(d, c)
  /\ setState(a, "MS_D", clearOwner(a), addRequestorToSharers(a, c) \cup addOwnertoSharers(a))
  /\ UNCHANGED <<dirBlk, memQueue, responseNet, forwardHead>>

\* M, GETM
GETM_M(d, c) ==
  LET a == Head(requestNet[c][d]).addr IN
  /\ Requested(d, c, {"GETM"}, {"M"})
  /\ forward(d, owner[a], "GETM", a, c)
  /\ popRequest(d, c)
  /\ setState(a, "M", {c}, sharers[a])
  /\ UNCHANGED <<dirBlk, memQueue, responseNet, forwardHead>>

\* {S, MS_D, MS_M}, PUTS_NotLast  and  S, PUTM_NotOwner
PutDropsSharer(d, c) ==
  LET a == Head(requestNet[c][d]).addr IN
  /\ \/ Requested(d, c, {"PUTS_NotLast"}, {"S", "MS_D", "MS_M"})
     \/ Requested(d, c, {"PUTM_NotOwner"}, {"S"})
  /\ sendWriteBackAck(d, c, a)
  /\ popRequest(d, c)
  /\ setState(a, dirState[a], owner[a], removeRequestSharer(a, c))
  /\ UNCHANGED <<dirBlk, memQueue, responseNet, forwardHead>>

\* S, PUTS_Last -> I
PUTS_Last_S(d, c) ==
  LET a == Head(requestNet[c][d]).addr IN
  /\ Requested(d, c, {"PUTS_Last"}, {"S"})
  /\ sendWriteBackAck(d, c, a)
  /\ popRequest(d, c)
  /\ setState(a, "I", owner[a], removeRequestSharer(a, c))
  /\ UNCHANGED <<dirBlk, memQueue, responseNet, forwardHead>>

\* I, PUTS_Last  and  {M, MI_M}, {PUTS_NotLast, PUTS_Last}
PUTS_Stale(d, c) ==
  LET a == Head(requestNet[c][d]).addr IN
  /\ \/ Requested(d, c, {"PUTS_Last"}, {"I"})
     \/ Requested(d, c, {"PUTS_Last", "PUTS_NotLast"}, {"M", "MI_M"})
  /\ sendWriteBackAck(d, c, a)
  /\ popRequest(d, c)
  /\ setState(a, dirState[a], owner[a], sharers[a])
  /\ UNCHANGED <<dirBlk, memQueue, responseNet, forwardHead>>

\* {MS_D, MS_M}, PUTS_Last: the transition does not pop the request, which is
\* processed again, with one more write-back ack each time, until the state
\* changes.
PUTS_Last_MS(d, c) ==
  LET a == Head(requestNet[c][d]).addr IN
  /\ Requested(d, c, {"PUTS_Last"}, {"MS_D", "MS_M"})
  /\ Len(forwardNet[d][c]) < MaxWBAcks
  /\ sendWriteBackAck(d, c, a)
  /\ requestHead' = Hold(requestHead, c, d)
  /\ setState(a, dirState[a], owner[a], removeRequestSharer(a, c))
  /\ UNCHANGED <<dirBlk, memQueue, requestNet, responseNet, forwardHead>>

\* M, PUTM_Owner -> MI_M
PUTM_Owner(d, c) ==
  LET m == Head(requestNet[c][d]) IN
  /\ Requested(d, c, {"PUTM_Owner"}, {"M"})
  /\ writeDataToDirectory(m.addr, m.data)
  /\ queueMemory(m.addr, "MEMORY_WB", c, m.data)
  /\ popRequest(d, c)
  /\ setState(m.addr, "MI_M", clearOwner(m.addr), sharers[m.addr])
  /\ UNCHANGED <<forwardNet, responseNet, forwardHead>>

\* {M, MI_M}, PUTM_NotOwner
PUTM_NotOwner(d, c) ==
  LET m == Head(requestNet[c][d]) IN
  /\ Requested(d, c, {"PUTM_NotOwner"}, {"M", "MI_M"})
  /\ writeDataToDirectory(m.addr, m.data)
  /\ sendWriteBackAck(d, c, m.addr)
  /\ popRequest(d, c)
  /\ setState(m.addr, dirState[m.addr], owner[m.addr], sharers[m.addr])
  /\ UNCHANGED <<memQueue, responseNet, forwardHead>>

\* MS_D, PUTM_NotOwner -> MS_M
PUTM_MS_D(d, c) ==
  LET m == Head(requestNet[c][d]) IN
  /\ Requested(d, c, {"PUTM_NotOwner"}, {"MS_D"})
  /\ writeDataToDirectory(m.addr, m.data)
  /\ queueMemory(m.addr, "MEMORY_WB", c, m.data)
  /\ sendWriteBackAck(d, c, m.addr)
  /\ popRequest(d, c)
  /\ setState(m.addr, "MS_M", owner[m.addr], sharers[m.addr])
  /\ UNCHANGED <<responseNet, forwardHead>>

\* MS_M, PUTM_NotOwner: popped, and never acknowledged.
PUTM_MS_M(d, c) ==
  LET a == Head(requestNet[c][d]).addr IN
  /\ Requested(d, c, {"PUTM_NotOwner"}, {"MS_M"})
  /\ popRequest(d, c)
  /\ setState(a, "MS_M", owner[a], sharers[a])
  /\ UNCHANGED <<dirBlk, memQueue, forwardNet, responseNet, forwardHead>>

\* {IS_M, IM_M, MS_D, MS_M, MI_M}, {GETM, GETS}: z_stall
RequestStalls(d, c) == Requested(d, c, {"GETS", "GETM"}, DirTransient)

RequestStall(d, c) ==
  /\ RequestStalls(d, c)
  /\ requestHead[d] = None
  /\ requestHead' = Hold(requestHead, c, d)
  /\ UNCHANGED <<dirVars, fault, requestNet, forwardNet, responseNet, forwardHead>>

-----------------------------------------------------------------------------
(* responseQueue_in: the block that an owner sends when it loses M to S.   *)

DataArrived(d, c, states) ==
  /\ responseNet[c][d] # <<>>
  /\ dirState[Head(responseNet[c][d]).addr] \in states

\* S, Data  and  M, Data
Data_Dropped(d, c) ==
  LET a == Head(responseNet[c][d]).addr IN
  /\ DataArrived(d, c, {"S", "M"})
  /\ responseNet' = Pop(responseNet, c, d)
  /\ setState(a, dirState[a], owner[a], sharers[a])
  /\ UNCHANGED <<dirBlk, memQueue, requestNet, forwardNet, requestHead, forwardHead>>

\* MS_D, Data -> MS_M
Data_MS_D(d, c) ==
  LET m == Head(responseNet[c][d]) IN
  /\ DataArrived(d, c, {"MS_D"})
  /\ queueMemory(m.addr, "MEMORY_WB", c, m.data)
  /\ writeDataToDirectory(m.addr, m.data)
  /\ responseNet' = Pop(responseNet, c, d)
  /\ setState(m.addr, "MS_M", owner[m.addr], sharers[m.addr])
  /\ UNCHANGED <<requestNet, forwardNet, requestHead, forwardHead>>

\* MS_M, Data
Data_MS_M(d, c) ==
  LET m == Head(responseNet[c][d]) IN
  /\ DataArrived(d, c, {"MS_M"})
  /\ writeDataToDirectory(m.addr, m.data)
  /\ responseNet' = Pop(responseNet, c, d)
  /\ setState(m.addr, "MS_M", owner[m.addr], sharers[m.addr])
  /\ UNCHANGED <<memQueue, requestNet, forwardNet, requestHead, forwardHead>>

-----------------------------------------------------------------------------
(* memQueue_in.                                                            *)

\* IS_M, Memory_Data -> S  and  IM_M, Memory_Data -> M
Memory_Data(d, m) ==
  /\ m.type = "MEMORY_READ" /\ DirOf[m.addr] = d
  /\ dirState[m.addr] \in {"IS_M", "IM_M"}
  /\ sendData(d, m.requestor, m.addr, m.data, 0)
  /\ popMemQueue(m)
  /\ setState(m.addr, IF dirState[m.addr] = "IS_M" THEN "S" ELSE "M",
              owner[m.addr], sharers[m.addr])
  /\ UNCHANGED <<dirBlk, requestNet, forwardNet, requestHead, forwardHead>>

\* MS_M, Memory_Ack -> S  and  MI_M, Memory_Ack -> I
Memory_Ack(d, m) ==
  /\ m.type = "MEMORY_WB" /\ DirOf[m.addr] = d
  /\ \/ /\ dirState[m.addr] = "MS_M"
        /\ UNCHANGED forwardNet
        /\ setState(m.addr, "S", owner[m.addr], sharers[m.addr])
     \/ /\ dirState[m.addr] = "MI_M"
        /\ sendWriteBackAck(d, m.requestor, m.addr)
        /\ setState(m.addr, "I", owner[m.addr], sharers[m.addr])
  /\ popMemQueue(m)
  /\ UNCHANGED <<dirBlk, requestNet, responseNet, requestHead, forwardHead>>

-----------------------------------------------------------------------------
(* The state and event have no transition: the generated controller calls  *)
(* fatal("Invalid transition") (slicc/symbols/StateMachine.py, line 1275). *)
(* Never for an answer from memory: see MemoryAwaited in MSI.              *)

RequestTransitions ==
  ({"GETS", "GETM"} \X (DirStable \cup DirTransient))
    \cup ({"PUTS_Last"} \X {"I", "S", "M", "MI_M", "MS_D", "MS_M"})
    \cup ({"PUTS_NotLast"} \X {"S", "M", "MI_M", "MS_D", "MS_M"})
    \cup ({"PUTM_Owner"} \X {"M"})
    \cup ({"PUTM_NotOwner"} \X {"S", "M", "MI_M", "MS_D", "MS_M"})

DirInvalidTransition(d) ==
  /\ \/ \E c \in Cache : LET m == Head(requestNet[c][d]) IN
          /\ AtHead(requestNet, requestHead, c, d)
          /\ <<RequestEvent(c, m), dirState[m.addr]>> \notin RequestTransitions
     \/ \E c \in Cache :
          DataArrived(d, c, (DirStable \cup DirTransient) \ {"S", "M", "MS_D", "MS_M"})
  /\ fault' = "DirInvalidTransition"
  /\ UNCHANGED <<dirVars, netVars>>

RequestStep(d, c) ==
  \/ GETS_I(d, c) \/ GETM_I(d, c) \/ GETS_S(d, c) \/ GETM_S(d, c)
  \/ GETS_M(d, c) \/ GETM_M(d, c)
  \/ PutDropsSharer(d, c) \/ PUTS_Last_S(d, c) \/ PUTS_Stale(d, c) \/ PUTS_Last_MS(d, c)
  \/ PUTM_Owner(d, c) \/ PUTM_NotOwner(d, c) \/ PUTM_MS_D(d, c) \/ PUTM_MS_M(d, c)
  \/ RequestStall(d, c)

DataStep(d, c) == Data_Dropped(d, c) \/ Data_MS_D(d, c) \/ Data_MS_M(d, c)

MemoryStep(d) == \E m \in memQueue : Memory_Data(d, m) \/ Memory_Ack(d, m)
=============================================================================
