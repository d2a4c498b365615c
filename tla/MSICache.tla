------------------------------ MODULE MSICache ------------------------------
(***************************************************************************)
(* The L1 cache controller (lab6/gem5/src/mem/protocol/MSI-cache.sm).  One *)
(* action per transition of the file, or per group of transitions that run *)
(* the same SLICC actions; the name in the comment is the file's.          *)
(*                                                                         *)
(* A line has a cache entry exactly when its state is not I and a TBE      *)
(* exactly when its state is transient, so neither is a variable: entryBlk *)
(* and tbeBlk hold None when there is no entry or TBE, or when its block   *)
(* has not been written yet.                                               *)
(***************************************************************************)
EXTENDS MSISequencer

CONSTANTS
  Assoc,     \* entries of the set that all the lines of Addr map to
  MaxDATA    \* bound on the DATA messages from one cache to one directory

ASSUME CacheAssumption == Assoc \in Nat \ {0} /\ MaxDATA \in Nat \ {0}

VARIABLES
  cacheState,    \* getState: TBEState, else CacheState, else I
  entryBlk,      \* Entry.DataBlk
  tbeBlk,        \* TBE.DataBlk
  pendingAcks    \* TBE.pendingAcks

cacheVars == <<cacheState, entryBlk, tbeBlk, pendingAcks>>

CacheStable == {"I", "S", "M"}

CacheTransient ==
  {"IS_D", "IM_AD", "IM_A", "SM_AD", "SM_A", "MI_A", "SI_A", "II_A"}

StoreMiss == {"IM_AD", "IM_A", "SM_AD", "SM_A"}

CacheTypeOK ==
  /\ cacheState \in [Cache -> [Addr -> CacheStable \cup CacheTransient]]
  /\ entryBlk \in [Cache -> [Addr -> DataBlk]]
  /\ tbeBlk \in [Cache -> [Addr -> DataBlk]]
  /\ pendingAcks \in [Cache -> [Addr -> Int]]

CacheInit ==
  /\ cacheState = [c \in Cache |-> [a \in Addr |-> "I"]]
  /\ entryBlk = [c \in Cache |-> [a \in Addr |-> None]]
  /\ tbeBlk = [c \in Cache |-> [a \in Addr |-> None]]
  /\ pendingAcks = [c \in Cache |-> [a \in Addr |-> 0]]

-----------------------------------------------------------------------------
(* Updates shared by the transitions.                                      *)

setCacheState(c, a, s) == cacheState' = [cacheState EXCEPT ![c][a] = s]

writeDataToCache(c, a, v) == entryBlk' = [entryBlk EXCEPT ![c][a] = v]

\* v_allocateTBE, with x_copyDataFromCacheToTBE when v is the entry's block.
allocateTBE(c, a, v) ==
  /\ tbeBlk' = [tbeBlk EXCEPT ![c][a] = v]
  /\ pendingAcks' = [pendingAcks EXCEPT ![c][a] = 0]

deallocateTBE(c, a) == allocateTBE(c, a, None)

sendRequest(c, a, type, v) ==
  requestNet' = Send(requestNet, c, DirOf[a], [type |-> type, addr |-> a, data |-> v])

sendResponse(net, c, dst, type, a, v, n) ==
  Send(net, c, dst, [type |-> type, addr |-> a, data |-> v, ackCount |-> n])

\* o_popForwardedRequestQueue
popForward(c, d) ==
  /\ forwardNet' = Pop(forwardNet, d, c)
  /\ forwardHead' = Release(forwardHead, c)

\* n_popResponseQueue
popResponse(c, n) == responseNet' = Pop(responseNet, n, c)

-----------------------------------------------------------------------------
(* mandatoryQueue_in.  A request that stalls stays queued: nothing but the *)
(* passage of time, so a stalled request is one that enables no action.    *)

Resident(c) == {a \in Addr : cacheState[c][a] # "I"}

\* The block has an entry or cacheMemory.cacheAvail finds room for one.
Fits(c, a) == cacheState[c][a] # "I" \/ Cardinality(Resident(c)) < Assoc

\* I, {Load, Ifetch} -> IS_D  and  I, Store -> IM_AD
Miss(c, a) ==
  /\ cacheState[c][a] = "I" /\ Fits(c, a)
  /\ \/ /\ Queued(c, a, "Load")
        /\ sendRequest(c, a, "GETS", None)
        /\ setCacheState(c, a, "IS_D")
     \/ /\ Queued(c, a, "Store")
        /\ sendRequest(c, a, "GETM", None)
        /\ setCacheState(c, a, "IM_AD")
  /\ allocateTBE(c, a, None)
  /\ popMandatoryQueue(c, a)
  /\ UNCHANGED <<entryBlk, requestTable, lastWritten,
                 forwardNet, responseNet, requestHead, forwardHead>>

\* {S, SM_AD, SM_A, M}, {Load, Ifetch}
LoadHit(c, a) ==
  /\ Queued(c, a, "Load") /\ cacheState[c][a] \in {"S", "SM_AD", "SM_A", "M"}
  /\ readCallback(c, a)
  /\ popMandatoryQueue(c, a)
  /\ UNCHANGED <<cacheVars, netVars>>

\* M, Store
StoreHit(c, a) ==
  /\ Queued(c, a, "Store") /\ cacheState[c][a] = "M"
  /\ writeCallback(c, a)
  /\ writeDataToCache(c, a, Merge[entryBlk[c][a]])
  /\ popMandatoryQueue(c, a)
  /\ UNCHANGED <<cacheState, tbeBlk, pendingAcks, netVars>>

\* S, Store -> SM_AD
Upgrade(c, a) ==
  /\ Queued(c, a, "Store") /\ cacheState[c][a] = "S"
  /\ sendRequest(c, a, "GETM", None)
  /\ allocateTBE(c, a, entryBlk[c][a])
  /\ setCacheState(c, a, "SM_AD")
  /\ popMandatoryQueue(c, a)
  /\ UNCHANGED <<entryBlk, requestTable, lastWritten,
                 forwardNet, responseNet, requestHead, forwardHead>>

\* S, Replacement -> SI_A  and  M, Replacement -> MI_A.  The victim that
\* cacheProbe returns is any line of the set: the replacement policy is a
\* parameter of CacheMemory.
Replacement(c, victim) ==
  /\ \E a \in mandatoryQueue[c] : ~Fits(c, a)
  /\ \/ /\ cacheState[c][victim] = "S"
        /\ sendRequest(c, victim, "PUTS", entryBlk[c][victim])
        /\ setCacheState(c, victim, "SI_A")
     \/ /\ cacheState[c][victim] = "M"
        /\ sendRequest(c, victim, "PUTM", entryBlk[c][victim])
        /\ setCacheState(c, victim, "MI_A")
  /\ allocateTBE(c, victim, entryBlk[c][victim])
  /\ UNCHANGED <<entryBlk, seqVars, forwardNet, responseNet, requestHead, forwardHead>>

-----------------------------------------------------------------------------
(* forwardRequestNetwork_in.                                               *)

Forwarded(c, d, type, states) ==
  /\ AtHead(forwardNet, forwardHead, d, c)
  /\ Head(forwardNet[d][c]).type = type
  /\ cacheState[c][Head(forwardNet[d][c]).addr] \in states

\* Mutants: the copy that an upgrade loses stays readable; the race of an
\* eviction, or of an upgrade, with an invalidation has no transition.
AfterInv_Kept == [I |-> "I", S |-> "I", SM_AD |-> "SM_AD", SI_A |-> "II_A"]
AfterInv_NoRace == [I |-> "I", S |-> "I", SM_AD |-> "IM_AD"]
AfterInv_NoUpgrade == [I |-> "I", S |-> "I", SI_A |-> "II_A"]

\* I, Inv;  S, Inv -> I;  SM_AD, Inv -> IM_AD;  SI_A, Inv -> II_A
AfterInv == [I |-> "I", S |-> "I", SM_AD |-> "IM_AD", SI_A |-> "II_A"]

\* Mutant: an upgrade does not give its copy up before it is served.
InvStalls_Upgrade == {"IS_D", "SM_AD"}

\* IS_D, Inv: z_stall
InvStalls == {"IS_D"}

Inv(c, d) ==
  LET m == Head(forwardNet[d][c]) IN
  /\ Forwarded(c, d, "INV", DOMAIN AfterInv \ InvStalls)
  /\ responseNet' = sendResponse(responseNet, c, m.requestor, "ACK", m.addr, None, 1)
  /\ setCacheState(c, m.addr, AfterInv[cacheState[c][m.addr]])
  /\ IF cacheState[c][m.addr] = "S"
       THEN writeDataToCache(c, m.addr, None)
       ELSE UNCHANGED entryBlk
  /\ popForward(c, d)
  /\ UNCHANGED <<tbeBlk, pendingAcks, seqVars, requestNet, requestHead>>

\* {MI_A, SI_A, II_A}, WB_Ack -> I  and  I, WB_Ack
WB_Ack(c, d) ==
  LET a == Head(forwardNet[d][c]).addr IN
  /\ Forwarded(c, d, "WB_ACK", {"I", "MI_A", "SI_A", "II_A"})
  /\ setCacheState(c, a, "I")
  /\ deallocateTBE(c, a)
  /\ writeDataToCache(c, a, None)
  /\ popForward(c, d)
  /\ UNCHANGED <<seqVars, requestNet, responseNet, requestHead>>

\* M, Fwd_GetS -> S  and  MI_A, Fwd_GetS -> SI_A: the block goes to the
\* requestor and to the directory, from the entry or from the TBE.
Fwd_GetS(c, d) ==
  LET m == Head(forwardNet[d][c])
      owned == cacheState[c][m.addr] = "M"
      v == IF owned THEN entryBlk[c][m.addr] ELSE tbeBlk[c][m.addr]
  IN
  /\ Forwarded(c, d, "GETS", {"M", "MI_A"})
  /\ Len(responseNet[c][DirOf[m.addr]]) < MaxDATA
  /\ responseNet' =
       sendResponse(sendResponse(responseNet, c, m.requestor, "DATA_FROM_OWNER", m.addr, v, 0),
                    c, DirOf[m.addr], "DATA", m.addr, v, 0)
  /\ setCacheState(c, m.addr, IF owned THEN "S" ELSE "SI_A")
  /\ popForward(c, d)
  /\ UNCHANGED <<entryBlk, tbeBlk, pendingAcks, seqVars, requestNet, requestHead>>

\* M, Fwd_GetM -> I  and  MI_A, Fwd_GetM -> II_A
Fwd_GetM(c, d) ==
  LET m == Head(forwardNet[d][c])
      owned == cacheState[c][m.addr] = "M"
      v == IF owned THEN entryBlk[c][m.addr] ELSE tbeBlk[c][m.addr]
  IN
  /\ Forwarded(c, d, "GETM", {"M", "MI_A"})
  /\ responseNet' =
       sendResponse(responseNet, c, m.requestor, "DATA_FROM_OWNER", m.addr, v, 0)
  /\ setCacheState(c, m.addr, IF owned THEN "I" ELSE "II_A")
  /\ IF owned THEN writeDataToCache(c, m.addr, None) ELSE UNCHANGED entryBlk
  /\ popForward(c, d)
  /\ UNCHANGED <<tbeBlk, pendingAcks, seqVars, requestNet, requestHead>>

\* {IM_AD, IM_A, SM_AD, SM_A}, {Fwd_GetS, Fwd_GetM}: z_stall, as for Inv above
ForwardStalls(c, d) ==
  \/ \E type \in {"GETS", "GETM"} : Forwarded(c, d, type, StoreMiss)
  \/ Forwarded(c, d, "INV", InvStalls)

ForwardStall(c, d) ==
  /\ ForwardStalls(c, d)
  /\ forwardHead[c] = None
  /\ forwardHead' = Hold(forwardHead, d, c)
  /\ UNCHANGED <<cacheVars, seqVars, requestNet, forwardNet, responseNet, requestHead>>

-----------------------------------------------------------------------------
(* responseNetwork_in.  No response ever stalls.                           *)

\* What the port makes of the acks that are left once the message is counted
\* in the TBE; there is no event when it follows a null TBE pointer.
CountedEvent(c, m, last, more) ==
  IF cacheState[c][m.addr] \notin CacheTransient THEN "NullTBE"
  ELSE IF pendingAcks[c][m.addr] - m.ackCount = 0 THEN last ELSE more

\* Mutant: data with a count of zero is counted too.
ResponseEvent_NoZero(c, m) ==
  CASE m.type = "DATA_FROM_DIR" ->
         CountedEvent(c, m, "Data_from_Dir_Ack_Cnt_Last", "Data_from_Dir_Ack_Cnt")
    [] m.type = "DATA_FROM_OWNER" -> "Data_from_Owner"
    [] m.type = "ACK" -> CountedEvent(c, m, "Inv_Ack_all", "Inv_Ack")
    [] OTHER -> "Unexpected"

\* The event that the port triggers.
ResponseEvent(c, m) ==
  CASE m.type = "DATA_FROM_DIR" ->
         IF m.ackCount = 0 THEN "Data_from_Dir_No_Acks"
         ELSE CountedEvent(c, m, "Data_from_Dir_Ack_Cnt_Last", "Data_from_Dir_Ack_Cnt")
    [] m.type = "DATA_FROM_OWNER" -> "Data_from_Owner"
    [] m.type = "ACK" -> CountedEvent(c, m, "Inv_Ack_all", "Inv_Ack")
    [] OTHER -> "Unexpected"

Responded(c, n, events, states) ==
  /\ responseNet[n][c] # <<>>
  /\ ResponseEvent(c, Head(responseNet[n][c])) \in events
  /\ cacheState[c][Head(responseNet[n][c]).addr] \in states

\* IS_D, {Data_from_Dir_No_Acks, Data_from_Owner} -> S
LoadData(c, n) ==
  LET m == Head(responseNet[n][c]) IN
  /\ Responded(c, n, {"Data_from_Dir_No_Acks", "Data_from_Owner"}, {"IS_D"})
  /\ writeDataToCache(c, m.addr, m.data)
  /\ readCallback(c, m.addr)
  /\ deallocateTBE(c, m.addr)
  /\ setCacheState(c, m.addr, "S")
  /\ popResponse(c, n)
  /\ UNCHANGED <<mandatoryQueue, requestNet, forwardNet, requestHead, forwardHead>>

\* {IM_AD, SM_AD}, {Data_from_Dir_No_Acks, Data_from_Owner,
\* Data_from_Dir_Ack_Cnt_Last} -> M  and  {IM_A, SM_A}, Inv_Ack_all -> M: the
\* store is merged into the block that arrives or that came with the ack count.
StoreDone(c, n) ==
  LET m == Head(responseNet[n][c])
      a == m.addr
  IN
  /\ \/ /\ Responded(c, n, {"Data_from_Dir_No_Acks", "Data_from_Owner",
                            "Data_from_Dir_Ack_Cnt_Last"}, {"IM_AD", "SM_AD"})
        /\ writeDataToCache(c, a, Merge[m.data])
     \/ /\ Responded(c, n, {"Inv_Ack_all"}, {"IM_A", "SM_A"})
        /\ writeDataToCache(c, a, Merge[entryBlk[c][a]])
  /\ writeCallback(c, a)
  /\ deallocateTBE(c, a)
  /\ setCacheState(c, a, "M")
  /\ popResponse(c, n)
  /\ UNCHANGED <<mandatoryQueue, requestNet, forwardNet, requestHead, forwardHead>>

\* Mutant: every message counts as one ack, the ack count with the data too.
updateAckCount_One(c, m) == pendingAcks' = [pendingAcks EXCEPT ![c][m.addr] = @ - 1]

\* q_updateAckCount
updateAckCount(c, m) ==
  pendingAcks' = [pendingAcks EXCEPT ![c][m.addr] = @ - m.ackCount]

\* IM_AD, Data_from_Dir_Ack_Cnt -> IM_A  and  SM_AD, Data_from_Dir_Ack_Cnt -> SM_A
StoreData(c, n) ==
  LET m == Head(responseNet[n][c]) IN
  /\ Responded(c, n, {"Data_from_Dir_Ack_Cnt"}, {"IM_AD", "SM_AD"})
  /\ writeDataToCache(c, m.addr, m.data)
  /\ updateAckCount(c, m)
  /\ setCacheState(c, m.addr, IF cacheState[c][m.addr] = "IM_AD" THEN "IM_A" ELSE "SM_A")
  /\ popResponse(c, n)
  /\ UNCHANGED <<tbeBlk, seqVars, requestNet, forwardNet, requestHead, forwardHead>>

\* {IM_AD, IM_A, SM_AD, SM_A}, Inv_Ack
Inv_Ack(c, n) ==
  /\ Responded(c, n, {"Inv_Ack"}, StoreMiss)
  /\ updateAckCount(c, Head(responseNet[n][c]))
  /\ popResponse(c, n)
  /\ UNCHANGED <<cacheState, entryBlk, tbeBlk, seqVars,
                 requestNet, forwardNet, requestHead, forwardHead>>

-----------------------------------------------------------------------------
(* The state and event have no transition: the generated controller calls  *)
(* fatal("Invalid transition") (slicc/symbols/StateMachine.py, line 1275). *)

ForwardTransitions ==
  ({"INV"} \X (DOMAIN AfterInv \cup InvStalls))
    \cup ({"WB_ACK"} \X {"I", "MI_A", "SI_A", "II_A"})
    \cup ({"GETS", "GETM"} \X ({"M", "MI_A"} \cup StoreMiss))

ResponseTransitions ==
  ({"Data_from_Dir_No_Acks", "Data_from_Owner"} \X {"IS_D", "IM_AD", "SM_AD"})
    \cup ({"Data_from_Dir_Ack_Cnt", "Data_from_Dir_Ack_Cnt_Last"} \X {"IM_AD", "SM_AD"})
    \cup ({"Inv_Ack"} \X StoreMiss)
    \cup ({"Inv_Ack_all"} \X {"IM_A", "SM_A"})

CacheInvalidTransition(c) ==
  /\ \/ \E d \in Dir : LET m == Head(forwardNet[d][c]) IN
          /\ AtHead(forwardNet, forwardHead, d, c)
          /\ <<m.type, cacheState[c][m.addr]>> \notin ForwardTransitions
     \/ \E n \in Node : LET m == Head(responseNet[n][c]) IN
          /\ responseNet[n][c] # <<>>
          /\ <<ResponseEvent(c, m), cacheState[c][m.addr]>> \notin ResponseTransitions
  /\ fault' = "CacheInvalidTransition"
  /\ UNCHANGED <<cacheVars, seqVars, netVars>>

MandatoryStep(c, a) ==
  Miss(c, a) \/ LoadHit(c, a) \/ StoreHit(c, a) \/ Upgrade(c, a)

ForwardStep(c, d) ==
  Inv(c, d) \/ WB_Ack(c, d) \/ Fwd_GetS(c, d) \/ Fwd_GetM(c, d) \/ ForwardStall(c, d)

ResponseStep(c, n) ==
  LoadData(c, n) \/ StoreData(c, n) \/ Inv_Ack(c, n) \/ StoreDone(c, n)
=============================================================================
