----------------------------- MODULE MSI_proofs -----------------------------
(***************************************************************************)
(* Proofs about MSI, for any number of caches, directories, lines, values  *)
(* and any workload.                                                       *)
(***************************************************************************)
EXTENDS MSI, FiniteSetTheorems, SequenceTheorems, TLAPS

-----------------------------------------------------------------------------
(* The channels of the network.                                            *)

\* Sending keeps a channel typed, even if the destination is no node of it.
LEMMA SendType ==
  ASSUME NEW S, NEW D, NEW T, NEW net \in [S -> [D -> Seq(T)]],
         NEW src, NEW dst, NEW msg \in T
  PROVE  Send(net, src, dst, msg) \in [S -> [D -> Seq(T)]]
<1> DEFINE out == Send(net, src, dst, msg)
<1>1. ASSUME NEW s \in S PROVE out[s] \in [D -> Seq(T)]
  <2>1. \A d \in D : net[s][d] \in Seq(T) /\ Append(net[s][d], msg) \in Seq(T)
    BY AppendProperties
  <2>2. out[s] = IF s = src THEN [net[s] EXCEPT ![dst] = Append(@, msg)] ELSE net[s]
    BY DEF Send
  <2> QED BY <2>1, <2>2
<1>2. out = [s \in S |-> out[s]]
  BY DEF Send
<1> QED BY <1>1, <1>2

\* A multicast keeps the channels typed.
LEMMA MulticastType ==
  ASSUME NEW S, NEW D, NEW T, NEW net \in [S -> [D -> Seq(T)]],
         NEW src, NEW dsts, NEW msg \in T
  PROVE  Multicast(net, src, dsts, msg) \in [S -> [D -> Seq(T)]]
BY AppendProperties DEF Multicast

\* Taking the oldest message of a channel that has one keeps it typed.
LEMMA PopType ==
  ASSUME NEW S, NEW D, NEW T, NEW net \in [S -> [D -> Seq(T)]],
         NEW src \in S, NEW dst \in D, net[src][dst] # <<>>
  PROVE  /\ Pop(net, src, dst) \in [S -> [D -> Seq(T)]]
         /\ Head(net[src][dst]) \in T
BY HeadTailProperties DEF Pop

\* The number of sharers is a number: the caches are finitely many.
LEMMA SharersCount ==
  ASSUME TypeOK, NEW a \in Addr
  PROVE  Cardinality(sharers[a]) \in Nat
BY NodesAssumption, FS_Subset, FS_CardinalityType DEF TypeOK, DirTypeOK

-----------------------------------------------------------------------------
(* The updates that the transitions are made of.                           *)

\* What a request port finds at the head, and what popping it leaves.
LEMMA RequestPopped ==
  ASSUME TypeOK, NEW d \in Dir, NEW c \in Cache, AtHead(requestNet, requestHead, c, d)
  PROVE  /\ Head(requestNet[c][d]) \in RequestMsg
         /\ popRequest(d, c) =>
              /\ requestNet' \in [Cache -> [Dir -> Seq(RequestMsg)]]
              /\ requestHead' \in [Dir -> Cache \cup {None}]
<1>1. requestNet \in [Cache -> [Dir -> Seq(RequestMsg)]] /\ requestNet[c][d] # <<>>
  BY DEF TypeOK, NetTypeOK, AtHead
<1>2. /\ Pop(requestNet, c, d) \in [Cache -> [Dir -> Seq(RequestMsg)]]
      /\ Head(requestNet[c][d]) \in RequestMsg
  BY <1>1, PopType
<1> QED BY <1>2 DEF popRequest, Release, TypeOK, NetTypeOK

\* What the forward port of a cache finds at the head, and what popping leaves.
LEMMA ForwardPopped ==
  ASSUME TypeOK, NEW d \in Dir, NEW c \in Cache, AtHead(forwardNet, forwardHead, d, c)
  PROVE  /\ Head(forwardNet[d][c]) \in ForwardMsg
         /\ popForward(c, d) =>
              /\ forwardNet' \in [Dir -> [Cache -> Seq(ForwardMsg)]]
              /\ forwardHead' \in [Cache -> Dir \cup {None}]
<1>1. forwardNet \in [Dir -> [Cache -> Seq(ForwardMsg)]] /\ forwardNet[d][c] # <<>>
  BY DEF TypeOK, NetTypeOK, AtHead
<1>2. /\ Pop(forwardNet, d, c) \in [Dir -> [Cache -> Seq(ForwardMsg)]]
      /\ Head(forwardNet[d][c]) \in ForwardMsg
  BY <1>1, PopType
<1> QED BY <1>2 DEF popForward, Release, TypeOK, NetTypeOK

\* The same for the response ports, which never hold a message.
LEMMA ResponsePopped ==
  ASSUME TypeOK, NEW n \in Node, NEW q \in Node, responseNet[n][q] # <<>>
  PROVE  /\ Head(responseNet[n][q]) \in ResponseMsg
         /\ Pop(responseNet, n, q) \in [Node -> [Node -> Seq(ResponseMsg)]]
BY PopType DEF TypeOK, NetTypeOK

\* A cache's request to the directory of the line.
LEMMA RequestSent ==
  ASSUME TypeOK, NEW c \in Cache, NEW a \in Addr, NEW v \in DataBlk,
         NEW type \in {"GETS", "GETM", "PUTS", "PUTM"}, sendRequest(c, a, type, v)
  PROVE  requestNet' \in [Cache -> [Dir -> Seq(RequestMsg)]]
<1>1. [type |-> type, addr |-> a, data |-> v] \in RequestMsg
  BY DEF RequestMsg
<1>2. requestNet \in [Cache -> [Dir -> Seq(RequestMsg)]]
  BY DEF TypeOK, NetTypeOK
<1>3. Send(requestNet, c, DirOf[a], [type |-> type, addr |-> a, data |-> v])
        \in [Cache -> [Dir -> Seq(RequestMsg)]]
  BY <1>1, <1>2, SendType
<1> QED BY <1>3 DEF sendRequest

\* A cache's data or acknowledgement, to whomever the forward named.
LEMMA ResponseSent ==
  ASSUME NEW net \in [Node -> [Node -> Seq(ResponseMsg)]], NEW c, NEW dst,
         NEW type \in {"DATA_FROM_OWNER", "DATA", "ACK"},
         NEW a \in Addr, NEW v \in DataBlk, NEW n \in Int
  PROVE  sendResponse(net, c, dst, type, a, v, n) \in [Node -> [Node -> Seq(ResponseMsg)]]
<1> DEFINE msg == [type |-> type, addr |-> a, data |-> v, ackCount |-> n]
<1>1. msg \in ResponseMsg
  BY DEF ResponseMsg
<1> HIDE DEF msg
<1>2. Send(net, c, dst, msg) \in [Node -> [Node -> Seq(ResponseMsg)]]
  BY <1>1, SendType
<1> QED BY <1>2 DEF sendResponse, msg

\* The directory's data.
LEMMA DataSent ==
  ASSUME TypeOK, NEW d \in Dir, NEW c \in Cache, NEW a \in Addr, NEW v \in DataBlk,
         NEW n \in Int, sendData(d, c, a, v, n)
  PROVE  responseNet' \in [Node -> [Node -> Seq(ResponseMsg)]]
<1> DEFINE msg == [type |-> "DATA_FROM_DIR", addr |-> a, data |-> v, ackCount |-> n]
<1>1. msg \in ResponseMsg
  BY DEF ResponseMsg
<1> HIDE DEF msg
<1>2. responseNet \in [Node -> [Node -> Seq(ResponseMsg)]]
  BY DEF TypeOK, NetTypeOK
<1>3. Send(responseNet, d, c, msg) \in [Node -> [Node -> Seq(ResponseMsg)]]
  BY <1>1, <1>2, SendType
<1> QED BY <1>3 DEF sendData, msg

\* The directory's write-back acknowledgement.
LEMMA WriteBackAckSent ==
  ASSUME TypeOK, NEW d \in Dir, NEW c \in Cache, NEW a \in Addr, sendWriteBackAck(d, c, a)
  PROVE  forwardNet' \in [Dir -> [Cache -> Seq(ForwardMsg)]]
<1>1. [type |-> "WB_ACK", addr |-> a, requestor |-> None] \in ForwardMsg
  BY DEF ForwardMsg
<1>2. forwardNet \in [Dir -> [Cache -> Seq(ForwardMsg)]]
  BY DEF TypeOK, NetTypeOK
<1>3. Send(forwardNet, d, c, [type |-> "WB_ACK", addr |-> a, requestor |-> None])
        \in [Dir -> [Cache -> Seq(ForwardMsg)]]
  BY <1>1, <1>2, SendType
<1> QED BY <1>3 DEF sendWriteBackAck

\* The directory's forwarded requests and invalidations.
LEMMA ForwardSent ==
  ASSUME TypeOK, NEW d \in Dir, NEW c \in Cache, NEW a \in Addr, NEW dsts,
         NEW type \in {"GETS", "GETM", "INV"}, forward(d, dsts, type, a, c)
  PROVE  forwardNet' \in [Dir -> [Cache -> Seq(ForwardMsg)]]
<1>1. [type |-> type, addr |-> a, requestor |-> c] \in ForwardMsg
  BY DEF ForwardMsg
<1>2. forwardNet \in [Dir -> [Cache -> Seq(ForwardMsg)]]
  BY DEF TypeOK, NetTypeOK
<1>3. Multicast(forwardNet, d, dsts, [type |-> type, addr |-> a, requestor |-> c])
        \in [Dir -> [Cache -> Seq(ForwardMsg)]]
  BY <1>1, <1>2, MulticastType
<1> QED BY <1>3 DEF forward

\* The directory entry that a transition leaves.
LEMMA EntrySet ==
  ASSUME TypeOK, NEW a \in Addr, NEW s \in DirStable \cup DirTransient,
         NEW own \in SUBSET Cache, NEW shr \in SUBSET Cache, setState(a, s, own, shr)
  PROVE  /\ dirState' \in [Addr -> DirStable \cup DirTransient]
         /\ owner' \in [Addr -> SUBSET Cache]
         /\ sharers' \in [Addr -> SUBSET Cache]
         /\ fault' \in Fault
BY DEF setState, TypeOK, DirTypeOK, NetTypeOK, Fault

\* The count sent with the data is a number.
LEMMA AckCountType ==
  ASSUME TypeOK, NEW a \in Addr, NEW c
  PROVE  AckCount(a, c) \in Int
BY SharersCount DEF AckCount

\* A cache line's new state.
LEMMA CacheStateSet ==
  ASSUME TypeOK, NEW c, NEW a, NEW s \in CacheStable \cup CacheTransient,
         setCacheState(c, a, s)
  PROVE  cacheState' \in [Cache -> [Addr -> CacheStable \cup CacheTransient]]
BY DEF setCacheState, TypeOK, CacheTypeOK

\* A cache line's new block.
LEMMA EntryWritten ==
  ASSUME TypeOK, NEW c, NEW a, NEW v \in DataBlk, writeDataToCache(c, a, v)
  PROVE  entryBlk' \in [Cache -> [Addr -> DataBlk]]
BY DEF writeDataToCache, TypeOK, CacheTypeOK

\* A TBE allocated or deallocated.
LEMMA TBESet ==
  ASSUME TypeOK, NEW c \in Cache, NEW a \in Addr, NEW v \in DataBlk, allocateTBE(c, a, v)
  PROVE  /\ tbeBlk' \in [Cache -> [Addr -> DataBlk]]
         /\ pendingAcks' \in [Cache -> [Addr -> Int]]
<1>1. tbeBlk' \in [Cache -> [Addr -> DataBlk]]
  BY DEF allocateTBE, TypeOK, CacheTypeOK
<1>2. pendingAcks' \in [Cache -> [Addr -> Int]]
  <2>1. pendingAcks \in [Cache -> [Addr -> Int]] /\ 0 \in Int
    BY DEF TypeOK, CacheTypeOK
  <2>2. pendingAcks' = [pendingAcks EXCEPT ![c][a] = 0]
    BY DEF allocateTBE
  <2> QED BY <2>1, <2>2
<1> QED BY <1>1, <1>2

\* Acks counted.
LEMMA AcksCounted ==
  ASSUME TypeOK, NEW c \in Cache, NEW m \in ResponseMsg, updateAckCount(c, m)
  PROVE  pendingAcks' \in [Cache -> [Addr -> Int]]
<1>1. m.addr \in Addr /\ m.ackCount \in Int
  BY DEF ResponseMsg
<1>2. pendingAcks[c][m.addr] - m.ackCount \in Int
  BY <1>1 DEF TypeOK, CacheTypeOK
<1> QED BY <1>2 DEF updateAckCount, TypeOK, CacheTypeOK

\* A request completed, in the sequencer.
LEMMA CallbackType ==
  ASSUME TypeOK, NEW c, NEW a \in Addr, readCallback(c, a) \/ writeCallback(c, a)
  PROVE  /\ requestTable' \in [Cache -> [Addr -> {"None", "Load", "Store"}]]
         /\ lastWritten' \in [Addr -> Value]
<1>1. Merge[lastWritten[a]] \in Value
  BY WorkloadAssumption DEF TypeOK, SeqTypeOK, DataBlk
<1> QED BY <1>1 DEF readCallback, writeCallback, TypeOK, SeqTypeOK

\* What every step on the cache side needs.
LEMMA Constants ==
  /\ \A c \in Cache : c \in Node
  /\ \A d \in Dir : d \in Node
  /\ None \in DataBlk
  /\ \A v \in DataBlk : Merge[v] \in DataBlk
<1>1. Merge \in [DataBlk -> Value]
  BY WorkloadAssumption
<1>2. \A v \in DataBlk : Merge[v] \in Value
  BY <1>1
<1> QED BY <1>2 DEF Node, DataBlk

-----------------------------------------------------------------------------
(* Type correctness.                                                       *)

\* The initial state is well typed.
LEMMA InitType == Init => TypeOK
BY EmptySeq, InitialBlkAssumption
DEF Init, NetInit, SeqInit, CacheInit, DirInit, TypeOK, NetTypeOK, SeqTypeOK,
    CacheTypeOK, DirTypeOK, Fault, DataBlk, CacheStable, DirStable

\* A processor's access keeps the types.
LEMMA ProcessorRequestType ==
  ASSUME TypeOK, NEW c \in Cache, ProcessorRequest(c)
  PROVE  TypeOK'
BY DEF ProcessorRequest, makeRequest, TypeOK, NetTypeOK, SeqTypeOK, CacheTypeOK, DirTypeOK,
       netVars, cacheVars, dirVars

\* Every transition of the mandatory queue keeps the types.
LEMMA CacheMandatoryType ==
  ASSUME TypeOK, NEW c \in Cache, NEW a \in Addr, CacheMandatory(c, a)
  PROVE  TypeOK'
<1>0. None \in DataBlk /\ UNCHANGED <<dirVars, fault>>
  BY Constants DEF CacheMandatory
<1>q. popMandatoryQueue(c, a) => mandatoryQueue' \in [Cache -> SUBSET Addr]
  BY DEF popMandatoryQueue, TypeOK, SeqTypeOK
<1>b. entryBlk[c][a] \in DataBlk
  BY DEF TypeOK, CacheTypeOK
<1>1. CASE Miss(c, a)
  <2>1. requestNet' \in [Cache -> [Dir -> Seq(RequestMsg)]]
    <3>1. CASE sendRequest(c, a, "GETS", None)
      BY <1>0, <3>1, RequestSent
    <3>2. CASE sendRequest(c, a, "GETM", None)
      BY <1>0, <3>2, RequestSent
    <3> QED BY <1>1, <3>1, <3>2 DEF Miss
  <2>2. cacheState' \in [Cache -> [Addr -> CacheStable \cup CacheTransient]]
    <3>1. CASE setCacheState(c, a, "IS_D")
      BY <3>1, CacheStateSet DEF CacheTransient
    <3>2. CASE setCacheState(c, a, "IM_AD")
      BY <3>2, CacheStateSet DEF CacheTransient
    <3> QED BY <1>1, <3>1, <3>2 DEF Miss
  <2>3. /\ tbeBlk' \in [Cache -> [Addr -> DataBlk]]
        /\ pendingAcks' \in [Cache -> [Addr -> Int]]
    BY <1>0, <1>1, TBESet DEF Miss
  <2> QED BY <1>0, <1>q, <1>1, <2>1, <2>2, <2>3
          DEF Miss, TypeOK, NetTypeOK, SeqTypeOK, CacheTypeOK, DirTypeOK, dirVars
<1>2. CASE LoadHit(c, a)
  <2>1. requestTable' \in [Cache -> [Addr -> {"None", "Load", "Store"}]]
        /\ lastWritten' \in [Addr -> Value]
    BY <1>2, CallbackType DEF LoadHit
  <2> QED BY <1>0, <1>q, <1>2, <2>1
          DEF LoadHit, TypeOK, NetTypeOK, SeqTypeOK, CacheTypeOK, DirTypeOK, netVars, cacheVars,
              dirVars
<1>3. CASE StoreHit(c, a)
  <2>1. requestTable' \in [Cache -> [Addr -> {"None", "Load", "Store"}]]
        /\ lastWritten' \in [Addr -> Value]
    BY <1>3, CallbackType DEF StoreHit
  <2>2. entryBlk' \in [Cache -> [Addr -> DataBlk]]
    BY <1>b, <1>3, EntryWritten, Constants DEF StoreHit
  <2> QED BY <1>0, <1>q, <1>3, <2>1, <2>2
          DEF StoreHit, TypeOK, NetTypeOK, SeqTypeOK, CacheTypeOK, DirTypeOK, netVars, dirVars
<1>4. CASE Upgrade(c, a)
  <2>1. requestNet' \in [Cache -> [Dir -> Seq(RequestMsg)]]
    BY <1>0, <1>4, RequestSent DEF Upgrade
  <2>2. cacheState' \in [Cache -> [Addr -> CacheStable \cup CacheTransient]]
    BY <1>4, CacheStateSet DEF Upgrade, CacheTransient
  <2>3. /\ tbeBlk' \in [Cache -> [Addr -> DataBlk]]
        /\ pendingAcks' \in [Cache -> [Addr -> Int]]
    BY <1>b, <1>4, TBESet DEF Upgrade
  <2> QED BY <1>0, <1>q, <1>4, <2>1, <2>2, <2>3
          DEF Upgrade, TypeOK, NetTypeOK, SeqTypeOK, CacheTypeOK, DirTypeOK, dirVars
<1> QED BY <1>1, <1>2, <1>3, <1>4 DEF CacheMandatory, MandatoryStep

\* An eviction keeps the types.
LEMMA CacheReplacementType ==
  ASSUME TypeOK, NEW c \in Cache, CacheReplacement(c)
  PROVE  TypeOK'
<1>1. PICK a \in Addr : Replacement(c, a)
  BY DEF CacheReplacement
<1>2. entryBlk[c][a] \in DataBlk /\ UNCHANGED <<dirVars, fault>>
  BY DEF CacheReplacement, TypeOK, CacheTypeOK
<1>3. /\ requestNet' \in [Cache -> [Dir -> Seq(RequestMsg)]]
      /\ cacheState' \in [Cache -> [Addr -> CacheStable \cup CacheTransient]]
  <2>1. CASE sendRequest(c, a, "PUTS", entryBlk[c][a]) /\ setCacheState(c, a, "SI_A")
    BY <1>2, <2>1, RequestSent, CacheStateSet DEF CacheTransient
  <2>2. CASE sendRequest(c, a, "PUTM", entryBlk[c][a]) /\ setCacheState(c, a, "MI_A")
    BY <1>2, <2>2, RequestSent, CacheStateSet DEF CacheTransient
  <2> QED BY <1>1, <2>1, <2>2 DEF Replacement
<1>4. /\ tbeBlk' \in [Cache -> [Addr -> DataBlk]]
      /\ pendingAcks' \in [Cache -> [Addr -> Int]]
  BY <1>1, <1>2, TBESet DEF Replacement
<1> QED BY <1>1, <1>2, <1>3, <1>4
        DEF Replacement, TypeOK, NetTypeOK, SeqTypeOK, CacheTypeOK, DirTypeOK, seqVars, dirVars

\* Every transition of the forward port keeps the types.
LEMMA CacheForwardType ==
  ASSUME TypeOK, NEW c \in Cache, NEW d \in Dir, CacheForward(c, d)
  PROVE  TypeOK'
<1> DEFINE m == Head(forwardNet[d][c])
<1>0. UNCHANGED <<dirVars, fault>>
  BY DEF CacheForward
<1>1. None \in DataBlk /\ responseNet \in [Node -> [Node -> Seq(ResponseMsg)]]
  BY Constants DEF TypeOK, NetTypeOK
<1>k. 0 \in Int /\ 1 \in Int
  OBVIOUS
<1>2. ASSUME AtHead(forwardNet, forwardHead, d, c)
      PROVE  /\ m.addr \in Addr
             /\ popForward(c, d) =>
                  /\ forwardNet' \in [Dir -> [Cache -> Seq(ForwardMsg)]]
                  /\ forwardHead' \in [Cache -> Dir \cup {None}]
  BY <1>2, ForwardPopped DEF ForwardMsg
<1>3. CASE Inv(c, d)
  <2>1. /\ m.addr \in Addr
        /\ forwardNet' \in [Dir -> [Cache -> Seq(ForwardMsg)]]
        /\ forwardHead' \in [Cache -> Dir \cup {None}]
    BY <1>2, <1>3 DEF Inv, Forwarded
  <2>2. responseNet' \in [Node -> [Node -> Seq(ResponseMsg)]]
    <3>1. sendResponse(responseNet, c, m.requestor, "ACK", m.addr, None, 1)
            \in [Node -> [Node -> Seq(ResponseMsg)]]
      BY <1>1, <1>k, <2>1, ResponseSent, Zenon
    <3> QED BY <1>3, <3>1 DEF Inv
  <2>3. AfterInv[cacheState[c][m.addr]] \in CacheStable \cup CacheTransient
    <3>1. cacheState[c][m.addr] \in {"I", "S", "SM_AD", "SI_A"}
      BY <1>3 DEF Inv, Forwarded, AfterInv
    <3> QED BY <3>1 DEF AfterInv, CacheStable, CacheTransient
  <2>4. cacheState' \in [Cache -> [Addr -> CacheStable \cup CacheTransient]]
    BY <1>3, <2>3, CacheStateSet DEF Inv
  <2>5. entryBlk' \in [Cache -> [Addr -> DataBlk]]
    <3>1. writeDataToCache(c, m.addr, None) \/ UNCHANGED entryBlk
      BY <1>3 DEF Inv
    <3> QED BY <1>1, <3>1, EntryWritten DEF TypeOK, CacheTypeOK
  <2> QED BY <1>0, <1>3, <2>1, <2>2, <2>4, <2>5
          DEF Inv, TypeOK, NetTypeOK, SeqTypeOK, CacheTypeOK, DirTypeOK, seqVars, dirVars
<1>4. CASE WB_Ack(c, d)
  <2>1. /\ m.addr \in Addr
        /\ forwardNet' \in [Dir -> [Cache -> Seq(ForwardMsg)]]
        /\ forwardHead' \in [Cache -> Dir \cup {None}]
    BY <1>2, <1>4 DEF WB_Ack, Forwarded
  <2>2. cacheState' \in [Cache -> [Addr -> CacheStable \cup CacheTransient]]
    BY <1>4, CacheStateSet DEF WB_Ack, CacheStable
  <2>3. entryBlk' \in [Cache -> [Addr -> DataBlk]]
    BY <1>1, <1>4, EntryWritten DEF WB_Ack
  <2>4. /\ tbeBlk' \in [Cache -> [Addr -> DataBlk]]
        /\ pendingAcks' \in [Cache -> [Addr -> Int]]
    BY <1>1, <1>4, <2>1, TBESet DEF WB_Ack, deallocateTBE
  <2> QED BY <1>0, <1>4, <2>1, <2>2, <2>3, <2>4
          DEF WB_Ack, TypeOK, NetTypeOK, SeqTypeOK, CacheTypeOK, DirTypeOK, seqVars, dirVars
<1>5. CASE Fwd_GetS(c, d)
  <2> DEFINE v == IF cacheState[c][m.addr] = "M" THEN entryBlk[c][m.addr] ELSE tbeBlk[c][m.addr]
             net == sendResponse(responseNet, c, m.requestor, "DATA_FROM_OWNER", m.addr, v, 0)
  <2>1. /\ m.addr \in Addr
        /\ forwardNet' \in [Dir -> [Cache -> Seq(ForwardMsg)]]
        /\ forwardHead' \in [Cache -> Dir \cup {None}]
    BY <1>2, <1>5 DEF Fwd_GetS, Forwarded
  <2>2. v \in DataBlk
    BY <2>1 DEF TypeOK, CacheTypeOK
  <2>3. responseNet' = sendResponse(net, c, DirOf[m.addr], "DATA", m.addr, v, 0)
    BY <1>5 DEF Fwd_GetS
  <2> HIDE DEF v
  <2>4. net \in [Node -> [Node -> Seq(ResponseMsg)]]
    BY <1>1, <1>k, <2>1, <2>2, ResponseSent, Zenon
  <2> HIDE DEF net
  <2>5. responseNet' \in [Node -> [Node -> Seq(ResponseMsg)]]
    BY <1>k, <2>1, <2>2, <2>3, <2>4, ResponseSent, Zenon
  <2>6. cacheState' \in [Cache -> [Addr -> CacheStable \cup CacheTransient]]
    BY <1>5, CacheStateSet DEF Fwd_GetS, CacheStable, CacheTransient
  <2> QED BY <1>0, <1>5, <2>1, <2>5, <2>6
          DEF Fwd_GetS, TypeOK, NetTypeOK, SeqTypeOK, CacheTypeOK, DirTypeOK, seqVars, dirVars
<1>6. CASE Fwd_GetM(c, d)
  <2> DEFINE v == IF cacheState[c][m.addr] = "M" THEN entryBlk[c][m.addr] ELSE tbeBlk[c][m.addr]
  <2>1. /\ m.addr \in Addr
        /\ forwardNet' \in [Dir -> [Cache -> Seq(ForwardMsg)]]
        /\ forwardHead' \in [Cache -> Dir \cup {None}]
    BY <1>2, <1>6 DEF Fwd_GetM, Forwarded
  <2>2. v \in DataBlk
    BY <2>1 DEF TypeOK, CacheTypeOK
  <2>3. responseNet' = sendResponse(responseNet, c, m.requestor, "DATA_FROM_OWNER", m.addr, v, 0)
    BY <1>6 DEF Fwd_GetM
  <2> HIDE DEF v
  <2>4. responseNet' \in [Node -> [Node -> Seq(ResponseMsg)]]
    BY <1>1, <1>k, <2>1, <2>2, <2>3, ResponseSent, Zenon
  <2>5. cacheState' \in [Cache -> [Addr -> CacheStable \cup CacheTransient]]
    BY <1>6, CacheStateSet DEF Fwd_GetM, CacheStable, CacheTransient
  <2>6. entryBlk' \in [Cache -> [Addr -> DataBlk]]
    <3>1. writeDataToCache(c, m.addr, None) \/ UNCHANGED entryBlk
      BY <1>6 DEF Fwd_GetM
    <3> QED BY <1>1, <3>1, EntryWritten DEF TypeOK, CacheTypeOK
  <2> QED BY <1>0, <1>6, <2>1, <2>4, <2>5, <2>6
          DEF Fwd_GetM, TypeOK, NetTypeOK, SeqTypeOK, CacheTypeOK, DirTypeOK, seqVars, dirVars
<1>7. CASE ForwardStall(c, d)
  BY <1>0, <1>7 DEF ForwardStall, Hold, TypeOK, NetTypeOK, SeqTypeOK, CacheTypeOK, DirTypeOK,
                    cacheVars, seqVars, dirVars
<1> QED BY <1>3, <1>4, <1>5, <1>6, <1>7 DEF CacheForward, ForwardStep

\* Every transition of the response port keeps the types.
LEMMA CacheResponseType ==
  ASSUME TypeOK, NEW c \in Cache, NEW n \in Node, CacheResponse(c, n)
  PROVE  TypeOK'
<1> DEFINE m == Head(responseNet[n][c])
<1>0. UNCHANGED <<dirVars, fault>>
  BY DEF CacheResponse
<1>1. responseNet[n][c] # <<>> /\ c \in Node
  BY Constants
  DEF CacheResponse, ResponseStep, LoadData, StoreData, Inv_Ack, StoreDone, Responded
<1>2. m \in ResponseMsg /\ Pop(responseNet, n, c) \in [Node -> [Node -> Seq(ResponseMsg)]]
  BY <1>1, ResponsePopped
<1>3. m.addr \in Addr /\ m.data \in DataBlk /\ None \in DataBlk
  BY <1>2, Constants DEF ResponseMsg
<1>4. popResponse(c, n) => responseNet' \in [Node -> [Node -> Seq(ResponseMsg)]]
  BY <1>2 DEF popResponse
<1>5. Merge[m.data] \in DataBlk /\ Merge[entryBlk[c][m.addr]] \in DataBlk
  BY <1>3, Constants DEF TypeOK, CacheTypeOK
<1>6. deallocateTBE(c, m.addr) =>
        /\ tbeBlk' \in [Cache -> [Addr -> DataBlk]]
        /\ pendingAcks' \in [Cache -> [Addr -> Int]]
  BY <1>3, TBESet DEF deallocateTBE
<1> HIDE DEF m
<1>7. CASE LoadData(c, n)
  <2>1. /\ requestTable' \in [Cache -> [Addr -> {"None", "Load", "Store"}]]
        /\ lastWritten' \in [Addr -> Value]
    BY <1>3, <1>7, CallbackType DEF LoadData, m
  <2>2. entryBlk' \in [Cache -> [Addr -> DataBlk]]
    BY <1>3, <1>7, EntryWritten DEF LoadData, m
  <2>3. cacheState' \in [Cache -> [Addr -> CacheStable \cup CacheTransient]]
    BY <1>7, CacheStateSet DEF LoadData, CacheStable
  <2> QED BY <1>0, <1>4, <1>6, <1>7, <2>1, <2>2, <2>3
          DEF LoadData, m, TypeOK, NetTypeOK, SeqTypeOK, CacheTypeOK, DirTypeOK, dirVars
<1>8. CASE StoreDone(c, n)
  <2>1. /\ requestTable' \in [Cache -> [Addr -> {"None", "Load", "Store"}]]
        /\ lastWritten' \in [Addr -> Value]
    BY <1>3, <1>8, CallbackType DEF StoreDone, m
  <2>2. entryBlk' \in [Cache -> [Addr -> DataBlk]]
    <3>1. \/ writeDataToCache(c, m.addr, Merge[m.data])
          \/ writeDataToCache(c, m.addr, Merge[entryBlk[c][m.addr]])
      BY <1>8 DEF StoreDone, m
    <3> QED BY <1>5, <3>1, EntryWritten
  <2>3. cacheState' \in [Cache -> [Addr -> CacheStable \cup CacheTransient]]
    BY <1>8, CacheStateSet DEF StoreDone, CacheStable
  <2> QED BY <1>0, <1>4, <1>6, <1>8, <2>1, <2>2, <2>3
          DEF StoreDone, m, TypeOK, NetTypeOK, SeqTypeOK, CacheTypeOK, DirTypeOK, dirVars
<1>9. CASE StoreData(c, n)
  <2>1. pendingAcks' \in [Cache -> [Addr -> Int]]
    BY <1>2, <1>9, AcksCounted DEF StoreData, m
  <2>2. entryBlk' \in [Cache -> [Addr -> DataBlk]]
    BY <1>3, <1>9, EntryWritten DEF StoreData, m
  <2>3. cacheState' \in [Cache -> [Addr -> CacheStable \cup CacheTransient]]
    BY <1>9, CacheStateSet DEF StoreData, CacheTransient
  <2> QED BY <1>0, <1>4, <1>9, <2>1, <2>2, <2>3
          DEF StoreData, TypeOK, NetTypeOK, SeqTypeOK, CacheTypeOK, DirTypeOK, seqVars, dirVars
<1>10. CASE Inv_Ack(c, n)
  <2>1. pendingAcks' \in [Cache -> [Addr -> Int]]
    BY <1>2, <1>10, AcksCounted DEF Inv_Ack, m
  <2> QED BY <1>0, <1>4, <1>10, <2>1
          DEF Inv_Ack, TypeOK, NetTypeOK, SeqTypeOK, CacheTypeOK, DirTypeOK, seqVars, dirVars
<1> QED BY <1>7, <1>8, <1>9, <1>10 DEF CacheResponse, ResponseStep

\* A message without a transition only stops the simulation.
LEMMA FatalType ==
  ASSUME TypeOK, (\E c \in Cache : CacheFatal(c)) \/ (\E d \in Dir : DirFatal(d))
  PROVE  TypeOK'
<1>1. /\ UNCHANGED <<netVars, seqVars, cacheVars, dirVars>>
      /\ fault' \in {"CacheInvalidTransition", "DirInvalidTransition"}
  BY DEF CacheFatal, CacheInvalidTransition, DirFatal, DirInvalidTransition
<1> QED BY <1>1 DEF Fault, TypeOK, NetTypeOK, SeqTypeOK, CacheTypeOK, DirTypeOK,
                    netVars, seqVars, cacheVars, dirVars

\* What the transitions of the directory's three ports do to each variable.
\* a is the line, c the cache that sent the message or will get the answer.
LEMMA DirRequestEffects ==
  ASSUME TypeOK, NEW d \in Dir, NEW c \in Cache, RequestStep(d, c)
  PROVE  LET m == Head(requestNet[c][d])
             a == m.addr
         IN
         /\ AtHead(requestNet, requestHead, c, d)
         /\ popRequest(d, c) \/ (UNCHANGED requestNet /\ requestHead' = Hold(requestHead, c, d))
         /\ \/ UNCHANGED forwardNet
            \/ sendWriteBackAck(d, c, a)
            \/ forward(d, owner[a], "GETS", a, c)
            \/ forward(d, owner[a], "GETM", a, c)
            \/ forward(d, sharers[a] \ {c}, "INV", a, c)
         /\ \/ UNCHANGED responseNet
            \/ sendData(d, c, a, dirBlk[a], 0)
            \/ sendData(d, c, a, dirBlk[a], AckCount(a, c))
         /\ \/ UNCHANGED dirBlk
            \/ writeDataToDirectory(a, m.data)
         /\ \/ UNCHANGED memQueue
            \/ queueMemory(a, "MEMORY_READ", c, dirBlk[a])
            \/ queueMemory(a, "MEMORY_WB", c, m.data)
         /\ UNCHANGED forwardHead
<1> USE DEF Requested
<1>1. CASE GETS_I(d, c) \/ GETM_I(d, c)
  BY <1>1 DEF GETS_I, GETM_I
<1>2. CASE GETS_S(d, c) \/ GETM_S(d, c)
  BY <1>2 DEF GETS_S, GETM_S, invalidateSharers
<1>3. CASE GETS_M(d, c) \/ GETM_M(d, c)
  BY <1>3 DEF GETS_M, GETM_M
<1>4. CASE PutDropsSharer(d, c) \/ PUTS_Last_S(d, c)
  BY <1>4 DEF PutDropsSharer, PUTS_Last_S
<1>5. CASE PUTS_Stale(d, c) \/ PUTS_Last_MS(d, c)
  BY <1>5 DEF PUTS_Stale, PUTS_Last_MS
<1>6. CASE PUTM_Owner(d, c) \/ PUTM_NotOwner(d, c)
  BY <1>6 DEF PUTM_Owner, PUTM_NotOwner
<1>7. CASE PUTM_MS_D(d, c) \/ PUTM_MS_M(d, c)
  BY <1>7 DEF PUTM_MS_D, PUTM_MS_M
<1>8. CASE RequestStall(d, c)
  BY <1>8 DEF RequestStall, RequestStalls, dirVars
<1> QED BY <1>1, <1>2, <1>3, <1>4, <1>5, <1>6, <1>7, <1>8 DEF RequestStep

\* What a request does to the line's entry and to the memory queue: the
\* transitions of requestQueue_in without what they send.
EntryOnRequest(a, c, data) ==
  \/ /\ dirState[a] = "I"
     /\ setState(a, "IS_M", owner[a], sharers[a] \cup {c})
     /\ queueMemory(a, "MEMORY_READ", c, dirBlk[a])
  \/ /\ dirState[a] = "I"
     /\ setState(a, "IM_M", {c}, sharers[a])
     /\ queueMemory(a, "MEMORY_READ", c, dirBlk[a])
  \/ /\ dirState[a] = "S"
     /\ setState(a, "S", owner[a], sharers[a] \cup {c})
     /\ UNCHANGED memQueue
  \/ /\ dirState[a] = "S"
     /\ setState(a, "M", {c}, {})
     /\ UNCHANGED memQueue
  \/ /\ dirState[a] = "M"
     /\ setState(a, "MS_D", {}, (sharers[a] \cup {c}) \cup (sharers[a] \cup owner[a]))
     /\ UNCHANGED memQueue
  \/ /\ dirState[a] = "M"
     /\ setState(a, "M", {c}, sharers[a])
     /\ UNCHANGED memQueue
  \/ /\ dirState[a] \in {"S", "MS_D", "MS_M"}
     /\ setState(a, dirState[a], owner[a], sharers[a] \ {c})
     /\ UNCHANGED memQueue
  \/ /\ dirState[a] = "S"
     /\ setState(a, "I", owner[a], sharers[a] \ {c})
     /\ UNCHANGED memQueue
  \/ /\ setState(a, dirState[a], owner[a], sharers[a])
     /\ UNCHANGED memQueue
  \/ /\ dirState[a] = "M"
     /\ setState(a, "MI_M", {}, sharers[a])
     /\ queueMemory(a, "MEMORY_WB", c, data)
  \/ /\ dirState[a] = "MS_D"
     /\ setState(a, "MS_M", owner[a], sharers[a])
     /\ queueMemory(a, "MEMORY_WB", c, data)
  \/ UNCHANGED <<dirState, owner, sharers, fault, memQueue>>

\* Every request is one of these cases.
LEMMA RequestEntry ==
  ASSUME NEW d, NEW c, RequestStep(d, c)
  PROVE  LET m == Head(requestNet[c][d]) IN EntryOnRequest(m.addr, c, m.data)
<1> DEFINE a == Head(requestNet[c][d]).addr
           data == Head(requestNet[c][d]).data
<1> SUFFICES EntryOnRequest(a, c, data)
  OBVIOUS
<1>1. CASE GETS_I(d, c)
  BY <1>1 DEF GETS_I, Requested, EntryOnRequest, addRequestorToSharers
<1>2. CASE GETM_I(d, c)
  BY <1>2 DEF GETM_I, Requested, EntryOnRequest
<1>3. CASE GETS_S(d, c)
  BY <1>3 DEF GETS_S, Requested, EntryOnRequest, addRequestorToSharers
<1>4. CASE GETM_S(d, c)
  BY <1>4 DEF GETM_S, Requested, EntryOnRequest, clearSharers
<1>5. CASE GETS_M(d, c)
  BY <1>5 DEF GETS_M, Requested, EntryOnRequest, clearOwner, addRequestorToSharers,
              addOwnertoSharers
<1>6. CASE GETM_M(d, c)
  BY <1>6 DEF GETM_M, Requested, EntryOnRequest
<1>7. CASE PutDropsSharer(d, c)
  BY <1>7 DEF PutDropsSharer, Requested, EntryOnRequest, removeRequestSharer
<1>8. CASE PUTS_Last_S(d, c)
  BY <1>8 DEF PUTS_Last_S, Requested, EntryOnRequest, removeRequestSharer
<1>9. CASE PUTS_Stale(d, c)
  BY <1>9 DEF PUTS_Stale, EntryOnRequest
<1>10. CASE PUTS_Last_MS(d, c)
  BY <1>10 DEF PUTS_Last_MS, Requested, EntryOnRequest, removeRequestSharer
<1>11. CASE PUTM_Owner(d, c)
  BY <1>11 DEF PUTM_Owner, Requested, EntryOnRequest, clearOwner
<1>12. CASE PUTM_NotOwner(d, c)
  BY <1>12 DEF PUTM_NotOwner, EntryOnRequest
<1>13. CASE PUTM_MS_D(d, c)
  BY <1>13 DEF PUTM_MS_D, Requested, EntryOnRequest
<1>14. CASE PUTM_MS_M(d, c)
  <2>1. dirState[a] = "MS_M" /\ setState(a, "MS_M", owner[a], sharers[a]) /\ UNCHANGED memQueue
    BY <1>14 DEF PUTM_MS_M, Requested
  <2> QED BY <2>1 DEF EntryOnRequest
<1>15. CASE RequestStall(d, c)
  BY <1>15 DEF RequestStall, dirVars, EntryOnRequest
<1> QED BY <1>1, <1>2, <1>3, <1>4, <1>5, <1>6, <1>7, <1>8, <1>9, <1>10, <1>11, <1>12, <1>13,
           <1>14, <1>15 DEF RequestStep

\* A request for the memory controller is well formed.
LEMMA MemoryQueued ==
  ASSUME TypeOK, NEW a \in Addr, NEW c \in Cache, NEW v \in DataBlk,
         NEW type \in {"MEMORY_READ", "MEMORY_WB"}, queueMemory(a, type, c, v)
  PROVE  memQueue' \subseteq MemoryMsg
<1>1. [type |-> type, addr |-> a, requestor |-> c, data |-> v] \in MemoryMsg
  BY DEF MemoryMsg
<1> QED BY <1>1 DEF queueMemory, TypeOK, DirTypeOK

\* A request leaves a well-typed entry and memory queue.
LEMMA EntryOnRequestType ==
  ASSUME TypeOK, NEW a \in Addr, NEW c \in Cache, NEW data \in DataBlk,
         EntryOnRequest(a, c, data)
  PROVE  /\ dirState' \in [Addr -> DirStable \cup DirTransient]
         /\ owner' \in [Addr -> SUBSET Cache]
         /\ sharers' \in [Addr -> SUBSET Cache]
         /\ fault' \in Fault
         /\ memQueue' \subseteq MemoryMsg
<1> DEFINE States == DirStable \cup DirTransient
<1>1. /\ dirState[a] \in States
      /\ owner[a] \in SUBSET Cache
      /\ sharers[a] \in SUBSET Cache
      /\ dirBlk[a] \in DataBlk
  BY DEF TypeOK, DirTypeOK
<1>2. /\ "I" \in States /\ "S" \in States /\ "M" \in States /\ "IS_M" \in States
      /\ "IM_M" \in States /\ "MS_D" \in States /\ "MS_M" \in States /\ "MI_M" \in States
  BY DEF DirStable, DirTransient
<1>3. \E s \in States, own \in SUBSET Cache, shr \in SUBSET Cache :
        setState(a, s, own, shr) \/ UNCHANGED <<dirState, owner, sharers, fault>>
  <2>1. /\ {c} \in SUBSET Cache /\ {} \in SUBSET Cache
        /\ sharers[a] \cup {c} \in SUBSET Cache
        /\ sharers[a] \ {c} \in SUBSET Cache
        /\ (sharers[a] \cup {c}) \cup (sharers[a] \cup owner[a]) \in SUBSET Cache
    BY <1>1
  <2> HIDE DEF States
  <2> QED BY <1>1, <1>2, <2>1, Zenon DEF EntryOnRequest
<1>4. memQueue' \subseteq MemoryMsg
  <2>1. CASE UNCHANGED memQueue
    BY <2>1 DEF TypeOK, DirTypeOK
  <2>2. CASE queueMemory(a, "MEMORY_READ", c, dirBlk[a])
    BY <1>1, <2>2, MemoryQueued
  <2>3. CASE queueMemory(a, "MEMORY_WB", c, data)
    BY <2>3, MemoryQueued
  <2> QED BY <2>1, <2>2, <2>3, Zenon DEF EntryOnRequest
<1>5. PICK s \in States, own \in SUBSET Cache, shr \in SUBSET Cache :
        setState(a, s, own, shr) \/ UNCHANGED <<dirState, owner, sharers, fault>>
  BY <1>3
<1>6. CASE setState(a, s, own, shr)
  BY <1>4, <1>6, EntrySet
<1>7. CASE UNCHANGED <<dirState, owner, sharers, fault>>
  BY <1>4, <1>7 DEF TypeOK, DirTypeOK, NetTypeOK
<1> QED BY <1>5, <1>6, <1>7

\* Every transition of requestQueue_in keeps the types.
LEMMA DirRequestType ==
  ASSUME TypeOK, NEW d \in Dir, NEW c \in Cache, DirRequest(d, c)
  PROVE  TypeOK'
<1> DEFINE m == Head(requestNet[c][d])
           a == m.addr
<1>0. RequestStep(d, c) /\ UNCHANGED <<seqVars, cacheVars>>
  BY DEF DirRequest
<1>1. m \in RequestMsg
  BY <1>0, DirRequestEffects, RequestPopped
<1>2. a \in Addr /\ m.data \in DataBlk
  BY <1>1 DEF RequestMsg
<1>3. dirBlk[a] \in DataBlk /\ AckCount(a, c) \in Int /\ 0 \in Int
  BY <1>2, AckCountType DEF TypeOK, DirTypeOK
<1>4. /\ requestNet' \in [Cache -> [Dir -> Seq(RequestMsg)]]
      /\ requestHead' \in [Dir -> Cache \cup {None}]
  <2>1. CASE popRequest(d, c)
    BY <1>0, <2>1, DirRequestEffects, RequestPopped
  <2>2. CASE UNCHANGED requestNet /\ requestHead' = Hold(requestHead, c, d)
    BY <2>2 DEF Hold, TypeOK, NetTypeOK
  <2> QED BY <1>0, <2>1, <2>2, DirRequestEffects
<1>5. forwardNet' \in [Dir -> [Cache -> Seq(ForwardMsg)]]
  <2>1. CASE UNCHANGED forwardNet
    BY <2>1 DEF TypeOK, NetTypeOK
  <2>2. CASE sendWriteBackAck(d, c, a)
    BY <1>2, <2>2, WriteBackAckSent
  <2>3. CASE forward(d, owner[a], "GETS", a, c)
    BY <1>2, <2>3, ForwardSent
  <2>4. CASE forward(d, owner[a], "GETM", a, c)
    BY <1>2, <2>4, ForwardSent
  <2>5. CASE forward(d, sharers[a] \ {c}, "INV", a, c)
    BY <1>2, <2>5, ForwardSent
  <2> QED BY <1>0, <2>1, <2>2, <2>3, <2>4, <2>5, DirRequestEffects
<1>6. responseNet' \in [Node -> [Node -> Seq(ResponseMsg)]]
  <2>1. CASE UNCHANGED responseNet
    BY <2>1 DEF TypeOK, NetTypeOK
  <2>2. CASE sendData(d, c, a, dirBlk[a], 0)
    BY <1>2, <1>3, <2>2, DataSent
  <2>3. CASE sendData(d, c, a, dirBlk[a], AckCount(a, c))
    BY <1>2, <1>3, <2>3, DataSent
  <2> QED BY <1>0, <2>1, <2>2, <2>3, DirRequestEffects
<1>7. dirBlk' \in [Addr -> DataBlk] /\ forwardHead' = forwardHead
  <2>1. UNCHANGED dirBlk \/ writeDataToDirectory(a, m.data)
    BY <1>0, DirRequestEffects
  <2>2. forwardHead' = forwardHead
    BY <1>0, DirRequestEffects
  <2> QED BY <1>2, <2>1, <2>2 DEF writeDataToDirectory, TypeOK, DirTypeOK
<1>8. /\ dirState' \in [Addr -> DirStable \cup DirTransient]
      /\ owner' \in [Addr -> SUBSET Cache]
      /\ sharers' \in [Addr -> SUBSET Cache]
      /\ fault' \in Fault
      /\ memQueue' \subseteq MemoryMsg
  <2>1. EntryOnRequest(a, c, m.data)
    BY <1>0, RequestEntry
  <2> QED BY <1>2, <2>1, EntryOnRequestType
<1> QED BY <1>0, <1>4, <1>5, <1>6, <1>7, <1>8
        DEF TypeOK, NetTypeOK, SeqTypeOK, CacheTypeOK, DirTypeOK, seqVars, cacheVars

\* Every transition of responseQueue_in keeps the types.
LEMMA DirResponseType ==
  ASSUME TypeOK, NEW d \in Dir, NEW c \in Cache, DirResponse(d, c)
  PROVE  TypeOK'
<1> DEFINE m == Head(responseNet[c][d])
           a == m.addr
<1>0. DataStep(d, c) /\ UNCHANGED <<seqVars, cacheVars>>
  BY DEF DirResponse
<1>1. /\ responseNet[c][d] # <<>>
      /\ responseNet' = Pop(responseNet, c, d)
      /\ UNCHANGED <<requestNet, forwardNet, requestHead, forwardHead>>
      /\ UNCHANGED dirBlk \/ writeDataToDirectory(a, m.data)
      /\ UNCHANGED memQueue \/ queueMemory(a, "MEMORY_WB", c, m.data)
      /\ \E s \in {dirState[a], "MS_M"} : setState(a, s, owner[a], sharers[a])
  <2>1. CASE Data_Dropped(d, c)
    BY <2>1 DEF Data_Dropped, DataArrived
  <2>2. CASE Data_MS_D(d, c)
    BY <2>2 DEF Data_MS_D, DataArrived
  <2>3. CASE Data_MS_M(d, c)
    BY <2>3 DEF Data_MS_M, DataArrived
  <2> QED BY <1>0, <2>1, <2>2, <2>3 DEF DataStep
<1>2. m \in ResponseMsg /\ responseNet' \in [Node -> [Node -> Seq(ResponseMsg)]]
  BY <1>1, Constants, ResponsePopped
<1>3. a \in Addr /\ m.data \in DataBlk
  BY <1>2 DEF ResponseMsg
<1>4. dirBlk' \in [Addr -> DataBlk]
  BY <1>1, <1>3 DEF writeDataToDirectory, TypeOK, DirTypeOK
<1>5. memQueue' \subseteq MemoryMsg
  <2>1. CASE UNCHANGED memQueue
    BY <2>1 DEF TypeOK, DirTypeOK
  <2>2. CASE queueMemory(a, "MEMORY_WB", c, m.data)
    BY <1>3, <2>2, MemoryQueued
  <2> QED BY <1>1, <2>1, <2>2
<1>6. /\ dirState' \in [Addr -> DirStable \cup DirTransient]
      /\ owner' \in [Addr -> SUBSET Cache]
      /\ sharers' \in [Addr -> SUBSET Cache]
      /\ fault' \in Fault
  <2>1. PICK s \in {dirState[a], "MS_M"} : setState(a, s, owner[a], sharers[a])
    BY <1>1
  <2>2. /\ s \in DirStable \cup DirTransient
        /\ owner[a] \in SUBSET Cache /\ sharers[a] \in SUBSET Cache
    BY <1>3 DEF TypeOK, DirTypeOK, DirTransient
  <2> QED BY <1>3, <2>1, <2>2, EntrySet
<1> QED BY <1>0, <1>1, <1>2, <1>4, <1>5, <1>6
        DEF TypeOK, NetTypeOK, SeqTypeOK, CacheTypeOK, DirTypeOK, seqVars, cacheVars

\* Every answer from memory keeps the types.
LEMMA DirMemoryType ==
  ASSUME TypeOK, NEW d \in Dir, DirMemory(d)
  PROVE  TypeOK'
<1>0. UNCHANGED <<seqVars, cacheVars>>
  BY DEF DirMemory
<1>1. PICK m \in memQueue : Memory_Data(d, m) \/ Memory_Ack(d, m)
  BY DEF DirMemory, MemoryStep
<1> DEFINE a == m.addr
<1>2. a \in Addr /\ m.requestor \in Cache /\ m.data \in DataBlk /\ 0 \in Int
  BY DEF TypeOK, DirTypeOK, MemoryMsg
<1>3. /\ popMemQueue(m)
      /\ UNCHANGED <<dirBlk, requestNet, requestHead, forwardHead>>
      /\ UNCHANGED forwardNet \/ sendWriteBackAck(d, m.requestor, a)
      /\ UNCHANGED responseNet \/ sendData(d, m.requestor, a, m.data, 0)
      /\ \E s \in DirStable : setState(a, s, owner[a], sharers[a])
  <2>1. CASE Memory_Data(d, m)
    BY <2>1 DEF Memory_Data, DirStable
  <2>2. CASE Memory_Ack(d, m)
    BY <2>2 DEF Memory_Ack, DirStable
  <2> QED BY <1>1, <2>1, <2>2
<1>4. forwardNet' \in [Dir -> [Cache -> Seq(ForwardMsg)]]
  <2>1. CASE UNCHANGED forwardNet
    BY <2>1 DEF TypeOK, NetTypeOK
  <2>2. CASE sendWriteBackAck(d, m.requestor, a)
    BY <1>2, <2>2, WriteBackAckSent
  <2> QED BY <1>3, <2>1, <2>2
<1>5. responseNet' \in [Node -> [Node -> Seq(ResponseMsg)]]
  <2>1. CASE UNCHANGED responseNet
    BY <2>1 DEF TypeOK, NetTypeOK
  <2>2. CASE sendData(d, m.requestor, a, m.data, 0)
    BY <1>2, <2>2, DataSent
  <2> QED BY <1>3, <2>1, <2>2
<1>6. /\ dirState' \in [Addr -> DirStable \cup DirTransient]
      /\ owner' \in [Addr -> SUBSET Cache]
      /\ sharers' \in [Addr -> SUBSET Cache]
      /\ fault' \in Fault
  <2>1. PICK s \in DirStable : setState(a, s, owner[a], sharers[a])
    BY <1>3
  <2>2. /\ s \in DirStable \cup DirTransient
        /\ owner[a] \in SUBSET Cache /\ sharers[a] \in SUBSET Cache
    BY <1>2 DEF TypeOK, DirTypeOK
  <2> QED BY <1>2, <2>1, <2>2, EntrySet
<1>7. memQueue' \subseteq MemoryMsg
  BY <1>3 DEF popMemQueue, TypeOK, DirTypeOK
<1> QED BY <1>0, <1>3, <1>4, <1>5, <1>6, <1>7
        DEF TypeOK, NetTypeOK, SeqTypeOK, CacheTypeOK, DirTypeOK, seqVars, cacheVars

\* Every step keeps the types.
LEMMA NextType ==
  ASSUME TypeOK, [Next]_vars
  PROVE  TypeOK'
<1>1. CASE UNCHANGED vars
  BY <1>1 DEF vars, netVars, seqVars, cacheVars, dirVars,
              TypeOK, NetTypeOK, SeqTypeOK, CacheTypeOK, DirTypeOK
<1>2. ASSUME NEW c \in Cache, ProcessorRequest(c) PROVE TypeOK'
  BY <1>2, ProcessorRequestType
<1>3. ASSUME NEW c \in Cache, NEW a \in Addr, CacheMandatory(c, a) PROVE TypeOK'
  BY <1>3, CacheMandatoryType
<1>4. ASSUME NEW c \in Cache, CacheReplacement(c) PROVE TypeOK'
  BY <1>4, CacheReplacementType
<1>5. ASSUME NEW c \in Cache, NEW d \in Dir, CacheForward(c, d) PROVE TypeOK'
  BY <1>5, CacheForwardType
<1>6. ASSUME NEW c \in Cache, NEW n \in Node, CacheResponse(c, n) PROVE TypeOK'
  BY <1>6, CacheResponseType
<1>7. ASSUME NEW c \in Cache, CacheFatal(c) PROVE TypeOK'
  BY <1>7, FatalType
<1>8. ASSUME NEW d \in Dir, NEW c \in Cache, DirRequest(d, c) PROVE TypeOK'
  BY <1>8, DirRequestType
<1>9. ASSUME NEW d \in Dir, NEW c \in Cache, DirResponse(d, c) PROVE TypeOK'
  BY <1>9, DirResponseType
<1>10. ASSUME NEW d \in Dir, DirMemory(d) PROVE TypeOK'
  BY <1>10, DirMemoryType
<1>11. ASSUME NEW d \in Dir, DirFatal(d) PROVE TypeOK'
  BY <1>11, FatalType
<1> QED BY <1>1, <1>2, <1>3, <1>4, <1>5, <1>6, <1>7, <1>8, <1>9, <1>10, <1>11
        DEF Next, ControllerStep

\* Every variable keeps its type, whatever the number of caches, directories
\* and lines and whatever the processors do.
THEOREM TypeCorrect == Spec => []TypeOK
<1>1. Init => TypeOK
  BY InitType
<1>2. TypeOK /\ [Next]_vars => TypeOK'
  BY NextType
<1> QED BY <1>1, <1>2, PTL DEF Spec

-----------------------------------------------------------------------------
(* The directory's entries.                                                *)

\* setState(M) has not found a sharer, no owner or several owners.
NoAssertM == fault # "DirAssertM"

\* What DirectoryEntries asks of the entry a transition leaves, except that
\* a transition to I may leave a sharer: then setState's assertion fails.
EntryAllowed(s, own, shr) ==
  /\ s \in {"M", "IM_M"} => shr = {} /\ \E c \in Cache : own = {c}
  /\ s = "MI_M" => shr = {}
  /\ s \in {"I", "MI_M", "S", "IS_M", "MS_D", "MS_M"} => own = {}

\* Such an entry keeps the invariant, and setState does not stop on M.
LEMMA AllowedEntrySet ==
  ASSUME TypeOK, DirectoryEntries, Running, NEW a \in Addr, NEW s, NEW own, NEW shr,
         setState(a, s, own, shr), EntryAllowed(s, own, shr)
  PROVE  DirectoryEntries' /\ NoAssertM'
<1>1. s = "M" => Cardinality(own) = 1 /\ shr = {}
  BY FS_Singleton DEF EntryAllowed
<1>2. fault' # "DirAssertM"
  BY <1>1 DEF setState, Running
<1>3. CASE fault' = "DirAssertI"
  BY <1>2, <1>3 DEF DirectoryEntries, NoAssertM
<1>4. CASE fault' # "DirAssertI"
  <2>1. s = "I" => own = {} /\ shr = {}
    BY <1>4 DEF setState
  <2> SUFFICES ASSUME NEW b \in Addr
               PROVE  /\ dirState'[b] \in {"M", "IM_M"} =>
                           sharers'[b] = {} /\ \E c \in Cache : owner'[b] = {c}
                      /\ dirState'[b] \in {"I", "MI_M"} => sharers'[b] = {} /\ owner'[b] = {}
                      /\ dirState'[b] \in {"S", "IS_M", "MS_D", "MS_M"} => owner'[b] = {}
    BY <1>2 DEF DirectoryEntries, NoAssertM
  <2>2. CASE b = a
    <3>1. dirState'[b] = s /\ owner'[b] = own /\ sharers'[b] = shr
      BY <2>2 DEF setState, TypeOK, DirTypeOK
    <3> QED BY <2>1, <3>1 DEF EntryAllowed
  <2>3. CASE b # a
    <3>1. dirState'[b] = dirState[b] /\ owner'[b] = owner[b] /\ sharers'[b] = sharers[b]
      BY <2>3 DEF setState, TypeOK, DirTypeOK
    <3>2. fault # "DirAssertI"
      BY DEF Running
    <3> QED BY <3>1, <3>2 DEF DirectoryEntries
  <2> QED BY <2>2, <2>3
<1> QED BY <1>3, <1>4

\* The entry the invariant finds is one a transition may leave.
LEMMA EntryFound ==
  ASSUME DirectoryEntries, Running, NEW a \in Addr
  PROVE  EntryAllowed(dirState[a], owner[a], sharers[a])
BY DEF DirectoryEntries, Running, EntryAllowed

\* A request keeps the entries as they must be.
LEMMA EntryOnRequestKept ==
  ASSUME TypeOK, DirectoryEntries, Running, NoAssertM,
         NEW a \in Addr, NEW c \in Cache, NEW data, EntryOnRequest(a, c, data)
  PROVE  DirectoryEntries' /\ NoAssertM'
<1>1. EntryAllowed(dirState[a], owner[a], sharers[a])
  BY EntryFound
<1>2. dirState[a] = "I" => sharers[a] = {}
  BY DEF DirectoryEntries, Running
<1>3. CASE \E s, own, shr : setState(a, s, own, shr) /\ EntryAllowed(s, own, shr)
  BY <1>3, AllowedEntrySet
<1>4. CASE UNCHANGED <<dirState, owner, sharers, fault>>
  BY <1>4 DEF DirectoryEntries, NoAssertM
<1>5. /\ dirState[a] = "I" => /\ EntryAllowed("IS_M", owner[a], sharers[a] \cup {c})
                              /\ EntryAllowed("IM_M", {c}, sharers[a])
      /\ dirState[a] = "S" => /\ EntryAllowed("S", owner[a], sharers[a] \cup {c})
                              /\ EntryAllowed("M", {c}, {})
                              /\ EntryAllowed("I", owner[a], sharers[a] \ {c})
      /\ dirState[a] = "M" =>
           /\ EntryAllowed("MS_D", {}, (sharers[a] \cup {c}) \cup (sharers[a] \cup owner[a]))
           /\ EntryAllowed("M", {c}, sharers[a])
           /\ EntryAllowed("MI_M", {}, sharers[a])
      /\ dirState[a] = "MS_D" => EntryAllowed("MS_M", owner[a], sharers[a])
      /\ dirState[a] \in {"S", "MS_D", "MS_M"} =>
           EntryAllowed(dirState[a], owner[a], sharers[a] \ {c})
  BY <1>1, <1>2 DEF EntryAllowed
<1> QED BY <1>1, <1>3, <1>4, <1>5, Zenon DEF EntryOnRequest

\* What a step means to the directory: a request, the old owner's block, an
\* answer from memory, or nothing.
DirectoryUntouched ==
  /\ UNCHANGED dirVars
  /\ \/ UNCHANGED fault
     \/ Running /\ fault' \in {"CacheInvalidTransition", "DirInvalidTransition"}

\* Every step is one of these.
LEMMA DirectoryCases ==
  ASSUME [Next]_vars
  PROVE  \/ DirectoryUntouched
         \/ \E d \in Dir, c \in Cache : DirRequest(d, c)
         \/ \E d \in Dir, c \in Cache : DirResponse(d, c)
         \/ \E d \in Dir : DirMemory(d)
<1>1. CASE UNCHANGED vars
  BY <1>1 DEF vars, DirectoryUntouched
<1>2. ASSUME NEW c \in Cache, ProcessorRequest(c) PROVE DirectoryUntouched
  BY <1>2 DEF ProcessorRequest, DirectoryUntouched
<1>3. ASSUME NEW c \in Cache, NEW a \in Addr, CacheMandatory(c, a) PROVE DirectoryUntouched
  BY <1>3 DEF CacheMandatory, DirectoryUntouched
<1>4. ASSUME NEW c \in Cache, CacheReplacement(c) PROVE DirectoryUntouched
  BY <1>4 DEF CacheReplacement, DirectoryUntouched
<1>5. ASSUME NEW c \in Cache, NEW d \in Dir, CacheForward(c, d) PROVE DirectoryUntouched
  BY <1>5 DEF CacheForward, DirectoryUntouched
<1>6. ASSUME NEW c \in Cache, NEW n \in Node, CacheResponse(c, n) PROVE DirectoryUntouched
  BY <1>6 DEF CacheResponse, DirectoryUntouched
<1>7. ASSUME NEW c \in Cache, CacheFatal(c) PROVE DirectoryUntouched
  BY <1>7 DEF CacheFatal, CacheInvalidTransition, DirectoryUntouched
<1>8. ASSUME NEW d \in Dir, DirFatal(d) PROVE DirectoryUntouched
  BY <1>8 DEF DirFatal, DirInvalidTransition, DirectoryUntouched
<1> QED BY <1>1, <1>2, <1>3, <1>4, <1>5, <1>6, <1>7, <1>8 DEF Next, ControllerStep

\* A request, as the entry and the memory queue see it.
LEMMA RequestCase ==
  ASSUME TypeOK, NEW d \in Dir, NEW c \in Cache, DirRequest(d, c)
  PROVE  /\ Running
         /\ \E a \in Addr, data \in DataBlk : EntryOnRequest(a, c, data)
<1> DEFINE m == Head(requestNet[c][d])
<1>1. RequestStep(d, c) /\ Running
  BY DEF DirRequest
<1>2. m \in RequestMsg
  BY <1>1, DirRequestEffects, RequestPopped
<1>3. m.addr \in Addr /\ m.data \in DataBlk
  BY <1>2 DEF RequestMsg
<1>4. EntryOnRequest(m.addr, c, m.data)
  BY <1>1, RequestEntry
<1> QED BY <1>1, <1>3, <1>4

\* The old owner's block, as the entry and the memory queue see it.
LEMMA ResponseCase ==
  ASSUME TypeOK, NEW d \in Dir, NEW c \in Cache, DirResponse(d, c)
  PROVE  /\ Running
         /\ \E a \in Addr, data \in DataBlk :
              \/ /\ setState(a, dirState[a], owner[a], sharers[a])
                 /\ UNCHANGED memQueue
              \/ /\ dirState[a] = "MS_D"
                 /\ setState(a, "MS_M", owner[a], sharers[a])
                 /\ queueMemory(a, "MEMORY_WB", c, data)
<1> DEFINE m == Head(responseNet[c][d])
           a == m.addr
<1>1. DataStep(d, c) /\ Running
  BY DEF DirResponse
<1>2. responseNet[c][d] # <<>>
  BY <1>1 DEF DataStep, Data_Dropped, Data_MS_D, Data_MS_M, DataArrived
<1>3. m \in ResponseMsg
  BY <1>2, Constants, ResponsePopped
<1>4. a \in Addr /\ m.data \in DataBlk
  BY <1>3 DEF ResponseMsg
<1>5. \/ /\ setState(a, dirState[a], owner[a], sharers[a])
         /\ UNCHANGED memQueue
      \/ /\ dirState[a] = "MS_D"
         /\ setState(a, "MS_M", owner[a], sharers[a])
         /\ queueMemory(a, "MEMORY_WB", c, m.data)
  <2>1. CASE Data_Dropped(d, c)
    BY <2>1 DEF Data_Dropped
  <2>2. CASE Data_MS_D(d, c)
    BY <2>2 DEF Data_MS_D, DataArrived
  <2>3. CASE Data_MS_M(d, c)
    <3>1. dirState[a] = "MS_M" /\ setState(a, "MS_M", owner[a], sharers[a])
          /\ UNCHANGED memQueue
      BY <2>3 DEF Data_MS_M, DataArrived
    <3> QED BY <3>1
  <2> QED BY <1>1, <2>1, <2>2, <2>3 DEF DataStep
<1> QED BY <1>1, <1>4, <1>5

\* An answer from memory, as the entry and the memory queue see it.
LEMMA MemoryCase ==
  ASSUME TypeOK, NEW d \in Dir, DirMemory(d)
  PROVE  /\ Running
         /\ \E m \in memQueue :
              /\ m.addr \in Addr
              /\ popMemQueue(m)
              /\ \/ /\ dirState[m.addr] \in {"IS_M", "MS_M"}
                    /\ setState(m.addr, "S", owner[m.addr], sharers[m.addr])
                 \/ /\ dirState[m.addr] = "IM_M"
                    /\ setState(m.addr, "M", owner[m.addr], sharers[m.addr])
                 \/ /\ dirState[m.addr] = "MI_M"
                    /\ setState(m.addr, "I", owner[m.addr], sharers[m.addr])
<1>1. Running /\ \E m \in memQueue : Memory_Data(d, m) \/ Memory_Ack(d, m)
  BY DEF DirMemory, MemoryStep
<1>2. ASSUME NEW m \in memQueue PROVE m.addr \in Addr
  BY DEF TypeOK, DirTypeOK, MemoryMsg
<1>3. ASSUME NEW m \in memQueue, Memory_Data(d, m)
      PROVE  /\ popMemQueue(m)
             /\ \/ /\ dirState[m.addr] = "IS_M"
                   /\ setState(m.addr, "S", owner[m.addr], sharers[m.addr])
                \/ /\ dirState[m.addr] = "IM_M"
                   /\ setState(m.addr, "M", owner[m.addr], sharers[m.addr])
  <2>1. CASE dirState[m.addr] = "IS_M"
    BY <1>3, <2>1 DEF Memory_Data
  <2>2. CASE dirState[m.addr] = "IM_M"
    BY <1>3, <2>2 DEF Memory_Data
  <2> QED BY <1>3, <2>1, <2>2 DEF Memory_Data
<1>4. ASSUME NEW m \in memQueue, Memory_Ack(d, m)
      PROVE  /\ popMemQueue(m)
             /\ \/ /\ dirState[m.addr] = "MS_M"
                   /\ setState(m.addr, "S", owner[m.addr], sharers[m.addr])
                \/ /\ dirState[m.addr] = "MI_M"
                   /\ setState(m.addr, "I", owner[m.addr], sharers[m.addr])
  BY <1>4 DEF Memory_Ack
<1> QED BY <1>1, <1>2, <1>3, <1>4

\* The inductive invariant: the entries, and no failed assertion on M.
EntriesInv == TypeOK /\ DirectoryEntries /\ NoAssertM

\* Every step keeps it: only the directory's three ports touch an entry.
LEMMA EntriesStep ==
  ASSUME EntriesInv, [Next]_vars
  PROVE  EntriesInv'
<1>1. TypeOK /\ DirectoryEntries /\ NoAssertM /\ TypeOK'
  BY NextType DEF EntriesInv
<1>2. CASE DirectoryUntouched
  <2>1. /\ UNCHANGED <<dirState, owner, sharers>>
        /\ fault' # "DirAssertM"
        /\ fault' # "DirAssertI" => fault # "DirAssertI"
    BY <1>1, <1>2 DEF DirectoryUntouched, dirVars, NoAssertM, Running
  <2>2. DirectoryEntries'
    BY <1>1, <2>1 DEF DirectoryEntries
  <2> QED BY <1>1, <2>1, <2>2 DEF EntriesInv, NoAssertM
<1>3. ASSUME NEW d \in Dir, NEW c \in Cache, DirRequest(d, c)
      PROVE  DirectoryEntries' /\ NoAssertM'
  <2>1. PICK a \in Addr, data \in DataBlk : EntryOnRequest(a, c, data)
    BY <1>1, <1>3, RequestCase
  <2>2. Running
    BY <1>1, <1>3, RequestCase
  <2> QED BY <1>1, <2>1, <2>2, EntryOnRequestKept
<1>4. ASSUME NEW d \in Dir, NEW c \in Cache, DirResponse(d, c)
      PROVE  DirectoryEntries' /\ NoAssertM'
  <2>1. Running
    BY <1>1, <1>4, ResponseCase
  <2>2. PICK a \in Addr : \/ setState(a, dirState[a], owner[a], sharers[a])
                          \/ /\ dirState[a] = "MS_D"
                             /\ setState(a, "MS_M", owner[a], sharers[a])
    BY <1>1, <1>4, ResponseCase, Zenon
  <2>3. EntryAllowed(dirState[a], owner[a], sharers[a])
    BY <1>1, <2>1, EntryFound
  <2>4. dirState[a] = "MS_D" => EntryAllowed("MS_M", owner[a], sharers[a])
    BY <2>3 DEF EntryAllowed
  <2> QED BY <1>1, <2>1, <2>2, <2>3, <2>4, AllowedEntrySet
<1>5. ASSUME NEW d \in Dir, DirMemory(d)
      PROVE  DirectoryEntries' /\ NoAssertM'
  <2>1. Running
    BY <1>1, <1>5, MemoryCase
  <2>2. PICK m \in memQueue :
          /\ m.addr \in Addr
          /\ \/ /\ dirState[m.addr] \in {"IS_M", "MS_M"}
                /\ setState(m.addr, "S", owner[m.addr], sharers[m.addr])
             \/ /\ dirState[m.addr] = "IM_M"
                /\ setState(m.addr, "M", owner[m.addr], sharers[m.addr])
             \/ /\ dirState[m.addr] = "MI_M"
                /\ setState(m.addr, "I", owner[m.addr], sharers[m.addr])
    BY <1>1, <1>5, MemoryCase, Zenon
  <2>3. EntryAllowed(dirState[m.addr], owner[m.addr], sharers[m.addr])
    BY <1>1, <2>1, <2>2, EntryFound
  <2>4. /\ dirState[m.addr] \in {"IS_M", "MS_M"} =>
             EntryAllowed("S", owner[m.addr], sharers[m.addr])
        /\ dirState[m.addr] = "IM_M" => EntryAllowed("M", owner[m.addr], sharers[m.addr])
        /\ dirState[m.addr] = "MI_M" => EntryAllowed("I", owner[m.addr], sharers[m.addr])
    BY <2>3 DEF EntryAllowed
  <2> QED BY <1>1, <2>1, <2>2, <2>4, AllowedEntrySet
<1> QED BY <1>1, <1>2, <1>3, <1>4, <1>5, DirectoryCases DEF EntriesInv

\* The directory's entry agrees with its state at all times, unless the
\* assertion on I has failed.
THEOREM EntriesCorrect == Spec => []DirectoryEntries
<1>1. Init => EntriesInv
  BY InitType DEF Init, NetInit, DirInit, EntriesInv, DirectoryEntries, NoAssertM
<1>2. EntriesInv /\ [Next]_vars => EntriesInv'
  BY EntriesStep
<1>3. EntriesInv => DirectoryEntries
  BY DEF EntriesInv
<1> QED BY <1>1, <1>2, <1>3, PTL DEF Spec

\* The assertions that setState makes when it enters M never fail.  The absence
\* of faults rests on it (NeverStops).
LEMMA NeverAssertM == Spec => []NoAssertM
<1>1. Init => EntriesInv
  BY InitType DEF Init, NetInit, DirInit, EntriesInv, DirectoryEntries, NoAssertM
<1>2. EntriesInv /\ [Next]_vars => EntriesInv'
  BY EntriesStep
<1>3. EntriesInv => NoAssertM
  BY DEF EntriesInv
<1> QED BY <1>1, <1>2, <1>3, PTL DEF Spec

-----------------------------------------------------------------------------
(* The memory controller.                                                  *)

\* The states in which the directory waits for memory.
Waiting == {"IS_M", "IM_M", "MS_M", "MI_M"}

\* A line that memory owes no answer may change its state.
LEMMA AwaitedSame ==
  ASSUME TypeOK, MemoryAwaited, NEW a \in Addr, NEW s, UNCHANGED memQueue,
         dirState' = [dirState EXCEPT ![a] = s], s = dirState[a] \/ dirState[a] \notin Waiting
  PROVE  MemoryAwaited'
<1>1. ASSUME NEW m \in memQueue PROVE dirState'[m.addr] = dirState[m.addr]
  <2>1. m.addr \in Addr
    BY DEF TypeOK, DirTypeOK, MemoryMsg
  <2>2. dirState[m.addr] \in Waiting
    BY DEF MemoryAwaited, Waiting
  <2> QED BY <2>1, <2>2 DEF TypeOK, DirTypeOK
<1> QED BY <1>1 DEF MemoryAwaited

\* A line that memory owes no answer may ask it for one.
LEMMA AwaitedQueued ==
  ASSUME TypeOK, MemoryAwaited, NEW a \in Addr, NEW s, NEW type, NEW c, NEW v,
         queueMemory(a, type, c, v), dirState' = [dirState EXCEPT ![a] = s],
         dirState[a] \notin Waiting,
         \/ type = "MEMORY_READ" /\ s \in {"IS_M", "IM_M"}
         \/ type = "MEMORY_WB" /\ s \in {"MS_M", "MI_M"}
  PROVE  MemoryAwaited'
<1> DEFINE new == [type |-> type, addr |-> a, requestor |-> c, data |-> v]
<1>1. new.type = type /\ new.addr = a /\ memQueue' = memQueue \cup {new}
  BY DEF queueMemory
<1>2. dirState'[a] = s
  BY DEF TypeOK, DirTypeOK
<1>3. ASSUME NEW m \in memQueue PROVE m.addr # a /\ dirState'[m.addr] = dirState[m.addr]
  <2>1. m.addr \in Addr
    BY DEF TypeOK, DirTypeOK, MemoryMsg
  <2>2. dirState[m.addr] \in Waiting
    BY DEF MemoryAwaited, Waiting
  <2> QED BY <2>1, <2>2 DEF TypeOK, DirTypeOK
<1> HIDE DEF new
<1>4. ASSUME NEW m \in memQueue'
      PROVE  IF m.type = "MEMORY_READ" THEN dirState'[m.addr] \in {"IS_M", "IM_M"}
                                       ELSE dirState'[m.addr] \in {"MS_M", "MI_M"}
  <2>1. CASE m \in memQueue
    BY <1>3, <2>1 DEF MemoryAwaited
  <2>2. CASE m = new
    BY <1>1, <1>2, <2>2
  <2> QED BY <1>1, <2>1, <2>2
<1>5. ASSUME NEW m1 \in memQueue', NEW m2 \in memQueue', m1.addr = m2.addr PROVE m1 = m2
  BY <1>1, <1>3, <1>5 DEF MemoryAwaited
<1> QED BY <1>4, <1>5 DEF MemoryAwaited

\* An answer takes the only message of its line away.
LEMMA AwaitedAnswered ==
  ASSUME TypeOK, MemoryAwaited, NEW m \in memQueue, NEW s,
         popMemQueue(m), dirState' = [dirState EXCEPT ![m.addr] = s]
  PROVE  MemoryAwaited'
<1>1. ASSUME NEW n \in memQueue'
      PROVE  n \in memQueue /\ dirState'[n.addr] = dirState[n.addr]
  <2>1. n \in memQueue /\ n # m
    BY DEF popMemQueue
  <2>2. n.addr # m.addr /\ n.addr \in Addr
    BY <2>1 DEF MemoryAwaited, TypeOK, DirTypeOK, MemoryMsg
  <2> QED BY <2>1, <2>2 DEF TypeOK, DirTypeOK
<1> QED BY <1>1 DEF MemoryAwaited

\* The inductive invariant.
MemoryInv == TypeOK /\ MemoryAwaited

\* Every step keeps it.
LEMMA MemoryInvStep ==
  ASSUME MemoryInv, [Next]_vars
  PROVE  MemoryInv'
<1>1. TypeOK /\ MemoryAwaited /\ TypeOK'
  BY NextType DEF MemoryInv
<1>2. CASE DirectoryUntouched
  BY <1>1, <1>2 DEF DirectoryUntouched, dirVars, MemoryInv, MemoryAwaited
<1>w. "I" \notin Waiting /\ "S" \notin Waiting /\ "M" \notin Waiting /\ "MS_D" \notin Waiting
  BY DEF Waiting
<1>3. ASSUME NEW d \in Dir, NEW c \in Cache, DirRequest(d, c)
      PROVE  MemoryAwaited'
  <2>1. PICK a \in Addr, data \in DataBlk : EntryOnRequest(a, c, data)
    BY <1>1, <1>3, RequestCase
  <2>2. CASE UNCHANGED <<dirState, owner, sharers, fault, memQueue>>
    BY <1>1, <2>2 DEF MemoryAwaited
  <2>3. ASSUME NEW s, NEW own, NEW shr, setState(a, s, own, shr), UNCHANGED memQueue,
               s = dirState[a] \/ dirState[a] \notin Waiting
        PROVE  MemoryAwaited'
    BY <1>1, <2>3, AwaitedSame DEF setState
  <2>4. ASSUME NEW s \in {"IS_M", "IM_M"}, NEW own, NEW shr, setState(a, s, own, shr),
               queueMemory(a, "MEMORY_READ", c, dirBlk[a]), dirState[a] \notin Waiting
        PROVE  MemoryAwaited'
    BY <1>1, <2>4, AwaitedQueued DEF setState
  <2>5. ASSUME NEW s \in {"MS_M", "MI_M"}, NEW own, NEW shr, setState(a, s, own, shr),
               queueMemory(a, "MEMORY_WB", c, data), dirState[a] \notin Waiting
        PROVE  MemoryAwaited'
    BY <1>1, <2>5, AwaitedQueued DEF setState
  <2>6. /\ "IS_M" \in {"IS_M", "IM_M"} /\ "IM_M" \in {"IS_M", "IM_M"}
        /\ "MS_M" \in {"MS_M", "MI_M"} /\ "MI_M" \in {"MS_M", "MI_M"}
    OBVIOUS
  <2> QED BY <1>w, <2>1, <2>2, <2>3, <2>4, <2>5, <2>6 DEF EntryOnRequest
<1>4. ASSUME NEW d \in Dir, NEW c \in Cache, DirResponse(d, c)
      PROVE  MemoryAwaited'
  <2>1. PICK a \in Addr, data \in DataBlk :
          \/ /\ setState(a, dirState[a], owner[a], sharers[a])
             /\ UNCHANGED memQueue
          \/ /\ dirState[a] = "MS_D"
             /\ setState(a, "MS_M", owner[a], sharers[a])
             /\ queueMemory(a, "MEMORY_WB", c, data)
    BY <1>1, <1>4, ResponseCase
  <2>2. CASE setState(a, dirState[a], owner[a], sharers[a]) /\ UNCHANGED memQueue
    BY <1>1, <2>2, AwaitedSame DEF setState
  <2>3. CASE /\ dirState[a] = "MS_D"
             /\ setState(a, "MS_M", owner[a], sharers[a])
             /\ queueMemory(a, "MEMORY_WB", c, data)
    <3>1. dirState' = [dirState EXCEPT ![a] = "MS_M"]
      BY <2>3 DEF setState
    <3>2. dirState[a] \notin Waiting
      BY <1>w, <2>3
    <3> QED BY <1>1, <2>3, <3>1, <3>2, AwaitedQueued
  <2> QED BY <2>1, <2>2, <2>3
<1>5. ASSUME NEW d \in Dir, DirMemory(d)
      PROVE  MemoryAwaited'
  <2>1. PICK m \in memQueue : /\ popMemQueue(m)
                              /\ \E s : setState(m.addr, s, owner[m.addr], sharers[m.addr])
    BY <1>1, <1>5, MemoryCase, Zenon
  <2> QED BY <1>1, <2>1, AwaitedAnswered DEF setState
<1> QED BY <1>1, <1>2, <1>3, <1>4, <1>5, DirectoryCases DEF MemoryInv

\* Every answer from memory finds the directory waiting for it, and for no
\* other one: DirInvalidTransition need not look at memQueue.
THEOREM MemoryCorrect == Spec => []MemoryAwaited
<1>1. Init => MemoryInv
  BY InitType DEF Init, DirInit, MemoryInv, MemoryAwaited
<1>2. MemoryInv /\ [Next]_vars => MemoryInv'
  BY MemoryInvStep
<1>3. MemoryInv => MemoryAwaited
  BY DEF MemoryInv
<1> QED BY <1>1, <1>2, <1>3, PTL DEF Spec

-----------------------------------------------------------------------------
(* The sequencer's requests and the controller's states.                   *)

\* RequestTracked for one line.
Tracked(c, a) ==
  /\ cacheState[c][a] = "IS_D" <=> requestTable[c][a] = "Load" /\ a \notin mandatoryQueue[c]
  /\ cacheState[c][a] \in StoreMiss <=>
       requestTable[c][a] = "Store" /\ a \notin mandatoryQueue[c]

\* The step leaves every line but a of cache c alone.
OthersKept(c, a) ==
  \A p \in Cache, b \in Addr : p # c \/ b # a =>
    /\ cacheState'[p][b] = cacheState[p][b]
    /\ requestTable'[p][b] = requestTable[p][b]
    /\ b \in mandatoryQueue'[p] <=> b \in mandatoryQueue[p]

\* Then it keeps the invariant if it does for that line.
LEMMA TrackedLine ==
  ASSUME RequestTracked, NEW c, NEW a, OthersKept(c, a), Tracked(c, a)'
  PROVE  RequestTracked'
<1>1. ASSUME NEW p \in Cache, NEW b \in Addr PROVE Tracked(p, b)'
  <2>1. CASE p = c /\ b = a
    BY <2>1
  <2>2. CASE p # c \/ b # a
    <3>1. Tracked(p, b)
      BY DEF RequestTracked, Tracked
    <3> QED BY <2>2, <3>1 DEF OthersKept, Tracked
  <2> QED BY <2>1, <2>2
<1> QED BY <1>1 DEF RequestTracked, Tracked

\* A change of state that neither starts nor ends the wait for a load or store.
LEMMA TrackedState ==
  ASSUME TypeOK, RequestTracked, NEW c \in Cache, NEW a \in Addr, NEW s,
         setCacheState(c, a, s), UNCHANGED <<requestTable, mandatoryQueue>>,
         cacheState[c][a] = "IS_D" <=> s = "IS_D",
         cacheState[c][a] \in StoreMiss <=> s \in StoreMiss
  PROVE  RequestTracked'
<1>1. OthersKept(c, a)
  BY DEF OthersKept, setCacheState, TypeOK, CacheTypeOK
<1>2. cacheState'[c][a] = s
  BY DEF setCacheState, TypeOK, CacheTypeOK
<1>3. Tracked(c, a)
  BY DEF RequestTracked, Tracked
<1>4. Tracked(c, a)'
  BY <1>2, <1>3 DEF Tracked
<1> QED BY <1>1, <1>4, TrackedLine

\* A request that leaves the mandatory queue without completing: its wait starts.
LEMMA TrackedStart ==
  ASSUME TypeOK, RequestTracked, NEW c \in Cache, NEW a \in Addr, NEW s,
         setCacheState(c, a, s), UNCHANGED requestTable, popMandatoryQueue(c, a),
         \/ s = "IS_D" /\ requestTable[c][a] = "Load"
         \/ s \in {"IM_AD", "SM_AD"} /\ requestTable[c][a] = "Store"
  PROVE  RequestTracked'
<1>1. OthersKept(c, a)
  BY DEF OthersKept, setCacheState, popMandatoryQueue, TypeOK, CacheTypeOK, SeqTypeOK
<1>2. cacheState'[c][a] = s /\ a \notin mandatoryQueue'[c]
  BY DEF setCacheState, popMandatoryQueue, TypeOK, CacheTypeOK, SeqTypeOK
<1>3. Tracked(c, a)'
  BY <1>2 DEF Tracked, StoreMiss
<1> QED BY <1>1, <1>3, TrackedLine

\* A request that completes: its line waits for nothing afterwards.
LEMMA TrackedEnd ==
  ASSUME TypeOK, RequestTracked, NEW c \in Cache, NEW a \in Addr,
         requestTable' = [requestTable EXCEPT ![c][a] = "None"],
         popMandatoryQueue(c, a) \/ UNCHANGED mandatoryQueue,
         UNCHANGED cacheState \/ \E s : setCacheState(c, a, s),
         cacheState'[c][a] # "IS_D", cacheState'[c][a] \notin StoreMiss
  PROVE  RequestTracked'
<1>1. OthersKept(c, a)
  BY DEF OthersKept, setCacheState, popMandatoryQueue, TypeOK, CacheTypeOK, SeqTypeOK
<1>2. requestTable'[c][a] = "None"
  BY DEF TypeOK, SeqTypeOK
<1>3. Tracked(c, a)'
  BY <1>2 DEF Tracked
<1> QED BY <1>1, <1>3, TrackedLine

\* The inductive invariant.
TrackedInv == TypeOK /\ RequestTracked

\* Steps that change neither a cache state nor a request.
LEMMA TrackedUnchanged ==
  ASSUME RequestTracked, UNCHANGED <<cacheState, requestTable, mandatoryQueue>>
  PROVE  RequestTracked'
BY DEF RequestTracked

\* An access that the sequencer accepts: the line was waiting for nothing.
LEMMA ProcessorRequestTracked ==
  ASSUME TrackedInv, NEW c \in Cache, ProcessorRequest(c)
  PROVE  RequestTracked'
<1>0. TypeOK /\ RequestTracked
  BY DEF TrackedInv
<1>1. PICK a \in Addr, op \in {"Load", "Store"} : makeRequest(c, a, op)
  BY DEF ProcessorRequest
<1>2. UNCHANGED cacheState
  BY DEF ProcessorRequest, cacheVars
<1>3. OthersKept(c, a)
  BY <1>0, <1>1, <1>2 DEF OthersKept, makeRequest, TypeOK, SeqTypeOK
<1>4. requestTable[c][a] = "None" /\ a \in mandatoryQueue'[c]
  BY <1>0, <1>1 DEF makeRequest, TypeOK, SeqTypeOK
<1>5. cacheState[c][a] # "IS_D" /\ cacheState[c][a] \notin StoreMiss
  BY <1>0, <1>4 DEF RequestTracked
<1>6. Tracked(c, a)'
  BY <1>2, <1>4, <1>5 DEF Tracked
<1> QED BY <1>0, <1>3, <1>6, TrackedLine

\* The cache takes an access up: it completes, or its wait starts.  A load never
\* completes in SM_AD or SM_A, the line has a store in the table.
LEMMA CacheMandatoryTracked ==
  ASSUME TrackedInv, NEW c \in Cache, NEW a \in Addr, CacheMandatory(c, a)
  PROVE  RequestTracked'
<1>0. TypeOK /\ RequestTracked
  BY DEF TrackedInv
<1>1. CASE Miss(c, a)
  <2>1. UNCHANGED requestTable /\ popMandatoryQueue(c, a)
    BY <1>1 DEF Miss
  <2>2. CASE setCacheState(c, a, "IS_D") /\ requestTable[c][a] = "Load"
    BY <1>0, <2>1, <2>2, TrackedStart
  <2>3. CASE setCacheState(c, a, "IM_AD") /\ requestTable[c][a] = "Store"
    BY <1>0, <2>1, <2>3, TrackedStart
  <2> QED BY <1>1, <2>2, <2>3 DEF Miss, Queued
<1>2. CASE LoadHit(c, a)
  <2>1. requestTable[c][a] = "Load" /\ a \in mandatoryQueue[c]
    BY <1>2 DEF LoadHit, Queued
  <2>2. cacheState[c][a] # "IS_D" /\ cacheState[c][a] \notin StoreMiss
    BY <1>0, <2>1 DEF RequestTracked
  <2>3. /\ requestTable' = [requestTable EXCEPT ![c][a] = "None"]
        /\ popMandatoryQueue(c, a) /\ UNCHANGED cacheState
    BY <1>2 DEF LoadHit, readCallback, cacheVars
  <2> QED BY <1>0, <2>2, <2>3, TrackedEnd
<1>3. CASE StoreHit(c, a)
  <2>1. cacheState[c][a] # "IS_D" /\ cacheState[c][a] \notin StoreMiss
    BY <1>3 DEF StoreHit, StoreMiss
  <2>2. /\ requestTable' = [requestTable EXCEPT ![c][a] = "None"]
        /\ popMandatoryQueue(c, a) /\ UNCHANGED cacheState
    BY <1>3 DEF StoreHit, writeCallback
  <2> QED BY <1>0, <2>1, <2>2, TrackedEnd
<1>4. CASE Upgrade(c, a)
  <2>1. /\ UNCHANGED requestTable /\ popMandatoryQueue(c, a)
        /\ setCacheState(c, a, "SM_AD") /\ requestTable[c][a] = "Store"
    BY <1>4 DEF Upgrade, Queued
  <2> QED BY <1>0, <2>1, TrackedStart
<1> QED BY <1>1, <1>2, <1>3, <1>4 DEF CacheMandatory, MandatoryStep

\* A victim is waiting for nothing.
LEMMA CacheReplacementTracked ==
  ASSUME TrackedInv, NEW c \in Cache, CacheReplacement(c)
  PROVE  RequestTracked'
<1>0. TypeOK /\ RequestTracked
  BY DEF TrackedInv
<1>1. PICK a \in Addr : Replacement(c, a)
  BY DEF CacheReplacement
<1>2. PICK s \in {"SI_A", "MI_A"} :
        setCacheState(c, a, s) /\ cacheState[c][a] \in {"S", "M"}
  BY <1>1 DEF Replacement
<1>3. UNCHANGED <<requestTable, mandatoryQueue>>
  BY <1>1 DEF Replacement, seqVars
<1>4. /\ s # "IS_D" /\ s \notin StoreMiss
      /\ cacheState[c][a] # "IS_D" /\ cacheState[c][a] \notin StoreMiss
  BY <1>2 DEF StoreMiss
<1> QED BY <1>0, <1>2, <1>3, <1>4, TrackedState

\* A forwarded request or an invalidation starts and ends no wait: SM_AD becomes
\* IM_AD, still a store.
LEMMA CacheForwardTracked ==
  ASSUME TrackedInv, NEW c \in Cache, NEW d \in Dir, CacheForward(c, d)
  PROVE  RequestTracked'
<1> DEFINE a == Head(forwardNet[d][c]).addr
<1>0. TypeOK /\ RequestTracked /\ ForwardStep(c, d)
  BY DEF TrackedInv, CacheForward
<1>1. UNCHANGED <<requestTable, mandatoryQueue>>
  BY <1>0 DEF ForwardStep, Inv, WB_Ack, Fwd_GetS, Fwd_GetM, ForwardStall, seqVars
<1>2. CASE ForwardStall(c, d)
  BY <1>0, <1>1, <1>2, TrackedUnchanged DEF ForwardStall, cacheVars
<1>3. CASE ~ForwardStall(c, d)
  <2>1. AtHead(forwardNet, forwardHead, d, c)
    BY <1>0, <1>3 DEF ForwardStep, Inv, WB_Ack, Fwd_GetS, Fwd_GetM, Forwarded
  <2>2. a \in Addr
    BY <1>0, <2>1, ForwardPopped DEF ForwardMsg
  <2>3. \E s : /\ setCacheState(c, a, s)
               /\ cacheState[c][a] = "IS_D" <=> s = "IS_D"
               /\ cacheState[c][a] \in StoreMiss <=> s \in StoreMiss
    <3>1. CASE Inv(c, d)
      <4>1. cacheState[c][a] \in {"I", "S", "SM_AD", "SI_A"}
        BY <3>1 DEF Inv, Forwarded, AfterInv
      <4>2. setCacheState(c, a, AfterInv[cacheState[c][a]])
        BY <3>1 DEF Inv
      <4>3. /\ cacheState[c][a] # "IS_D" /\ AfterInv[cacheState[c][a]] # "IS_D"
            /\ cacheState[c][a] \in StoreMiss <=> AfterInv[cacheState[c][a]] \in StoreMiss
        BY <4>1 DEF AfterInv, StoreMiss
      <4> QED BY <4>2, <4>3
    <3>2. CASE WB_Ack(c, d)
      BY <3>2 DEF WB_Ack, Forwarded, StoreMiss
    <3>3. CASE Fwd_GetS(c, d)
      <4>1. PICK s \in {"S", "SI_A"} : setCacheState(c, a, s)
        BY <3>3 DEF Fwd_GetS
      <4>2. cacheState[c][a] \in {"M", "MI_A"}
        BY <3>3 DEF Fwd_GetS, Forwarded
      <4> QED BY <4>1, <4>2 DEF StoreMiss
    <3>4. CASE Fwd_GetM(c, d)
      <4>1. PICK s \in {"I", "II_A"} : setCacheState(c, a, s)
        BY <3>4 DEF Fwd_GetM
      <4>2. cacheState[c][a] \in {"M", "MI_A"}
        BY <3>4 DEF Fwd_GetM, Forwarded
      <4> QED BY <4>1, <4>2 DEF StoreMiss
    <3> QED BY <1>0, <1>3, <3>1, <3>2, <3>3, <3>4 DEF ForwardStep
  <2> HIDE DEF a
  <2> QED BY <1>0, <1>1, <2>2, <2>3, TrackedState
<1> QED BY <1>2, <1>3

\* Data and acks: the wait goes on, or ends with the callback.
LEMMA CacheResponseTracked ==
  ASSUME TrackedInv, NEW c \in Cache, NEW n \in Node, CacheResponse(c, n)
  PROVE  RequestTracked'
<1> DEFINE a == Head(responseNet[n][c]).addr
<1>0. TypeOK /\ RequestTracked /\ ResponseStep(c, n)
  BY DEF TrackedInv, CacheResponse
<1>1. responseNet[n][c] # <<>>
  BY <1>0 DEF ResponseStep, LoadData, StoreData, Inv_Ack, StoreDone, Responded
<1>2. a \in Addr
  BY <1>0, <1>1, Constants, ResponsePopped DEF ResponseMsg
<1>3. ASSUME NEW s \in {"S", "M"}, setCacheState(c, a, s), UNCHANGED mandatoryQueue,
             requestTable' = [requestTable EXCEPT ![c][a] = "None"]
      PROVE  RequestTracked'
  <2>1. cacheState'[c][a] = s
    BY <1>0, <1>2, <1>3 DEF setCacheState, TypeOK, CacheTypeOK
  <2>2. cacheState'[c][a] # "IS_D" /\ cacheState'[c][a] \notin StoreMiss
    BY <2>1 DEF StoreMiss
  <2> QED BY <1>0, <1>2, <1>3, <2>2, TrackedEnd
<1>4. CASE LoadData(c, n)
  BY <1>3, <1>4 DEF LoadData, readCallback
<1>5. CASE StoreDone(c, n)
  BY <1>3, <1>5 DEF StoreDone, writeCallback
<1>6. CASE StoreData(c, n)
  <2>1. PICK s \in {"IM_A", "SM_A"} :
          setCacheState(c, a, s) /\ cacheState[c][a] \in {"IM_AD", "SM_AD"}
    BY <1>6 DEF StoreData, Responded
  <2>2. UNCHANGED <<requestTable, mandatoryQueue>>
    BY <1>6 DEF StoreData, seqVars
  <2>3. /\ s # "IS_D" /\ s \in StoreMiss
        /\ cacheState[c][a] # "IS_D" /\ cacheState[c][a] \in StoreMiss
    BY <2>1 DEF StoreMiss
  <2> QED BY <1>0, <1>2, <2>1, <2>2, <2>3, TrackedState
<1>7. CASE Inv_Ack(c, n)
  BY <1>0, <1>7, TrackedUnchanged DEF Inv_Ack, seqVars
<1> QED BY <1>0, <1>4, <1>5, <1>6, <1>7 DEF ResponseStep

\* Every step keeps it.
LEMMA TrackedInvStep ==
  ASSUME TrackedInv, [Next]_vars
  PROVE  TrackedInv'
<1>0. TypeOK' /\ RequestTracked
  BY NextType DEF TrackedInv
<1>1. CASE UNCHANGED vars
  BY <1>0, <1>1, TrackedUnchanged DEF vars, cacheVars, seqVars, TrackedInv
<1>2. ASSUME NEW c \in Cache, CacheFatal(c) PROVE RequestTracked'
  BY <1>0, <1>2, TrackedUnchanged DEF CacheFatal, CacheInvalidTransition, cacheVars, seqVars
<1>3. ASSUME NEW d \in Dir, DirFatal(d) PROVE RequestTracked'
  BY <1>0, <1>3, TrackedUnchanged DEF DirFatal, cacheVars, seqVars
<1>4. ASSUME NEW d \in Dir, NEW c \in Cache, DirRequest(d, c) \/ DirResponse(d, c)
      PROVE  RequestTracked'
  BY <1>0, <1>4, TrackedUnchanged DEF DirRequest, DirResponse, cacheVars, seqVars
<1>5. ASSUME NEW d \in Dir, DirMemory(d) PROVE RequestTracked'
  BY <1>0, <1>5, TrackedUnchanged DEF DirMemory, cacheVars, seqVars
<1>6. ASSUME NEW c \in Cache, ProcessorRequest(c) PROVE RequestTracked'
  BY <1>6, ProcessorRequestTracked
<1>7. ASSUME NEW c \in Cache, NEW a \in Addr, CacheMandatory(c, a) PROVE RequestTracked'
  BY <1>7, CacheMandatoryTracked
<1>8. ASSUME NEW c \in Cache, CacheReplacement(c) PROVE RequestTracked'
  BY <1>8, CacheReplacementTracked
<1>9. ASSUME NEW c \in Cache, NEW d \in Dir, CacheForward(c, d) PROVE RequestTracked'
  BY <1>9, CacheForwardTracked
<1>10. ASSUME NEW c \in Cache, NEW n \in Node, CacheResponse(c, n) PROVE RequestTracked'
  BY <1>10, CacheResponseTracked
<1> QED BY <1>0, <1>1, <1>2, <1>3, <1>4, <1>5, <1>6, <1>7, <1>8, <1>9, <1>10
        DEF Next, ControllerStep, TrackedInv

\* The sequencer's tables and the controller's states agree on which accesses
\* wait for the network, in every execution.
THEOREM RequestsTracked == Spec => []RequestTracked
<1>1. Init => TrackedInv
  BY InitType DEF Init, SeqInit, CacheInit, TrackedInv, RequestTracked, StoreMiss
<1>2. TrackedInv /\ [Next]_vars => TrackedInv'
  BY TrackedInvStep
<1>3. TrackedInv => RequestTracked
  BY DEF TrackedInv
<1> QED BY <1>1, <1>2, <1>3, PTL DEF Spec

=============================================================================
