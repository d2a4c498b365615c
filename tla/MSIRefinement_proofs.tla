------------------------ MODULE MSIRefinement_proofs ------------------------
(***************************************************************************)
(* Every step of MSI is a step of CoherentMemory or leaves it alone, for   *)
(* any number of caches, directories and lines, as long as ReadsLatest     *)
(* holds; it does as long as no written line is evicted.                   *)
(***************************************************************************)
EXTENDS MSIRefinement, MSICoherence_proofs

\* The safety part of CoherentMemory: all but the completion of the accesses.
AnswersAsOneMemory == Promise!AbsInit /\ [][Promise!AbsNext]_(Promise!memVars)

-----------------------------------------------------------------------------
(* What the sequencer does is what the abstract processor does.            *)

\* Nothing completes and nothing is accepted: the abstract memory stands still.
LEMMA Silent ==
  ASSUME ReplyNext, UNCHANGED <<requestTable, lastWritten>>
  PROVE  UNCHANGED Promise!memVars
<1>1. \A c \in Cache, a \in Addr : ~LoadCompletes(c, a)  BY DEF LoadCompletes
<1>2. UNCHANGED reply  BY <1>1 DEF ReplyNext
<1>3. QED  BY <1>2 DEF Promise!memVars

\* makeRequest issues.
LEMMA Issued ==
  ASSUME TypeOK, ReplyNext, NEW c \in Cache, NEW a \in Addr, NEW op \in {"Load", "Store"},
         makeRequest(c, a, op)
  PROVE  Promise!Issue(c, a, op)
<1>1. ASSUME NEW p \in Cache, NEW b \in Addr, LoadCompletes(p, b) PROVE FALSE
  BY <1>1 DEF LoadCompletes, makeRequest, TypeOK, SeqTypeOK
<1>2. UNCHANGED reply  BY <1>1 DEF ReplyNext
<1>3. QED  BY <1>2 DEF Promise!Issue, makeRequest

\* readCallback loads, whatever the controller's reason to call it, since the
\* entry that it hands over is then a readable copy.
LEMMA Loaded ==
  ASSUME TypeOK, ReadsLatest', ReplyNext, NEW c \in Cache, NEW a \in Addr,
         requestTable[c][a] = "Load", readCallback(c, a), cacheState'[c][a] \in Readable
  PROVE  Promise!Load(c, a)
<1>1. requestTable' = [requestTable EXCEPT ![c][a] = "None"] /\ UNCHANGED lastWritten
  BY DEF readCallback
<1>2. LoadCompletes(c, a)  BY <1>1 DEF LoadCompletes, TypeOK, SeqTypeOK
<1>3. \A p \in Cache, b \in Addr : LoadCompletes(p, b) => p = c /\ b = a
  BY <1>1 DEF LoadCompletes, TypeOK, SeqTypeOK
<1>4. reply' = [cache |-> c, addr |-> a, blk |-> entryBlk'[c][a]]
  BY <1>2, <1>3 DEF ReplyNext
<1>5. entryBlk'[c][a] = lastWritten[a]  BY <1>1 DEF ReadsLatest
<1>6. QED  BY <1>1, <1>4, <1>5 DEF Promise!Load

\* writeCallback stores.
LEMMA Stored ==
  ASSUME TypeOK, ReplyNext, NEW c \in Cache, NEW a \in Addr,
         requestTable[c][a] = "Store", writeCallback(c, a)
  PROVE  Promise!Store(c, a)
<1>1. ASSUME NEW p \in Cache, NEW b \in Addr, LoadCompletes(p, b) PROVE FALSE
  BY <1>1 DEF LoadCompletes, writeCallback, TypeOK, SeqTypeOK
<1>2. UNCHANGED reply  BY <1>1 DEF ReplyNext
<1>3. QED  BY <1>2 DEF Promise!Store, writeCallback

-----------------------------------------------------------------------------
(* One lemma for each port of the cache controller.                        *)

\* The access is still in the mandatory queue.
LEMMA CacheMandatoryAnswers ==
  ASSUME TypeOK, ReadsLatest', ReplyNext, NEW c \in Cache, NEW a \in Addr,
         CacheMandatory(c, a)
  PROVE  [Promise!AbsNext]_(Promise!memVars)
<1>1. CASE Miss(c, a) \/ Upgrade(c, a)
  BY <1>1, Silent DEF Miss, Upgrade
<1>2. CASE LoadHit(c, a)
  <2>1. requestTable[c][a] = "Load" /\ readCallback(c, a)
    BY <1>2 DEF LoadHit, Queued
  <2>2. cacheState'[c][a] \in Readable
    BY <1>2 DEF LoadHit, cacheVars, Readable
  <2>3. Promise!Load(c, a)  BY <2>1, <2>2, Loaded
  <2>4. QED  BY <2>3 DEF Promise!AbsNext
<1>3. CASE StoreHit(c, a)
  <2>1. Promise!Store(c, a)  BY <1>3, Stored DEF StoreHit, Queued
  <2>2. QED  BY <2>1 DEF Promise!AbsNext
<1>4. QED  BY <1>1, <1>2, <1>3 DEF CacheMandatory, MandatoryStep

\* The access has been waiting for its block: RequestTracked tells which it is.
LEMMA CacheResponseAnswers ==
  ASSUME TypeOK, RequestTracked, ReadsLatest', ReplyNext, NEW c \in Cache, NEW n \in Node,
         CacheResponse(c, n)
  PROVE  [Promise!AbsNext]_(Promise!memVars)
<1> DEFINE a == Head(responseNet[n][c]).addr
<1>1. ResponseStep(c, n)  BY DEF CacheResponse
<1>2. responseNet[n][c] # <<>>
  BY <1>1 DEF ResponseStep, LoadData, StoreData, Inv_Ack, StoreDone, Responded
<1>3. a \in Addr  BY <1>2, Constants, ResponsePopped DEF ResponseMsg
<1>4. CASE StoreData(c, n) \/ Inv_Ack(c, n)
  BY <1>4, Silent DEF StoreData, Inv_Ack, seqVars
<1>5. CASE LoadData(c, n)
  <2>1. cacheState[c][a] = "IS_D" /\ readCallback(c, a) /\ setCacheState(c, a, "S")
    BY <1>5 DEF LoadData, Responded
  <2>2. requestTable[c][a] = "Load"  BY <1>3, <2>1 DEF RequestTracked
  <2>3. cacheState'[c][a] \in Readable
    BY <1>3, <2>1 DEF setCacheState, TypeOK, CacheTypeOK, Readable
  <2> HIDE DEF a
  <2>4. Promise!Load(c, a)  BY <1>3, <2>1, <2>2, <2>3, Loaded
  <2>5. QED  BY <1>3, <2>4 DEF Promise!AbsNext
<1>6. CASE StoreDone(c, n)
  <2>1. cacheState[c][a] \in StoreMiss /\ writeCallback(c, a)
    BY <1>6 DEF StoreDone, Responded, StoreMiss
  <2>2. requestTable[c][a] = "Store"  BY <1>3, <2>1 DEF RequestTracked
  <2> HIDE DEF a
  <2>3. Promise!Store(c, a)  BY <1>3, <2>1, <2>2, Stored
  <2>4. QED  BY <1>3, <2>3 DEF Promise!AbsNext
<1>7. QED  BY <1>1, <1>4, <1>5, <1>6 DEF ResponseStep

-----------------------------------------------------------------------------

\* Every step is one access of the abstract memory, or none.
LEMMA AnswerStep ==
  ASSUME TypeOK, RequestTracked, ReadsLatest', [ReplyNext]_<<vars, reply>>
  PROVE  [Promise!AbsNext]_(Promise!memVars)
<1>1. CASE UNCHANGED <<vars, reply>>
  BY <1>1 DEF vars, seqVars, Promise!memVars
<1>2. CASE ReplyNext
  <2>1. ASSUME NEW c \in Cache, ProcessorRequest(c) PROVE [Promise!AbsNext]_(Promise!memVars)
    <3>1. PICK a \in Addr : \E op \in {"Load", "Store"} : makeRequest(c, a, op)
      BY <2>1 DEF ProcessorRequest
    <3>2. PICK op \in {"Load", "Store"} : makeRequest(c, a, op)  BY <3>1
    <3>3. Promise!Issue(c, a, op)  BY <1>2, <3>2, Issued
    <3>4. QED  BY <3>3 DEF Promise!AbsNext
  <2>2. ASSUME NEW c \in Cache, NEW a \in Addr, CacheMandatory(c, a)
        PROVE  [Promise!AbsNext]_(Promise!memVars)
    BY <1>2, <2>2, CacheMandatoryAnswers
  <2>3. ASSUME NEW c \in Cache, NEW n \in Node, CacheResponse(c, n)
        PROVE  [Promise!AbsNext]_(Promise!memVars)
    BY <1>2, <2>3, CacheResponseAnswers
  <2>4. ASSUME NEW c \in Cache, CacheReplacement(c) \/ CacheFatal(c)
        PROVE  UNCHANGED <<requestTable, lastWritten>>
    BY <2>4 DEF CacheReplacement, Replacement, CacheFatal, CacheInvalidTransition, seqVars
  <2>5. ASSUME NEW c \in Cache, NEW d \in Dir, CacheForward(c, d)
        PROVE  UNCHANGED <<requestTable, lastWritten>>
    BY <2>5 DEF CacheForward, ForwardStep, Inv, WB_Ack, Fwd_GetS, Fwd_GetM, ForwardStall,
                seqVars
  <2>6. ASSUME NEW d \in Dir,
               (\E c \in Cache : DirRequest(d, c) \/ DirResponse(d, c))
                 \/ DirMemory(d) \/ DirFatal(d)
        PROVE  UNCHANGED <<requestTable, lastWritten>>
    BY <2>6 DEF DirRequest, DirResponse, DirMemory, DirFatal, seqVars
  <2>7. CASE UNCHANGED <<requestTable, lastWritten>>  BY <1>2, <2>7, Silent
  <2>8. Next  BY <1>2 DEF ReplyNext
  <2>9. QED  BY <2>1, <2>2, <2>3, <2>4, <2>5, <2>6, <2>7, <2>8 DEF Next, ControllerStep
<1>3. QED  BY <1>1, <1>2

\* The history variable does not restrict the memory system.
LEMMA ReplySpecImplies == ReplySpec => Spec
<1>1. ReplyInit => Init  BY DEF ReplyInit
<1>2. [ReplyNext]_<<vars, reply>> => [Next]_vars  BY DEF ReplyNext
<1>3. QED  BY <1>1, <1>2, PTL DEF ReplySpec, Spec

\* Coherence of the single copies is all that the processors need: where every
\* readable copy is the latest one, each access takes effect at one instant
\* between its issue and its callback, loads return the last store of any
\* processor, and no callback comes without its access, evictions included.
THEOREM CoherentIfReadsLatest == ReplySpec /\ []ReadsLatest => AnswersAsOneMemory
<1>1. ReplyInit => Promise!AbsInit
  BY DEF ReplyInit, Init, SeqInit, Promise!AbsInit
<1>2. TypeOK /\ RequestTracked /\ ReadsLatest' /\ [ReplyNext]_<<vars, reply>>
        => [Promise!AbsNext]_(Promise!memVars)
  BY AnswerStep
<1>3. QED
  BY <1>1, <1>2, ReplySpecImplies, TypeCorrect, RequestsTracked, PTL
     DEF ReplySpec, AnswersAsOneMemory

\* As long as no written line is evicted, the caches and directories answer as
\* one memory would.
THEOREM ImplementsOneMemory == ReplySpec /\ [][~DirtyEviction]_vars => AnswersAsOneMemory
BY ReplySpecImplies, LoadsReadLatest, CoherentIfReadsLatest, PTL

\* In particular where the lines in use fit into a cache.
THEOREM FittingImplementsOneMemory == Fitting => (ReplySpec => AnswersAsOneMemory)
<1>1. CASE Fitting
  BY <1>1, ReplySpecImplies, NoneEvicted, ImplementsOneMemory, PTL
<1>2. QED  BY <1>1
=============================================================================
