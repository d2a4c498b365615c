-------------------------------- MODULE MSI ---------------------------------
(***************************************************************************)
(* The whole memory system: processors with their sequencers, L1 caches,   *)
(* directories, memory and the network between them.                       *)
(***************************************************************************)
EXTENDS MSICache, MSIDirectory, Functions

CONSTANT InitialBlk   \* the memory contents at boot

ASSUME InitialBlkAssumption == InitialBlk \in [Addr -> Value]

vars == <<netVars, fault, seqVars, cacheVars, dirVars>>

\* Type correctness of every variable: channels carry well-formed messages,
\* NetDest fields hold caches and every state is one of its controller's.
TypeOK == NetTypeOK /\ SeqTypeOK /\ CacheTypeOK /\ DirTypeOK

Init == NetInit /\ SeqInit(InitialBlk) /\ CacheInit /\ DirInit(InitialBlk)

\* fatal, panic and a failed assertion end the simulation.
Running == fault = "none"

ProcessorRequest(c) ==
  /\ Running
  /\ \E a \in Addr, op \in {"Load", "Store"} : makeRequest(c, a, op)
  /\ UNCHANGED <<netVars, cacheVars, dirVars, fault>>

\* The ports of a cache controller.
CacheMandatory(c, a) == Running /\ MandatoryStep(c, a) /\ UNCHANGED <<dirVars, fault>>

CacheReplacement(c) ==
  /\ Running
  /\ \E victim \in Addr : Replacement(c, victim)
  /\ UNCHANGED <<dirVars, fault>>

CacheForward(c, d) == Running /\ ForwardStep(c, d) /\ UNCHANGED <<dirVars, fault>>

CacheResponse(c, n) == Running /\ ResponseStep(c, n) /\ UNCHANGED <<dirVars, fault>>

CacheFatal(c) == Running /\ CacheInvalidTransition(c) /\ UNCHANGED dirVars

\* The ports of a directory controller.
DirRequest(d, c) == Running /\ RequestStep(d, c) /\ UNCHANGED <<seqVars, cacheVars>>

DirResponse(d, c) == Running /\ DataStep(d, c) /\ UNCHANGED <<seqVars, cacheVars>>

DirMemory(d) == Running /\ MemoryStep(d) /\ UNCHANGED <<seqVars, cacheVars>>

DirFatal(d) == Running /\ DirInvalidTransition(d) /\ UNCHANGED <<seqVars, cacheVars>>

ControllerStep ==
  \/ \E c \in Cache : \/ \E a \in Addr : CacheMandatory(c, a)
                      \/ CacheReplacement(c)
                      \/ \E d \in Dir : CacheForward(c, d)
                      \/ \E n \in Node : CacheResponse(c, n)
                      \/ CacheFatal(c)
  \/ \E d \in Dir : \/ \E c \in Cache : DirRequest(d, c) \/ DirResponse(d, c)
                    \/ DirMemory(d)
                    \/ DirFatal(d)

Next == (\E c \in Cache : ProcessorRequest(c)) \/ ControllerStep

Spec == Init /\ [][Next]_vars

\* A controller is woken for every message that arrives and serves its ports
\* until none can move, so each port makes progress.  Messages enter a buffer
\* in the order of their arrival times: a request that competes with those of
\* other caches, or of other lines in the mandatory queue, is not passed over
\* for ever, even if it has to wait while the others are served.
Fairness ==
  /\ \A c \in Cache :
       /\ \A a \in Addr : SF_vars(CacheMandatory(c, a))
       /\ WF_vars(CacheReplacement(c))
       /\ \A d \in Dir : SF_vars(CacheForward(c, d))
       /\ \A n \in Node : WF_vars(CacheResponse(c, n))
  /\ \A d \in Dir :
       /\ \A c \in Cache : SF_vars(DirRequest(d, c)) /\ WF_vars(DirResponse(d, c))
       /\ WF_vars(DirMemory(d))

FairSpec == Spec /\ Fairness

-----------------------------------------------------------------------------
(* Coherence.                                                              *)

\* The states in which a load completes from the entry.
Readable == {"S", "SM_AD", "SM_A", "M"}

\* Single writer, multiple readers: while one cache may write a line, no other
\* cache may read it.  This is what RubySystem::checkGlobalCoherenceInvariant
\* looks for: two exclusive copies, or an exclusive and a shared one.
SWMR ==
  \A a \in Addr : \A p, q \in Cache :
    cacheState[p][a] = "M" /\ p # q => cacheState[q][a] \notin Readable

\* A copy that a load may read holds every store made to the line so far: what
\* the tester checks byte by byte in Check::performCallback.
ReadsLatest ==
  \A a \in Addr, c \in Cache :
    cacheState[c][a] \in Readable => entryBlk[c][a] = lastWritten[a]

\* The directory can invalidate every copy a load may read: the cache is one
\* of the sharers or the owner, or the message that takes its copy away is
\* already on its way.  A sharer dropped too early would keep a stale copy.
TrackedCopies ==
  \A c \in Cache, a \in Addr :
    cacheState[c][a] \in Readable =>
      \/ c \in sharers[a] \cup owner[a]
      \/ \E m \in Range(forwardNet[DirOf[a]][c]) :
           m.addr = a /\ m.type \in {"INV", "GETM"}

-----------------------------------------------------------------------------
(* Agreement between the parts of the system.                              *)

\* The controller waits for data or acks exactly for the requests that the
\* sequencer's table holds and the mandatory queue no longer does, so that the
\* callbacks' assertions (the line is in the read, or in the write table) hold
\* and no request is forgotten.
RequestTracked ==
  \A c \in Cache, a \in Addr :
    /\ cacheState[c][a] = "IS_D" <=>
         requestTable[c][a] = "Load" /\ a \notin mandatoryQueue[c]
    /\ cacheState[c][a] \in StoreMiss <=>
         requestTable[c][a] = "Store" /\ a \notin mandatoryQueue[c]

\* What setState asserts when it enters M and I, and what the transient states
\* on the way there must therefore keep: one owner and no sharers, or neither.
\* The other states have no owner.  (Not after the assertion on I has failed.)
DirectoryEntries ==
  fault # "DirAssertI" =>
    \A a \in Addr :
      /\ dirState[a] \in {"M", "IM_M"} => sharers[a] = {} /\ \E c \in Cache : owner[a] = {c}
      /\ dirState[a] \in {"I", "MI_M"} => sharers[a] = {} /\ owner[a] = {}
      /\ dirState[a] \in {"S", "IS_M", "MS_D", "MS_M"} => owner[a] = {}

\* The directory is waiting for each answer the memory controller owes it, and
\* for no more than one per line: an answer always finds a transition.
MemoryAwaited ==
  /\ \A m \in memQueue :
       IF m.type = "MEMORY_READ" THEN dirState[m.addr] \in {"IS_M", "IM_M"}
                                 ELSE dirState[m.addr] \in {"MS_M", "MI_M"}
  /\ \A m1, m2 \in memQueue : m1.addr = m2.addr => m1 = m2

\* Where a channel holds messages of these types for line a.
Positions(channel, a, types) ==
  {i \in DOMAIN channel : channel[i].addr = a /\ channel[i].type \in types}

\* The messages that carry the miss of cache c on line a: its request, the
\* memory read or the forward to q that it became, and the data from n.
RequestAt(c, a) ==
  {<<"request", c, i>> : i \in Positions(requestNet[c][DirOf[a]], a, {"GETS", "GETM"})}

ReadAt(c, a) ==
  {<<"memory", DirOf[a], m>> :
     m \in {m \in memQueue : m.addr = a /\ m.requestor = c /\ m.type = "MEMORY_READ"}}

ForwardTo(q, c, a) ==
  LET channel == forwardNet[DirOf[a]][q] IN
  {<<"forward", q, i>> :
     i \in {i \in Positions(channel, a, {"GETS", "GETM"}) : channel[i].requestor = c}}

ForwardAt(c, a) == UNION {ForwardTo(q, c, a) : q \in Cache}

DataFrom(n, c, a) ==
  {<<"data", n, i>> :
     i \in Positions(responseNet[n][c], a, {"DATA_FROM_DIR", "DATA_FROM_OWNER"})}

DataAt(c, a) == UNION {DataFrom(n, c, a) : n \in Node}

MissAt(c, a) == RequestAt(c, a) \cup ReadAt(c, a) \cup ForwardAt(c, a) \cup DataAt(c, a)

\* Each miss is served once: while a cache waits for a block exactly one message
\* of the system carries its miss, and a cache that does not wait is sent no
\* block.  The directory hands a miss on to memory or to an owner, which may be
\* evicting the line, and must neither drop it nor have it answered twice.
OneAnswer ==
  \A c \in Cache, a \in Addr :
    /\ MissAt(c, a) # {} <=> cacheState[c][a] \in {"IS_D", "IM_AD", "SM_AD"}
    /\ \A p, q \in MissAt(c, a) : p = q

\* What will still be an ack from q to c for line a: an invalidation, or the ack.
OwedBy(q, c, a) ==
  LET toSharer == forwardNet[DirOf[a]][q] IN
  {<<"INV", i>> : i \in {i \in Positions(toSharer, a, {"INV"}) : toSharer[i].requestor = c}}
    \cup {<<"ACK", i>> : i \in Positions(responseNet[q][c], a, {"ACK"})}

AcksDue(c, a) == {q \in Cache : OwedBy(q, c, a) # {}}

\* The data messages with an ack count on their way to c.
CountsTo(c, a) ==
  {m \in UNION {Range(responseNet[n][c]) : n \in Node} :
     m.addr = a /\ m.type = "DATA_FROM_DIR"}

\* Invalidation acks are neither lost nor counted twice: a sharer owes a cache
\* at most one, and what the cache still expects, from its TBE and from the
\* (negative) count on its way with the data, is the number of sharers that owe
\* it one.  Acks may overtake the count, so pendingAcks may be negative.
AckConservation ==
  \A c \in Cache, a \in Addr :
    LET due == Cardinality(AcksDue(c, a)) IN
    /\ \A q \in Cache : \A o1, o2 \in OwedBy(q, c, a) : o1 = o2
    /\ \A m \in CountsTo(c, a) : pendingAcks[c][a] - m.ackCount = due
    /\ CountsTo(c, a) = {} => pendingAcks[c][a] = due

\* Every data message and every ack finds the line waiting for it: the port
\* never follows a null TBE pointer and the event always has a transition.  An
\* ack that came late, data that came twice or a count that came with a load's
\* data would stop the simulation.
ResponsesExpected ==
  \A c \in Cache, n \in Node :
    LET m == Head(responseNet[n][c]) IN
    responseNet[n][c] # <<>> =>
      <<ResponseEvent(c, m), cacheState[c][m.addr]>> \in ResponseTransitions

\* An eviction is not forgotten: while a cache waits for a write-back ack, its
\* request or the ack is on its way, or the memory write that precedes the ack
\* is.  Otherwise the line is stuck in the cache, with every later request for
\* it: the sequencer's "Possible Deadlock detected".
EvictionAnswered ==
  \A c \in Cache, a \in Addr :
    cacheState[c][a] \in {"MI_A", "SI_A", "II_A"} =>
      \/ \E m \in Range(requestNet[c][DirOf[a]]) : m.addr = a /\ m.type \in {"PUTS", "PUTM"}
      \/ \E m \in Range(forwardNet[DirOf[a]][c]) : m.addr = a /\ m.type = "WB_ACK"
      \/ dirState[a] = "MI_M" /\ \E m \in memQueue : m.addr = a /\ m.requestor = c

-----------------------------------------------------------------------------
(* The simulation does not stop.                                           *)

\* Every message finds a transition in its line's directory state (else the
\* generated controller calls fatal("Invalid transition")).
NoDirFatal == fault # "DirInvalidTransition"

\* None of the ways to stop is ever taken.
NoFault == Running

\* While a processor waits for an answer some controller can make a step:
\* the controllers never all wait for each other.
Responsive ==
  (\E c \in Cache : Outstanding(c) # {}) => ENABLED ControllerStep

\* Every access that a processor issues completes.
RequestCompletes ==
  \A c \in Cache, a \in Addr :
    requestTable[c][a] # "None" ~> requestTable[c][a] = "None"
=============================================================================
