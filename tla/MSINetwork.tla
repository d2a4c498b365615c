----------------------------- MODULE MSINetwork -----------------------------
(***************************************************************************)
(* The nodes, the messages and the interconnect of the MSI directory       *)
(* protocol (lab6/gem5/src/mem/protocol/MSI-*.sm on gem5's Ruby).          *)
(*                                                                         *)
(* All virtual networks of the protocol are declared ordered="true": the   *)
(* messages of one source to one destination arrive in the order they were *)
(* sent, after an arbitrary delay, and messages of different sources are   *)
(* not ordered.  A destination merges what arrives into one input buffer   *)
(* per network and only looks at its head, so a stalled head holds back    *)
(* the messages of every other source.  Until it stalls, which message is  *)
(* at the head is unobservable; the variables *Head name the source whose  *)
(* message has been seen at the head and left there.                       *)
(***************************************************************************)
EXTENDS Integers, Sequences, FiniteSets

CONSTANTS
  Cache,   \* the L1 caches, one per processor (options.num_cpus)
  Dir,     \* the directory controllers (options.num_dirs)
  Addr,    \* the cache lines
  Value,   \* the contents of a line
  None,    \* no value, no node
  DirOf    \* map_Address_to_Directory

ASSUME NodesAssumption ==
  /\ Cache \cap Dir = {}
  /\ None \notin Cache \cup Dir
  /\ IsFiniteSet(Cache)

ASSUME DataAssumption == None \notin Value

ASSUME DirOfAssumption == DirOf \in [Addr -> Dir]

VARIABLES
  requestNet,   \* vnet 2: requestFromCache -> requestToDir
  forwardNet,   \* vnet 3: forwardFromDir -> forwardToCache
  responseNet,  \* vnet 4: response{FromCache,FromDir} -> response{ToCache,ToDir}
  requestHead,  \* the cache whose request is held at the head of requestToDir
  forwardHead,  \* the directory whose request is held at the head of forwardToCache
  fault         \* "none", or why the simulator stopped

netVars == <<requestNet, forwardNet, responseNet, requestHead, forwardHead>>

Node == Cache \cup Dir

DataBlk == Value \cup {None}

RequestMsg ==
  [type: {"GETS", "GETM", "PUTS", "PUTM"}, addr: Addr, data: DataBlk]

ForwardMsg ==
  [type: {"GETS", "GETM", "INV", "WB_ACK"}, addr: Addr, requestor: Cache \cup {None}]

ResponseMsg ==
  [type: {"DATA_FROM_DIR", "DATA_FROM_OWNER", "DATA", "ACK"}, addr: Addr,
   data: DataBlk, ackCount: Int]

\* Why a simulation stops: a message for which the controller's state has no
\* transition, and the two kinds of assertion in the directory's setState.
Fault == {"none", "CacheInvalidTransition", "DirInvalidTransition",
          "DirAssertI", "DirAssertM"}

NetTypeOK ==
  /\ requestNet \in [Cache -> [Dir -> Seq(RequestMsg)]]
  /\ forwardNet \in [Dir -> [Cache -> Seq(ForwardMsg)]]
  /\ responseNet \in [Node -> [Node -> Seq(ResponseMsg)]]
  /\ requestHead \in [Dir -> Cache \cup {None}]
  /\ forwardHead \in [Cache -> Dir \cup {None}]
  /\ fault \in Fault

NetInit ==
  /\ requestNet = [c \in Cache |-> [d \in Dir |-> <<>>]]
  /\ forwardNet = [d \in Dir |-> [c \in Cache |-> <<>>]]
  /\ responseNet = [n \in Node |-> [m \in Node |-> <<>>]]
  /\ requestHead = [d \in Dir |-> None]
  /\ forwardHead = [c \in Cache |-> None]
  /\ fault = "none"

Send(net, src, dst, msg) == [net EXCEPT ![src][dst] = Append(@, msg)]

\* A message with several destinations: one copy on the way to each of them.
Multicast(net, src, dsts, msg) ==
  [net EXCEPT ![src] = [dst \in DOMAIN @ |->
                          IF dst \in dsts THEN Append(@[dst], msg) ELSE @[dst]]]

Pop(net, src, dst) == [net EXCEPT ![src][dst] = Tail(@)]

\* The oldest message from src may be what the input buffer of dst shows.
AtHead(net, head, src, dst) ==
  /\ net[src][dst] # <<>>
  /\ head[dst] \in {None, src}

Hold(head, src, dst) == [head EXCEPT ![dst] = src]

Release(head, dst) == [head EXCEPT ![dst] = None]
=============================================================================
