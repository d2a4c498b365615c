-------------------------- MODULE MSIMisses_proofs --------------------------
(***************************************************************************)
(* Each miss is answered once and each invalidation is acknowledged once,  *)
(* for any number of caches, directories and lines, evictions and faults   *)
(* included.                                                               *)
(***************************************************************************)
EXTENDS MSI_proofs

-----------------------------------------------------------------------------
(* The messages of a channel.                                              *)

\* No message of the types K is twice in the channel.
Distinct(s, K) ==
  \A i, j \in DOMAIN s : s[i].type \in K /\ s[i] = s[j] => i = j

LEMMA AppendRange ==
  ASSUME NEW T, NEW s \in Seq(T), NEW m \in T
  PROVE  \A k : k \in Range(Append(s, m)) <=> k \in Range(s) \/ k = m
<1> DEFINE t == Append(s, m)
<1>1. /\ t \in Seq(T) /\ Len(t) = Len(s) + 1 /\ Len(s) \in Nat
      /\ \A i \in 1..Len(s) : t[i] = s[i]
      /\ t[Len(s) + 1] = m
      /\ DOMAIN s = 1..Len(s) /\ DOMAIN t = 1..(Len(s) + 1)
  BY AppendProperties
<1> HIDE DEF t
<1>2. \A k : k \in Range(s) <=> \E i \in 1..Len(s) : k = s[i]
  BY <1>1 DEF Range
<1>3. \A k : k \in Range(t) <=> \E i \in 1..(Len(s) + 1) : k = t[i]
  BY <1>1 DEF Range
<1>4. \A k : k \in Range(t) <=> k \in Range(s) \/ k = m
  <2>1. ASSUME NEW k, k \in Range(t) PROVE k \in Range(s) \/ k = m
    <3>1. PICK i \in 1..(Len(s) + 1) : k = t[i]  BY <1>3, <2>1
    <3>2. i \in 1..Len(s) \/ i = Len(s) + 1  BY <1>1
    <3>3. QED  BY <1>1, <1>2, <3>1, <3>2
  <2>2. ASSUME NEW k, k \in Range(s) PROVE k \in Range(t)
    <3>1. PICK i \in 1..Len(s) : k = s[i]  BY <1>2, <2>2
    <3>2. i \in 1..(Len(s) + 1) /\ k = t[i]  BY <1>1, <3>1
    <3>3. QED  BY <1>3, <3>2
  <2>3. m \in Range(t)
    <3>1. Len(s) + 1 \in 1..(Len(s) + 1)  BY <1>1
    <3>2. QED  BY <1>1, <1>3, <3>1
  <2>4. QED  BY <2>1, <2>2, <2>3
<1>5. QED  BY <1>4 DEF t

LEMMA AppendDistinct ==
  ASSUME NEW T, NEW s \in Seq(T), NEW m \in T, NEW K,
         Distinct(s, K), m.type \in K => m \notin Range(s)
  PROVE  Distinct(Append(s, m), K)
<1> DEFINE t == Append(s, m)
<1>1. /\ Len(s) \in Nat /\ \A i \in 1..Len(s) : t[i] = s[i]
      /\ t[Len(s) + 1] = m
      /\ DOMAIN s = 1..Len(s) /\ DOMAIN t = 1..(Len(s) + 1)
  BY AppendProperties
<1> HIDE DEF t
<1>2. \A k : k \in Range(s) <=> \E i \in 1..Len(s) : k = s[i]
  BY <1>1 DEF Range
<1>3. SUFFICES ASSUME NEW i \in 1..(Len(s) + 1), NEW j \in 1..(Len(s) + 1), t[i].type \in K, t[i] = t[j]
               PROVE  i = j
  BY <1>1 DEF Distinct, t
<1>4. /\ i \in 1..Len(s) \/ i = Len(s) + 1
      /\ j \in 1..Len(s) \/ j = Len(s) + 1
  BY <1>1
<1>5. CASE i \in 1..Len(s) /\ j \in 1..Len(s)
  BY <1>1, <1>3, <1>5 DEF Distinct
<1>6. CASE i \in 1..Len(s) /\ j = Len(s) + 1
  BY <1>1, <1>2, <1>3, <1>6
<1>7. CASE i = Len(s) + 1 /\ j \in 1..Len(s)
  BY <1>1, <1>2, <1>3, <1>7
<1>8. QED  BY <1>4, <1>5, <1>6, <1>7

LEMMA TailRange ==
  ASSUME NEW T, NEW s \in Seq(T), s # <<>>, NEW K, Distinct(s, K)
  PROVE  /\ Head(s) \in Range(s) /\ Distinct(Tail(s), K)
         /\ \A k : k \in Range(Tail(s)) => k \in Range(s)
         /\ \A k : k.type \in K => (k \in Range(Tail(s)) <=> k \in Range(s) /\ k # Head(s))
<1> DEFINE t == Tail(s)
<1>1. /\ t \in Seq(T) /\ Len(t) = Len(s) - 1 /\ Len(s) \in Nat /\ Len(s) >= 1
      /\ \A i \in 1..Len(t) : t[i] = s[i + 1]
      /\ Head(s) = s[1]
      /\ DOMAIN s = 1..Len(s) /\ DOMAIN t = 1..Len(t)
  <2>1. Len(s) \in Nat /\ Len(s) # 0  BY EmptySeq, LenProperties
  <2>2. QED  BY <2>1, HeadTailProperties, LenProperties
<1> HIDE DEF t
<1>2. \A k : k \in Range(s) <=> \E i \in 1..Len(s) : k = s[i]
  BY <1>1 DEF Range
<1>3. \A k : k \in Range(t) <=> \E i \in 1..Len(t) : k = t[i]
  BY <1>1 DEF Range
<1>4. Head(s) \in Range(s)
  <2>1. 1 \in 1..Len(s)  BY <1>1
  <2>2. QED  BY <1>1, <1>2, <2>1
<1>5. \A k : k \in Range(t) <=> \E i \in 2..Len(s) : k = s[i]
  <2>1. ASSUME NEW k, k \in Range(t) PROVE \E i \in 2..Len(s) : k = s[i]
    <3>1. PICK i \in 1..Len(t) : k = t[i]  BY <1>3, <2>1
    <3>2. i + 1 \in 2..Len(s) /\ k = s[i + 1]  BY <1>1, <3>1
    <3>3. QED  BY <3>2
  <2>2. ASSUME NEW i \in 2..Len(s) PROVE s[i] \in Range(t)
    <3>1. i - 1 \in 1..Len(t) /\ (i - 1) + 1 = i  BY <1>1
    <3>2. t[i - 1] = s[i]  BY <1>1, <3>1
    <3>3. QED  BY <1>3, <3>1, <3>2
  <2>3. QED  BY <2>1, <2>2
<1>6. \A k : k \in Range(t) => k \in Range(s)
  <2>1. \A i \in 2..Len(s) : i \in 1..Len(s)  BY <1>1
  <2>2. QED  BY <1>2, <1>5, <2>1
<1>7. ASSUME NEW k, k.type \in K PROVE k \in Range(t) <=> k \in Range(s) /\ k # Head(s)
  <2>1. ASSUME NEW i \in 2..Len(s), k = s[i] PROVE k # s[1]
    <3>1. i \in 1..Len(s) /\ 1 \in 1..Len(s) /\ i # 1  BY <1>1
    <3>2. QED  BY <1>1, <1>7, <2>1, <3>1 DEF Distinct
  <2>2. ASSUME NEW i \in 1..Len(s), k = s[i], k # s[1] PROVE i \in 2..Len(s)
    BY <1>1, <2>2
  <2>3. QED  BY <1>1, <1>2, <1>5, <1>6, <2>1, <2>2
<1>8. Distinct(t, K)
  <2>1. SUFFICES ASSUME NEW i \in 1..Len(t), NEW j \in 1..Len(t), t[i].type \in K, t[i] = t[j]
                 PROVE  i = j
    BY <1>1 DEF Distinct
  <2>2. i + 1 \in 1..Len(s) /\ j + 1 \in 1..Len(s)  BY <1>1
  <2>3. s[i + 1].type \in K /\ s[i + 1] = s[j + 1]  BY <1>1, <2>1
  <2>4. i + 1 = j + 1  BY <1>1, <2>2, <2>3 DEF Distinct
  <2>5. QED  BY <1>1, <2>4
<1>9. QED  BY <1>4, <1>6, <1>7, <1>8 DEF t

-----------------------------------------------------------------------------
(* The messages of a network.                                              *)

\* A network of channels from S to D that carry messages of T.
Net(net, S, D, T) == net \in [S -> [D -> Seq(T)]]

AllDistinct(net, K) ==
  \A s \in DOMAIN net : \A d \in DOMAIN net[s] : Distinct(net[s][d], K)

\* The message m is in the channel from s to d.
In(net, s, d, m) == m \in Range(net[s][d])

LEMMA SendView ==
  ASSUME NEW S, NEW D, NEW T, NEW net, Net(net, S, D, T),
         NEW src \in S, NEW dst \in D, NEW msg \in T, NEW K,
         NEW new, new = Send(net, src, dst, msg)
  PROVE  /\ \A s \in S, d \in D : \A m :
              In(new, s, d, m) <=> In(net, s, d, m) \/ (s = src /\ d = dst /\ m = msg)
         /\ AllDistinct(net, K) /\ (msg.type \in K => ~In(net, src, dst, msg)) => AllDistinct(new, K)
<1>0. net \in [S -> [D -> Seq(T)]]  BY DEF Net
<1>1. new \in [S -> [D -> Seq(T)]]  BY <1>0, SendType
<1>2. \A s \in S, d \in D :
        new[s][d] = IF s = src /\ d = dst THEN Append(net[s][d], msg) ELSE net[s][d]
  BY <1>0 DEF Send
<1>3. ASSUME NEW s \in S, NEW d \in D, NEW m
      PROVE  In(new, s, d, m) <=> In(net, s, d, m) \/ (s = src /\ d = dst /\ m = msg)
  <2>1. net[s][d] \in Seq(T)  BY <1>0
  <2>2. CASE s = src /\ d = dst
    BY <1>2, <2>1, <2>2, AppendRange DEF In
  <2>3. CASE ~(s = src /\ d = dst)
    BY <1>2, <2>3 DEF In
  <2>4. QED  BY <2>2, <2>3
<1>4. ASSUME AllDistinct(net, K), msg.type \in K => ~In(net, src, dst, msg)
      PROVE  AllDistinct(new, K)
  <2>1. \A s \in S, d \in D : Distinct(net[s][d], K)  BY <1>0, <1>4 DEF AllDistinct
  <2>2. ASSUME NEW s \in S, NEW d \in D PROVE Distinct(new[s][d], K)
    <3>1. net[s][d] \in Seq(T)  BY <1>0
    <3>2. CASE s = src /\ d = dst
      BY <1>2, <1>4, <2>1, <3>1, <3>2, AppendDistinct DEF In
    <3>3. CASE ~(s = src /\ d = dst)
      BY <1>2, <2>1, <3>3
    <3>4. QED  BY <3>2, <3>3
  <2>3. QED  BY <1>1, <2>2 DEF AllDistinct
<1>5. QED  BY <1>3, <1>4

LEMMA MulticastView ==
  ASSUME NEW S, NEW D, NEW T, NEW net, Net(net, S, D, T),
         NEW src \in S, NEW dsts, NEW msg \in T, NEW K,
         NEW new, new = Multicast(net, src, dsts, msg)
  PROVE  /\ \A s \in S, d \in D : \A m :
              In(new, s, d, m) <=> In(net, s, d, m) \/ (s = src /\ d \in dsts /\ m = msg)
         /\ AllDistinct(net, K) /\ (\A d \in dsts : msg.type \in K => ~In(net, src, d, msg)) =>
              AllDistinct(new, K)
<1>0. net \in [S -> [D -> Seq(T)]]  BY DEF Net
<1>1. new \in [S -> [D -> Seq(T)]]  BY <1>0, MulticastType
<1>2. \A s \in S, d \in D :
        new[s][d] = IF s = src /\ d \in dsts THEN Append(net[s][d], msg) ELSE net[s][d]
  BY <1>0 DEF Multicast
<1>3. ASSUME NEW s \in S, NEW d \in D, NEW m
      PROVE  In(new, s, d, m) <=> In(net, s, d, m) \/ (s = src /\ d \in dsts /\ m = msg)
  <2>1. net[s][d] \in Seq(T)  BY <1>0
  <2>2. CASE s = src /\ d \in dsts
    BY <1>2, <2>1, <2>2, AppendRange DEF In
  <2>3. CASE ~(s = src /\ d \in dsts)
    BY <1>2, <2>3 DEF In
  <2>4. QED  BY <2>2, <2>3
<1>4. ASSUME AllDistinct(net, K), \A d \in dsts : msg.type \in K => ~In(net, src, d, msg)
      PROVE  AllDistinct(new, K)
  <2>1. \A s \in S, d \in D : Distinct(net[s][d], K)  BY <1>0, <1>4 DEF AllDistinct
  <2>2. ASSUME NEW s \in S, NEW d \in D PROVE Distinct(new[s][d], K)
    <3>1. net[s][d] \in Seq(T)  BY <1>0
    <3>2. CASE s = src /\ d \in dsts
      BY <1>2, <1>4, <2>1, <3>1, <3>2, AppendDistinct DEF In
    <3>3. CASE ~(s = src /\ d \in dsts)
      BY <1>2, <2>1, <3>3
    <3>4. QED  BY <3>2, <3>3
  <2>3. QED  BY <1>1, <2>2 DEF AllDistinct
<1>5. QED  BY <1>3, <1>4

LEMMA PopView ==
  ASSUME NEW S, NEW D, NEW T, NEW net, Net(net, S, D, T),
         NEW src \in S, NEW dst \in D, net[src][dst] # <<>>, NEW K, AllDistinct(net, K),
         NEW new, new = Pop(net, src, dst), NEW msg, msg = Head(net[src][dst])
  PROVE  /\ In(net, src, dst, msg)
         /\ AllDistinct(new, K)
         /\ \A s \in S, d \in D : \A m : In(new, s, d, m) => In(net, s, d, m)
         /\ \A s \in S, d \in D : \A m : m.type \in K =>
              (In(new, s, d, m) <=>
                 In(net, s, d, m) /\ ~(s = src /\ d = dst /\ m = msg))
<1>0. net \in [S -> [D -> Seq(T)]]  BY DEF Net
<1>1. new \in [S -> [D -> Seq(T)]]  BY <1>0, PopType
<1>2. \A s \in S, d \in D :
        new[s][d] = IF s = src /\ d = dst THEN Tail(net[s][d]) ELSE net[s][d]
  BY <1>0 DEF Pop
<1>3. \A s \in S, d \in D : net[s][d] \in Seq(T) /\ Distinct(net[s][d], K)  BY <1>0 DEF AllDistinct
<1>4. /\ msg \in Range(net[src][dst]) /\ Distinct(Tail(net[src][dst]), K)
      /\ \A m : m \in Range(Tail(net[src][dst])) => m \in Range(net[src][dst])
      /\ \A m : m.type \in K => (m \in Range(Tail(net[src][dst])) <=>
                                   m \in Range(net[src][dst]) /\ m # msg)
  BY <1>3, TailRange
<1>5. ASSUME NEW s \in S, NEW d \in D
      PROVE  /\ Distinct(new[s][d], K)
             /\ \A m : In(new, s, d, m) => In(net, s, d, m)
             /\ \A m : m.type \in K => (In(new, s, d, m) <=>
                  In(net, s, d, m) /\ ~(s = src /\ d = dst /\ m = msg))
  <2>1. CASE s = src /\ d = dst
    BY <1>2, <1>4, <2>1 DEF In
  <2>2. CASE ~(s = src /\ d = dst)
    BY <1>2, <1>3, <2>2 DEF In
  <2>3. QED  BY <2>1, <2>2
<1>6. AllDistinct(new, K)  BY <1>1, <1>5 DEF AllDistinct
<1>7. QED  BY <1>4, <1>5, <1>6 DEF In

-----------------------------------------------------------------------------
(* What the channels hold.                                                 *)

GetTypes == {"GETS", "GETM"}
FwdTypes == {"GETS", "GETM", "INV"}
DataTypes == {"DATA_FROM_DIR", "DATA_FROM_OWNER"}
RespTypes == {"DATA_FROM_DIR", "DATA_FROM_OWNER", "ACK"}

InvMsg(a, c) == [type |-> "INV", addr |-> a, requestor |-> c]
AckMsg(a) == [type |-> "ACK", addr |-> a, data |-> None, ackCount |-> 1]

\* Requests and forwards travel between the caches and the line's directory,
\* no request, forward or answer is in a channel twice, a forward names its
\* requestor, only caches send acks, which count one each, and a cache is sent
\* nothing else than answers and acks.
RequestsInv ==
  /\ AllDistinct(requestNet, GetTypes)
  /\ \A c \in Cache, d \in Dir : \A m : In(requestNet, c, d, m) => DirOf[m.addr] = d
ForwardsInv ==
  /\ AllDistinct(forwardNet, FwdTypes)
  /\ \A d \in Dir, c \in Cache : \A m :
       In(forwardNet, d, c, m) => DirOf[m.addr] = d /\ (m.type \in FwdTypes => m.requestor \in Cache)
ResponsesInv ==
  /\ AllDistinct(responseNet, RespTypes)
  /\ \A n \in Node, c \in Node : \A m :
       In(responseNet, n, c, m) => /\ m.type = "ACK" => m = AckMsg(m.addr) /\ n \in Cache
                                   /\ m.type = "DATA_FROM_OWNER" => m.ackCount = 0
                                   /\ c \in Cache => m.type \in RespTypes

ChannelInv == RequestsInv /\ ForwardsInv /\ ResponsesInv

\* Where the miss of cache c on line a may be: its request, the memory read or
\* the forward that it became, the data.
AtReq(c, a, m) == In(requestNet, c, DirOf[a], m) /\ m.type \in GetTypes /\ m.addr = a
AtMem(c, a, m) == m \in memQueue /\ m.type = "MEMORY_READ" /\ m.addr = a /\ m.requestor = c
AtFwd(c, a, q, m) ==
  q \in Cache /\ In(forwardNet, DirOf[a], q, m) /\ m.type \in GetTypes /\ m.addr = a /\ m.requestor = c
AtData(c, a, n, m) ==
  n \in Node /\ In(responseNet, n, c, m) /\ m.type \in DataTypes /\ m.addr = a

\* The invalidation of q's copy of line a for cache c, and q's ack.
InvTo(q, a, c) == In(forwardNet, DirOf[a], q, InvMsg(a, c))
AckFrom(q, c, a) == In(responseNet, q, c, AckMsg(a))

\* How a step changes these: nothing, a message m0 less, a message m0 more.
ReqSame == \A c \in Cache, a \in Addr : \A m : AtReq(c, a, m)' <=> AtReq(c, a, m)
ReqTake(c0, m0) ==
  \A c \in Cache, a \in Addr : \A m : AtReq(c, a, m)' <=> AtReq(c, a, m) /\ ~(c = c0 /\ m = m0)
ReqPut(c0, a0, m0) ==
  \A c \in Cache, a \in Addr : \A m :
    AtReq(c, a, m)' <=> AtReq(c, a, m) \/ (c = c0 /\ a = a0 /\ m = m0)

FwdSame ==
  /\ \A c \in Cache, a \in Addr : \A q, m : AtFwd(c, a, q, m)' <=> AtFwd(c, a, q, m)
  /\ \A q \in Cache, c \in Cache, a \in Addr : InvTo(q, a, c)' <=> InvTo(q, a, c)
FwdTake(q0, m0) ==
  /\ \A c \in Cache, a \in Addr : \A q, m :
       AtFwd(c, a, q, m)' <=> AtFwd(c, a, q, m) /\ ~(q = q0 /\ m = m0)
  /\ \A q \in Cache, c \in Cache, a \in Addr :
       InvTo(q, a, c)' <=> InvTo(q, a, c) /\ ~(q = q0 /\ m0 = InvMsg(a, c))
FwdPut(dsts, m0) ==
  /\ \A c \in Cache, a \in Addr : \A q, m :
       AtFwd(c, a, q, m)' <=>
         \/ AtFwd(c, a, q, m)
         \/ q \in dsts /\ m = m0 /\ m0.type \in GetTypes /\ a = m0.addr /\ c = m0.requestor
  /\ \A q \in Cache, c \in Cache, a \in Addr :
       InvTo(q, a, c)' <=> InvTo(q, a, c) \/ (q \in dsts /\ m0 = InvMsg(a, c))

RespSame ==
  /\ \A c \in Cache, a \in Addr : \A n, m : AtData(c, a, n, m)' <=> AtData(c, a, n, m)
  /\ \A q \in Cache, c \in Cache, a \in Addr : AckFrom(q, c, a)' <=> AckFrom(q, c, a)
RespTake(n0, c0, m0) ==
  /\ \A c \in Cache, a \in Addr : \A n, m :
       AtData(c, a, n, m)' <=> AtData(c, a, n, m) /\ ~(n = n0 /\ c = c0 /\ m = m0)
  /\ \A q \in Cache, c \in Cache, a \in Addr :
       AckFrom(q, c, a)' <=> AckFrom(q, c, a) /\ ~(q = n0 /\ c = c0 /\ m0 = AckMsg(a))
RespPut(n0, c0, m0) ==
  /\ \A c \in Cache, a \in Addr : \A n, m :
       AtData(c, a, n, m)' <=>
         \/ AtData(c, a, n, m)
         \/ n = n0 /\ c = c0 /\ m = m0 /\ m0.type \in DataTypes /\ a = m0.addr
  /\ \A q \in Cache, c \in Cache, a \in Addr :
       AckFrom(q, c, a)' <=> AckFrom(q, c, a) \/ (q = n0 /\ c = c0 /\ m0 = AckMsg(a))

MemSame == \A c \in Cache, a \in Addr : \A m : AtMem(c, a, m)' <=> AtMem(c, a, m)

\* A network that does not change.
LEMMA RequestsSame ==
  ASSUME RequestsInv, requestNet' = requestNet
  PROVE  RequestsInv' /\ ReqSame
BY DEF RequestsInv, ReqSame, AtReq

LEMMA ForwardsSame ==
  ASSUME ForwardsInv, forwardNet' = forwardNet
  PROVE  ForwardsInv' /\ FwdSame
BY DEF ForwardsInv, FwdSame, AtFwd, InvTo

LEMMA ResponsesSame ==
  ASSUME ResponsesInv, responseNet' = responseNet
  PROVE  ResponsesInv' /\ RespSame
BY DEF ResponsesInv, RespSame, AtData, AckFrom

\* The directory of a line, and the nodes.
LEMMA Places ==
  /\ \A a \in Addr : DirOf[a] \in Dir
  /\ \A c \in Cache : c \in Node /\ c \notin Dir /\ c # None
  /\ \A d \in Dir : d \in Node /\ d \notin Cache
BY DirOfAssumption, NodesAssumption DEF Node

\* A directory takes a request.
LEMMA RequestTaken ==
  ASSUME TypeOK, RequestsInv, NEW d \in Dir, NEW c \in Cache,
         AtHead(requestNet, requestHead, c, d), requestNet' = Pop(requestNet, c, d),
         NEW m, m = Head(requestNet[c][d])
  PROVE  /\ m \in RequestMsg /\ In(requestNet, c, d, m) /\ DirOf[m.addr] = d
         /\ m.type \in GetTypes => AtReq(c, m.addr, m)
         /\ RequestsInv' /\ ReqTake(c, m)
<1>1. Net(requestNet, Cache, Dir, RequestMsg) /\ requestNet[c][d] # <<>>
  BY DEF TypeOK, NetTypeOK, AtHead, Net
<1>2. m \in RequestMsg  BY <1>1, PopType DEF Net
<1>3. AllDistinct(requestNet, GetTypes)  BY DEF RequestsInv
<1>4. /\ In(requestNet, c, d, m)
      /\ AllDistinct(requestNet', GetTypes)
      /\ \A x \in Cache, y \in Dir : \A k : In(requestNet', x, y, k) => In(requestNet, x, y, k)
      /\ \A x \in Cache, y \in Dir : \A k : k.type \in GetTypes =>
           (In(requestNet', x, y, k) <=> In(requestNet, x, y, k) /\ ~(x = c /\ y = d /\ k = m))
  BY <1>1, <1>3, PopView
<1>5. DirOf[m.addr] = d  BY <1>4 DEF RequestsInv
<1>6. RequestsInv'  BY <1>4 DEF RequestsInv
<1>7. ReqTake(c, m)
  BY <1>4, <1>5, Places DEF ReqTake, AtReq
<1>8. m.type \in GetTypes => AtReq(c, m.addr, m)  BY <1>4, <1>5 DEF AtReq
<1>9. QED  BY <1>2, <1>4, <1>5, <1>6, <1>7, <1>8

\* A cache sends a request.
LEMMA RequestPut ==
  ASSUME TypeOK, RequestsInv, NEW c \in Cache, NEW a \in Addr, NEW v \in DataBlk,
         NEW type \in {"GETS", "GETM", "PUTS", "PUTM"}, sendRequest(c, a, type, v),
         NEW m, m = [type |-> type, addr |-> a, data |-> v],
         type \in GetTypes => \A k : ~AtReq(c, a, k)
  PROVE  /\ RequestsInv'
         /\ type \in GetTypes => ReqPut(c, a, m)
         /\ type \notin GetTypes => ReqSame
<1>1. Net(requestNet, Cache, Dir, RequestMsg) /\ requestNet' = Send(requestNet, c, DirOf[a], m)
  BY DEF TypeOK, NetTypeOK, sendRequest, Net
<1>2. m \in RequestMsg /\ m.type = type /\ m.addr = a  BY DEF RequestMsg
<1>3. AllDistinct(requestNet, GetTypes) /\ DirOf[a] \in Dir  BY Places DEF RequestsInv
<1>4. m.type \in GetTypes => ~In(requestNet, c, DirOf[a], m)  BY <1>2 DEF AtReq
<1>5. /\ \A x \in Cache, y \in Dir : \A k :
           In(requestNet', x, y, k) <=> In(requestNet, x, y, k) \/ (x = c /\ y = DirOf[a] /\ k = m)
      /\ AllDistinct(requestNet', GetTypes)
  BY <1>1, <1>2, <1>3, <1>4, SendView
<1>6. RequestsInv'  BY <1>2, <1>5 DEF RequestsInv
<1>7. type \in GetTypes => ReqPut(c, a, m)  BY <1>2, <1>5, Places DEF ReqPut, AtReq
<1>8. type \notin GetTypes => ReqSame  BY <1>2, <1>5, Places DEF ReqSame, AtReq
<1>9. QED  BY <1>6, <1>7, <1>8

\* A cache takes a forwarded request.
LEMMA ForwardTaken ==
  ASSUME TypeOK, ForwardsInv, NEW d \in Dir, NEW c \in Cache,
         AtHead(forwardNet, forwardHead, d, c), forwardNet' = Pop(forwardNet, d, c),
         NEW m, m = Head(forwardNet[d][c])
  PROVE  /\ m \in ForwardMsg /\ In(forwardNet, d, c, m) /\ DirOf[m.addr] = d
         /\ m.type \in FwdTypes => m.requestor \in Cache
         /\ ForwardsInv' /\ FwdTake(c, m)
<1>1. Net(forwardNet, Dir, Cache, ForwardMsg) /\ forwardNet[d][c] # <<>>
  BY DEF TypeOK, NetTypeOK, AtHead, Net
<1>2. m \in ForwardMsg  BY <1>1, PopType DEF Net
<1>3. AllDistinct(forwardNet, FwdTypes)  BY DEF ForwardsInv
<1>4. /\ In(forwardNet, d, c, m)
      /\ AllDistinct(forwardNet', FwdTypes)
      /\ \A x \in Dir, y \in Cache : \A k : In(forwardNet', x, y, k) => In(forwardNet, x, y, k)
      /\ \A x \in Dir, y \in Cache : \A k : k.type \in FwdTypes =>
           (In(forwardNet', x, y, k) <=> In(forwardNet, x, y, k) /\ ~(x = d /\ y = c /\ k = m))
  BY <1>1, <1>3, PopView
<1>5. DirOf[m.addr] = d /\ (m.type \in FwdTypes => m.requestor \in Cache)
  BY <1>4 DEF ForwardsInv
<1>6. ForwardsInv'  BY <1>4 DEF ForwardsInv
<1>7. \A a \in Addr : \A q \in Cache : \A k : k.type \in FwdTypes /\ k.addr = a =>
        (In(forwardNet', DirOf[a], q, k) <=> In(forwardNet, DirOf[a], q, k) /\ ~(q = c /\ k = m))
  BY <1>4, <1>5, Places
<1>8. \A r, a : InvMsg(a, r).type \in FwdTypes /\ InvMsg(a, r).addr = a
  BY DEF InvMsg, FwdTypes
<1>9. GetTypes \subseteq FwdTypes  BY DEF GetTypes, FwdTypes
<1>10. FwdTake(c, m)
  BY <1>7, <1>8, <1>9 DEF FwdTake, AtFwd, InvTo
<1>11. QED  BY <1>2, <1>4, <1>5, <1>6, <1>10

\* A directory forwards a request or invalidates copies.
LEMMA ForwardPut ==
  ASSUME TypeOK, ForwardsInv, NEW a \in Addr, NEW c \in Cache,
         NEW dsts \in SUBSET Cache, NEW type \in FwdTypes,
         forward(DirOf[a], dsts, type, a, c),
         NEW m, m = [type |-> type, addr |-> a, requestor |-> c],
         \A q \in dsts : ~In(forwardNet, DirOf[a], q, m)
  PROVE  ForwardsInv' /\ FwdPut(dsts, m)
<1>1. /\ Net(forwardNet, Dir, Cache, ForwardMsg)
      /\ forwardNet' = Multicast(forwardNet, DirOf[a], dsts, m)
  BY DEF TypeOK, NetTypeOK, forward, Net
<1>2. m \in ForwardMsg /\ m.type = type /\ m.addr = a /\ m.requestor = c
  BY DEF ForwardMsg, FwdTypes
<1>3. AllDistinct(forwardNet, FwdTypes) /\ DirOf[a] \in Dir  BY Places DEF ForwardsInv
<1>4. /\ \A x \in Dir, y \in Cache : \A k :
           In(forwardNet', x, y, k) <=> In(forwardNet, x, y, k) \/ (x = DirOf[a] /\ y \in dsts /\ k = m)
      /\ AllDistinct(forwardNet', FwdTypes)
  BY <1>1, <1>2, <1>3, MulticastView
<1>5. ForwardsInv'  BY <1>2, <1>4 DEF ForwardsInv
<1>6. \A b \in Addr : \A q \in Cache : \A k : k.addr = b =>
        (In(forwardNet', DirOf[b], q, k) <=> In(forwardNet, DirOf[b], q, k) \/ (q \in dsts /\ k = m))
  BY <1>2, <1>4, Places
<1>7. \A r, b : InvMsg(b, r).addr = b
  BY DEF InvMsg
<1>8. FwdPut(dsts, m)
  BY <1>2, <1>6, <1>7 DEF FwdPut, AtFwd, InvTo
<1>9. QED  BY <1>5, <1>8

\* A directory acknowledges a write-back.
LEMMA WriteBackAckPut ==
  ASSUME TypeOK, ForwardsInv, NEW a \in Addr, NEW c \in Cache, sendWriteBackAck(DirOf[a], c, a)
  PROVE  ForwardsInv' /\ FwdSame
<1> DEFINE m == [type |-> "WB_ACK", addr |-> a, requestor |-> None]
<1>1. /\ Net(forwardNet, Dir, Cache, ForwardMsg)
      /\ forwardNet' = Send(forwardNet, DirOf[a], c, m)
  BY DEF TypeOK, NetTypeOK, sendWriteBackAck, Net
<1>2. m \in ForwardMsg /\ m.type \notin FwdTypes /\ m.addr = a
  BY DEF ForwardMsg, FwdTypes
<1> HIDE DEF m
<1>3. AllDistinct(forwardNet, FwdTypes) /\ DirOf[a] \in Dir  BY Places DEF ForwardsInv
<1>4. /\ \A x \in Dir, y \in Cache : \A k :
           In(forwardNet', x, y, k) <=> In(forwardNet, x, y, k) \/ (x = DirOf[a] /\ y = c /\ k = m)
      /\ AllDistinct(forwardNet', FwdTypes)
  BY <1>1, <1>2, <1>3, SendView
<1>5. ForwardsInv'  BY <1>2, <1>4 DEF ForwardsInv
<1>6. \A b \in Addr : \A q \in Cache : \A k : k.type \in FwdTypes =>
        (In(forwardNet', DirOf[b], q, k) <=> In(forwardNet, DirOf[b], q, k))
  BY <1>2, <1>4, Places
<1>7. \A r, b : InvMsg(b, r).type \in FwdTypes
  BY DEF InvMsg, FwdTypes
<1>8. GetTypes \subseteq FwdTypes  BY DEF GetTypes, FwdTypes
<1>9. FwdSame
  BY <1>6, <1>7, <1>8 DEF FwdSame, AtFwd, InvTo
<1>10. QED  BY <1>5, <1>9

\* A node takes a response.
LEMMA ResponseTaken ==
  ASSUME TypeOK, ResponsesInv, NEW n \in Node, NEW c \in Node,
         responseNet[n][c] # <<>>, responseNet' = Pop(responseNet, n, c),
         NEW m, m = Head(responseNet[n][c])
  PROVE  /\ m \in ResponseMsg /\ In(responseNet, n, c, m)
         /\ m.type = "ACK" => m = AckMsg(m.addr) /\ n \in Cache
         /\ m.type = "DATA_FROM_OWNER" => m.ackCount = 0
         /\ ResponsesInv' /\ RespTake(n, c, m)
<1>1. Net(responseNet, Node, Node, ResponseMsg)
  BY DEF TypeOK, NetTypeOK, Net
<1>2. m \in ResponseMsg  BY <1>1, PopType DEF Net
<1>3. AllDistinct(responseNet, RespTypes)  BY DEF ResponsesInv
<1>4. /\ In(responseNet, n, c, m)
      /\ AllDistinct(responseNet', RespTypes)
      /\ \A x \in Node, y \in Node : \A k : In(responseNet', x, y, k) => In(responseNet, x, y, k)
      /\ \A x \in Node, y \in Node : \A k : k.type \in RespTypes =>
           (In(responseNet', x, y, k) <=> In(responseNet, x, y, k) /\ ~(x = n /\ y = c /\ k = m))
  BY <1>1, <1>3, PopView
<1>5. /\ m.type = "ACK" => m = AckMsg(m.addr) /\ n \in Cache
      /\ m.type = "DATA_FROM_OWNER" => m.ackCount = 0
  BY <1>4 DEF ResponsesInv
<1>6. ResponsesInv'  BY <1>4 DEF ResponsesInv
<1>7. \A a : AckMsg(a).type \in RespTypes /\ AckMsg(a).type \notin DataTypes
  BY DEF AckMsg, RespTypes, DataTypes
<1>8. DataTypes \subseteq RespTypes  BY DEF DataTypes, RespTypes
<1>9. RespTake(n, c, m)
  BY <1>4, <1>7, <1>8, Places DEF RespTake, AtData, AckFrom
<1>10. QED  BY <1>2, <1>4, <1>5, <1>6, <1>9

\* A node sends a response.
Sendable(n, c, m) ==
  /\ m \in ResponseMsg
  /\ m.type \in RespTypes /\ ~In(responseNet, n, c, m)
  /\ m.type = "ACK" => m = AckMsg(m.addr) /\ n \in Cache
  /\ m.type = "DATA_FROM_OWNER" => m.ackCount = 0

LEMMA ResponsePut ==
  ASSUME TypeOK, ResponsesInv, NEW n \in Node, NEW c \in Node, NEW m, Sendable(n, c, m),
         responseNet' = Send(responseNet, n, c, m)
  PROVE  ResponsesInv' /\ RespPut(n, c, m)
<1>1. Net(responseNet, Node, Node, ResponseMsg) /\ m \in ResponseMsg
  BY DEF TypeOK, NetTypeOK, Net, Sendable
<1>2. AllDistinct(responseNet, RespTypes) /\ (m.type \in RespTypes => ~In(responseNet, n, c, m))
  BY DEF ResponsesInv, Sendable
<1>3. /\ \A x \in Node, y \in Node : \A k :
           In(responseNet', x, y, k) <=> In(responseNet, x, y, k) \/ (x = n /\ y = c /\ k = m)
      /\ AllDistinct(responseNet', RespTypes)
  BY <1>1, <1>2, SendView
<1>4. ResponsesInv'  BY <1>3 DEF ResponsesInv, Sendable
<1>5. RespPut(n, c, m)
  BY <1>3, Places DEF RespPut, AtData, AckFrom
<1>6. QED  BY <1>4, <1>5

\* An owner sends its block to the requestor and to the directory.
LEMMA ResponsePutTwice ==
  ASSUME TypeOK, ResponsesInv, NEW n \in Node, NEW c \in Cache, NEW m, Sendable(n, c, m),
         NEW d \in Dir, NEW k \in ResponseMsg, k.type = "DATA",
         responseNet' = Send(Send(responseNet, n, c, m), n, d, k)
  PROVE  ResponsesInv' /\ RespPut(n, c, m)
<1> DEFINE mid == Send(responseNet, n, c, m)
<1>1. Net(responseNet, Node, Node, ResponseMsg) /\ m \in ResponseMsg
  BY DEF TypeOK, NetTypeOK, Net, Sendable
<1>2. AllDistinct(responseNet, RespTypes) /\ (m.type \in RespTypes => ~In(responseNet, n, c, m))
  BY DEF ResponsesInv, Sendable
<1>3. c \in Node /\ d \in Node /\ c # d  BY Places
<1>4. mid \in [Node -> [Node -> Seq(ResponseMsg)]]
  BY <1>1, <1>3, SendType DEF Net
<1>5. Net(mid, Node, Node, ResponseMsg)  BY <1>4 DEF Net
<1>6. mid = Send(responseNet, n, c, m) /\ responseNet' = Send(mid, n, d, k)  OBVIOUS
<1> HIDE DEF mid
<1>7. /\ \A x \in Node, y \in Node : \A j :
           In(mid, x, y, j) <=> In(responseNet, x, y, j) \/ (x = n /\ y = c /\ j = m)
      /\ AllDistinct(mid, RespTypes)
  BY <1>1, <1>2, <1>3, <1>6, SendView
<1>8. k.type \notin RespTypes  BY DEF RespTypes
<1>9. /\ \A x \in Node, y \in Node : \A j :
           In(responseNet', x, y, j) <=> In(mid, x, y, j) \/ (x = n /\ y = d /\ j = k)
      /\ AllDistinct(responseNet', RespTypes)
  BY <1>3, <1>5, <1>6, <1>7, <1>8, SendView
<1>10. ResponsesInv'
  <2>1. \A x \in Node, y \in Node : \A j : In(responseNet', x, y, j) =>
          In(responseNet, x, y, j) \/ (x = n /\ y = c /\ j = m) \/ (y \notin Cache /\ j = k)
    BY <1>7, <1>9, Places
  <2>2. QED  BY <1>9, <2>1 DEF ResponsesInv, Sendable
<1>11. RespPut(n, c, m)
  <2>1. \A x \in Node, y \in Cache : \A j :
          In(responseNet', x, y, j) <=> In(responseNet, x, y, j) \/ (x = n /\ y = c /\ j = m)
    BY <1>7, <1>9, Places
  <2>2. QED  BY <1>3, <2>1, Places DEF RespPut, AtData, AckFrom
<1>12. QED  BY <1>10, <1>11

-----------------------------------------------------------------------------
(* Misses and acknowledgements.                                            *)

\* What a state waits for: the block for a load or a store, or only the acks.
ClassOf(s) ==
  IF s = "IS_D" THEN "load"
  ELSE IF s \in {"IM_AD", "SM_AD"} THEN "store"
  ELSE IF s \in {"IM_A", "SM_A"} THEN "acks"
  ELSE "none"

Class(c, a) == ClassOf(cacheState[c][a])

\* The miss of c on line a is the message m at node n, in the place k.
At(c, a, k, n, m) ==
  \/ k = "request" /\ n = c /\ AtReq(c, a, m)
  \/ k = "memory" /\ n = DirOf[a] /\ AtMem(c, a, m)
  \/ k = "forward" /\ AtFwd(c, a, n, m)
  \/ k = "data" /\ AtData(c, a, n, m)

\* A cache that waits for a block has its miss in exactly one place, and one
\* that does not has none.
PlaceInv(c, a) ==
  /\ \A k1, n1, m1, k2, n2, m2 :
       At(c, a, k1, n1, m1) /\ At(c, a, k2, n2, m2) => k1 = k2 /\ n1 = n2 /\ m1 = m2
  /\ Class(c, a) \in {"load", "store"} <=> \E k, n, m : At(c, a, k, n, m)
  /\ \A k, n, m : At(c, a, k, n, m) /\ k \in {"request", "forward"} =>
                    (m.type = "GETS" <=> Class(c, a) = "load")

\* The caches whose ack for line a cache c has not counted yet.
Due(c, a) == {q \in Cache : InvTo(q, a, c) \/ AckFrom(q, c, a)}

\* The acks that c expects, from its TBE and the count that comes with the
\* data, are the ones due.
DueInv(c, a) ==
  /\ \A q \in Cache : ~(InvTo(q, a, c) /\ AckFrom(q, c, a))
  /\ \A n, m : AtData(c, a, n, m) =>
       /\ pendingAcks[c][a] - m.ackCount = Cardinality(Due(c, a))
       /\ Class(c, a) = "load" => m.ackCount = 0
  /\ Class(c, a) = "acks" => pendingAcks[c][a] = Cardinality(Due(c, a))
  /\ Class(c, a) # "acks" /\ (\A n, m : ~AtData(c, a, n, m)) =>
       pendingAcks[c][a] = 0 /\ Due(c, a) = {}
  /\ Class(c, a) \in {"load", "store"} => pendingAcks[c][a] <= 0

LineInv(c, a) == PlaceInv(c, a) /\ DueInv(c, a)

SamePlaces(c, a) == \A k, n, m : At(c, a, k, n, m)' <=> At(c, a, k, n, m)

OnlyPlace(c, a, k0, n0, m0) ==
  \A k, n, m : At(c, a, k, n, m) <=> k = k0 /\ n = n0 /\ m = m0

SameDue(c, a) ==
  \A q \in Cache : (InvTo(q, a, c)' <=> InvTo(q, a, c)) /\ (AckFrom(q, c, a)' <=> AckFrom(q, c, a))

LEMMA Classes ==
  \A s : /\ ClassOf(s) \in {"load", "store", "acks", "none"}
         /\ ClassOf(s) = "load" <=> s = "IS_D"
         /\ ClassOf(s) = "store" <=> s \in {"IM_AD", "SM_AD"}
         /\ ClassOf(s) = "acks" <=> s \in {"IM_A", "SM_A"}
BY DEF ClassOf

\* The places of a line are one, or none.
LEMMA OnePlace ==
  ASSUME NEW c \in Cache, NEW a \in Addr, NEW k, NEW n, NEW m, OnlyPlace(c, a, k, n, m),
         Class(c, a) \in {"load", "store"},
         k \in {"request", "forward"} => (m.type = "GETS" <=> Class(c, a) = "load")
  PROVE  PlaceInv(c, a)
BY DEF OnlyPlace, PlaceInv

LEMMA NoPlace ==
  ASSUME NEW c \in Cache, NEW a \in Addr, \A k, n, m : ~At(c, a, k, n, m),
         Class(c, a) \notin {"load", "store"}
  PROVE  PlaceInv(c, a)
BY DEF PlaceInv

LEMMA FoundPlace ==
  ASSUME NEW c \in Cache, NEW a \in Addr, PlaceInv(c, a), NEW k, NEW n, NEW m, At(c, a, k, n, m)
  PROVE  /\ OnlyPlace(c, a, k, n, m) /\ Class(c, a) \in {"load", "store"}
         /\ k \in {"request", "forward"} => (m.type = "GETS" <=> Class(c, a) = "load")
BY DEF OnlyPlace, PlaceInv

LEMMA OnlyKind ==
  ASSUME NEW c \in Cache, NEW a \in Addr, NEW k, NEW n, NEW m, OnlyPlace(c, a, k, n, m)
  PROVE  /\ \A y : AtReq(c, a, y) => k = "request" /\ n = c /\ y = m
         /\ \A y : AtMem(c, a, y) => k = "memory" /\ y = m
         /\ \A x, y : AtFwd(c, a, x, y) => k = "forward" /\ x = n /\ y = m
         /\ \A x, y : AtData(c, a, x, y) => k = "data" /\ x = n /\ y = m
<1>1. /\ \A y : AtReq(c, a, y) => At(c, a, "request", c, y)
      /\ \A y : AtMem(c, a, y) => At(c, a, "memory", DirOf[a], y)
      /\ \A x, y : AtFwd(c, a, x, y) => At(c, a, "forward", x, y)
      /\ \A x, y : AtData(c, a, x, y) => At(c, a, "data", x, y)
  BY DEF At
<1>2. QED  BY <1>1 DEF OnlyPlace

\* A line that a step leaves alone.
LEMMA LineKept ==
  ASSUME NEW c \in Cache, NEW a \in Addr, LineInv(c, a), SamePlaces(c, a), SameDue(c, a),
         Class(c, a)' = Class(c, a),
         \/ pendingAcks'[c][a] = pendingAcks[c][a]
         \/ Class(c, a) = "none" /\ pendingAcks'[c][a] = 0
  PROVE  LineInv(c, a)'
<1>1. PlaceInv(c, a)'
  BY DEF LineInv, PlaceInv, SamePlaces
<1>2. \A n, m : AtData(c, a, n, m)' <=> AtData(c, a, n, m)
  BY DEF SamePlaces, At
<1>3. Due(c, a)' = Due(c, a)
  BY DEF Due, SameDue
<1>4. Class(c, a) = "none" => \A n, m : ~AtData(c, a, n, m)
  BY DEF LineInv, PlaceInv, At
<1>5. CASE pendingAcks'[c][a] = pendingAcks[c][a]
  <2>1. DueInv(c, a)'
    BY <1>2, <1>3, <1>5 DEF LineInv, DueInv, SameDue
  <2>2. QED  BY <1>1, <2>1 DEF LineInv
<1>6. CASE Class(c, a) = "none" /\ pendingAcks'[c][a] = 0
  <2>1. pendingAcks[c][a] = 0  BY <1>4, <1>6 DEF LineInv, DueInv
  <2>2. QED  BY <1>5, <1>6, <2>1
<1>7. QED  BY <1>5, <1>6

Lines == \A c \in Cache, a \in Addr : LineInv(c, a)

MissInv == ChannelInv /\ Lines

MemPut(c0, a0, m0) ==
  \A c \in Cache, a \in Addr : \A m :
    AtMem(c, a, m)' <=> AtMem(c, a, m) \/ (c = c0 /\ a = a0 /\ m = m0)
MemTake(m0) ==
  \A c \in Cache, a \in Addr : \A m : AtMem(c, a, m)' <=> AtMem(c, a, m) /\ m # m0

\* The line waits for the same as before.
Kept(c, a) ==
  /\ Class(c, a)' = Class(c, a)
  /\ \/ pendingAcks'[c][a] = pendingAcks[c][a]
     \/ Class(c, a) = "none" /\ pendingAcks'[c][a] = 0

KeptExcept(c0, a0) == \A c \in Cache, a \in Addr : ~(c = c0 /\ a = a0) => Kept(c, a)

\* No miss and no ack moves.
LEMMA QuietView ==
  ASSUME Lines, ReqSame, MemSame, FwdSame, RespSame, \A c \in Cache, a \in Addr : Kept(c, a)
  PROVE  Lines'
<1>1. SUFFICES ASSUME NEW c \in Cache, NEW a \in Addr PROVE LineInv(c, a)'
  BY DEF Lines
<1>2. SamePlaces(c, a)
  BY DEF SamePlaces, At, ReqSame, MemSame, FwdSame, RespSame
<1>3. SameDue(c, a)
  BY DEF SameDue, FwdSame, RespSame
<1>4. QED  BY <1>2, <1>3, LineKept DEF Lines, Kept

\* A miss begins.
LEMMA StartView ==
  ASSUME Lines, NEW c0 \in Cache, NEW a0 \in Addr, NEW m0,
         ReqPut(c0, a0, m0), MemSame, FwdSame, RespSame, KeptExcept(c0, a0),
         Class(c0, a0) = "none", Class(c0, a0)' \in {"load", "store"}, pendingAcks'[c0][a0] = 0,
         m0.type = "GETS" <=> Class(c0, a0)' = "load"
  PROVE  Lines'
<1>1. SUFFICES ASSUME NEW c \in Cache, NEW a \in Addr PROVE LineInv(c, a)'
  BY DEF Lines
<1>2. LineInv(c, a)  BY DEF Lines
<1>3. SameDue(c, a)
  BY DEF SameDue, FwdSame, RespSame
<1>4. CASE ~(c = c0 /\ a = a0)
  <2>1. SamePlaces(c, a)
    BY <1>4 DEF SamePlaces, At, ReqPut, MemSame, FwdSame, RespSame
  <2>2. QED  BY <1>2, <1>3, <1>4, <2>1, LineKept DEF KeptExcept, Kept
<1>5. CASE c = c0 /\ a = a0
  <2>1. \A k, n, m : ~At(c, a, k, n, m)
    BY <1>2, <1>5 DEF LineInv, PlaceInv
  <2>2. OnlyPlace(c, a, "request", c, m0)'
    BY <1>5, <2>1 DEF OnlyPlace, At, ReqPut, MemSame, FwdSame, RespSame
  <2>3. PlaceInv(c, a)'
    BY <1>5, <2>2 DEF OnlyPlace, PlaceInv
  <2>4. Due(c, a)' = Due(c, a)
    BY <1>3 DEF Due, SameDue
  <2>5. \A n, m : ~AtData(c, a, n, m) /\ ~AtData(c, a, n, m)'
    <3>1. \A n, m : ~AtData(c, a, n, m)  BY <2>1 DEF At
    <3>2. QED  BY <3>1 DEF RespSame
  <2>6. Due(c, a) = {}
    BY <1>2, <1>5, <2>5 DEF LineInv, DueInv
  <2>7. DueInv(c, a)'
    BY <1>2, <1>3, <1>5, <2>4, <2>5, <2>6 DEF LineInv, DueInv, SameDue
  <2>8. QED  BY <2>3, <2>7 DEF LineInv
<1>6. QED  BY <1>4, <1>5

\* An invalidation becomes an ack.
LEMMA AckView ==
  ASSUME Lines, NEW q0 \in Cache, NEW c0 \in Cache, NEW a0 \in Addr,
         InvTo(q0, a0, c0), FwdTake(q0, InvMsg(a0, c0)), RespPut(q0, c0, AckMsg(a0)),
         ReqSame, MemSame, \A c \in Cache, a \in Addr : Kept(c, a)
  PROVE  Lines'
<1>1. SUFFICES ASSUME NEW c \in Cache, NEW a \in Addr PROVE LineInv(c, a)'
  BY DEF Lines
<1>2. LineInv(c, a)  BY DEF Lines
<1>3. /\ InvMsg(a0, c0).type \notin GetTypes /\ AckMsg(a0).type \notin DataTypes
      /\ \A x : InvMsg(a, x).addr = a /\ InvMsg(a, x).requestor = x /\ AckMsg(a).addr = a
      /\ InvMsg(a0, c0).addr = a0 /\ InvMsg(a0, c0).requestor = c0 /\ AckMsg(a0).addr = a0
  BY DEF InvMsg, AckMsg, GetTypes, DataTypes
<1>4. SamePlaces(c, a)
  <2>1. \A n, m : AtFwd(c, a, n, m)' <=> AtFwd(c, a, n, m)
    <3>1. \A n, m : AtFwd(c, a, n, m) => m # InvMsg(a0, c0)  BY <1>3 DEF AtFwd
    <3>2. QED  BY <3>1 DEF FwdTake
  <2>2. \A n, m : AtData(c, a, n, m)' <=> AtData(c, a, n, m)
    BY <1>3 DEF RespPut
  <2>3. QED  BY <2>1, <2>2 DEF SamePlaces, At, ReqSame, MemSame
<1>5. CASE ~(c = c0 /\ a = a0)
  <2>1. InvMsg(a0, c0) # InvMsg(a, c)
    BY <1>3, <1>5
  <2>2. ~(c = c0 /\ AckMsg(a) = AckMsg(a0))  BY <1>3, <1>5
  <2>3. SameDue(c, a)  BY <2>1, <2>2 DEF SameDue, FwdTake, RespPut
  <2>4. QED  BY <1>2, <1>4, <2>3, LineKept DEF Kept
<1>6. CASE c = c0 /\ a = a0
  <2>1. /\ \A q \in Cache : InvTo(q, a, c)' <=> InvTo(q, a, c) /\ q # q0
        /\ \A q \in Cache : AckFrom(q, c, a)' <=> AckFrom(q, c, a) \/ q = q0
    BY <1>6 DEF FwdTake, RespPut
  <2>2. Due(c, a)' = Due(c, a)
    BY <1>6, <2>1 DEF Due
  <2>3. PlaceInv(c, a)'
    BY <1>2, <1>4 DEF LineInv, PlaceInv, SamePlaces, Kept
  <2>4. \A n, m : AtData(c, a, n, m)' <=> AtData(c, a, n, m)
    BY <1>4 DEF SamePlaces, At
  <2>5. Class(c, a) # "none"
    <3>1. q0 \in Due(c, a)  BY <1>6 DEF Due
    <3>2. SUFFICES ASSUME Class(c, a) = "none" PROVE FALSE  OBVIOUS
    <3>3. \A n, m : ~AtData(c, a, n, m)  BY <1>2, <3>2 DEF LineInv, PlaceInv, At
    <3>4. QED  BY <1>2, <3>1, <3>2, <3>3 DEF LineInv, DueInv
  <2>6. Class(c, a)' = Class(c, a) /\ pendingAcks'[c][a] = pendingAcks[c][a]
    BY <2>5 DEF Kept
  <2>7. DueInv(c, a)'
    BY <1>2, <2>1, <2>2, <2>4, <2>6 DEF LineInv, DueInv
  <2>8. QED  BY <2>3, <2>7 DEF LineInv
<1>7. QED  BY <1>5, <1>6

LEMMA DueFinite ==
  ASSUME NEW c \in Cache, NEW a \in Addr
  PROVE  /\ IsFiniteSet(Due(c, a)) /\ Cardinality(Due(c, a)) \in Nat
         /\ Cardinality(Due(c, a)) = 0 => Due(c, a) = {}
<1>1. Due(c, a) \subseteq Cache  BY DEF Due
<1>2. IsFiniteSet(Due(c, a))  BY <1>1, NodesAssumption, FS_Subset
<1>3. QED  BY <1>2, FS_CardinalityType, FS_EmptySet

\* A miss moves on, and is not answered yet.
LEMMA MoveView ==
  ASSUME Lines, NEW c0 \in Cache, NEW a0 \in Addr,
         NEW k0, NEW n0, NEW m0, At(c0, a0, k0, n0, m0), k0 # "data",
         NEW k1, NEW n1, NEW m1, OnlyPlace(c0, a0, k1, n1, m1)', k1 # "data",
         k1 \in {"request", "forward"} => (m1.type = "GETS" <=> Class(c0, a0) = "load"),
         \A c \in Cache, a \in Addr : ~(c = c0 /\ a = a0) => SamePlaces(c, a),
         \A c \in Cache, a \in Addr : SameDue(c, a) /\ Kept(c, a)
  PROVE  Lines'
<1>1. SUFFICES ASSUME NEW c \in Cache, NEW a \in Addr PROVE LineInv(c, a)'
  BY DEF Lines
<1>2. LineInv(c, a)  BY DEF Lines
<1>3. SameDue(c, a)  OBVIOUS
<1>4. CASE ~(c = c0 /\ a = a0)
  BY <1>2, <1>3, <1>4, LineKept DEF Kept
<1>5. CASE c = c0 /\ a = a0
  <2>1. OnlyPlace(c, a, k0, n0, m0) /\ Class(c, a) \in {"load", "store"}
    BY <1>2, <1>5, FoundPlace DEF LineInv
  <2>2. Class(c, a)' = Class(c, a) /\ pendingAcks'[c][a] = pendingAcks[c][a]
    BY <2>1 DEF Kept
  <2>3. PlaceInv(c, a)'
    BY <1>5, <2>1, <2>2 DEF OnlyPlace, PlaceInv
  <2>4. \A n, m : ~AtData(c, a, n, m)
    BY <2>1 DEF OnlyPlace, At
  <2>5. \A n, m : ~AtData(c, a, n, m)'
    BY <1>5 DEF OnlyPlace, At
  <2>6. Due(c, a)' = Due(c, a)
    BY <1>3 DEF Due, SameDue
  <2>7. DueInv(c, a)'
    BY <1>2, <1>3, <2>2, <2>4, <2>5, <2>6 DEF LineInv, DueInv, SameDue
  <2>8. QED  BY <2>3, <2>7 DEF LineInv
<1>6. QED  BY <1>4, <1>5

\* A miss is answered, with the invalidation of the copies of dsts.
LEMMA AnswerView ==
  ASSUME Lines, NEW c0 \in Cache, NEW a0 \in Addr,
         NEW k0, NEW n0, NEW m0, At(c0, a0, k0, n0, m0), k0 # "data",
         NEW n1, NEW m1, OnlyPlace(c0, a0, "data", n1, m1)',
         NEW dsts \in SUBSET Cache, m1.ackCount = 0 - Cardinality(dsts),
         Class(c0, a0) = "load" => dsts = {},
         \A c \in Cache, a \in Addr : ~(c = c0 /\ a = a0) => SamePlaces(c, a) /\ SameDue(c, a),
         \A q \in Cache : /\ InvTo(q, a0, c0)' <=> InvTo(q, a0, c0) \/ q \in dsts
                          /\ AckFrom(q, c0, a0)' <=> AckFrom(q, c0, a0),
         \A c \in Cache, a \in Addr : Kept(c, a)
  PROVE  Lines'
<1>1. SUFFICES ASSUME NEW c \in Cache, NEW a \in Addr PROVE LineInv(c, a)'
  BY DEF Lines
<1>2. LineInv(c, a)  BY DEF Lines
<1>3. CASE ~(c = c0 /\ a = a0)
  BY <1>2, <1>3, LineKept DEF Kept
<1>4. CASE c = c0 /\ a = a0
  <2>1. OnlyPlace(c, a, k0, n0, m0) /\ Class(c, a) \in {"load", "store"}
    BY <1>2, <1>4, FoundPlace DEF LineInv
  <2>2. Class(c, a)' = Class(c, a) /\ pendingAcks'[c][a] = pendingAcks[c][a]
    BY <2>1 DEF Kept
  <2>3. PlaceInv(c, a)'
    BY <1>4, <2>1, <2>2 DEF OnlyPlace, PlaceInv
  <2>4. \A n, m : ~AtData(c, a, n, m)
    BY <2>1 DEF OnlyPlace, At
  <2>5. \A n, m : AtData(c, a, n, m)' => m = m1
    <3>1. \A n, m : AtData(c, a, n, m)' => At(c, a, "data", n, m)'  BY DEF At
    <3>2. QED  BY <1>4, <3>1 DEF OnlyPlace
  <2>6. pendingAcks[c][a] = 0 /\ Due(c, a) = {}
    BY <1>2, <2>1, <2>4 DEF LineInv, DueInv
  <2>7. \A q \in Cache : ~InvTo(q, a, c) /\ ~AckFrom(q, c, a)
    BY <2>6 DEF Due
  <2>8. \A q \in Cache : (InvTo(q, a, c)' <=> q \in dsts) /\ ~AckFrom(q, c, a)'
    BY <1>4, <2>7
  <2>9. Due(c, a)' = dsts
    BY <2>8 DEF Due
  <2>10. Cardinality(dsts) \in Nat /\ (dsts = {} => Cardinality(dsts) = 0)
    BY NodesAssumption, FS_Subset, FS_CardinalityType, FS_EmptySet
  <2>11. 0 - m1.ackCount = Cardinality(dsts) /\ (dsts = {} => m1.ackCount = 0)
    BY <2>10
  <2>12. AtData(c, a, n1, m1)'
    BY <1>4 DEF OnlyPlace, At
  <2>13. DueInv(c, a)'
    <3>1. \A q \in Cache : ~(InvTo(q, a, c)' /\ AckFrom(q, c, a)')
      BY <2>8
    <3>2. \A n, m : AtData(c, a, n, m)' =>
            /\ pendingAcks'[c][a] - m.ackCount = Cardinality(Due(c, a)')
            /\ Class(c, a)' = "load" => m.ackCount = 0
      BY <1>4, <2>2, <2>5, <2>6, <2>9, <2>11
    <3>3. QED  BY <3>1, <3>2, <2>1, <2>2, <2>6, <2>12 DEF DueInv
  <2>14. QED  BY <2>3, <2>13 DEF LineInv
<1>5. QED  BY <1>3, <1>4

\* The data arrives: the miss is over, or only acks are missing.
LEMMA DataView ==
  ASSUME Lines, NEW c0 \in Cache, NEW a0 \in Addr, NEW n0, NEW m0, AtData(c0, a0, n0, m0),
         m0.ackCount \in Int, pendingAcks[c0][a0] \in Int,
         RespTake(n0, c0, m0), ReqSame, MemSame, FwdSame, KeptExcept(c0, a0),
         \/ /\ Class(c0, a0)' = "none" /\ pendingAcks'[c0][a0] = 0
            /\ m0.ackCount = 0 \/ pendingAcks[c0][a0] - m0.ackCount = 0
         \/ Class(c0, a0)' = "acks" /\ pendingAcks'[c0][a0] = pendingAcks[c0][a0] - m0.ackCount
  PROVE  Lines'
<1>1. SUFFICES ASSUME NEW c \in Cache, NEW a \in Addr PROVE LineInv(c, a)'
  BY DEF Lines
<1>2. LineInv(c, a)  BY DEF Lines
<1>3. m0.addr = a0 /\ m0.type \in DataTypes  BY DEF AtData
<1>4. SameDue(c, a)
  <2>1. m0 # AckMsg(a)  BY <1>3 DEF AckMsg, DataTypes
  <2>2. QED  BY <2>1 DEF SameDue, FwdSame, RespTake
<1>5. CASE ~(c = c0 /\ a = a0)
  <2>1. \A n, m : AtData(c, a, n, m) => ~(c = c0 /\ m = m0)  BY <1>3, <1>5 DEF AtData
  <2>2. SamePlaces(c, a)
    BY <2>1 DEF SamePlaces, At, ReqSame, MemSame, FwdSame, RespTake
  <2>3. QED  BY <1>2, <1>4, <1>5, <2>2, LineKept DEF KeptExcept, Kept
<1>6. CASE c = c0 /\ a = a0
  <2>1. At(c, a, "data", n0, m0)  BY <1>6 DEF At
  <2>2. OnlyPlace(c, a, "data", n0, m0) /\ Class(c, a) \in {"load", "store"}
    BY <1>2, <2>1, FoundPlace DEF LineInv
  <2>3. \A k, n, m : ~At(c, a, k, n, m)'
    <3>1. SUFFICES ASSUME NEW k, NEW n, NEW m, At(c, a, k, n, m)' PROVE FALSE  OBVIOUS
    <3>2. At(c, a, k, n, m) /\ ~(k = "data" /\ n = n0 /\ m = m0)
      BY <1>6, <3>1 DEF At, ReqSame, MemSame, FwdSame, RespTake
    <3>3. QED  BY <2>2, <3>2 DEF OnlyPlace
  <2>4. PlaceInv(c, a)'
    BY <1>6, <2>3 DEF PlaceInv
  <2>5. \A n, m : ~AtData(c, a, n, m)'  BY <2>3 DEF At
  <2>6. Due(c, a)' = Due(c, a)
    BY <1>4 DEF Due, SameDue
  <2>7. pendingAcks[c][a] - m0.ackCount = Cardinality(Due(c, a)) /\ pendingAcks[c][a] <= 0
    BY <1>2, <1>6, <2>2 DEF LineInv, DueInv
  <2>8. \A q \in Cache : ~(InvTo(q, a, c)' /\ AckFrom(q, c, a)')
    BY <1>2, <1>4 DEF LineInv, DueInv, SameDue
  <2>9. CASE Class(c, a)' = "none" /\ pendingAcks'[c][a] = 0
             /\ (m0.ackCount = 0 \/ pendingAcks[c][a] - m0.ackCount = 0)
    <3>1. Cardinality(Due(c, a)) = 0  BY <1>6, <2>7, <2>9, DueFinite
    <3>2. Due(c, a)' = {}  BY <2>6, <3>1, DueFinite
    <3>3. DueInv(c, a)'  BY <2>5, <2>8, <2>9, <3>2 DEF DueInv
    <3>4. QED  BY <2>4, <3>3 DEF LineInv
  <2>10. CASE Class(c, a)' = "acks" /\ pendingAcks'[c][a] = pendingAcks[c][a] - m0.ackCount
    <3>1. DueInv(c, a)'  BY <2>5, <2>6, <2>7, <2>8, <2>10 DEF DueInv
    <3>2. QED  BY <2>4, <3>1 DEF LineInv
  <2>11. QED  BY <1>6, <2>9, <2>10
<1>7. QED  BY <1>5, <1>6

\* The data that answers a miss carries a count.
LEMMA AckCountsType ==
  ASSUME TypeOK, NEW c \in Cache, NEW a \in Addr
  PROVE  \A n, m : AtData(c, a, n, m) => m \in ResponseMsg /\ m.ackCount \in Int
<1>1. SUFFICES ASSUME NEW n, NEW m, AtData(c, a, n, m) PROVE m \in ResponseMsg
  BY DEF ResponseMsg
<1>2. c \in Node /\ n \in Node  BY <1>1, Places DEF AtData
<1>3. responseNet[n][c] \in Seq(ResponseMsg)  BY <1>2 DEF TypeOK, NetTypeOK
<1>4. QED  BY <1>1, <1>3 DEF AtData, In, Range

\* A line has an ack due only if its miss is being answered.
LEMMA AckExpected ==
  ASSUME NEW c \in Cache, NEW a \in Addr, LineInv(c, a), NEW q \in Due(c, a),
         pendingAcks[c][a] \in Int
  PROVE  Class(c, a) = "acks" \/ (Class(c, a) = "store" /\ \E n, m : AtData(c, a, n, m))
<1>1. Class(c, a) = "acks" \/ \E n, m : AtData(c, a, n, m)  BY DEF LineInv, DueInv
<1>2. ASSUME NEW n, NEW m, AtData(c, a, n, m) PROVE Class(c, a) = "store"
  <2>1. Class(c, a) \in {"load", "store"}  BY <1>2 DEF LineInv, PlaceInv, At
  <2>2. SUFFICES ASSUME Class(c, a) = "load" PROVE FALSE  BY <2>1
  <2>3. pendingAcks[c][a] - 0 = Cardinality(Due(c, a)) /\ pendingAcks[c][a] <= 0
    BY <1>2, <2>2 DEF LineInv, DueInv
  <2>4. Cardinality(Due(c, a)) # 0  BY DueFinite
  <2>5. QED  BY <2>3, <2>4, DueFinite
<1>3. QED  BY <1>1, <1>2

\* An ack is counted.
LEMMA CountView ==
  ASSUME TypeOK, Lines, NEW c0 \in Cache, NEW a0 \in Addr, NEW q0 \in Cache, AckFrom(q0, c0, a0),
         RespTake(q0, c0, AckMsg(a0)), ReqSame, MemSame, FwdSame, KeptExcept(c0, a0),
         \/ /\ Class(c0, a0)' = Class(c0, a0)
            /\ pendingAcks'[c0][a0] = pendingAcks[c0][a0] - 1
         \/ /\ Class(c0, a0) = "acks" /\ Class(c0, a0)' = "none" 
            /\ pendingAcks[c0][a0] - 1 = 0 /\ pendingAcks'[c0][a0] = 0
  PROVE  Lines'
<1>1. SUFFICES ASSUME NEW c \in Cache, NEW a \in Addr PROVE LineInv(c, a)'
  BY DEF Lines
<1>2. LineInv(c, a)  BY DEF Lines
<1>3. AckMsg(a0).type \notin DataTypes /\ AckMsg(a0).addr = a0 /\ AckMsg(a).addr = a
  BY DEF AckMsg, DataTypes
<1>4. \A n, m : AtData(c, a, n, m)' <=> AtData(c, a, n, m)
  <2>1. \A n, m : AtData(c, a, n, m) => m # AckMsg(a0)  BY <1>3 DEF AtData
  <2>2. QED  BY <2>1 DEF RespTake
<1>5. SamePlaces(c, a)
  BY <1>4 DEF SamePlaces, At, ReqSame, MemSame, FwdSame
<1>6. CASE ~(c = c0 /\ a = a0)
  <2>1. ~(c = c0 /\ AckMsg(a) = AckMsg(a0))  BY <1>3, <1>6
  <2>2. SameDue(c, a)  BY <2>1 DEF SameDue, FwdSame, RespTake
  <2>3. QED  BY <1>2, <1>5, <1>6, <2>2, LineKept DEF KeptExcept, Kept
<1>7. CASE c = c0 /\ a = a0
  <2>1. /\ \A q \in Cache : InvTo(q, a, c)' <=> InvTo(q, a, c)
        /\ \A q \in Cache : AckFrom(q, c, a)' <=> AckFrom(q, c, a) /\ q # q0
    BY <1>7 DEF FwdSame, RespTake
  <2>2. \A q \in Cache : ~(InvTo(q, a, c) /\ AckFrom(q, c, a))
    BY <1>2 DEF LineInv, DueInv
  <2>3. Due(c, a)' = Due(c, a) \ {q0} /\ q0 \in Due(c, a)
    BY <1>7, <2>1, <2>2 DEF Due
  <2>4. Cardinality(Due(c, a)') = Cardinality(Due(c, a)) - 1
    BY <2>3, DueFinite, FS_RemoveElement
  <2>5. pendingAcks[c][a] \in Int  BY DEF TypeOK, CacheTypeOK
  <2>6. Class(c, a) = "acks" \/ (Class(c, a) = "store" /\ \E n, m : AtData(c, a, n, m))
    BY <1>2, <2>3, <2>5, AckExpected
  <2>7. \A n, m : AtData(c, a, n, m) => m.ackCount \in Int
    BY <1>7, AckCountsType
  <2>8. \A q \in Cache : ~(InvTo(q, a, c)' /\ AckFrom(q, c, a)')
    BY <2>1, <2>2
  <2>9. CASE Class(c, a)' = Class(c, a) /\ pendingAcks'[c][a] = pendingAcks[c][a] - 1
    <3>1. PlaceInv(c, a)'
      BY <1>2, <1>5, <2>9 DEF LineInv, PlaceInv, SamePlaces
    <3>2. \A n, m : AtData(c, a, n, m)' =>
             pendingAcks'[c][a] - m.ackCount = Cardinality(Due(c, a)')
      <4>1. SUFFICES ASSUME NEW n, NEW m, AtData(c, a, n, m)
                     PROVE  pendingAcks'[c][a] - m.ackCount = Cardinality(Due(c, a)')
        BY <1>4
      <4>2. pendingAcks[c][a] - m.ackCount = Cardinality(Due(c, a)) /\ m.ackCount \in Int
        BY <1>2, <2>7, <4>1 DEF LineInv, DueInv
      <4>3. QED  BY <2>4, <2>5, <2>9, <4>2
    <3>3. Class(c, a) = "acks" => pendingAcks'[c][a] = Cardinality(Due(c, a)')
      BY <1>2, <2>4, <2>9 DEF LineInv, DueInv
    <3>4. Class(c, a) = "store" => pendingAcks'[c][a] <= 0
      BY <1>2, <2>5, <2>9 DEF LineInv, DueInv
    <3>5. DueInv(c, a)'
      BY <1>4, <2>6, <2>8, <2>9, <3>2, <3>3, <3>4 DEF DueInv
    <3>6. QED  BY <3>1, <3>5 DEF LineInv
  <2>10. CASE /\ Class(c, a) = "acks" /\ Class(c, a)' = "none"
              /\ pendingAcks[c][a] - 1 = 0 /\ pendingAcks'[c][a] = 0
    <3>1. \A k, n, m : ~At(c, a, k, n, m)'
      BY <1>2, <1>5, <2>10 DEF LineInv, PlaceInv, SamePlaces
    <3>2. PlaceInv(c, a)'  BY <2>10, <3>1 DEF PlaceInv
    <3>3. Cardinality(Due(c, a)) = 1
      BY <1>2, <2>5, <2>10 DEF LineInv, DueInv
    <3>4. Due(c, a)' = {}
      BY <2>3, <2>4, <3>3, DueFinite, FS_RemoveElement, FS_EmptySet
    <3>5. \A n, m : ~AtData(c, a, n, m)'
      BY <1>2, <1>4, <2>10 DEF LineInv, PlaceInv, At
    <3>6. DueInv(c, a)'
      BY <2>8, <2>10, <3>4, <3>5 DEF DueInv
    <3>7. QED  BY <3>2, <3>6 DEF LineInv
  <2>11. QED  BY <1>7, <2>9, <2>10
<1>8. QED  BY <1>6, <1>7

-----------------------------------------------------------------------------
(* What each transition moves.                                             *)

LEMMA MemUnchanged ==
  ASSUME memQueue' = memQueue
  PROVE  MemSame
BY DEF MemSame, AtMem

LEMMA ChannelsUnchanged ==
  ASSUME ChannelInv, UNCHANGED <<requestNet, forwardNet, responseNet>>
  PROVE  ChannelInv' /\ ReqSame /\ FwdSame /\ RespSame
BY RequestsSame, ForwardsSame, ResponsesSame DEF ChannelInv

LEMMA CachesUnchanged ==
  ASSUME UNCHANGED <<cacheState, pendingAcks>>
  PROVE  \A c \in Cache, a \in Addr : Kept(c, a)
BY DEF Kept, Class

\* A transition of cache c on line a.
LEMMA LineSet ==
  ASSUME TypeOK, NEW c \in Cache, NEW a \in Addr, NEW s, setCacheState(c, a, s),
         NEW p, pendingAcks' = [pendingAcks EXCEPT ![c][a] = p]
  PROVE  KeptExcept(c, a) /\ Class(c, a)' = ClassOf(s) /\ pendingAcks'[c][a] = p
<1>1. \A x \in Cache, y \in Addr : ~(x = c /\ y = a) =>
        cacheState'[x][y] = cacheState[x][y] /\ pendingAcks'[x][y] = pendingAcks[x][y]
  BY DEF setCacheState, TypeOK, CacheTypeOK
<1>2. cacheState'[c][a] = s /\ pendingAcks'[c][a] = p
  BY DEF setCacheState, TypeOK, CacheTypeOK
<1>3. QED  BY <1>1, <1>2 DEF KeptExcept, Kept, Class

LEMMA LineStateSet ==
  ASSUME TypeOK, NEW c \in Cache, NEW a \in Addr, NEW s, setCacheState(c, a, s),
         pendingAcks' = pendingAcks
  PROVE  KeptExcept(c, a) /\ Class(c, a)' = ClassOf(s)
<1>1. \A x \in Cache, y \in Addr : ~(x = c /\ y = a) =>
        cacheState'[x][y] = cacheState[x][y]
  BY DEF setCacheState, TypeOK, CacheTypeOK
<1>2. cacheState'[c][a] = s
  BY DEF setCacheState, TypeOK, CacheTypeOK
<1>3. QED  BY <1>1, <1>2 DEF KeptExcept, Kept, Class

\* The state of a line that is set.
LEMMA StateSet ==
  ASSUME TypeOK, NEW c \in Cache, NEW a \in Addr, NEW s, setCacheState(c, a, s)
  PROVE  \A x \in Cache, y \in Addr :
           cacheState'[x][y] = IF x = c /\ y = a THEN s ELSE cacheState[x][y]
BY DEF TypeOK, CacheTypeOK, setCacheState

\* What the directory entry of a line is set to.
LEMMA DirStateSet ==
  ASSUME TypeOK, NEW a \in Addr, NEW s, NEW own, NEW shr, setState(a, s, own, shr)
  PROVE  \A x \in Addr : /\ dirState'[x] = IF x = a THEN s ELSE dirState[x]
                         /\ owner'[x] = IF x = a THEN own ELSE owner[x]
                         /\ sharers'[x] = IF x = a THEN shr ELSE sharers[x]
BY DEF TypeOK, DirTypeOK, setState

\* A line that waits for nothing has no miss anywhere and no ack due.
LEMMA Idle ==
  ASSUME Lines, NEW c \in Cache, NEW a \in Addr, Class(c, a) = "none"
  PROVE  /\ \A k, n, m : ~At(c, a, k, n, m)
         /\ \A m : ~AtReq(c, a, m)
         /\ Due(c, a) = {} /\ pendingAcks[c][a] = 0
<1>1. LineInv(c, a)  BY DEF Lines
<1>2. \A k, n, m : ~At(c, a, k, n, m)  BY <1>1 DEF LineInv, PlaceInv
<1>3. \A n, m : ~AtReq(c, a, m) /\ ~AtData(c, a, n, m)  BY <1>2 DEF At
<1>4. QED  BY <1>1, <1>2, <1>3 DEF LineInv, DueInv

\* A cache asks for a line.
LEMMA AskDelta ==
  ASSUME TypeOK, MissInv, NEW c \in Cache, NEW a \in Addr, NEW type \in GetTypes,
         cacheState[c][a] \in {"I", "S"}, sendRequest(c, a, type, None),
         NEW s, s \in {"IS_D", "IM_AD", "SM_AD"}, type = "GETS" <=> s = "IS_D",
         NEW v, allocateTBE(c, a, v), setCacheState(c, a, s),
         UNCHANGED <<forwardNet, responseNet, memQueue>>
  PROVE  /\ MissInv' /\ FwdSame /\ RespSame /\ MemSame /\ KeptExcept(c, a)
         /\ ReqPut(c, a, [type |-> type, addr |-> a, data |-> None])
<1> DEFINE m == [type |-> type, addr |-> a, data |-> None]
<1>1. Class(c, a) = "none"  BY DEF Class, ClassOf
<1>2. \A k : ~AtReq(c, a, k)  BY <1>1, Idle DEF MissInv
<1>3. type \in {"GETS", "GETM", "PUTS", "PUTM"} /\ None \in DataBlk /\ m.type = type
  BY DEF GetTypes, DataBlk
<1>4. ForwardsInv' /\ FwdSame /\ ResponsesInv' /\ RespSame /\ MemSame
  BY ForwardsSame, ResponsesSame, MemUnchanged DEF MissInv, ChannelInv
<1> HIDE DEF m
<1>5. RequestsInv' /\ ReqPut(c, a, m)
  BY <1>2, <1>3, RequestPut DEF MissInv, ChannelInv, m
<1>6. KeptExcept(c, a) /\ Class(c, a)' = ClassOf(s) /\ pendingAcks'[c][a] = 0
  BY LineSet DEF allocateTBE
<1>7. ClassOf(s) \in {"load", "store"} /\ (m.type = "GETS" <=> ClassOf(s) = "load")
  BY <1>3 DEF ClassOf
<1>8. Lines'
  BY <1>1, <1>4, <1>5, <1>6, <1>7, StartView DEF MissInv
<1>9. QED  BY <1>4, <1>5, <1>6, <1>8 DEF MissInv, ChannelInv, m

LEMMA CacheMandatoryMisses ==
  ASSUME TypeOK, MissInv, NEW c \in Cache, NEW a \in Addr, CacheMandatory(c, a)
  PROVE  MissInv'
<1>1. memQueue' = memQueue /\ MandatoryStep(c, a)  BY DEF CacheMandatory, dirVars
<1>2. CASE Miss(c, a) /\ Queued(c, a, "Load")
  BY <1>1, <1>2, AskDelta DEF Miss, Queued, GetTypes
<1>3. CASE Miss(c, a) /\ Queued(c, a, "Store")
  BY <1>1, <1>3, AskDelta DEF Miss, Queued, GetTypes
<1>4. CASE LoadHit(c, a) \/ StoreHit(c, a)
  <2>1. UNCHANGED <<requestNet, forwardNet, responseNet, cacheState, pendingAcks>>
    BY <1>4 DEF LoadHit, StoreHit, netVars, cacheVars
  <2>2. QED  BY <1>1, <2>1, ChannelsUnchanged, CachesUnchanged, MemUnchanged, QuietView DEF MissInv
<1>5. CASE Upgrade(c, a)
  BY <1>1, <1>5, AskDelta DEF Upgrade, GetTypes
<1>6. QED  BY <1>1, <1>2, <1>3, <1>4, <1>5 DEF MandatoryStep, Miss

\* A cache gives a line up.
LEMMA ReplacementDelta ==
  ASSUME TypeOK, MissInv, NEW c \in Cache, NEW a \in Addr, Replacement(c, a), UNCHANGED dirVars
  PROVE  /\ ChannelInv' /\ ReqSame /\ FwdSame /\ RespSame /\ MemSame
         /\ \A x \in Cache, y \in Addr : Kept(x, y)
<1>1. UNCHANGED <<forwardNet, responseNet, memQueue>>
  BY DEF Replacement, dirVars
<1>2. PICK type \in {"PUTS", "PUTM"}, s \in {"SI_A", "MI_A"} :
        /\ cacheState[c][a] \in {"S", "M"}
        /\ sendRequest(c, a, type, entryBlk[c][a]) /\ setCacheState(c, a, s)
  BY DEF Replacement
<1>3. pendingAcks' = [pendingAcks EXCEPT ![c][a] = 0]
  BY DEF Replacement, allocateTBE
<1>4. entryBlk[c][a] \in DataBlk /\ type \notin GetTypes
  BY DEF TypeOK, CacheTypeOK, GetTypes
<1>5. RequestsInv' /\ ReqSame
  BY <1>2, <1>4, RequestPut DEF MissInv, ChannelInv
<1>6. ForwardsInv' /\ FwdSame /\ ResponsesInv' /\ RespSame /\ MemSame
  BY <1>1, ForwardsSame, ResponsesSame, MemUnchanged DEF MissInv, ChannelInv
<1>7. KeptExcept(c, a) /\ Class(c, a)' = ClassOf(s) /\ pendingAcks'[c][a] = 0
  BY <1>2, <1>3, LineSet
<1>8. Class(c, a) = "none" /\ ClassOf(s) = "none"  BY <1>2 DEF Class, ClassOf
<1>9. \A x \in Cache, y \in Addr : Kept(x, y)
  BY <1>7, <1>8 DEF KeptExcept, Kept
<1>10. QED  BY <1>5, <1>6, <1>9 DEF ChannelInv

LEMMA CacheReplacementMisses ==
  ASSUME TypeOK, MissInv, NEW c \in Cache, CacheReplacement(c)
  PROVE  MissInv'
<1>1. PICK a \in Addr : Replacement(c, a) /\ UNCHANGED dirVars  BY DEF CacheReplacement
<1>2. /\ ChannelInv' /\ ReqSame /\ FwdSame /\ RespSame /\ MemSame
      /\ \A x \in Cache, y \in Addr : Kept(x, y)
  BY <1>1, ReplacementDelta
<1>3. Lines'  BY <1>2, QuietView DEF MissInv
<1>4. QED  BY <1>2, <1>3 DEF MissInv

\* An invalidation is acknowledged.
LEMMA InvDelta ==
  ASSUME TypeOK, MissInv, NEW c \in Cache, NEW d \in Dir, Inv(c, d),
         NEW m, m = Head(forwardNet[d][c])
  PROVE  /\ m.addr \in Addr /\ m.requestor \in Cache /\ m = InvMsg(m.addr, m.requestor)
         /\ InvTo(c, m.addr, m.requestor)
         /\ FwdTake(c, m) /\ RespPut(c, m.requestor, AckMsg(m.addr)) /\ ReqSame
         /\ ChannelInv'
<1>1. /\ AtHead(forwardNet, forwardHead, d, c) /\ m.type = "INV"
      /\ forwardNet' = Pop(forwardNet, d, c) /\ requestNet' = requestNet
      /\ responseNet' = sendResponse(responseNet, c, m.requestor, "ACK", m.addr, None, 1)
  BY DEF Inv, Forwarded, popForward
<1>2. /\ m \in ForwardMsg /\ In(forwardNet, d, c, m) /\ DirOf[m.addr] = d
      /\ m.type \in FwdTypes => m.requestor \in Cache
      /\ ForwardsInv' /\ FwdTake(c, m)
  BY <1>1, ForwardTaken DEF MissInv, ChannelInv
<1>3. m.addr \in Addr /\ m.requestor \in Cache /\ m = InvMsg(m.addr, m.requestor)
  BY <1>1, <1>2 DEF ForwardMsg, FwdTypes, InvMsg
<1>4. InvTo(c, m.addr, m.requestor)
  BY <1>2, <1>3 DEF InvTo
<1>5. ~AckFrom(c, m.requestor, m.addr)
  BY <1>3, <1>4 DEF MissInv, Lines, LineInv, DueInv
<1>6. Sendable(c, m.requestor, AckMsg(m.addr))
  <2>1. AckMsg(m.addr) \in ResponseMsg /\ AckMsg(m.addr).addr = m.addr
        /\ AckMsg(m.addr).type = "ACK"
    BY <1>3, Constants DEF AckMsg, ResponseMsg
  <2>2. QED  BY <1>5, <2>1 DEF Sendable, AckFrom, RespTypes
<1>7. responseNet' = Send(responseNet, c, m.requestor, AckMsg(m.addr))
  BY <1>1 DEF sendResponse, AckMsg
<1>8. ResponsesInv' /\ RespPut(c, m.requestor, AckMsg(m.addr))
  BY <1>3, <1>6, <1>7, ResponsePut, Places DEF MissInv, ChannelInv
<1>9. RequestsInv' /\ ReqSame
  BY <1>1, RequestsSame DEF MissInv, ChannelInv
<1>10. QED  BY <1>2, <1>3, <1>4, <1>8, <1>9 DEF ChannelInv

\* The owner answers a forwarded request.
LEMMA OwnerDelta ==
  ASSUME TypeOK, MissInv, NEW c \in Cache, NEW d \in Dir,
         Fwd_GetS(c, d) \/ Fwd_GetM(c, d),
         NEW m, m = Head(forwardNet[d][c])
  PROVE  /\ m.addr \in Addr /\ m.requestor \in Cache /\ m.type \in GetTypes
         /\ AtFwd(m.requestor, m.addr, c, m)
         /\ cacheState[c][m.addr] \in {"M", "MI_A"}
         /\ \E v \in DataBlk :
              /\ v = IF cacheState[c][m.addr] = "M" THEN entryBlk[c][m.addr] ELSE tbeBlk[c][m.addr]
              /\ RespPut(c, m.requestor, [type |-> "DATA_FROM_OWNER", addr |-> m.addr,
                                          data |-> v, ackCount |-> 0])
         /\ FwdTake(c, m) /\ ReqSame
         /\ ChannelInv'
<1> DEFINE v == IF cacheState[c][m.addr] = "M" THEN entryBlk[c][m.addr] ELSE tbeBlk[c][m.addr]
           data == [type |-> "DATA_FROM_OWNER", addr |-> m.addr, data |-> v, ackCount |-> 0]
           copy == [type |-> "DATA", addr |-> m.addr, data |-> v, ackCount |-> 0]
<1>1. /\ AtHead(forwardNet, forwardHead, d, c) /\ m.type \in GetTypes
      /\ cacheState[c][m.addr] \in {"M", "MI_A"}
      /\ forwardNet' = Pop(forwardNet, d, c) /\ requestNet' = requestNet
  BY DEF Fwd_GetS, Fwd_GetM, Forwarded, popForward, GetTypes
<1>2. \/ responseNet' = Send(responseNet, c, m.requestor, data)
      \/ responseNet' = Send(Send(responseNet, c, m.requestor, data), c, DirOf[m.addr], copy)
  BY DEF Fwd_GetS, Fwd_GetM, sendResponse
<1>3. /\ m \in ForwardMsg /\ In(forwardNet, d, c, m) /\ DirOf[m.addr] = d
      /\ m.type \in FwdTypes => m.requestor \in Cache
      /\ ForwardsInv' /\ FwdTake(c, m)
  BY <1>1, ForwardTaken DEF MissInv, ChannelInv
<1>4. m.addr \in Addr /\ m.requestor \in Cache
  BY <1>1, <1>3 DEF ForwardMsg, FwdTypes, GetTypes
<1>5. v \in DataBlk
  BY <1>4 DEF TypeOK, CacheTypeOK
<1>6. AtFwd(m.requestor, m.addr, c, m)
  BY <1>1, <1>3, <1>4 DEF AtFwd
<1>7. \A n, k : ~AtData(m.requestor, m.addr, n, k)
  <2>1. At(m.requestor, m.addr, "forward", c, m)  BY <1>6 DEF At
  <2>2. OnlyPlace(m.requestor, m.addr, "forward", c, m)
    BY <1>4, <2>1, FoundPlace DEF MissInv, Lines, LineInv
  <2>3. QED  BY <1>4, <2>2, OnlyKind
<1>8. data \in ResponseMsg /\ data.type = "DATA_FROM_OWNER" /\ data.addr = m.addr /\ data.ackCount = 0
      /\ copy \in ResponseMsg /\ copy.type = "DATA"
  BY <1>4, <1>5 DEF ResponseMsg
<1> HIDE DEF data, copy
<1>9. Sendable(c, m.requestor, data)
  BY <1>7, <1>8, Places DEF Sendable, AtData, DataTypes, RespTypes
<1>10. ResponsesInv' /\ RespPut(c, m.requestor, data)
  <2>1. CASE responseNet' = Send(responseNet, c, m.requestor, data)
    BY <1>4, <1>9, <2>1, ResponsePut, Places DEF MissInv, ChannelInv
  <2>2. CASE responseNet' = Send(Send(responseNet, c, m.requestor, data), c, DirOf[m.addr], copy)
    BY <1>4, <1>8, <1>9, <2>2, ResponsePutTwice, Places DEF MissInv, ChannelInv
  <2>3. QED  BY <1>2, <2>1, <2>2
<1>11. RequestsInv' /\ ReqSame
  BY <1>1, RequestsSame DEF MissInv, ChannelInv
<1>12. QED  BY <1>1, <1>3, <1>4, <1>5, <1>6, <1>10, <1>11 DEF ChannelInv, data

\* A forward that becomes the data.
LEMMA ForwardAnswered ==
  ASSUME Lines, NEW c \in Cache, NEW a \in Addr, NEW q, NEW m, AtFwd(c, a, q, m), FwdTake(q, m),
         NEW data, RespPut(q, c, data), data.type = "DATA_FROM_OWNER", data.addr = a,
         data.ackCount = 0, ReqSame, MemSame, \A x \in Cache, y \in Addr : Kept(x, y)
  PROVE  Lines'
<1>0. m.addr = a /\ m.requestor = c /\ m.type \in GetTypes /\ q \in Cache  BY DEF AtFwd
<1>1. At(c, a, "forward", q, m)  BY DEF At
<1>2. OnlyPlace(c, a, "forward", q, m)
  BY <1>1, FoundPlace DEF Lines, LineInv
<1>3. data.type \in DataTypes /\ \A y : data # AckMsg(y)  BY DEF DataTypes, AckMsg
<1>4. \A x, y : m # InvMsg(y, x)  BY <1>0 DEF GetTypes, InvMsg
<1>5. \A x \in Cache, y \in Addr : SameDue(x, y)
  BY <1>3, <1>4 DEF SameDue, FwdTake, RespPut
<1>6. ASSUME NEW x \in Cache, NEW y \in Addr, ~(x = c /\ y = a) PROVE SamePlaces(x, y)
  <2>1. \A n, k : AtFwd(x, y, n, k)' <=> AtFwd(x, y, n, k)
    <3>1. \A n, k : AtFwd(x, y, n, k) => k # m  BY <1>0, <1>6 DEF AtFwd
    <3>2. QED  BY <3>1 DEF FwdTake
  <2>2. \A n, k : AtData(x, y, n, k)' <=> AtData(x, y, n, k)
    BY <1>6 DEF RespPut
  <2>3. QED  BY <2>1, <2>2 DEF SamePlaces, At, ReqSame, MemSame
<1>7. OnlyPlace(c, a, "data", q, data)'
  <2>1. \A n, k : ~AtData(c, a, n, k) /\ ~AtReq(c, a, k) /\ ~AtMem(c, a, k)
                  /\ (AtFwd(c, a, n, k) => n = q /\ k = m)
    BY <1>2, OnlyKind
  <2>2. \A n, k : /\ AtData(c, a, n, k)' <=> n = q /\ k = data
                  /\ ~AtReq(c, a, k)' /\ ~AtMem(c, a, k)' /\ ~AtFwd(c, a, n, k)'
    BY <1>3, <2>1 DEF RespPut, ReqSame, MemSame, FwdTake
  <2>3. QED  BY <2>2 DEF OnlyPlace, At
<1>8. data.ackCount = 0 - Cardinality({})  BY FS_EmptySet
<1>9. \A x \in Cache : /\ InvTo(x, a, c)' <=> InvTo(x, a, c) \/ x \in {}
                       /\ AckFrom(x, c, a)' <=> AckFrom(x, c, a)
  BY <1>5 DEF SameDue
<1>10. QED  BY <1>1, <1>5, <1>6, <1>7, <1>8, <1>9, AnswerView

\* A write-back is acknowledged.
LEMMA WBAckDelta ==
  ASSUME TypeOK, MissInv, NEW c \in Cache, NEW d \in Dir, WB_Ack(c, d),
         NEW m, m = Head(forwardNet[d][c])
  PROVE  /\ m.addr \in Addr /\ ReqSame /\ FwdSame /\ RespSame
         /\ ChannelInv' /\ \A x \in Cache, y \in Addr : Kept(x, y)
<1>0. ChannelInv  BY DEF MissInv
<1>1. /\ AtHead(forwardNet, forwardHead, d, c) /\ m.type = "WB_ACK"
      /\ cacheState[c][m.addr] \in {"I", "MI_A", "SI_A", "II_A"}
      /\ forwardNet' = Pop(forwardNet, d, c)
      /\ setCacheState(c, m.addr, "I")
      /\ pendingAcks' = [pendingAcks EXCEPT ![c][m.addr] = 0]
      /\ UNCHANGED <<requestNet, responseNet>>
  BY DEF WB_Ack, Forwarded, popForward, deallocateTBE, allocateTBE
<1>2. m \in ForwardMsg /\ ForwardsInv' /\ FwdTake(c, m)
  BY <1>0, <1>1, ForwardTaken DEF ChannelInv
<1>3. m.addr \in Addr /\ m.type \notin GetTypes /\ \A x, y : m # InvMsg(y, x)
  BY <1>1, <1>2 DEF ForwardMsg, GetTypes, InvMsg
<1>4. FwdSame
  <2>1. \A x, y, n, k : AtFwd(x, y, n, k) => k # m  BY <1>3 DEF AtFwd
  <2>2. QED  BY <1>2, <1>3, <2>1 DEF FwdTake, FwdSame
<1>5. RequestsInv' /\ ReqSame /\ ResponsesInv' /\ RespSame
  BY <1>0, <1>1, RequestsSame, ResponsesSame DEF ChannelInv
<1>6. Class(c, m.addr) = "none" /\ ClassOf("I") = "none"  BY <1>1 DEF Class, ClassOf
<1>7. \A x \in Cache, y \in Addr : Kept(x, y)
  <2>1. KeptExcept(c, m.addr) /\ Class(c, m.addr)' = ClassOf("I") /\ pendingAcks'[c][m.addr] = 0
    BY <1>1, <1>3, LineSet
  <2>2. QED  BY <1>6, <2>1 DEF KeptExcept, Kept
<1>8. QED  BY <1>2, <1>3, <1>4, <1>5, <1>7 DEF ChannelInv

LEMMA CacheForwardMisses ==
  ASSUME TypeOK, MissInv, NEW c \in Cache, NEW d \in Dir, CacheForward(c, d)
  PROVE  MissInv'
<1>m. PICK m : m = Head(forwardNet[d][c])  OBVIOUS
<1>0. ChannelInv /\ Lines  BY DEF MissInv
<1>1. MemSame /\ ForwardStep(c, d)  BY MemUnchanged DEF CacheForward, dirVars
<1>2. CASE Inv(c, d)
  <2>1. /\ m.addr \in Addr /\ m.requestor \in Cache /\ m = InvMsg(m.addr, m.requestor)
        /\ InvTo(c, m.addr, m.requestor)
        /\ FwdTake(c, m) /\ RespPut(c, m.requestor, AckMsg(m.addr)) /\ ReqSame
        /\ ChannelInv'
    BY <1>m, <1>2, InvDelta
  <2>2. \E s \in {"I", "S", "SM_AD", "SI_A"} : cacheState[c][m.addr] = s
    BY <1>m, <1>2 DEF Inv, Forwarded, AfterInv
  <2>3. setCacheState(c, m.addr, AfterInv[cacheState[c][m.addr]]) /\ pendingAcks' = pendingAcks
    BY <1>m, <1>2 DEF Inv
  <2>4. ClassOf(AfterInv[cacheState[c][m.addr]]) = Class(c, m.addr)
    BY <2>2 DEF Class, ClassOf, AfterInv
  <2>5. \A x \in Cache, y \in Addr : Kept(x, y)
    BY <2>1, <2>3, <2>4, LineStateSet DEF KeptExcept, Kept
  <2>6. Lines'
    BY <1>0, <1>1, <2>1, <2>5, AckView
  <2>7. QED  BY <2>1, <2>6 DEF MissInv
<1>3. CASE WB_Ack(c, d)
  <2>1. /\ ChannelInv' /\ ReqSame /\ FwdSame /\ RespSame
        /\ \A x \in Cache, y \in Addr : Kept(x, y)
    BY <1>m, <1>3, WBAckDelta
  <2>2. Lines'  BY <1>0, <1>1, <2>1, QuietView
  <2>3. QED  BY <2>1, <2>2 DEF MissInv
<1>4. CASE Fwd_GetS(c, d) \/ Fwd_GetM(c, d)
  <2>1. /\ m.addr \in Addr /\ m.requestor \in Cache /\ m.type \in GetTypes
        /\ AtFwd(m.requestor, m.addr, c, m)
        /\ cacheState[c][m.addr] \in {"M", "MI_A"}
        /\ \E v \in DataBlk :
             /\ v = IF cacheState[c][m.addr] = "M" THEN entryBlk[c][m.addr] ELSE tbeBlk[c][m.addr]
             /\ RespPut(c, m.requestor, [type |-> "DATA_FROM_OWNER", addr |-> m.addr,
                                         data |-> v, ackCount |-> 0])
        /\ FwdTake(c, m) /\ ReqSame
        /\ ChannelInv'
    BY <1>m, <1>4, OwnerDelta
  <2>2. PICK s \in {"S", "SI_A", "I", "II_A"} : setCacheState(c, m.addr, s)
    BY <1>m, <1>4 DEF Fwd_GetS, Fwd_GetM
  <2>3. pendingAcks' = pendingAcks  BY <1>4 DEF Fwd_GetS, Fwd_GetM
  <2>4. ClassOf(s) = "none" /\ Class(c, m.addr) = "none"  BY <2>1 DEF Class, ClassOf
  <2>5. \A x \in Cache, y \in Addr : Kept(x, y)
    BY <2>1, <2>2, <2>3, <2>4, LineStateSet DEF KeptExcept, Kept
  <2>6. PICK data : /\ RespPut(c, m.requestor, data) /\ data.type = "DATA_FROM_OWNER"
                    /\ data.addr = m.addr /\ data.ackCount = 0
    BY <2>1
  <2>7. Lines'
    BY <1>0, <1>1, <2>1, <2>5, <2>6, ForwardAnswered
  <2>8. QED  BY <2>1, <2>7 DEF MissInv
<1>5. CASE ForwardStall(c, d)
  <2>1. UNCHANGED <<requestNet, forwardNet, responseNet, cacheState, pendingAcks>>
    BY <1>5 DEF ForwardStall, cacheVars
  <2>2. QED  BY <1>1, <2>1, ChannelsUnchanged, CachesUnchanged, QuietView DEF MissInv
<1>6. QED  BY <1>1, <1>2, <1>3, <1>4, <1>5 DEF ForwardStep

\* The event that a response triggers, and its type and count.
LEMMA EventCases ==
  ASSUME NEW c, NEW m \in ResponseMsg, pendingAcks[c][m.addr] \in Int
  PROVE  /\ ResponseEvent(c, m) = "Data_from_Owner" => m.type = "DATA_FROM_OWNER"
         /\ ResponseEvent(c, m) = "Data_from_Dir_No_Acks" => m.type = "DATA_FROM_DIR" /\ m.ackCount = 0
         /\ ResponseEvent(c, m) = "Data_from_Dir_Ack_Cnt_Last" =>
              m.type = "DATA_FROM_DIR" /\ pendingAcks[c][m.addr] - m.ackCount = 0
         /\ ResponseEvent(c, m) = "Data_from_Dir_Ack_Cnt" =>
              m.type = "DATA_FROM_DIR" /\ pendingAcks[c][m.addr] - m.ackCount # 0
         /\ ResponseEvent(c, m) = "Inv_Ack_all" =>
              m.type = "ACK" /\ pendingAcks[c][m.addr] - m.ackCount = 0
         /\ ResponseEvent(c, m) = "Inv_Ack" =>
              m.type = "ACK" /\ pendingAcks[c][m.addr] - m.ackCount # 0
<1>1. m.type \in {"DATA_FROM_DIR", "DATA_FROM_OWNER", "DATA", "ACK"}  BY DEF ResponseMsg
<1>2. CASE m.type = "DATA_FROM_OWNER"  BY <1>2 DEF ResponseEvent, CountedEvent
<1>3. CASE m.type = "DATA_FROM_DIR"
  <2>1. CASE m.ackCount = 0  BY <1>3, <2>1 DEF ResponseEvent, CountedEvent
  <2>2. CASE m.ackCount # 0 /\ cacheState[c][m.addr] \notin CacheTransient
    BY <1>3, <2>2 DEF ResponseEvent, CountedEvent
  <2>3. CASE m.ackCount # 0 /\ cacheState[c][m.addr] \in CacheTransient
    <3>1. CASE pendingAcks[c][m.addr] - m.ackCount = 0  BY <1>3, <2>3, <3>1 DEF ResponseEvent, CountedEvent
    <3>2. CASE pendingAcks[c][m.addr] - m.ackCount # 0  BY <1>3, <2>3, <3>2 DEF ResponseEvent, CountedEvent
    <3>3. QED  BY <3>1, <3>2
  <2>4. QED  BY <2>1, <2>2, <2>3
<1>4. CASE m.type = "ACK"
  <2>1. CASE cacheState[c][m.addr] \notin CacheTransient
    BY <1>4, <2>1 DEF ResponseEvent, CountedEvent
  <2>2. CASE cacheState[c][m.addr] \in CacheTransient
    <3>1. CASE pendingAcks[c][m.addr] - m.ackCount = 0  BY <1>4, <2>2, <3>1 DEF ResponseEvent, CountedEvent
    <3>2. CASE pendingAcks[c][m.addr] - m.ackCount # 0  BY <1>4, <2>2, <3>2 DEF ResponseEvent, CountedEvent
    <3>3. QED  BY <3>1, <3>2
  <2>3. QED  BY <2>1, <2>2
<1>5. CASE m.type = "DATA"
  <2>1. CASE cacheState[c][m.addr] \notin CacheTransient
    BY <1>5, <2>1 DEF ResponseEvent, CountedEvent
  <2>2. CASE cacheState[c][m.addr] \in CacheTransient
    BY <1>5, <2>2 DEF ResponseEvent, CountedEvent
  <2>3. QED  BY <2>1, <2>2
<1>6. QED  BY <1>1, <1>2, <1>3, <1>4, <1>5

\* A cache takes a response.
LEMMA TakeDelta ==
  ASSUME TypeOK, MissInv, NEW c \in Cache, NEW n \in Node, responseNet[n][c] # <<>>,
         responseNet' = Pop(responseNet, n, c), UNCHANGED <<requestNet, forwardNet, memQueue>>,
         NEW m, m = Head(responseNet[n][c])
  PROVE  /\ m \in ResponseMsg /\ m.addr \in Addr /\ m.ackCount \in Int
         /\ In(responseNet, n, c, m)
         /\ m.type = "ACK" => m = AckMsg(m.addr) /\ n \in Cache /\ AckFrom(n, c, m.addr)
         /\ m.type \in DataTypes => AtData(c, m.addr, n, m)
         /\ m.type = "DATA_FROM_OWNER" => m.ackCount = 0
         /\ RespTake(n, c, m) /\ ReqSame /\ FwdSame /\ MemSame
         /\ ChannelInv' /\ pendingAcks[c][m.addr] \in Int
<1>1. c \in Node  BY Places
<1>2. /\ m \in ResponseMsg /\ In(responseNet, n, c, m)
      /\ m.type = "ACK" => m = AckMsg(m.addr) /\ n \in Cache
      /\ m.type = "DATA_FROM_OWNER" => m.ackCount = 0
      /\ ResponsesInv' /\ RespTake(n, c, m)
  BY <1>1, ResponseTaken DEF MissInv, ChannelInv
<1>3. m.addr \in Addr /\ m.ackCount \in Int  BY <1>2 DEF ResponseMsg
<1>4. RequestsInv' /\ ReqSame /\ ForwardsInv' /\ FwdSame /\ MemSame
  BY RequestsSame, ForwardsSame, MemUnchanged DEF MissInv, ChannelInv
<1>5. pendingAcks[c][m.addr] \in Int  BY <1>3 DEF TypeOK, CacheTypeOK
<1>6. QED  BY <1>2, <1>3, <1>4, <1>5 DEF ChannelInv, AckFrom, AtData

LEMMA CacheResponseMisses ==
  ASSUME TypeOK, MissInv, NEW c \in Cache, NEW n \in Node, CacheResponse(c, n)
  PROVE  MissInv'
<1>m. PICK m : m = Head(responseNet[n][c])  OBVIOUS
<1>0. memQueue' = memQueue /\ ResponseStep(c, n)  BY DEF CacheResponse, dirVars
<1>1. /\ responseNet[n][c] # <<>> /\ responseNet' = Pop(responseNet, n, c)
      /\ UNCHANGED <<requestNet, forwardNet, memQueue>>
  BY <1>0 DEF ResponseStep, LoadData, StoreData, Inv_Ack, StoreDone, Responded, popResponse
<1>2. /\ m \in ResponseMsg /\ m.addr \in Addr /\ m.ackCount \in Int
      /\ m.type = "ACK" => m = AckMsg(m.addr) /\ n \in Cache /\ AckFrom(n, c, m.addr)
      /\ m.type \in DataTypes => AtData(c, m.addr, n, m)
      /\ m.type = "DATA_FROM_OWNER" => m.ackCount = 0
      /\ RespTake(n, c, m) /\ ReqSame /\ FwdSame /\ MemSame
      /\ ChannelInv' /\ pendingAcks[c][m.addr] \in Int
  BY <1>m, <1>1, TakeDelta
<1>3. Lines  BY DEF MissInv
<1>4. CASE LoadData(c, n) \/ (StoreDone(c, n) /\ cacheState[c][m.addr] \in {"IM_AD", "SM_AD"})
  <2>1. /\ m.type \in DataTypes
        /\ m.ackCount = 0 \/ pendingAcks[c][m.addr] - m.ackCount = 0
    BY <1>m, <1>2, <1>4, EventCases DEF LoadData, StoreDone, Responded, DataTypes
  <2>2. PICK s \in {"S", "M"} : setCacheState(c, m.addr, s)
    BY <1>m, <1>4 DEF LoadData, StoreDone
  <2>3. pendingAcks' = [pendingAcks EXCEPT ![c][m.addr] = 0]
    BY <1>m, <1>4 DEF LoadData, StoreDone, deallocateTBE, allocateTBE
  <2>4. KeptExcept(c, m.addr) /\ Class(c, m.addr)' = ClassOf(s) /\ pendingAcks'[c][m.addr] = 0
    BY <1>2, <2>2, <2>3, LineSet
  <2>5. ClassOf(s) = "none"  BY DEF ClassOf
  <2>6. Lines'
    BY <1>2, <1>3, <2>1, <2>4, <2>5, DataView
  <2>7. QED  BY <1>2, <2>6 DEF MissInv
<1>5. CASE StoreDone(c, n) /\ cacheState[c][m.addr] \in {"IM_A", "SM_A"}
  <2>1. m.type = "ACK" /\ pendingAcks[c][m.addr] - m.ackCount = 0
    BY <1>m, <1>2, <1>5, EventCases DEF StoreDone, Responded
  <2>2. m.ackCount = 1  BY <1>2, <2>1 DEF AckMsg
  <2>3. /\ setCacheState(c, m.addr, "M")
        /\ pendingAcks' = [pendingAcks EXCEPT ![c][m.addr] = 0]
    BY <1>m, <1>5 DEF StoreDone, deallocateTBE, allocateTBE
  <2>4. KeptExcept(c, m.addr) /\ Class(c, m.addr)' = ClassOf("M") /\ pendingAcks'[c][m.addr] = 0
    BY <1>2, <2>3, LineSet
  <2>5. ClassOf("M") = "none" /\ Class(c, m.addr) = "acks"  BY <1>5 DEF Class, ClassOf
  <2>6. RespTake(n, c, AckMsg(m.addr))  BY <1>2, <2>1
  <2>7. Lines'
    BY <1>2, <1>3, <2>1, <2>2, <2>4, <2>5, <2>6, CountView
  <2>8. QED  BY <1>2, <2>7 DEF MissInv
<1>6. CASE StoreData(c, n)
  <2>1. m.type \in DataTypes /\ cacheState[c][m.addr] \in {"IM_AD", "SM_AD"}
    BY <1>m, <1>2, <1>6, EventCases DEF StoreData, Responded, DataTypes
  <2>2. PICK s \in {"IM_A", "SM_A"} : setCacheState(c, m.addr, s)
    BY <1>m, <1>6 DEF StoreData
  <2>3. PICK p : /\ p = pendingAcks[c][m.addr] - m.ackCount
                 /\ pendingAcks' = [pendingAcks EXCEPT ![c][m.addr] = p]
    BY <1>m, <1>2, <1>6 DEF StoreData, updateAckCount, TypeOK, CacheTypeOK
  <2>4. KeptExcept(c, m.addr) /\ Class(c, m.addr)' = ClassOf(s) /\ pendingAcks'[c][m.addr] = p
    <3>1. m.addr \in Addr  BY <1>2
    <3>2. pendingAcks' = [pendingAcks EXCEPT ![c][m.addr] = p]  BY <2>3
    <3>3. QED  BY <2>2, <3>1, <3>2, LineSet
  <2>5. ClassOf(s) = "acks"  BY DEF ClassOf
  <2>6. Lines'
    BY <1>2, <1>3, <2>1, <2>3, <2>4, <2>5, DataView
  <2>7. QED  BY <1>2, <2>6 DEF MissInv
<1>7. CASE Inv_Ack(c, n)
  <2>1. m.type = "ACK"
    BY <1>m, <1>2, <1>7, EventCases DEF Inv_Ack, Responded
  <2>2. m.ackCount = 1  BY <1>2, <2>1 DEF AckMsg
  <2>3. cacheState' = cacheState /\ updateAckCount(c, m)
    BY <1>m, <1>7 DEF Inv_Ack
  <2>4. \A x \in Cache, y \in Addr : pendingAcks'[x][y] =
          IF x = c /\ y = m.addr THEN pendingAcks[x][y] - 1 ELSE pendingAcks[x][y]
    BY <1>2, <2>2, <2>3 DEF updateAckCount, TypeOK, CacheTypeOK
  <2>5. \A x, y : Class(x, y)' = Class(x, y)  BY <2>3 DEF Class
  <2>6. /\ KeptExcept(c, m.addr) /\ pendingAcks'[c][m.addr] = pendingAcks[c][m.addr] - 1
        /\ Class(c, m.addr)' = Class(c, m.addr)
    BY <1>2, <2>4, <2>5 DEF KeptExcept, Kept
  <2>7. RespTake(n, c, AckMsg(m.addr))  BY <1>2, <2>1
  <2>8. Lines'
    BY <1>2, <1>3, <2>1, <2>6, <2>7, CountView
  <2>9. QED  BY <1>2, <2>8 DEF MissInv
<1>8. StoreDone(c, n) => cacheState[c][m.addr] \in {"IM_AD", "SM_AD", "IM_A", "SM_A"}
  BY <1>m DEF StoreDone, Responded
<1>9. QED  BY <1>0, <1>4, <1>5, <1>6, <1>7, <1>8 DEF ResponseStep

-----------------------------------------------------------------------------
(* The directory's transitions.                                            *)

LEMMA MemoryPut ==
  ASSUME NEW c0 \in Cache, NEW a0 \in Addr, NEW v, NEW type \in {"MEMORY_READ", "MEMORY_WB"},
         queueMemory(a0, type, c0, v)
  PROVE  /\ type = "MEMORY_READ" =>
              MemPut(c0, a0, [type |-> type, addr |-> a0, requestor |-> c0, data |-> v])
         /\ type = "MEMORY_WB" => MemSame
BY DEF queueMemory, MemPut, MemSame, AtMem

\* The event of a request and its type.
LEMMA RequestTypes ==
  ASSUME NEW c, NEW m \in RequestMsg
  PROVE  /\ RequestEvent(c, m) \in GetTypes => m.type = RequestEvent(c, m)
         /\ RequestEvent(c, m) \in {"PUTS_Last", "PUTS_NotLast"} => m.type = "PUTS"
         /\ RequestEvent(c, m) \in {"PUTM_Owner", "PUTM_NotOwner"} => m.type = "PUTM"
         /\ m.type \in GetTypes => RequestEvent(c, m) = m.type
<1>1. CASE m.type = "PUTM"
  <2>1. CASE c \in owner[m.addr]  BY <1>1, <2>1 DEF RequestEvent, GetTypes
  <2>2. CASE c \notin owner[m.addr]  BY <1>1, <2>2 DEF RequestEvent, GetTypes
  <2>3. QED  BY <2>1, <2>2
<1>2. CASE m.type = "PUTS"
  <2>1. CASE Cardinality(sharers[m.addr]) < 2  BY <1>2, <2>1 DEF RequestEvent, GetTypes
  <2>2. CASE ~(Cardinality(sharers[m.addr]) < 2)  BY <1>2, <2>2 DEF RequestEvent, GetTypes
  <2>3. QED  BY <2>1, <2>2
<1>3. CASE m.type \in GetTypes
  <2>1. RequestEvent(c, m) = m.type  BY <1>3 DEF RequestEvent, GetTypes
  <2>2. QED  BY <1>3, <2>1 DEF GetTypes
<1>4. QED  BY <1>1, <1>2, <1>3 DEF RequestMsg, GetTypes

\* A directory takes a GETS or a GETM.
LEMMA GetDelta ==
  ASSUME TypeOK, MissInv, NEW d \in Dir, NEW c \in Cache, NEW m, m = Head(requestNet[c][d]),
         NEW events \in SUBSET GetTypes, NEW states, Requested(d, c, events, states), popRequest(d, c)
  PROVE  /\ m.type \in events /\ m.addr \in Addr /\ DirOf[m.addr] = d
         /\ dirState[m.addr] \in states
         /\ AtReq(c, m.addr, m) /\ At(c, m.addr, "request", c, m)
         /\ OnlyPlace(c, m.addr, "request", c, m)
         /\ Class(c, m.addr) \in {"load", "store"} /\ (m.type = "GETS" <=> Class(c, m.addr) = "load")
         /\ RequestsInv' /\ ReqTake(c, m)
<1>1. /\ AtHead(requestNet, requestHead, c, d) /\ requestNet' = Pop(requestNet, c, d)
      /\ RequestEvent(c, m) \in events /\ dirState[m.addr] \in states
  BY DEF Requested, popRequest
<1>2. /\ m \in RequestMsg /\ In(requestNet, c, d, m) /\ DirOf[m.addr] = d
      /\ m.type \in GetTypes => AtReq(c, m.addr, m)
      /\ RequestsInv' /\ ReqTake(c, m)
  BY <1>1, RequestTaken DEF MissInv, ChannelInv
<1>3. m.type \in events /\ m.type \in GetTypes  BY <1>1, <1>2, RequestTypes
<1>4. m.addr \in Addr  BY <1>2 DEF RequestMsg
<1>5. At(c, m.addr, "request", c, m)  BY <1>2, <1>3 DEF At
<1>6. PlaceInv(c, m.addr)  BY <1>4 DEF MissInv, Lines, LineInv
<1>7. QED  BY <1>1, <1>2, <1>3, <1>4, <1>5, <1>6, FoundPlace

\* Only the line's own view changes when a directory takes a request.
LEMMA RequestElsewhere ==
  ASSUME NEW c \in Cache, NEW a \in Addr, NEW m, AtReq(c, a, m), ReqTake(c, m),
         NEW x \in Cache, NEW y \in Addr, ~(x = c /\ y = a)
  PROVE  \A k : AtReq(x, y, k)' <=> AtReq(x, y, k)
<1>1. m.addr = a  BY DEF AtReq
<1>2. \A k : AtReq(x, y, k) => ~(x = c /\ k = m)  BY <1>1 DEF AtReq
<1>3. QED  BY <1>2 DEF ReqTake

\* A request becomes a memory read.
LEMMA RequestToMemory ==
  ASSUME Lines, NEW c \in Cache, NEW a \in Addr, NEW m, AtReq(c, a, m), ReqTake(c, m),
         NEW r, MemPut(c, a, r), FwdSame, RespSame, \A x \in Cache, y \in Addr : Kept(x, y)
  PROVE  Lines'
<1>1. At(c, a, "request", c, m)  BY DEF At
<1>2. OnlyPlace(c, a, "request", c, m)  BY <1>1, FoundPlace DEF Lines, LineInv
<1>3. \A x \in Cache, y \in Addr : SameDue(x, y)
  BY DEF SameDue, FwdSame, RespSame
<1>4. ASSUME NEW x \in Cache, NEW y \in Addr, ~(x = c /\ y = a) PROVE SamePlaces(x, y)
  <2>1. \A k : AtReq(x, y, k)' <=> AtReq(x, y, k)  BY <1>4, RequestElsewhere
  <2>2. \A k : AtMem(x, y, k)' <=> AtMem(x, y, k)  BY <1>4 DEF MemPut
  <2>3. QED  BY <2>1, <2>2 DEF SamePlaces, At, FwdSame, RespSame
<1>5. OnlyPlace(c, a, "memory", DirOf[a], r)'
  <2>1. \A n, k : ~AtData(c, a, n, k) /\ ~AtFwd(c, a, n, k) /\ ~AtMem(c, a, k)
                  /\ (AtReq(c, a, k) => k = m)
    BY <1>2, OnlyKind
  <2>2. \A n, k : /\ AtMem(c, a, k)' <=> k = r
                  /\ ~AtReq(c, a, k)' /\ ~AtData(c, a, n, k)' /\ ~AtFwd(c, a, n, k)'
    <3>1. \A k : AtMem(c, a, k)' <=> k = r  BY <2>1 DEF MemPut
    <3>2. \A k : ~AtReq(c, a, k)'  BY <2>1 DEF ReqTake
    <3>3. \A n, k : ~AtData(c, a, n, k)' /\ ~AtFwd(c, a, n, k)'  BY <2>1 DEF FwdSame, RespSame
    <3>4. QED  BY <3>1, <3>2, <3>3
  <2>3. QED  BY <2>2 DEF OnlyPlace, At
<1>6. QED  BY <1>1, <1>3, <1>4, <1>5, MoveView

\* A request is forwarded to the owner.
LEMMA RequestToOwner ==
  ASSUME Lines, NEW c \in Cache, NEW a \in Addr, NEW m, AtReq(c, a, m), ReqTake(c, m),
         NEW o \in Cache, NEW f, FwdPut({o}, f), f.type = m.type, f.addr = a, f.requestor = c,
         MemSame, RespSame, \A x \in Cache, y \in Addr : Kept(x, y)
  PROVE  Lines'
<1>0. m.type \in GetTypes  BY DEF AtReq
<1>1. At(c, a, "request", c, m)  BY DEF At
<1>2. /\ OnlyPlace(c, a, "request", c, m) /\ (m.type = "GETS" <=> Class(c, a) = "load")
  BY <1>1, FoundPlace DEF Lines, LineInv
<1>3. \A x, y : f # InvMsg(y, x)  BY <1>0 DEF GetTypes, InvMsg
<1>4. \A x \in Cache, y \in Addr : SameDue(x, y)
  BY <1>3 DEF SameDue, FwdPut, RespSame
<1>5. ASSUME NEW x \in Cache, NEW y \in Addr, ~(x = c /\ y = a) PROVE SamePlaces(x, y)
  <2>1. \A k : AtReq(x, y, k)' <=> AtReq(x, y, k)  BY <1>5, RequestElsewhere
  <2>2. \A n, k : AtFwd(x, y, n, k)' <=> AtFwd(x, y, n, k)  BY <1>5 DEF FwdPut
  <2>3. QED  BY <2>1, <2>2 DEF SamePlaces, At, MemSame, RespSame
<1>6. OnlyPlace(c, a, "forward", o, f)'
  <2>1. \A n, k : ~AtData(c, a, n, k) /\ ~AtFwd(c, a, n, k) /\ ~AtMem(c, a, k)
                  /\ (AtReq(c, a, k) => k = m)
    BY <1>2, OnlyKind
  <2>2. \A n, k : /\ AtFwd(c, a, n, k)' <=> n = o /\ k = f
                  /\ ~AtReq(c, a, k)' /\ ~AtData(c, a, n, k)' /\ ~AtMem(c, a, k)'
    BY <1>0, <2>1 DEF FwdPut, ReqTake, MemSame, RespSame
  <2>3. \A k, n, j : At(c, a, k, n, j)' <=> k = "forward" /\ AtFwd(c, a, n, j)'
    BY <2>2 DEF At
  <2>4. QED  BY <2>2, <2>3 DEF OnlyPlace
<1>7. QED  BY <1>1, <1>2, <1>4, <1>5, <1>6, MoveView

\* A request is answered by the directory.
LEMMA RequestAnswered ==
  ASSUME Lines, NEW c \in Cache, NEW a \in Addr, NEW m, AtReq(c, a, m), ReqTake(c, m),
         NEW d, NEW data, RespPut(d, c, data), data.type = "DATA_FROM_DIR", data.addr = a,
         NEW dsts \in SUBSET Cache, data.ackCount = 0 - Cardinality(dsts),
         m.type = "GETS" => dsts = {}, FwdPut(dsts, InvMsg(a, c)),
         MemSame, \A x \in Cache, y \in Addr : Kept(x, y)
  PROVE  Lines'
<1>1. At(c, a, "request", c, m)  BY DEF At
<1>2. /\ OnlyPlace(c, a, "request", c, m) /\ (m.type = "GETS" <=> Class(c, a) = "load")
  BY <1>1, FoundPlace DEF Lines, LineInv
<1>3. /\ data.type \in DataTypes /\ \A y : data # AckMsg(y)
      /\ InvMsg(a, c).type \notin GetTypes
      /\ \A x, y : InvMsg(a, c) = InvMsg(y, x) => x = c /\ y = a
  <2>1. InvMsg(a, c).addr = a /\ InvMsg(a, c).requestor = c  BY DEF InvMsg
  <2>2. \A x, y : InvMsg(y, x).addr = y /\ InvMsg(y, x).requestor = x  BY DEF InvMsg
  <2>3. \A x, y : InvMsg(a, c) = InvMsg(y, x) => x = c /\ y = a  BY <2>1, <2>2
  <2>4. QED  BY <2>3 DEF DataTypes, AckMsg, InvMsg, GetTypes
<1>4. ASSUME NEW x \in Cache, NEW y \in Addr, ~(x = c /\ y = a)
      PROVE  SamePlaces(x, y) /\ SameDue(x, y)
  <2>1. \A k : AtReq(x, y, k)' <=> AtReq(x, y, k)  BY <1>4, RequestElsewhere
  <2>2. \A n, k : AtFwd(x, y, n, k)' <=> AtFwd(x, y, n, k)  BY <1>3 DEF FwdPut
  <2>3. \A n, k : AtData(x, y, n, k)' <=> AtData(x, y, n, k)  BY <1>4 DEF RespPut
  <2>4. SamePlaces(x, y)  BY <2>1, <2>2, <2>3 DEF SamePlaces, At, MemSame
  <2>5. SameDue(x, y)  BY <1>3, <1>4 DEF SameDue, FwdPut, RespPut
  <2>6. QED  BY <2>4, <2>5
<1>5. OnlyPlace(c, a, "data", d, data)'
  <2>1. \A n, k : ~AtData(c, a, n, k) /\ ~AtFwd(c, a, n, k) /\ ~AtMem(c, a, k)
                  /\ (AtReq(c, a, k) => k = m)
    BY <1>2, OnlyKind
  <2>2. \A n, k : /\ AtData(c, a, n, k)' <=> n = d /\ k = data
                  /\ ~AtReq(c, a, k)' /\ ~AtFwd(c, a, n, k)' /\ ~AtMem(c, a, k)'
    BY <1>3, <2>1 DEF FwdPut, ReqTake, MemSame, RespPut
  <2>3. QED  BY <2>2 DEF OnlyPlace, At
<1>6. \A q \in Cache : /\ InvTo(q, a, c)' <=> InvTo(q, a, c) \/ q \in dsts
                       /\ AckFrom(q, c, a)' <=> AckFrom(q, c, a)
  BY <1>3 DEF FwdPut, RespPut
<1>7. QED  BY <1>1, <1>2, <1>4, <1>5, <1>6, AnswerView

\* The count that comes with the data is that of the sharers invalidated.
LEMMA AckCountIs ==
  ASSUME TypeOK, NEW a \in Addr, NEW c \in Cache
  PROVE  /\ sharers[a] \ {c} \in SUBSET Cache
         /\ AckCount(a, c) = 0 - Cardinality(sharers[a] \ {c})
<1>1. sharers[a] \subseteq Cache /\ IsFiniteSet(sharers[a])
  BY NodesAssumption, FS_Subset DEF TypeOK, DirTypeOK
<1>2. Cardinality(sharers[a]) \in Nat  BY <1>1, FS_CardinalityType
<1>3. CASE c \in sharers[a]
  <2>1. Cardinality(sharers[a] \ {c}) = Cardinality(sharers[a]) - 1
    BY <1>1, <1>3, FS_RemoveElement
  <2>2. QED  BY <1>1, <1>2, <1>3, <2>1 DEF AckCount
<1>4. CASE c \notin sharers[a]
  <2>1. sharers[a] \ {c} = sharers[a]  BY <1>4
  <2>2. QED  BY <1>1, <1>2, <1>4, <2>1 DEF AckCount
<1>5. QED  BY <1>3, <1>4

\* The directory's data can be sent while the miss is elsewhere.
LEMMA DataPut ==
  ASSUME TypeOK, MissInv, NEW c \in Cache, NEW a \in Addr, NEW v \in DataBlk, NEW n \in Int,
         sendData(DirOf[a], c, a, v, n), \A x, k : ~AtData(c, a, x, k),
         NEW data, data = [type |-> "DATA_FROM_DIR", addr |-> a, data |-> v, ackCount |-> n]
  PROVE  ResponsesInv' /\ RespPut(DirOf[a], c, data)
<1>1. data \in ResponseMsg /\ data.type = "DATA_FROM_DIR" /\ data.addr = a
  BY DEF ResponseMsg
<1>2. c \in Node /\ DirOf[a] \in Node  BY Places
<1>3. Sendable(DirOf[a], c, data)
  BY <1>1, <1>2 DEF Sendable, AtData, DataTypes, RespTypes
<1>4. QED  BY <1>2, <1>3, ResponsePut DEF MissInv, ChannelInv, sendData

\* A GETS or GETM that finds the line in I.
LEMMA GetI ==
  ASSUME TypeOK, MissInv, NEW d \in Dir, NEW c \in Cache, GETS_I(d, c) \/ GETM_I(d, c),
         UNCHANGED cacheVars
  PROVE  MissInv'
<1>m. PICK m : m = Head(requestNet[c][d])  OBVIOUS
<1>1. /\ Requested(d, c, GetTypes, {"I"}) /\ popRequest(d, c)
      /\ queueMemory(m.addr, "MEMORY_READ", c, dirBlk[m.addr])
      /\ UNCHANGED <<forwardNet, responseNet>>
  BY <1>m DEF GETS_I, GETM_I, Requested, GetTypes
<1>2. m.addr \in Addr /\ AtReq(c, m.addr, m) /\ RequestsInv' /\ ReqTake(c, m)
  BY <1>m, <1>1, GetDelta
<1>3. \E r : MemPut(c, m.addr, r)  BY <1>1, <1>2, MemoryPut
<1>4. ForwardsInv' /\ FwdSame /\ ResponsesInv' /\ RespSame
  BY <1>1, ForwardsSame, ResponsesSame DEF MissInv, ChannelInv
<1>5. \A x \in Cache, y \in Addr : Kept(x, y)  BY CachesUnchanged DEF cacheVars
<1>6. Lines'  BY <1>2, <1>3, <1>4, <1>5, RequestToMemory DEF MissInv
<1>7. QED  BY <1>2, <1>4, <1>6 DEF MissInv, ChannelInv

\* In S: the data, with the invalidations if it is a GETM.
LEMMA GetSDelta ==
  ASSUME TypeOK, MissInv, NEW d \in Dir, NEW c \in Cache, GETS_S(d, c) \/ GETM_S(d, c),
         NEW m, m = Head(requestNet[c][d]),
         NEW dsts, dsts = IF m.type = "GETM" THEN sharers[m.addr] \ {c} ELSE {},
         NEW data, data = [type |-> "DATA_FROM_DIR", addr |-> m.addr, data |-> dirBlk[m.addr],
                           ackCount |-> 0 - Cardinality(dsts)]
  PROVE  /\ m.addr \in Addr /\ AtReq(c, m.addr, m) /\ DirOf[m.addr] = d
         /\ dirState[m.addr] = "S" /\ dsts \in SUBSET Cache
         /\ GETS_S(d, c) => m.type = "GETS"
         /\ GETM_S(d, c) => m.type = "GETM"
         /\ ReqTake(c, m) /\ MemSame /\ FwdPut(dsts, InvMsg(m.addr, c))
         /\ RespPut(d, c, data)
         /\ ChannelInv'
<1>1. /\ Requested(d, c, GetTypes, {"S"}) /\ popRequest(d, c) /\ memQueue' = memQueue
      /\ GETS_S(d, c) => Requested(d, c, {"GETS"}, {"S"})
      /\ GETM_S(d, c) => Requested(d, c, {"GETM"}, {"S"})
  BY DEF GETS_S, GETM_S, Requested, GetTypes
<1>2. /\ m.addr \in Addr /\ AtReq(c, m.addr, m) /\ RequestsInv' /\ ReqTake(c, m)
      /\ DirOf[m.addr] = d /\ OnlyPlace(c, m.addr, "request", c, m)
      /\ dirState[m.addr] \in {"S"} /\ m.type \in GetTypes /\ Class(c, m.addr) \in {"load", "store"}
  BY <1>1, GetDelta
<1>3. /\ GETS_S(d, c) => m.type \in {"GETS"}
      /\ GETM_S(d, c) => m.type \in {"GETM"}
  <2>1. {"GETS"} \in SUBSET GetTypes /\ {"GETM"} \in SUBSET GetTypes  BY DEF GetTypes
  <2>2. ASSUME GETS_S(d, c) PROVE m.type \in {"GETS"}
    BY <1>1, <2>1, <2>2, GetDelta
  <2>3. ASSUME GETM_S(d, c) PROVE m.type \in {"GETM"}
    BY <1>1, <2>1, <2>3, GetDelta
  <2>4. QED  BY <2>2, <2>3
<1>4. \A n, k : ~AtData(c, m.addr, n, k)  BY <1>2, OnlyKind
<1>5. \A q \in Cache : ~InvTo(q, m.addr, c)
  <2>1. DueInv(c, m.addr)  BY <1>2 DEF MissInv, Lines, LineInv
  <2>2. Due(c, m.addr) = {}  BY <1>2, <1>4, <2>1 DEF DueInv
  <2>3. QED  BY <2>2 DEF Due
<1>6. dirBlk[m.addr] \in DataBlk  BY <1>2 DEF TypeOK, DirTypeOK
<1>7. /\ dsts \in SUBSET Cache /\ 0 - Cardinality(dsts) \in Int
      /\ sendData(d, c, m.addr, dirBlk[m.addr], 0 - Cardinality(dsts))
  <2>1. CASE GETS_S(d, c)
    <3>1. dsts = {} /\ Cardinality(dsts) = 0  BY <1>3, <2>1, FS_EmptySet
    <3>2. 0 - Cardinality(dsts) = 0  BY <3>1
    <3>3. sendData(d, c, m.addr, dirBlk[m.addr], 0)  BY <2>1 DEF GETS_S
    <3>4. QED  BY <3>1, <3>2, <3>3
  <2>2. CASE GETM_S(d, c)
    <3>1. dsts = sharers[m.addr] \ {c}  BY <1>3, <2>2
    <3>2. AckCount(m.addr, c) = 0 - Cardinality(dsts) /\ dsts \in SUBSET Cache
      BY <1>2, <3>1, AckCountIs
    <3>3. AckCount(m.addr, c) \in Int  BY <1>2, AckCountType
    <3>4. QED  BY <2>2, <3>2, <3>3 DEF GETM_S
  <2>3. QED  BY <2>1, <2>2
<1>8. ResponsesInv' /\ RespPut(d, c, data)
  BY <1>2, <1>4, <1>6, <1>7, DataPut
<1>9. ForwardsInv' /\ FwdPut(dsts, InvMsg(m.addr, c))
  <2>1. CASE GETS_S(d, c)
    <3>1. dsts = {} /\ forwardNet' = forwardNet  BY <1>3, <2>1 DEF GETS_S
    <3>2. ForwardsInv' /\ FwdSame  BY <3>1, ForwardsSame DEF MissInv, ChannelInv
    <3>3. QED  BY <3>1, <3>2 DEF FwdSame, FwdPut
  <2>2. CASE GETM_S(d, c)
    <3>1. forward(DirOf[m.addr], dsts, "INV", m.addr, c)
      BY <1>2, <1>3, <2>2 DEF GETM_S, invalidateSharers
    <3>2. "INV" \in FwdTypes /\ InvMsg(m.addr, c) = [type |-> "INV", addr |-> m.addr, requestor |-> c]
      BY DEF FwdTypes, InvMsg
    <3>3. \A q \in dsts : ~In(forwardNet, DirOf[m.addr], q, InvMsg(m.addr, c))
      BY <1>5, <1>7 DEF InvTo
    <3>4. QED  BY <1>2, <1>7, <3>1, <3>2, <3>3, ForwardPut DEF MissInv, ChannelInv
  <2>3. QED  BY <2>1, <2>2
<1>10. MemSame  BY <1>1, MemUnchanged
<1>11. QED  BY <1>2, <1>3, <1>7, <1>8, <1>9, <1>10 DEF ChannelInv

LEMMA GetS ==
  ASSUME TypeOK, MissInv, NEW d \in Dir, NEW c \in Cache, GETS_S(d, c) \/ GETM_S(d, c),
         UNCHANGED cacheVars
  PROVE  MissInv'
<1>m. PICK m : m = Head(requestNet[c][d])  OBVIOUS
<1>1. PICK dsts : dsts = IF m.type = "GETM" THEN sharers[m.addr] \ {c} ELSE {}  OBVIOUS
<1>2. PICK data : data = [type |-> "DATA_FROM_DIR", addr |-> m.addr, data |-> dirBlk[m.addr],
                          ackCount |-> 0 - Cardinality(dsts)]
  OBVIOUS
<1>3. /\ m.addr \in Addr /\ AtReq(c, m.addr, m) /\ dsts \in SUBSET Cache
      /\ ReqTake(c, m) /\ MemSame /\ FwdPut(dsts, InvMsg(m.addr, c))
      /\ RespPut(d, c, data)
      /\ ChannelInv'
  BY <1>m, <1>1, <1>2, GetSDelta
<1>4. /\ data.type = "DATA_FROM_DIR" /\ data.addr = m.addr
      /\ data.ackCount = 0 - Cardinality(dsts)
  BY <1>2
<1>5. m.type = "GETS" => dsts = {}  BY <1>1
<1>6. \A x \in Cache, y \in Addr : Kept(x, y)  BY CachesUnchanged DEF cacheVars
<1>7. Lines'  BY <1>3, <1>4, <1>5, <1>6, RequestAnswered DEF MissInv
<1>8. QED  BY <1>3, <1>7 DEF MissInv

\* In M: the request goes to the owner.
LEMMA GetMDelta ==
  ASSUME TypeOK, MissInv, DirectoryEntries, Running, NEW d \in Dir, NEW c \in Cache,
         GETS_M(d, c) \/ GETM_M(d, c), NEW m, m = Head(requestNet[c][d])
  PROVE  /\ m.addr \in Addr /\ AtReq(c, m.addr, m) /\ DirOf[m.addr] = d
         /\ dirState[m.addr] = "M"
         /\ GETS_M(d, c) => m.type = "GETS"
         /\ GETM_M(d, c) => m.type = "GETM"
         /\ ReqTake(c, m) /\ MemSame /\ RespSame
         /\ \E o \in Cache : /\ owner[m.addr] = {o}
                             /\ FwdPut({o}, [type |-> m.type, addr |-> m.addr, requestor |-> c])
         /\ ChannelInv'
<1>1. /\ Requested(d, c, GetTypes, {"M"}) /\ popRequest(d, c) /\ memQueue' = memQueue
      /\ GETS_M(d, c) => Requested(d, c, {"GETS"}, {"M"})
      /\ GETM_M(d, c) => Requested(d, c, {"GETM"}, {"M"})
      /\ responseNet' = responseNet
  BY DEF GETS_M, GETM_M, Requested, GetTypes
<1>2. /\ m.addr \in Addr /\ AtReq(c, m.addr, m) /\ RequestsInv' /\ ReqTake(c, m)
      /\ DirOf[m.addr] = d /\ OnlyPlace(c, m.addr, "request", c, m)
      /\ dirState[m.addr] \in {"M"} /\ m.type \in GetTypes
  BY <1>1, GetDelta
<1>3. /\ GETS_M(d, c) => m.type \in {"GETS"}
      /\ GETM_M(d, c) => m.type \in {"GETM"}
  <2>1. {"GETS"} \in SUBSET GetTypes /\ {"GETM"} \in SUBSET GetTypes  BY DEF GetTypes
  <2>2. ASSUME GETS_M(d, c) PROVE m.type \in {"GETS"}
    BY <1>1, <2>1, <2>2, GetDelta
  <2>3. ASSUME GETM_M(d, c) PROVE m.type \in {"GETM"}
    BY <1>1, <2>1, <2>3, GetDelta
  <2>4. QED  BY <2>2, <2>3
<1>4. PICK o \in Cache : owner[m.addr] = {o}
  BY <1>2 DEF DirectoryEntries, Running
<1>5. PICK f : f = [type |-> m.type, addr |-> m.addr, requestor |-> c]  OBVIOUS
<1>6. forward(DirOf[m.addr], {o}, m.type, m.addr, c)
  BY <1>2, <1>3, <1>4 DEF GETS_M, GETM_M
<1>7. \A q \in {o} : ~In(forwardNet, DirOf[m.addr], q, f)
  <2>1. \A q, k : ~AtFwd(c, m.addr, q, k)  BY <1>2, OnlyKind
  <2>2. f.type \in GetTypes /\ f.addr = m.addr /\ f.requestor = c  BY <1>2, <1>5
  <2>3. QED  BY <2>1, <2>2 DEF AtFwd
<1>8. m.type \in FwdTypes /\ {o} \in SUBSET Cache  BY <1>2 DEF GetTypes, FwdTypes
<1>9. ForwardsInv' /\ FwdPut({o}, f)
  BY <1>2, <1>5, <1>6, <1>7, <1>8, ForwardPut DEF MissInv, ChannelInv
<1>10. MemSame /\ ResponsesInv' /\ RespSame
  BY <1>1, MemUnchanged, ResponsesSame DEF MissInv, ChannelInv
<1>11. QED  BY <1>2, <1>3, <1>4, <1>5, <1>9, <1>10 DEF ChannelInv

LEMMA GetM ==
  ASSUME TypeOK, MissInv, DirectoryEntries, Running, NEW d \in Dir, NEW c \in Cache,
         GETS_M(d, c) \/ GETM_M(d, c), UNCHANGED cacheVars
  PROVE  MissInv'
<1>m. PICK m : m = Head(requestNet[c][d])  OBVIOUS
<1>1. /\ m.addr \in Addr /\ AtReq(c, m.addr, m)
      /\ ReqTake(c, m) /\ MemSame /\ RespSame
      /\ \E o \in Cache : /\ owner[m.addr] = {o}
                          /\ FwdPut({o}, [type |-> m.type, addr |-> m.addr, requestor |-> c])
      /\ ChannelInv'
  BY <1>m, GetMDelta
<1>f. PICK f : f = [type |-> m.type, addr |-> m.addr, requestor |-> c]  OBVIOUS
<1>2. PICK o \in Cache : /\ FwdPut({o}, f) /\ f.type = m.type /\ f.addr = m.addr
                         /\ f.requestor = c
  BY <1>1, <1>f
<1>3. \A x \in Cache, y \in Addr : Kept(x, y)  BY CachesUnchanged DEF cacheVars
<1>4. Lines'  BY <1>1, <1>2, <1>3, RequestToOwner DEF MissInv
<1>5. QED  BY <1>1, <1>4 DEF MissInv

\* A write-back moves no miss and no ack.
PutStep(d, c) ==
  \/ PutDropsSharer(d, c) \/ PUTS_Last_S(d, c) \/ PUTS_Stale(d, c) \/ PUTS_Last_MS(d, c)
  \/ PUTM_Owner(d, c) \/ PUTM_NotOwner(d, c) \/ PUTM_MS_D(d, c) \/ PUTM_MS_M(d, c)

LEMMA PutDelta ==
  ASSUME TypeOK, MissInv, NEW d \in Dir, NEW c \in Cache, PutStep(d, c),
         NEW m, m = Head(requestNet[c][d])
  PROVE  /\ AtHead(requestNet, requestHead, c, d) /\ m \in RequestMsg /\ m.addr \in Addr
         /\ ChannelInv' /\ ReqSame /\ FwdSame /\ RespSame /\ MemSame
         /\ responseNet' = responseNet
<1>1. /\ AtHead(requestNet, requestHead, c, d)
      /\ RequestEvent(c, m) \in {"PUTS_Last", "PUTS_NotLast", "PUTM_Owner", "PUTM_NotOwner"}
      /\ requestNet' = Pop(requestNet, c, d) \/ requestNet' = requestNet
      /\ sendWriteBackAck(d, c, m.addr) \/ forwardNet' = forwardNet
      /\ responseNet' = responseNet
      /\ \/ memQueue' = memQueue
         \/ queueMemory(m.addr, "MEMORY_WB", c, m.data)
  <2> USE DEF Requested, popRequest
  <2>1. CASE PutDropsSharer(d, c) \/ PUTS_Last_S(d, c)
    BY <2>1 DEF PutDropsSharer, PUTS_Last_S
  <2>2. CASE PUTS_Stale(d, c) \/ PUTS_Last_MS(d, c)
    BY <2>2 DEF PUTS_Stale, PUTS_Last_MS
  <2>3. CASE PUTM_Owner(d, c) \/ PUTM_NotOwner(d, c)
    BY <2>3 DEF PUTM_Owner, PUTM_NotOwner
  <2>4. CASE PUTM_MS_D(d, c) \/ PUTM_MS_M(d, c)
    BY <2>4 DEF PUTM_MS_D, PUTM_MS_M
  <2>5. QED  BY <2>1, <2>2, <2>3, <2>4 DEF PutStep
<1>2. m \in RequestMsg /\ m.addr \in Addr /\ DirOf[m.addr] = d /\ In(requestNet, c, d, m)
  <2>1. Net(requestNet, Cache, Dir, RequestMsg) /\ requestNet[c][d] # <<>>
    BY <1>1 DEF TypeOK, NetTypeOK, AtHead, Net
  <2>2. m \in RequestMsg  BY <2>1, PopType DEF Net
  <2>3. m \in Range(requestNet[c][d])
    BY <2>1, HeadTailProperties, LenProperties, EmptySeq DEF Net, Range
  <2>4. QED  BY <2>2, <2>3 DEF In, MissInv, ChannelInv, RequestsInv, RequestMsg
<1>3. m.type \notin GetTypes  BY <1>1, <1>2, RequestTypes DEF GetTypes
<1>4. RequestsInv' /\ ReqSame
  <2>1. CASE requestNet' = requestNet
    BY <2>1, RequestsSame DEF MissInv, ChannelInv
  <2>2. CASE requestNet' = Pop(requestNet, c, d)
    <3>1. RequestsInv' /\ ReqTake(c, m)
      BY <1>1, <2>2, RequestTaken DEF MissInv, ChannelInv
    <3>2. \A x, y, k : AtReq(x, y, k) => k # m  BY <1>3 DEF AtReq
    <3>3. QED  BY <3>1, <3>2 DEF ReqTake, ReqSame
  <2>3. QED  BY <1>1, <2>1, <2>2
<1>5. ForwardsInv' /\ FwdSame
  BY <1>1, <1>2, ForwardsSame, WriteBackAckPut DEF MissInv, ChannelInv
<1>6. ResponsesInv' /\ RespSame
  BY <1>1, ResponsesSame DEF MissInv, ChannelInv
<1>7. MemSame
  BY <1>1, <1>2, MemUnchanged, MemoryPut
<1>8. QED  BY <1>1, <1>2, <1>4, <1>5, <1>6, <1>7 DEF ChannelInv

LEMMA PutQuiet ==
  ASSUME TypeOK, MissInv, NEW d \in Dir, NEW c \in Cache, PutStep(d, c), UNCHANGED cacheVars
  PROVE  MissInv'
<1>1. ChannelInv' /\ ReqSame /\ FwdSame /\ RespSame /\ MemSame  BY PutDelta
<1>2. \A x \in Cache, y \in Addr : Kept(x, y)  BY CachesUnchanged DEF cacheVars
<1>3. Lines'  BY <1>1, <1>2, QuietView DEF MissInv
<1>4. QED  BY <1>1, <1>3 DEF MissInv

LEMMA DirRequestMisses ==
  ASSUME TypeOK, MissInv, DirectoryEntries, NEW d \in Dir, NEW c \in Cache, DirRequest(d, c)
  PROVE  MissInv'
<1>1. RequestStep(d, c) /\ Running /\ UNCHANGED cacheVars  BY DEF DirRequest
<1>2. CASE GETS_I(d, c) \/ GETM_I(d, c)  BY <1>1, <1>2, GetI
<1>3. CASE GETS_S(d, c) \/ GETM_S(d, c)  BY <1>1, <1>3, GetS
<1>4. CASE GETS_M(d, c) \/ GETM_M(d, c)  BY <1>1, <1>4, GetM
<1>5. CASE PutStep(d, c)  BY <1>1, <1>5, PutQuiet
<1>6. CASE RequestStall(d, c)
  <2>1. UNCHANGED <<requestNet, forwardNet, responseNet, memQueue, cacheState, pendingAcks>>
    BY <1>1, <1>6 DEF RequestStall, dirVars, cacheVars
  <2>2. QED  BY <2>1, ChannelsUnchanged, CachesUnchanged, MemUnchanged, QuietView DEF MissInv
<1>7. QED  BY <1>1, <1>2, <1>3, <1>4, <1>5, <1>6 DEF RequestStep, PutStep

LEMMA DirResponseMisses ==
  ASSUME TypeOK, MissInv, NEW d \in Dir, NEW c \in Cache, DirResponse(d, c)
  PROVE  MissInv'
<1>m. PICK m : m = Head(responseNet[c][d])  OBVIOUS
<1>1. DataStep(d, c) /\ UNCHANGED cacheVars  BY DEF DirResponse
<1>2. /\ responseNet[c][d] # <<>> /\ responseNet' = Pop(responseNet, c, d)
      /\ UNCHANGED <<requestNet, forwardNet>>
      /\ memQueue' = memQueue \/ queueMemory(m.addr, "MEMORY_WB", c, m.data)
  BY <1>m, <1>1 DEF DataStep, Data_Dropped, Data_MS_D, Data_MS_M, DataArrived
<1>3. c \in Node /\ d \in Node /\ d \notin Cache  BY Places
<1>4. m \in ResponseMsg /\ ResponsesInv' /\ RespTake(c, d, m)
  BY <1>m, <1>2, <1>3, ResponseTaken DEF MissInv, ChannelInv
<1>5. RespSame
  BY <1>3, <1>4 DEF RespTake, RespSame
<1>6. RequestsInv' /\ ReqSame /\ ForwardsInv' /\ FwdSame
  BY <1>2, RequestsSame, ForwardsSame DEF MissInv, ChannelInv
<1>7. MemSame
  <2>1. m.addr \in Addr  BY <1>4 DEF ResponseMsg
  <2>2. QED  BY <1>2, <2>1, MemUnchanged, MemoryPut
<1>8. \A x \in Cache, y \in Addr : Kept(x, y)  BY <1>1, CachesUnchanged DEF cacheVars
<1>9. Lines'  BY <1>5, <1>6, <1>7, <1>8, QuietView DEF MissInv
<1>10. QED  BY <1>4, <1>6, <1>9 DEF MissInv, ChannelInv

\* The memory's answer becomes the data.
LEMMA MemoryDelta ==
  ASSUME TypeOK, MissInv, NEW d \in Dir, NEW m \in memQueue, Memory_Data(d, m),
         NEW data, data = [type |-> "DATA_FROM_DIR", addr |-> m.addr, data |-> m.data, ackCount |-> 0]
  PROVE  /\ m \in MemoryMsg /\ m.addr \in Addr /\ m.requestor \in Cache /\ DirOf[m.addr] = d
         /\ m.data \in DataBlk
         /\ AtMem(m.requestor, m.addr, m)
         /\ MemTake(m) /\ RespPut(d, m.requestor, data) /\ ReqSame /\ FwdSame
         /\ ChannelInv'
<1>1. m \in MemoryMsg  BY DEF TypeOK, DirTypeOK
<1>2. /\ m.addr \in Addr /\ m.requestor \in Cache /\ m.data \in DataBlk /\ m.type = "MEMORY_READ"
      /\ DirOf[m.addr] = d
  BY <1>1 DEF MemoryMsg, Memory_Data
<1>3. AtMem(m.requestor, m.addr, m)  BY <1>2 DEF AtMem
<1>4. At(m.requestor, m.addr, "memory", DirOf[m.addr], m)  BY <1>3 DEF At
<1>5. OnlyPlace(m.requestor, m.addr, "memory", DirOf[m.addr], m)
  BY <1>2, <1>4, FoundPlace DEF MissInv, Lines, LineInv
<1>6. \A n, k : ~AtData(m.requestor, m.addr, n, k)  BY <1>2, <1>5, OnlyKind
<1>7. sendData(DirOf[m.addr], m.requestor, m.addr, m.data, 0) /\ 0 \in Int
  BY <1>2 DEF Memory_Data
<1>8. ResponsesInv' /\ RespPut(d, m.requestor, data)
  BY <1>2, <1>6, <1>7, DataPut
<1>9. MemTake(m)  BY DEF Memory_Data, popMemQueue, MemTake, AtMem
<1>10. RequestsInv' /\ ReqSame /\ ForwardsInv' /\ FwdSame
  BY RequestsSame, ForwardsSame DEF MissInv, ChannelInv, Memory_Data
<1>11. QED  BY <1>1, <1>2, <1>3, <1>8, <1>9, <1>10 DEF ChannelInv

LEMMA MemoryAnswered ==
  ASSUME Lines, NEW c \in Cache, NEW a \in Addr, NEW m, AtMem(c, a, m), MemTake(m),
         NEW d, NEW data, RespPut(d, c, data), data.type = "DATA_FROM_DIR", data.addr = a,
         data.ackCount = 0, ReqSame, FwdSame, \A x \in Cache, y \in Addr : Kept(x, y)
  PROVE  Lines'
<1>0. m.addr = a /\ m.requestor = c  BY DEF AtMem
<1>1. At(c, a, "memory", DirOf[a], m)  BY DEF At
<1>2. OnlyPlace(c, a, "memory", DirOf[a], m)  BY <1>1, FoundPlace DEF Lines, LineInv
<1>3. data.type \in DataTypes /\ \A y : data # AckMsg(y)  BY DEF DataTypes, AckMsg
<1>4. \A x \in Cache, y \in Addr : SameDue(x, y)
  BY <1>3 DEF SameDue, FwdSame, RespPut
<1>5. ASSUME NEW x \in Cache, NEW y \in Addr, ~(x = c /\ y = a) PROVE SamePlaces(x, y)
  <2>1. \A k : AtMem(x, y, k)' <=> AtMem(x, y, k)
    <3>1. \A k : AtMem(x, y, k) => k # m  BY <1>0, <1>5 DEF AtMem
    <3>2. QED  BY <3>1 DEF MemTake
  <2>2. \A n, k : AtData(x, y, n, k)' <=> AtData(x, y, n, k)  BY <1>5 DEF RespPut
  <2>3. QED  BY <2>1, <2>2 DEF SamePlaces, At, ReqSame, FwdSame
<1>6. OnlyPlace(c, a, "data", d, data)'
  <2>1. \A n, k : ~AtData(c, a, n, k) /\ ~AtFwd(c, a, n, k) /\ ~AtReq(c, a, k)
                  /\ (AtMem(c, a, k) => k = m)
    BY <1>2, OnlyKind
  <2>2. \A n, k : /\ AtData(c, a, n, k)' <=> n = d /\ k = data
                  /\ ~AtReq(c, a, k)' /\ ~AtFwd(c, a, n, k)' /\ ~AtMem(c, a, k)'
    BY <1>3, <2>1 DEF MemTake, ReqSame, FwdSame, RespPut
  <2>3. QED  BY <2>2 DEF OnlyPlace, At
<1>7. data.ackCount = 0 - Cardinality({})  BY FS_EmptySet
<1>8. \A x \in Cache : /\ InvTo(x, a, c)' <=> InvTo(x, a, c) \/ x \in {}
                       /\ AckFrom(x, c, a)' <=> AckFrom(x, c, a)
  BY <1>4 DEF SameDue
<1>9. "memory" # "data" /\ {} \in SUBSET Cache  OBVIOUS
<1>10. QED  BY <1>1, <1>4, <1>5, <1>6, <1>7, <1>8, <1>9, AnswerView

LEMMA DirMemoryMisses ==
  ASSUME TypeOK, MissInv, NEW d \in Dir, DirMemory(d)
  PROVE  MissInv'
<1>1. UNCHANGED cacheVars  BY DEF DirMemory
<1>2. PICK m \in memQueue : Memory_Data(d, m) \/ Memory_Ack(d, m)
  BY DEF DirMemory, MemoryStep
<1>3. \A x \in Cache, y \in Addr : Kept(x, y)  BY <1>1, CachesUnchanged DEF cacheVars
<1>4. CASE Memory_Data(d, m)
  <2>1. PICK data : data = [type |-> "DATA_FROM_DIR", addr |-> m.addr, data |-> m.data, ackCount |-> 0]
    OBVIOUS
  <2>2. /\ m.addr \in Addr /\ m.requestor \in Cache /\ AtMem(m.requestor, m.addr, m)
        /\ MemTake(m) /\ RespPut(d, m.requestor, data) /\ ReqSame /\ FwdSame
        /\ ChannelInv'
    BY <1>4, <2>1, MemoryDelta
  <2>3. data.type = "DATA_FROM_DIR" /\ data.addr = m.addr /\ data.ackCount = 0  BY <2>1
  <2>4. Lines'  BY <1>3, <2>2, <2>3, MemoryAnswered DEF MissInv
  <2>5. QED  BY <2>2, <2>4 DEF MissInv
<1>5. CASE Memory_Ack(d, m)
  <2>1. /\ m.type = "MEMORY_WB" /\ memQueue' = memQueue \ {m} /\ DirOf[m.addr] = d
        /\ forwardNet' = forwardNet \/ sendWriteBackAck(d, m.requestor, m.addr)
        /\ UNCHANGED <<requestNet, responseNet>>
    BY <1>5 DEF Memory_Ack, popMemQueue
  <2>2. m.addr \in Addr /\ m.requestor \in Cache
    BY DEF TypeOK, DirTypeOK, MemoryMsg
  <2>3. MemSame  BY <2>1 DEF MemSame, AtMem
  <2>4. ForwardsInv' /\ FwdSame
    BY <2>1, <2>2, ForwardsSame, WriteBackAckPut DEF MissInv, ChannelInv
  <2>5. RequestsInv' /\ ReqSame /\ ResponsesInv' /\ RespSame
    BY <2>1, RequestsSame, ResponsesSame DEF MissInv, ChannelInv
  <2>6. Lines'  BY <1>3, <2>3, <2>4, <2>5, QuietView DEF MissInv
  <2>7. QED  BY <2>4, <2>5, <2>6 DEF MissInv, ChannelInv
<1>6. QED  BY <1>2, <1>4, <1>5

LEMMA QuietMisses ==
  ASSUME MissInv,
         UNCHANGED <<requestNet, forwardNet, responseNet, memQueue, cacheState, pendingAcks>>
  PROVE  MissInv'
BY ChannelsUnchanged, CachesUnchanged, MemUnchanged, QuietView DEF MissInv

LEMMA MissInvInit == Init => MissInv
<1> SUFFICES ASSUME Init PROVE MissInv
  OBVIOUS
<1> USE DEF Init, NetInit, SeqInit, CacheInit, DirInit
<1>1. \A c \in Cache, d \in Dir : \A m : ~In(requestNet, c, d, m)  BY DEF In, Range
<1>2. \A c \in Cache, d \in Dir : \A m : ~In(forwardNet, d, c, m)  BY DEF In, Range
<1>3. \A n \in Node, q \in Node : \A m : ~In(responseNet, n, q, m)  BY DEF In, Range
<1>4. ChannelInv
  <2>1. AllDistinct(requestNet, GetTypes)  BY DEF AllDistinct, Distinct
  <2>2. AllDistinct(forwardNet, FwdTypes)  BY DEF AllDistinct, Distinct
  <2>3. AllDistinct(responseNet, RespTypes)  BY DEF AllDistinct, Distinct
  <2>4. QED  BY <1>1, <1>2, <1>3, <2>1, <2>2, <2>3
             DEF ChannelInv, RequestsInv, ForwardsInv, ResponsesInv
<1>5. ASSUME NEW c \in Cache, NEW a \in Addr PROVE LineInv(c, a)
  <2>1. Class(c, a) = "none" /\ pendingAcks[c][a] = 0  BY DEF Class, ClassOf
  <2>2. \A m : ~AtReq(c, a, m)  BY <1>1, Places DEF AtReq
  <2>3. \A m : ~AtMem(c, a, m)  BY DEF AtMem
  <2>4. \A q, m : ~AtFwd(c, a, q, m)  BY <1>2, Places DEF AtFwd
  <2>5. \A n, m : ~AtData(c, a, n, m)  BY <1>3, Places DEF AtData
  <2>6. PlaceInv(c, a)  BY <2>1, <2>2, <2>3, <2>4, <2>5 DEF PlaceInv, At
  <2>7. \A q \in Cache : ~InvTo(q, a, c) /\ ~AckFrom(q, c, a)
    BY <1>2, <1>3, Places DEF InvTo, AckFrom
  <2>8. Due(c, a) = {}  BY <2>7 DEF Due
  <2>9. DueInv(c, a)  BY <2>1, <2>5, <2>7, <2>8 DEF DueInv
  <2>10. QED  BY <2>6, <2>9 DEF LineInv
<1>6. QED  BY <1>4, <1>5 DEF MissInv, Lines

\* Every step keeps the invariant.
LEMMA MissInvNext ==
  ASSUME TypeOK, DirectoryEntries, MissInv, [Next]_vars
  PROVE  MissInv'
<1>1. CASE UNCHANGED vars
  BY <1>1, QuietMisses DEF vars, netVars, cacheVars, dirVars
<1>2. ASSUME NEW c \in Cache, ProcessorRequest(c) PROVE MissInv'
  BY <1>2, QuietMisses DEF ProcessorRequest, netVars, cacheVars, dirVars
<1>3. ASSUME NEW c \in Cache, NEW a \in Addr, CacheMandatory(c, a) PROVE MissInv'
  BY <1>3, CacheMandatoryMisses
<1>4. ASSUME NEW c \in Cache, CacheReplacement(c) PROVE MissInv'
  BY <1>4, CacheReplacementMisses
<1>5. ASSUME NEW c \in Cache, NEW d \in Dir, CacheForward(c, d) PROVE MissInv'
  BY <1>5, CacheForwardMisses
<1>6. ASSUME NEW c \in Cache, NEW n \in Node, CacheResponse(c, n) PROVE MissInv'
  BY <1>6, CacheResponseMisses
<1>7. ASSUME NEW c \in Cache, CacheFatal(c) PROVE MissInv'
  BY <1>7, QuietMisses DEF CacheFatal, CacheInvalidTransition, netVars, cacheVars, dirVars
<1>8. ASSUME NEW d \in Dir, NEW c \in Cache, DirRequest(d, c) PROVE MissInv'
  BY <1>8, DirRequestMisses
<1>9. ASSUME NEW d \in Dir, NEW c \in Cache, DirResponse(d, c) PROVE MissInv'
  BY <1>9, DirResponseMisses
<1>10. ASSUME NEW d \in Dir, DirMemory(d) PROVE MissInv'
  BY <1>10, DirMemoryMisses
<1>11. ASSUME NEW d \in Dir, DirFatal(d) PROVE MissInv'
  BY <1>11, QuietMisses DEF DirFatal, DirInvalidTransition, netVars, cacheVars, dirVars
<1>12. QED  BY <1>1, <1>2, <1>3, <1>4, <1>5, <1>6, <1>7, <1>8, <1>9, <1>10, <1>11
            DEF Next, ControllerStep

\* The invariant holds in every state: a miss is in one place, an ack is owed
\* once, and what a cache expects is what is due.
THEOREM MissesCorrect == Spec => []MissInv
<1>1. Init => MissInv  BY MissInvInit
<1>2. TypeOK /\ DirectoryEntries /\ MissInv /\ [Next]_vars => MissInv'  BY MissInvNext
<1>3. QED  BY <1>1, <1>2, TypeCorrect, EntriesCorrect, PTL DEF Spec

-----------------------------------------------------------------------------
(* What follows from the invariant.                                        *)

\* The position i of node n's channel, or the memory request, that place k of
\* the miss of c on line a is, holds the message m.
Holds(c, a, k, n, i, m) ==
  \/ k = "request" /\ i \in DOMAIN requestNet[c][DirOf[a]] /\ m = requestNet[c][DirOf[a]][i]
  \/ k = "memory" /\ i = m
  \/ k = "forward" /\ i \in DOMAIN forwardNet[DirOf[a]][n] /\ m = forwardNet[DirOf[a]][n][i]
  \/ k = "data" /\ i \in DOMAIN responseNet[n][c] /\ m = responseNet[n][c][i]

\* MissAt lists the places of a miss.
LEMMA MissAtIs ==
  ASSUME TypeOK, NEW c \in Cache, NEW a \in Addr
  PROVE  /\ \A p \in MissAt(c, a) : \E k, n, i, m :
              p = <<k, n, i>> /\ At(c, a, k, n, m) /\ Holds(c, a, k, n, i, m)
         /\ \A k, n, m : At(c, a, k, n, m) => MissAt(c, a) # {}
<1> DEFINE d == DirOf[a]
<1>a. \A p : p \in ForwardAt(c, a) <=> \E q \in Cache : p \in ForwardTo(q, c, a)
  BY Zenon DEF ForwardAt
<1>b. \A p : p \in DataAt(c, a) <=> \E n \in Node : p \in DataFrom(n, c, a)
  BY Zenon DEF DataAt
<1>d. \A p : p \in MissAt(c, a) <=>
              \/ p \in RequestAt(c, a) \/ p \in ReadAt(c, a)
              \/ \E q \in Cache : p \in ForwardTo(q, c, a)
              \/ \E n \in Node : p \in DataFrom(n, c, a)
  BY <1>a, <1>b DEF MissAt
<1>0. d \in Dir /\ c \in Node  BY Places
<1>1. ASSUME NEW i \in Positions(requestNet[c][d], a, GetTypes)
      PROVE  AtReq(c, a, requestNet[c][d][i]) /\ i \in DOMAIN requestNet[c][d]
  BY DEF Positions, AtReq, In, Range
<1>2. ASSUME NEW q \in Cache, NEW i \in Positions(forwardNet[d][q], a, GetTypes),
             forwardNet[d][q][i].requestor = c
      PROVE  AtFwd(c, a, q, forwardNet[d][q][i]) /\ i \in DOMAIN forwardNet[d][q]
  BY <1>2 DEF Positions, AtFwd, In, Range
<1>3. ASSUME NEW n \in Node, NEW i \in Positions(responseNet[n][c], a, DataTypes)
      PROVE  AtData(c, a, n, responseNet[n][c][i]) /\ i \in DOMAIN responseNet[n][c]
  BY DEF Positions, AtData, In, Range
<1>4. ASSUME NEW p \in MissAt(c, a)
      PROVE  \E k, n, i, m : p = <<k, n, i>> /\ At(c, a, k, n, m) /\ Holds(c, a, k, n, i, m)
  <2>1. \/ \E i \in Positions(requestNet[c][d], a, GetTypes) : p = <<"request", c, i>>
        \/ \E m \in memQueue : p = <<"memory", d, m>> /\ AtMem(c, a, m)
        \/ \E q \in Cache : \E i \in Positions(forwardNet[d][q], a, GetTypes) :
             p = <<"forward", q, i>> /\ forwardNet[d][q][i].requestor = c
        \/ \E n \in Node : \E i \in Positions(responseNet[n][c], a, DataTypes) :
             p = <<"data", n, i>>
    BY <1>d DEF AtMem, RequestAt, ReadAt, ForwardTo, DataFrom, GetTypes, DataTypes
  <2>2. CASE \E i \in Positions(requestNet[c][d], a, GetTypes) : p = <<"request", c, i>>
    <3>1. PICK i \in Positions(requestNet[c][d], a, GetTypes) : p = <<"request", c, i>>  BY <2>2
    <3>2. At(c, a, "request", c, requestNet[c][d][i])
      BY <1>1, <3>1 DEF At
    <3>3. Holds(c, a, "request", c, i, requestNet[c][d][i])
      BY <1>1, <3>1 DEF Holds
    <3>4. QED  BY <3>1, <3>2, <3>3
  <2>3. CASE \E m \in memQueue : p = <<"memory", d, m>> /\ AtMem(c, a, m)
    <3>1. PICK m \in memQueue : p = <<"memory", d, m>> /\ AtMem(c, a, m)  BY <2>3
    <3>2. At(c, a, "memory", d, m) /\ Holds(c, a, "memory", d, m, m)
      BY <3>1 DEF At, Holds
    <3>3. QED  BY <3>1, <3>2
  <2>4. CASE \E q \in Cache : \E i \in Positions(forwardNet[d][q], a, GetTypes) :
               p = <<"forward", q, i>> /\ forwardNet[d][q][i].requestor = c
    <3>0. PICK q \in Cache : \E i \in Positions(forwardNet[d][q], a, GetTypes) :
            p = <<"forward", q, i>> /\ forwardNet[d][q][i].requestor = c
      BY <2>4
    <3>1. PICK i \in Positions(forwardNet[d][q], a, GetTypes) :
            p = <<"forward", q, i>> /\ forwardNet[d][q][i].requestor = c
      BY <3>0
    <3>2. At(c, a, "forward", q, forwardNet[d][q][i])
      BY <1>2, <3>1 DEF At
    <3>3. Holds(c, a, "forward", q, i, forwardNet[d][q][i])
      BY <1>2, <3>1 DEF Holds
    <3>4. QED  BY <3>1, <3>2, <3>3
  <2>5. CASE \E n \in Node : \E i \in Positions(responseNet[n][c], a, DataTypes) :
               p = <<"data", n, i>>
    <3>0. PICK n \in Node : \E i \in Positions(responseNet[n][c], a, DataTypes) : p = <<"data", n, i>>
      BY <2>5
    <3>1. PICK i \in Positions(responseNet[n][c], a, DataTypes) : p = <<"data", n, i>>
      BY <3>0
    <3>2. At(c, a, "data", n, responseNet[n][c][i])
      BY <1>3, <3>1 DEF At
    <3>3. Holds(c, a, "data", n, i, responseNet[n][c][i])
      BY <1>3, <3>1 DEF Holds
    <3>4. QED  BY <3>1, <3>2, <3>3
  <2>6. QED  BY <2>1, <2>2, <2>3, <2>4, <2>5
<1>5. ASSUME NEW k, NEW n, NEW m, At(c, a, k, n, m) PROVE MissAt(c, a) # {}
  <2>1. CASE k = "request" /\ AtReq(c, a, m)
    <3>1. PICK i \in DOMAIN requestNet[c][d] : m = requestNet[c][d][i]
      BY <2>1 DEF AtReq, In, Range
    <3>2. i \in Positions(requestNet[c][d], a, GetTypes)
      BY <2>1, <3>1 DEF AtReq, Positions
    <3>3. <<"request", c, i>> \in MissAt(c, a)
      BY <1>d, <3>2 DEF RequestAt, GetTypes
    <3>4. QED  BY <3>3
  <2>2. CASE k = "memory" /\ AtMem(c, a, m)
    <3>1. <<"memory", d, m>> \in MissAt(c, a)
      BY <1>d, <2>2 DEF AtMem, ReadAt
    <3>2. QED  BY <3>1
  <2>3. CASE k = "forward" /\ AtFwd(c, a, n, m)
    <3>1. PICK i \in DOMAIN forwardNet[d][n] : m = forwardNet[d][n][i]
      BY <2>3 DEF AtFwd, In, Range
    <3>2. n \in Cache /\ i \in Positions(forwardNet[d][n], a, GetTypes)
          /\ forwardNet[d][n][i].requestor = c
      BY <2>3, <3>1 DEF AtFwd, Positions
    <3>3. <<"forward", n, i>> \in MissAt(c, a)
      BY <1>d, <3>2 DEF ForwardTo, GetTypes
    <3>4. QED  BY <3>3
  <2>4. CASE k = "data" /\ AtData(c, a, n, m)
    <3>1. PICK i \in DOMAIN responseNet[n][c] : m = responseNet[n][c][i]
      BY <2>4 DEF AtData, In, Range
    <3>2. n \in Node /\ i \in Positions(responseNet[n][c], a, DataTypes)
      BY <2>4, <3>1 DEF AtData, Positions
    <3>3. <<"data", n, i>> \in MissAt(c, a)
      BY <1>d, <3>2 DEF DataFrom, DataTypes
    <3>4. QED  BY <3>3
  <2>5. QED  BY <1>5, <2>1, <2>2, <2>3, <2>4 DEF At
<1>6. QED  BY <1>4, <1>5

\* No message of these kinds is in a channel twice.
LEMMA ChannelsDistinct ==
  ASSUME TypeOK, ChannelInv
  PROVE  /\ \A c \in Cache, d \in Dir : Distinct(requestNet[c][d], GetTypes)
         /\ \A d \in Dir, c \in Cache : Distinct(forwardNet[d][c], FwdTypes)
         /\ \A n \in Node, c \in Node : Distinct(responseNet[n][c], RespTypes)
BY DEF TypeOK, NetTypeOK, ChannelInv, RequestsInv, ForwardsInv, ResponsesInv, AllDistinct

\* A place of a miss is one position.
LEMMA HoldsOnce ==
  ASSUME TypeOK, ChannelInv, NEW c \in Cache, NEW a \in Addr, NEW k, NEW n, NEW m, NEW i, NEW j,
         At(c, a, k, n, m), Holds(c, a, k, n, i, m), Holds(c, a, k, n, j, m)
  PROVE  i = j
<1>1. DirOf[a] \in Dir /\ c \in Node  BY Places
<1>2. CASE k = "request" /\ AtReq(c, a, m)
  <2>1. Distinct(requestNet[c][DirOf[a]], GetTypes)  BY <1>1, ChannelsDistinct
  <2>2. QED  BY <1>2, <2>1 DEF Holds, AtReq, Distinct
<1>3. CASE k = "memory"
  BY <1>3 DEF Holds
<1>4. CASE k = "forward" /\ AtFwd(c, a, n, m)
  <2>1. Distinct(forwardNet[DirOf[a]][n], FwdTypes) /\ m.type \in FwdTypes
    BY <1>1, <1>4, ChannelsDistinct DEF AtFwd, GetTypes, FwdTypes
  <2>2. QED  BY <1>4, <2>1 DEF Holds, Distinct
<1>5. CASE k = "data" /\ AtData(c, a, n, m)
  <2>1. Distinct(responseNet[n][c], RespTypes) /\ m.type \in RespTypes
    BY <1>1, <1>5, ChannelsDistinct DEF AtData, DataTypes, RespTypes
  <2>2. QED  BY <1>5, <2>1 DEF Holds, Distinct
<1>6. QED  BY <1>2, <1>3, <1>4, <1>5 DEF At

LEMMA OneAnswerHolds ==
  ASSUME TypeOK, MissInv
  PROVE  OneAnswer
<1>1. SUFFICES ASSUME NEW c \in Cache, NEW a \in Addr
               PROVE  /\ MissAt(c, a) # {} <=> cacheState[c][a] \in {"IS_D", "IM_AD", "SM_AD"}
                      /\ \A p, q \in MissAt(c, a) : p = q
  BY DEF OneAnswer
<1>2. PlaceInv(c, a) /\ ChannelInv  BY DEF MissInv, Lines, LineInv
<1>3. cacheState[c][a] \in {"IS_D", "IM_AD", "SM_AD"} <=> Class(c, a) \in {"load", "store"}
  BY Classes DEF Class
<1>4. MissAt(c, a) # {} <=> \E k, n, m : At(c, a, k, n, m)
  <2>1. ASSUME MissAt(c, a) # {} PROVE \E k, n, m : At(c, a, k, n, m)
    <3>1. PICK p : p \in MissAt(c, a)  BY <2>1
    <3>2. QED  BY <3>1, MissAtIs
  <2>2. QED  BY <2>1, MissAtIs
<1>5. ASSUME NEW p \in MissAt(c, a), NEW q \in MissAt(c, a) PROVE p = q
  <2>1. PICK k1, n1, i1, m1 :
          p = <<k1, n1, i1>> /\ At(c, a, k1, n1, m1) /\ Holds(c, a, k1, n1, i1, m1)
    BY MissAtIs
  <2>2. PICK k2, n2, i2, m2 :
          q = <<k2, n2, i2>> /\ At(c, a, k2, n2, m2) /\ Holds(c, a, k2, n2, i2, m2)
    BY MissAtIs
  <2>3. k1 = k2 /\ n1 = n2 /\ m1 = m2  BY <1>2, <2>1, <2>2 DEF PlaceInv
  <2>4. i1 = i2  BY <1>2, <2>1, <2>2, <2>3, HoldsOnce
  <2>5. QED  BY <2>1, <2>2, <2>3, <2>4
<1>6. QED  BY <1>2, <1>3, <1>4, <1>5 DEF PlaceInv

\* OwedBy lists the invalidation and the ack.
LEMMA OwedByIs ==
  ASSUME TypeOK, ChannelInv, NEW q \in Cache, NEW c \in Cache, NEW a \in Addr
  PROVE  /\ \A o \in OwedBy(q, c, a) :
              \/ InvTo(q, a, c) /\ \E i : /\ o = <<"INV", i>>
                                          /\ i \in DOMAIN forwardNet[DirOf[a]][q]
                                          /\ forwardNet[DirOf[a]][q][i] = InvMsg(a, c)
              \/ AckFrom(q, c, a) /\ \E i : /\ o = <<"ACK", i>>
                                            /\ i \in DOMAIN responseNet[q][c]
                                            /\ responseNet[q][c][i] = AckMsg(a)
         /\ InvTo(q, a, c) \/ AckFrom(q, c, a) => OwedBy(q, c, a) # {}
<1> DEFINE fwd == forwardNet[DirOf[a]][q]
           resp == responseNet[q][c]
<1>0. DirOf[a] \in Dir /\ q \in Node /\ c \in Node  BY Places
<1>1. fwd \in Seq(ForwardMsg) /\ resp \in Seq(ResponseMsg)
  BY <1>0 DEF TypeOK, NetTypeOK
<1>2. \A i \in DOMAIN fwd : fwd[i] \in ForwardMsg /\ In(forwardNet, DirOf[a], q, fwd[i])
  BY <1>1, ElementOfSeq, LenProperties DEF In, Range
<1>3. \A i \in DOMAIN resp : resp[i] \in ResponseMsg /\ In(responseNet, q, c, resp[i])
  BY <1>1, ElementOfSeq, LenProperties DEF In, Range
<1>4. ASSUME NEW i \in Positions(fwd, a, {"INV"}), fwd[i].requestor = c
      PROVE  i \in DOMAIN fwd /\ fwd[i] = InvMsg(a, c) /\ InvTo(q, a, c)
  <2>1. i \in DOMAIN fwd /\ fwd[i].addr = a /\ fwd[i].type = "INV"  BY DEF Positions
  <2>2. fwd[i] = InvMsg(a, c)  BY <1>2, <1>4, <2>1 DEF ForwardMsg, InvMsg
  <2>3. QED  BY <1>2, <2>1, <2>2 DEF InvTo
<1>5. ASSUME NEW i \in Positions(resp, a, {"ACK"})
      PROVE  i \in DOMAIN resp /\ resp[i] = AckMsg(a) /\ AckFrom(q, c, a)
  <2>1. i \in DOMAIN resp /\ resp[i].addr = a /\ resp[i].type = "ACK"  BY DEF Positions
  <2>2. resp[i] = AckMsg(a)  BY <1>0, <1>3, <2>1 DEF ChannelInv, ResponsesInv
  <2>3. QED  BY <1>3, <2>1, <2>2 DEF AckFrom
<1>6. \A o : o \in OwedBy(q, c, a) <=>
        \/ \E i \in Positions(fwd, a, {"INV"}) : o = <<"INV", i>> /\ fwd[i].requestor = c
        \/ \E i \in Positions(resp, a, {"ACK"}) : o = <<"ACK", i>>
  BY DEF OwedBy
<1>7. ASSUME InvTo(q, a, c) PROVE OwedBy(q, c, a) # {}
  <2>1. PICK i \in DOMAIN fwd : fwd[i] = InvMsg(a, c)  BY <1>7 DEF InvTo, In, Range
  <2>2. i \in Positions(fwd, a, {"INV"}) /\ fwd[i].requestor = c  BY <2>1 DEF Positions, InvMsg
  <2>3. <<"INV", i>> \in OwedBy(q, c, a)  BY <1>6, <2>2
  <2>4. QED  BY <2>3
<1>8. ASSUME AckFrom(q, c, a) PROVE OwedBy(q, c, a) # {}
  <2>1. PICK i \in DOMAIN resp : resp[i] = AckMsg(a)  BY <1>8 DEF AckFrom, In, Range
  <2>2. i \in Positions(resp, a, {"ACK"})  BY <2>1 DEF Positions, AckMsg
  <2>3. <<"ACK", i>> \in OwedBy(q, c, a)  BY <1>6, <2>2
  <2>4. QED  BY <2>3
<1>9. QED  BY <1>4, <1>5, <1>6, <1>7, <1>8

\* CountsTo lists the directory's data.
LEMMA CountsToIs ==
  ASSUME NEW c \in Cache, NEW a \in Addr
  PROVE  \A m : m \in CountsTo(c, a) <=> m.type = "DATA_FROM_DIR" /\ \E n : AtData(c, a, n, m)
<1>1. \A m : m \in UNION {Range(responseNet[n][c]) : n \in Node} <=>
             \E n \in Node : In(responseNet, n, c, m)
  BY Zenon DEF In
<1>2. \A m : m \in CountsTo(c, a) <=>
             (\E n \in Node : In(responseNet, n, c, m)) /\ m.addr = a /\ m.type = "DATA_FROM_DIR"
  BY <1>1, Zenon DEF CountsTo
<1>3. QED  BY <1>2 DEF AtData, DataTypes

LEMMA AckConservationHolds ==
  ASSUME TypeOK, MissInv
  PROVE  AckConservation
<1>1. SUFFICES ASSUME NEW c \in Cache, NEW a \in Addr
               PROVE  /\ \A q \in Cache : \A o1, o2 \in OwedBy(q, c, a) : o1 = o2
                      /\ \A m \in CountsTo(c, a) :
                           pendingAcks[c][a] - m.ackCount = Cardinality(AcksDue(c, a))
                      /\ CountsTo(c, a) = {} => pendingAcks[c][a] = Cardinality(AcksDue(c, a))
  BY DEF AckConservation
<1>2. DueInv(c, a) /\ ChannelInv  BY DEF MissInv, Lines, LineInv
<1>3. ASSUME NEW q \in Cache, NEW o1 \in OwedBy(q, c, a), NEW o2 \in OwedBy(q, c, a) PROVE o1 = o2
  <2>1. ~(InvTo(q, a, c) /\ AckFrom(q, c, a))  BY <1>2 DEF DueInv
  <2>2. /\ Distinct(forwardNet[DirOf[a]][q], FwdTypes) /\ InvMsg(a, c).type \in FwdTypes
        /\ Distinct(responseNet[q][c], RespTypes) /\ AckMsg(a).type \in RespTypes
    BY <1>2, Places, ChannelsDistinct DEF InvMsg, AckMsg, FwdTypes, RespTypes
  <2>3. CASE InvTo(q, a, c)
    <3>1. \A o \in OwedBy(q, c, a) : \E i : /\ o = <<"INV", i>>
                                            /\ i \in DOMAIN forwardNet[DirOf[a]][q]
                                            /\ forwardNet[DirOf[a]][q][i] = InvMsg(a, c)
      BY <1>2, <2>1, <2>3, OwedByIs
    <3>2. QED  BY <2>2, <3>1 DEF Distinct
  <2>4. CASE ~InvTo(q, a, c)
    <3>1. \A o \in OwedBy(q, c, a) : \E i : /\ o = <<"ACK", i>>
                                            /\ i \in DOMAIN responseNet[q][c]
                                            /\ responseNet[q][c][i] = AckMsg(a)
      BY <1>2, <2>4, OwedByIs
    <3>2. QED  BY <2>2, <3>1 DEF Distinct
  <2>5. QED  BY <2>3, <2>4
<1>4. AcksDue(c, a) = Due(c, a)
  <2>1. \A q \in Cache : OwedBy(q, c, a) # {} <=> InvTo(q, a, c) \/ AckFrom(q, c, a)
    BY <1>2, OwedByIs
  <2>2. QED  BY <2>1 DEF AcksDue, Due
<1>5. \A m \in CountsTo(c, a) : pendingAcks[c][a] - m.ackCount = Cardinality(Due(c, a))
  BY <1>2, CountsToIs DEF DueInv
<1>6. ASSUME CountsTo(c, a) = {} PROVE pendingAcks[c][a] = Cardinality(Due(c, a))
  <2>1. CASE \E n, m : AtData(c, a, n, m)
    <3>1. PICK n, m : AtData(c, a, n, m)  BY <2>1
    <3>2. m.type = "DATA_FROM_OWNER"  BY <1>6, <3>1, CountsToIs DEF AtData, DataTypes
    <3>3. m.ackCount = 0
      BY <1>2, <3>1, <3>2, Places DEF AtData, ChannelInv, ResponsesInv
    <3>4. pendingAcks[c][a] \in Int  BY DEF TypeOK, CacheTypeOK
    <3>5. QED  BY <1>2, <3>1, <3>3, <3>4 DEF DueInv
  <2>2. CASE Class(c, a) = "acks"
    BY <1>2, <2>2 DEF DueInv
  <2>3. CASE Class(c, a) # "acks" /\ \A n, m : ~AtData(c, a, n, m)
    BY <1>2, <2>3, FS_EmptySet DEF DueInv
  <2>4. QED  BY <2>1, <2>2, <2>3
<1>7. QED  BY <1>3, <1>4, <1>5, <1>6

LEMMA ResponsesExpectedHolds ==
  ASSUME TypeOK, MissInv
  PROVE  ResponsesExpected
<1>1. SUFFICES ASSUME NEW c \in Cache, NEW n \in Node, responseNet[n][c] # <<>>,
                      NEW m, m = Head(responseNet[n][c])
               PROVE  <<ResponseEvent(c, m), cacheState[c][m.addr]>> \in ResponseTransitions
  BY DEF ResponsesExpected
<1>2. m \in ResponseMsg /\ In(responseNet, n, c, m)
  <2>1. responseNet[n][c] \in Seq(ResponseMsg)  BY Places DEF TypeOK, NetTypeOK
  <2>2. Distinct(responseNet[n][c], {})  BY DEF Distinct
  <2>3. QED  BY <1>1, <2>1, <2>2, TailRange, HeadTailProperties DEF In
<1>3. /\ m.addr \in Addr /\ m.ackCount \in Int /\ m.type \in RespTypes
      /\ m.type = "ACK" => m = AckMsg(m.addr) /\ n \in Cache
      /\ m.type = "DATA_FROM_OWNER" => m.ackCount = 0
  BY <1>2, Places DEF ResponseMsg, MissInv, ChannelInv, ResponsesInv
<1> DEFINE a == m.addr
           s == cacheState[c][a]
<1>4. PlaceInv(c, a) /\ DueInv(c, a)  BY <1>3 DEF MissInv, Lines, LineInv
<1>5. pendingAcks[c][a] \in Int  BY <1>3 DEF TypeOK, CacheTypeOK
<1>6. CASE m.type \in DataTypes
  <2>1. AtData(c, a, n, m)  BY <1>2, <1>6 DEF AtData
  <2>2. Class(c, a) \in {"load", "store"} /\ (Class(c, a) = "load" => m.ackCount = 0)
    BY <1>4, <2>1 DEF PlaceInv, At, DueInv
  <2>3. s = "IS_D" \/ s \in {"IM_AD", "SM_AD"}  BY <2>2, Classes DEF Class
  <2>4. s = "IS_D" => m.ackCount = 0  BY <2>2, <2>3, Classes DEF Class
  <2>5. CASE m.type = "DATA_FROM_OWNER" \/ m.ackCount = 0
    <3>1. ResponseEvent(c, m) \in {"Data_from_Owner", "Data_from_Dir_No_Acks"}
      BY <1>6, <2>5 DEF DataTypes, ResponseEvent, CountedEvent
    <3>2. QED  BY <2>3, <3>1 DEF ResponseTransitions
  <2>6. CASE m.type = "DATA_FROM_DIR" /\ m.ackCount # 0
    <3>1. s \in {"IM_AD", "SM_AD"} /\ s \in CacheTransient  BY <2>3, <2>4, <2>6 DEF CacheTransient
    <3>2. ResponseEvent(c, m) \in {"Data_from_Dir_Ack_Cnt", "Data_from_Dir_Ack_Cnt_Last"}
      BY <2>6, <3>1 DEF ResponseEvent, CountedEvent
    <3>3. QED  BY <3>1, <3>2 DEF ResponseTransitions
  <2>7. QED  BY <1>6, <2>5, <2>6 DEF DataTypes
<1>7. CASE m.type = "ACK"
  <2>1. m.ackCount = 1 /\ AckFrom(n, c, a) /\ n \in Due(c, a)
    BY <1>2, <1>3, <1>7 DEF AckFrom, AckMsg, Due
  <2>3. Cardinality(Due(c, a)) \in Nat /\ Cardinality(Due(c, a)) # 0
    BY <1>3, <2>1, DueFinite
  <2>4. CASE Class(c, a) = "acks"
    <3>1. s \in {"IM_A", "SM_A"}  BY <2>4, Classes DEF Class
    <3>2. QED  BY <1>7, <3>1 DEF ResponseEvent, CountedEvent, ResponseTransitions, CacheTransient, StoreMiss
  <2>5. CASE Class(c, a) # "acks"
    <3>1. PICK x, k : AtData(c, a, x, k)  BY <1>4, <2>1, <2>5 DEF DueInv
    <3>2. /\ Class(c, a) \in {"load", "store"} /\ pendingAcks[c][a] <= 0
          /\ pendingAcks[c][a] - k.ackCount = Cardinality(Due(c, a))
          /\ Class(c, a) = "load" => k.ackCount = 0
      BY <1>4, <3>1 DEF PlaceInv, At, DueInv
    <3>3. Class(c, a) = "store"  BY <1>5, <2>3, <3>2
    <3>4. s \in {"IM_AD", "SM_AD"}  BY <3>3, Classes DEF Class
    <3>5. pendingAcks[c][a] - m.ackCount # 0  BY <1>5, <2>1, <3>2
    <3>6. QED  BY <1>7, <3>4, <3>5 DEF ResponseEvent, CountedEvent, ResponseTransitions, CacheTransient, StoreMiss
  <2>6. QED  BY <2>4, <2>5
<1>8. QED  BY <1>3, <1>6, <1>7 DEF RespTypes, DataTypes

\* While a cache waits for a block exactly one message of the system carries its
\* miss, whatever evictions, forwards and stalls come between: the controllers
\* neither lose a GETS or GETM nor answer it twice.
THEOREM MissesAnsweredOnce == Spec => []OneAnswer
<1>1. TypeOK /\ MissInv => OneAnswer  BY OneAnswerHolds
<1>2. QED  BY <1>1, TypeCorrect, MissesCorrect, PTL

\* The acks that a cache expects, counting the ack count that is still on its
\* way, are the ones that sharers owe it, for any number of sharers.
THEOREM AcksConserved == Spec => []AckConservation
<1>1. TypeOK /\ MissInv => AckConservation  BY AckConservationHolds
<1>2. QED  BY <1>1, TypeCorrect, MissesCorrect, PTL

\* No data message and no ack ever reaches an L1 cache that has no TBE or no
\* transition for it: responses cause no fatal error, evictions included.
THEOREM ResponsesHandled == Spec => []ResponsesExpected
<1>1. TypeOK /\ MissInv => ResponsesExpected  BY ResponsesExpectedHolds
<1>2. QED  BY <1>1, TypeCorrect, MissesCorrect, PTL
=============================================================================
