------------------------- MODULE MSIEvictions_proofs -------------------------
(***************************************************************************)
(* What evictions leave intact, for any number of caches, directories and  *)
(* lines: the directory can reach every copy that a load may read, and a   *)
(* write-back is forgotten by one transition alone.                        *)
(***************************************************************************)
EXTENDS MSIMisses_proofs

-----------------------------------------------------------------------------
(* What a channel holds, and in which order.                               *)

PutTypes == {"PUTS", "PUTM"}

Is(m, a, K) == m.addr = a /\ m.type \in K

\* The channel s holds a message for line a with a type of K, or one of K with
\* one of L behind it.
Has(s, a, K) == \E i \in DOMAIN s : Is(s[i], a, K)
Before(s, a, K, L) == \E i, j \in DOMAIN s : i < j /\ Is(s[i], a, K) /\ Is(s[j], a, L)

LEMMA HasAppend ==
  ASSUME NEW T, NEW s \in Seq(T), NEW m \in T, NEW a, NEW K, NEW L
  PROVE  /\ Has(Append(s, m), a, K) <=> Has(s, a, K) \/ Is(m, a, K)
         /\ Before(Append(s, m), a, K, L) <=>
              Before(s, a, K, L) \/ (Has(s, a, K) /\ Is(m, a, L))
<1> DEFINE t == Append(s, m)
<1>1. /\ Len(s) \in Nat /\ \A i \in 1..Len(s) : t[i] = s[i]
      /\ t[Len(s) + 1] = m
      /\ DOMAIN s = 1..Len(s) /\ DOMAIN t = 1..(Len(s) + 1)
  BY AppendProperties
<1> HIDE DEF t
<1>2. \A i \in DOMAIN t : i \in 1..Len(s) \/ i = Len(s) + 1  BY <1>1
<1>3. \A i \in 1..Len(s) : i \in DOMAIN t /\ i < Len(s) + 1  BY <1>1
<1>4. Len(s) + 1 \in DOMAIN t  BY <1>1
<1>5. Has(t, a, K) <=> Has(s, a, K) \/ Is(m, a, K)
  <2>1. ASSUME NEW i \in DOMAIN t, Is(t[i], a, K) PROVE Has(s, a, K) \/ Is(m, a, K)
    BY <1>1, <1>2, <2>1 DEF Has
  <2>2. ASSUME NEW i \in DOMAIN s, Is(s[i], a, K) PROVE Has(t, a, K)
    BY <1>1, <1>3, <2>2 DEF Has
  <2>3. ASSUME Is(m, a, K) PROVE Has(t, a, K)
    BY <1>1, <1>4, <2>3 DEF Has
  <2>4. QED  BY <2>1, <2>2, <2>3 DEF Has
<1>6. ASSUME Before(t, a, K, L) PROVE Before(s, a, K, L) \/ (Has(s, a, K) /\ Is(m, a, L))
  <2>1. PICK i \in DOMAIN t, j \in DOMAIN t : i < j /\ Is(t[i], a, K) /\ Is(t[j], a, L)
    BY <1>6 DEF Before
  <2>2. i \in 1..Len(s)  BY <1>1, <1>2, <2>1
  <2>3. t[i] = s[i] /\ i \in DOMAIN s  BY <1>1, <2>2
  <2>4. CASE j \in 1..Len(s)
    <3>1. t[j] = s[j] /\ j \in DOMAIN s  BY <1>1, <2>4
    <3>2. QED  BY <2>1, <2>3, <3>1 DEF Before
  <2>5. CASE j = Len(s) + 1  BY <1>1, <2>1, <2>3, <2>5 DEF Has
  <2>6. QED  BY <1>2, <2>4, <2>5
<1>7. ASSUME Before(s, a, K, L) PROVE Before(t, a, K, L)
  <2>1. PICK i \in DOMAIN s, j \in DOMAIN s : i < j /\ Is(s[i], a, K) /\ Is(s[j], a, L)
    BY <1>7 DEF Before
  <2>2. i \in DOMAIN t /\ j \in DOMAIN t /\ t[i] = s[i] /\ t[j] = s[j]  BY <1>1, <1>3
  <2>3. QED  BY <2>1, <2>2 DEF Before
<1>8. ASSUME Has(s, a, K), Is(m, a, L) PROVE Before(t, a, K, L)
  <2>1. PICK i \in DOMAIN s : Is(s[i], a, K)  BY <1>8 DEF Has
  <2>2. i \in DOMAIN t /\ t[i] = s[i] /\ i < Len(s) + 1  BY <1>1, <1>3
  <2>3. QED  BY <1>1, <1>4, <1>8, <2>1, <2>2 DEF Before
<1>9. QED  BY <1>5, <1>6, <1>7, <1>8 DEF t

LEMMA HasTail ==
  ASSUME NEW T, NEW s \in Seq(T), s # <<>>, NEW a, NEW K, NEW L
  PROVE  /\ Has(s, a, K) <=> Has(Tail(s), a, K) \/ Is(Head(s), a, K)
         /\ Before(s, a, K, L) <=>
              Before(Tail(s), a, K, L) \/ (Is(Head(s), a, K) /\ Has(Tail(s), a, L))
<1> DEFINE t == Tail(s)
<1>1. /\ Len(t) = Len(s) - 1 /\ Len(s) \in Nat /\ Len(s) >= 1
      /\ \A i \in 1..Len(t) : t[i] = s[i + 1]
      /\ Head(s) = s[1]
      /\ DOMAIN s = 1..Len(s) /\ DOMAIN t = 1..Len(t)
  <2>1. Len(s) \in Nat /\ Len(s) # 0  BY EmptySeq, LenProperties
  <2>2. QED  BY <2>1, HeadTailProperties, LenProperties
<1> HIDE DEF t
<1>2. 1 \in DOMAIN s  BY <1>1
<1>3. \A i \in DOMAIN t : i + 1 \in DOMAIN s /\ t[i] = s[i + 1] /\ 1 < i + 1  BY <1>1
<1>4. ASSUME NEW i \in DOMAIN s, i # 1 PROVE i - 1 \in DOMAIN t /\ t[i - 1] = s[i]
  <2>1. i - 1 \in 1..Len(t) /\ (i - 1) + 1 = i  BY <1>1, <1>4
  <2>2. QED  BY <1>1, <2>1
<1>5. Has(s, a, K) <=> Has(t, a, K) \/ Is(Head(s), a, K)
  <2>1. ASSUME NEW i \in DOMAIN s, Is(s[i], a, K) PROVE Has(t, a, K) \/ Is(Head(s), a, K)
    BY <1>1, <1>4, <2>1 DEF Has
  <2>2. ASSUME NEW i \in DOMAIN t, Is(t[i], a, K) PROVE Has(s, a, K)
    BY <1>3, <2>2 DEF Has
  <2>3. ASSUME Is(Head(s), a, K) PROVE Has(s, a, K)
    BY <1>1, <1>2, <2>3 DEF Has
  <2>4. QED  BY <2>1, <2>2, <2>3 DEF Has
<1>6. ASSUME Before(s, a, K, L) PROVE Before(t, a, K, L) \/ (Is(Head(s), a, K) /\ Has(t, a, L))
  <2>1. PICK i \in DOMAIN s, j \in DOMAIN s : i < j /\ Is(s[i], a, K) /\ Is(s[j], a, L)
    BY <1>6 DEF Before
  <2>2. j # 1  BY <1>1, <2>1
  <2>3. j - 1 \in DOMAIN t /\ t[j - 1] = s[j]  BY <1>4, <2>2
  <2>4. CASE i = 1  BY <1>1, <2>1, <2>3, <2>4 DEF Has
  <2>5. CASE i # 1
    <3>1. i - 1 \in DOMAIN t /\ t[i - 1] = s[i]  BY <1>4, <2>5
    <3>2. i - 1 < j - 1  BY <1>1, <2>1
    <3>3. QED  BY <2>1, <2>3, <3>1, <3>2 DEF Before
  <2>6. QED  BY <2>4, <2>5
<1>7. ASSUME Before(t, a, K, L) PROVE Before(s, a, K, L)
  <2>1. PICK i \in DOMAIN t, j \in DOMAIN t : i < j /\ Is(t[i], a, K) /\ Is(t[j], a, L)
    BY <1>7 DEF Before
  <2>2. i + 1 < j + 1  BY <1>1, <2>1
  <2>3. QED  BY <1>3, <2>1, <2>2 DEF Before
<1>8. ASSUME Is(Head(s), a, K), Has(t, a, L) PROVE Before(s, a, K, L)
  <2>1. PICK j \in DOMAIN t : Is(t[j], a, L)  BY <1>8 DEF Has
  <2>2. QED  BY <1>1, <1>2, <1>3, <1>8, <2>1 DEF Before
<1>9. QED  BY <1>5, <1>6, <1>7, <1>8 DEF t

-----------------------------------------------------------------------------
(* The requests of a cache for a line.                                     *)

Requests(c, a) == requestNet[c][DirOf[a]]

\* The miss of c is still a request; a write-back of c is on its way; one is on
\* its way behind a request.
Asked(c, a) == Has(Requests(c, a), a, GetTypes)
Returned(c, a) == Has(Requests(c, a), a, PutTypes)
Overtaken(c, a) == Before(Requests(c, a), a, GetTypes, PutTypes)

SameRequests(c, a) ==
  /\ Asked(c, a)' <=> Asked(c, a)
  /\ Returned(c, a)' <=> Returned(c, a)
  /\ Overtaken(c, a)' <=> Overtaken(c, a)

\* A cache sends a request: the last one for its line.
LEMMA RequestAdded ==
  ASSUME TypeOK, NEW c \in Cache, NEW a \in Addr, NEW v \in DataBlk,
         NEW type \in {"GETS", "GETM", "PUTS", "PUTM"}, sendRequest(c, a, type, v)
  PROVE  /\ \A p \in Cache, b \in Addr : p # c \/ b # a => SameRequests(p, b)
         /\ Asked(c, a)' <=> Asked(c, a) \/ type \in GetTypes
         /\ Returned(c, a)' <=> Returned(c, a) \/ type \in PutTypes
         /\ Overtaken(c, a)' <=> Overtaken(c, a) \/ (Asked(c, a) /\ type \in PutTypes)
<1> DEFINE m == [type |-> type, addr |-> a, data |-> v]
<1>1. requestNet \in [Cache -> [Dir -> Seq(RequestMsg)]]  BY DEF TypeOK, NetTypeOK
<1>2. m \in RequestMsg /\ m.addr = a /\ m.type = type  BY DEF RequestMsg
<1>3. requestNet' = Send(requestNet, c, DirOf[a], m)  BY DEF sendRequest
<1> HIDE DEF m
<1>4. \A p \in Cache, d \in Dir :
        requestNet'[p][d] = IF p = c /\ d = DirOf[a] THEN Append(requestNet[p][d], m)
                            ELSE requestNet[p][d]
  BY <1>1, <1>3 DEF Send
<1>5. \A b \in Addr : DirOf[b] \in Dir  BY Places
<1>6. ASSUME NEW p \in Cache, NEW b \in Addr
      PROVE  \/ p # c /\ Requests(p, b)' = Requests(p, b)
             \/ Requests(p, b)' = Requests(p, b) /\ b # a
             \/ p = c /\ Requests(p, b)' = Append(Requests(p, b), m)
  <2>1. Requests(p, b)' = requestNet'[p][DirOf[b]]  BY DEF Requests
  <2>2. QED  BY <1>4, <1>5, <2>1 DEF Requests
<1>7. \A p \in Cache, b \in Addr : Requests(p, b) \in Seq(RequestMsg)
  BY <1>1, <1>5 DEF Requests
<1>8. ASSUME NEW p \in Cache, NEW b \in Addr, p # c \/ b # a PROVE SameRequests(p, b)
  <2>1. CASE Requests(p, b)' = Requests(p, b)
    BY <2>1 DEF SameRequests, Asked, Returned, Overtaken
  <2>2. CASE p = c /\ Requests(p, b)' = Append(Requests(p, b), m)
    <3>1. \A K : ~Is(m, b, K)  BY <1>2, <1>8, <2>2 DEF Is
    <3>2. \A K, L : /\ Has(Requests(p, b)', b, K) <=> Has(Requests(p, b), b, K)
                    /\ Before(Requests(p, b)', b, K, L) <=> Before(Requests(p, b), b, K, L)
      BY <1>2, <1>7, <2>2, <3>1, HasAppend
    <3>3. QED  BY <3>2 DEF SameRequests, Asked, Returned, Overtaken
  <2>3. QED  BY <1>6, <2>1, <2>2
<1>9. Requests(c, a)' = Append(Requests(c, a), m)  BY <1>6
<1>10. \A K, L : /\ Has(Requests(c, a)', a, K) <=> Has(Requests(c, a), a, K) \/ Is(m, a, K)
                 /\ Before(Requests(c, a)', a, K, L) <=>
                      Before(Requests(c, a), a, K, L) \/ (Has(Requests(c, a), a, K) /\ Is(m, a, L))
  BY <1>2, <1>7, <1>9, HasAppend
<1>11. \A K : Is(m, a, K) <=> type \in K  BY <1>2 DEF Is
<1>12. QED  BY <1>8, <1>10, <1>11 DEF Asked, Returned, Overtaken

\* A directory takes a request: the first one for its line.
LEMMA RequestGone ==
  ASSUME TypeOK, NEW c \in Cache, NEW d \in Dir, AtHead(requestNet, requestHead, c, d),
         requestNet' = Pop(requestNet, c, d),
         NEW m, m = Head(requestNet[c][d]), NEW a, a = m.addr, DirOf[a] = d
  PROVE  /\ \A p \in Cache, b \in Addr : p # c \/ b # a => SameRequests(p, b)
         /\ Overtaken(c, a)' => Overtaken(c, a)
         /\ Returned(c, a)' => Returned(c, a)
         /\ m.type \in GetTypes /\ Returned(c, a)' => Overtaken(c, a)
         /\ m.type \in GetTypes => (Returned(c, a)' <=> Returned(c, a))
         /\ m.type \in PutTypes => (Asked(c, a)' <=> Asked(c, a))
<1>1. requestNet \in [Cache -> [Dir -> Seq(RequestMsg)]] /\ requestNet[c][d] # <<>>
  BY DEF TypeOK, NetTypeOK, AtHead
<1>2. \A p \in Cache, e \in Dir :
        requestNet'[p][e] = IF p = c /\ e = d THEN Tail(requestNet[p][e]) ELSE requestNet[p][e]
  BY <1>1 DEF Pop
<1>3. \A b \in Addr : DirOf[b] \in Dir  BY Places
<1>4. a \in Addr  BY RequestPopped DEF RequestMsg
<1>5. ASSUME NEW p \in Cache, NEW b \in Addr
      PROVE  \/ ~(p = c /\ DirOf[b] = d) /\ Requests(p, b)' = Requests(p, b)
             \/ /\ p = c /\ Requests(p, b)' = Tail(Requests(p, b))
                /\ Requests(p, b) # <<>> /\ Head(Requests(p, b)) = m
  <2>1. Requests(p, b)' = requestNet'[p][DirOf[b]]  BY DEF Requests
  <2>2. QED  BY <1>1, <1>2, <1>3, <2>1 DEF Requests
<1>6. \A p \in Cache, b \in Addr : Requests(p, b) \in Seq(RequestMsg)
  BY <1>1, <1>3 DEF Requests
<1>7. ASSUME NEW p \in Cache, NEW b \in Addr, p # c \/ b # a PROVE SameRequests(p, b)
  <2>1. CASE Requests(p, b)' = Requests(p, b)
    BY <2>1 DEF SameRequests, Asked, Returned, Overtaken
  <2>2. CASE /\ p = c /\ Requests(p, b)' = Tail(Requests(p, b))
             /\ Requests(p, b) # <<>> /\ Head(Requests(p, b)) = m
    <3>1. \A K : ~Is(m, b, K)  BY <1>7, <2>2 DEF Is
    <3>2. \A K, L : /\ Has(Requests(p, b)', b, K) <=> Has(Requests(p, b), b, K)
                    /\ Before(Requests(p, b)', b, K, L) <=> Before(Requests(p, b), b, K, L)
      BY <1>6, <2>2, <3>1, HasTail
    <3>3. QED  BY <3>2 DEF SameRequests, Asked, Returned, Overtaken
  <2>3. QED  BY <1>5, <2>1, <2>2
<1>8. /\ Requests(c, a)' = Tail(Requests(c, a))
      /\ Requests(c, a) # <<>> /\ Head(Requests(c, a)) = m
  BY <1>4, <1>5
<1>9. \A K, L : /\ Has(Requests(c, a), a, K) <=>
                     Has(Requests(c, a)', a, K) \/ Is(m, a, K)
                /\ Before(Requests(c, a), a, K, L) <=>
                     Before(Requests(c, a)', a, K, L)
                       \/ (Is(m, a, K) /\ Has(Requests(c, a)', a, L))
  <2>1. Requests(c, a) \in Seq(RequestMsg)  BY <1>4, <1>6
  <2>2. ASSUME NEW K, NEW L
        PROVE  /\ Has(Requests(c, a), a, K) <=> Has(Tail(Requests(c, a)), a, K) \/ Is(m, a, K)
               /\ Before(Requests(c, a), a, K, L) <=>
                    Before(Tail(Requests(c, a)), a, K, L)
                      \/ (Is(m, a, K) /\ Has(Tail(Requests(c, a)), a, L))
    BY <1>8, <2>1, HasTail
  <2>3. QED  BY <1>8, <2>2
<1>10. \A K : Is(m, a, K) <=> m.type \in K  BY DEF Is
<1>11. m.type \in PutTypes => m.type \notin GetTypes  BY DEF PutTypes, GetTypes
<1>12. QED  BY <1>7, <1>9, <1>10, <1>11 DEF Asked, Returned, Overtaken

-----------------------------------------------------------------------------
(* What the directory of a line has sent to a cache.                       *)

Forwards(c, a) == forwardNet[DirOf[a]][c]

\* The line is being taken from c; it is being taken by another writer; c is
\* being asked to share it; asked to share it and then invalidated.  Its
\* write-back is acknowledged.
Losing(c, a) == Has(Forwards(c, a), a, {"INV", "GETM"})
Taken(c, a) == Has(Forwards(c, a), a, {"GETM"})
Lent(c, a) == Has(Forwards(c, a), a, {"GETS"})
LentAndLost(c, a) == Before(Forwards(c, a), a, {"GETS"}, {"INV"})
Acknowledged(c, a) == Has(Forwards(c, a), a, {"WB_ACK"})

NoLess(c, a) ==
  /\ Losing(c, a) => Losing(c, a)'
  /\ Taken(c, a) => Taken(c, a)'
  /\ Lent(c, a) => Lent(c, a)'
  /\ LentAndLost(c, a) => LentAndLost(c, a)'
  /\ Acknowledged(c, a) => Acknowledged(c, a)'

\* A message more, the last one.
LEMMA LongerChannel ==
  ASSUME NEW c, NEW a, NEW m \in ForwardMsg, Forwards(c, a) \in Seq(ForwardMsg),
         Forwards(c, a)' = Append(Forwards(c, a), m)
  PROVE  /\ NoLess(c, a)
         /\ m.addr = a /\ m.type = "GETM" => Taken(c, a)' /\ Losing(c, a)'
         /\ m.addr = a /\ m.type = "GETS" => Lent(c, a)'
         /\ m.addr = a /\ m.type = "INV" => Losing(c, a)' /\ (Lent(c, a) => LentAndLost(c, a)')
         /\ m.addr = a /\ m.type = "WB_ACK" => Acknowledged(c, a)'
<1>1. ASSUME NEW K, NEW L
      PROVE  /\ Has(Forwards(c, a)', a, K) <=> Has(Forwards(c, a), a, K) \/ Is(m, a, K)
             /\ Before(Forwards(c, a)', a, K, L) <=>
                  Before(Forwards(c, a), a, K, L) \/ (Has(Forwards(c, a), a, K) /\ Is(m, a, L))
  BY HasAppend
<1>2. \A K : Is(m, a, K) <=> m.addr = a /\ m.type \in K  BY DEF Is
<1>3. QED  BY <1>1, <1>2 DEF NoLess, Losing, Taken, Lent, LentAndLost, Acknowledged

\* A message that is forwarded, to any number of caches.
LEMMA ForwardsAdded ==
  ASSUME TypeOK, NEW d \in Dir, NEW dsts, NEW type \in {"GETS", "GETM", "INV"}, NEW a \in Addr,
         NEW r \in Cache, DirOf[a] = d, forward(d, dsts, type, a, r)
  PROVE  /\ \A c \in Cache, b \in Addr : NoLess(c, b)
         /\ \A c \in Cache : c \in dsts =>
              /\ type = "GETM" => Taken(c, a)' /\ Losing(c, a)'
              /\ type = "GETS" => Lent(c, a)'
              /\ type = "INV" => Losing(c, a)' /\ (Lent(c, a) => LentAndLost(c, a)')
<1> DEFINE m == [type |-> type, addr |-> a, requestor |-> r]
<1>1. forwardNet \in [Dir -> [Cache -> Seq(ForwardMsg)]]  BY DEF TypeOK, NetTypeOK
<1>2. m \in ForwardMsg /\ m.addr = a /\ m.type = type  BY DEF ForwardMsg
<1>3. forwardNet' = Multicast(forwardNet, d, dsts, m)  BY DEF forward
<1> HIDE DEF m
<1>4. \A e \in Dir, c \in Cache :
        forwardNet'[e][c] = IF e = d /\ c \in dsts THEN Append(forwardNet[e][c], m)
                            ELSE forwardNet[e][c]
  BY <1>1, <1>3 DEF Multicast
<1>5. \A b \in Addr : DirOf[b] \in Dir  BY Places
<1>6. ASSUME NEW c \in Cache, NEW b \in Addr
      PROVE  /\ Forwards(c, b) \in Seq(ForwardMsg)
             /\ \/ Forwards(c, b)' = Forwards(c, b) /\ ~(DirOf[b] = d /\ c \in dsts)
                \/ Forwards(c, b)' = Append(Forwards(c, b), m)
  <2>1. Forwards(c, b)' = forwardNet'[DirOf[b]][c]  BY DEF Forwards
  <2>2. QED  BY <1>1, <1>4, <1>5, <2>1 DEF Forwards
<1>7. ASSUME NEW c \in Cache, NEW b \in Addr PROVE NoLess(c, b)
  <2>1. CASE Forwards(c, b)' = Forwards(c, b)
    BY <2>1 DEF NoLess, Losing, Taken, Lent, LentAndLost, Acknowledged
  <2>2. QED  BY <1>2, <1>6, <2>1, LongerChannel
<1>8. ASSUME NEW c \in Cache, c \in dsts
      PROVE  /\ type = "GETM" => Taken(c, a)' /\ Losing(c, a)'
             /\ type = "GETS" => Lent(c, a)'
             /\ type = "INV" => Losing(c, a)' /\ (Lent(c, a) => LentAndLost(c, a)')
  <2>1. Forwards(c, a) \in Seq(ForwardMsg) /\ Forwards(c, a)' = Append(Forwards(c, a), m)
    BY <1>6, <1>8
  <2>2. QED  BY <1>2, <2>1, LongerChannel
<1>9. QED  BY <1>7, <1>8

\* A write-back acknowledgement.
LEMMA AckAdded ==
  ASSUME TypeOK, NEW d \in Dir, NEW p \in Cache, NEW a \in Addr, DirOf[a] = d,
         sendWriteBackAck(d, p, a)
  PROVE  /\ \A c \in Cache, b \in Addr : NoLess(c, b)
         /\ Acknowledged(p, a)'
<1> DEFINE m == [type |-> "WB_ACK", addr |-> a, requestor |-> None]
<1>1. forwardNet \in [Dir -> [Cache -> Seq(ForwardMsg)]]  BY DEF TypeOK, NetTypeOK
<1>2. m \in ForwardMsg /\ m.addr = a /\ m.type = "WB_ACK"  BY DEF ForwardMsg
<1>3. forwardNet' = Send(forwardNet, d, p, m)  BY DEF sendWriteBackAck
<1> HIDE DEF m
<1>4. \A e \in Dir, c \in Cache :
        forwardNet'[e][c] = IF e = d /\ c = p THEN Append(forwardNet[e][c], m)
                            ELSE forwardNet[e][c]
  BY <1>1, <1>3 DEF Send
<1>5. \A b \in Addr : DirOf[b] \in Dir  BY Places
<1>6. ASSUME NEW c \in Cache, NEW b \in Addr
      PROVE  /\ Forwards(c, b) \in Seq(ForwardMsg)
             /\ \/ Forwards(c, b)' = Forwards(c, b) /\ ~(DirOf[b] = d /\ c = p)
                \/ Forwards(c, b)' = Append(Forwards(c, b), m)
  <2>1. Forwards(c, b)' = forwardNet'[DirOf[b]][c]  BY DEF Forwards
  <2>2. QED  BY <1>1, <1>4, <1>5, <2>1 DEF Forwards
<1>7. ASSUME NEW c \in Cache, NEW b \in Addr PROVE NoLess(c, b)
  <2>1. CASE Forwards(c, b)' = Forwards(c, b)
    BY <2>1 DEF NoLess, Losing, Taken, Lent, LentAndLost, Acknowledged
  <2>2. QED  BY <1>2, <1>6, <2>1, LongerChannel
<1>8. Acknowledged(p, a)'
  BY <1>2, <1>6, LongerChannel
<1>9. QED  BY <1>7, <1>8

LEMMA ForwardsSameNoLess ==
  ASSUME UNCHANGED forwardNet
  PROVE  \A c \in Cache, b \in Addr : NoLess(c, b)
BY DEF NoLess, Losing, Taken, Lent, LentAndLost, Acknowledged, Forwards

\* A cache takes a message: the first one for its line.
LEMMA ForwardGone ==
  ASSUME TypeOK, NEW c \in Cache, NEW d \in Dir, AtHead(forwardNet, forwardHead, d, c),
         forwardNet' = Pop(forwardNet, d, c),
         NEW m, m = Head(forwardNet[d][c]), NEW a, a = m.addr, DirOf[a] = d
  PROVE  /\ \A p \in Cache, b \in Addr : p # c \/ b # a => NoLess(p, b)
         /\ m.type # "WB_ACK" /\ Acknowledged(c, a) => Acknowledged(c, a)'
         /\ m.type # "GETM" /\ Taken(c, a) => Taken(c, a)'
         /\ m.type # "GETS" /\ Lent(c, a) => Lent(c, a)'
         /\ m.type # "GETS" /\ LentAndLost(c, a) => LentAndLost(c, a)'
         /\ m.type = "GETS" /\ (Losing(c, a) \/ LentAndLost(c, a)) => Losing(c, a)'
<1>1. forwardNet \in [Dir -> [Cache -> Seq(ForwardMsg)]] /\ forwardNet[d][c] # <<>>
  BY DEF TypeOK, NetTypeOK, AtHead
<1>2. \A e \in Dir, p \in Cache :
        forwardNet'[e][p] = IF p = c /\ e = d THEN Tail(forwardNet[e][p]) ELSE forwardNet[e][p]
  BY <1>1 DEF Pop
<1>3. \A b \in Addr : DirOf[b] \in Dir  BY Places
<1>4. a \in Addr  BY ForwardPopped DEF ForwardMsg
<1>5. ASSUME NEW p \in Cache, NEW b \in Addr
      PROVE  /\ Forwards(p, b) \in Seq(ForwardMsg)
             /\ \/ ~(p = c /\ DirOf[b] = d) /\ Forwards(p, b)' = Forwards(p, b)
                \/ /\ p = c /\ Forwards(p, b)' = Tail(Forwards(p, b))
                   /\ Forwards(p, b) # <<>> /\ Head(Forwards(p, b)) = m
  <2>1. Forwards(p, b)' = forwardNet'[DirOf[b]][p]  BY DEF Forwards
  <2>2. QED  BY <1>1, <1>2, <1>3, <2>1 DEF Forwards
<1>6. ASSUME NEW p \in Cache, NEW b \in Addr, Forwards(p, b)' = Tail(Forwards(p, b)),
             Forwards(p, b) # <<>>, Head(Forwards(p, b)) = m, NEW K, NEW L
      PROVE  /\ Has(Forwards(p, b), b, K) <=> Has(Forwards(p, b)', b, K) \/ Is(m, b, K)
             /\ Before(Forwards(p, b), b, K, L) <=>
                  Before(Forwards(p, b)', b, K, L) \/ (Is(m, b, K) /\ Has(Forwards(p, b)', b, L))
  <2>1. Forwards(p, b) \in Seq(ForwardMsg)  BY <1>5
  <2>2. /\ Has(Forwards(p, b), b, K) <=> Has(Tail(Forwards(p, b)), b, K) \/ Is(m, b, K)
        /\ Before(Forwards(p, b), b, K, L) <=>
             Before(Tail(Forwards(p, b)), b, K, L) \/ (Is(m, b, K) /\ Has(Tail(Forwards(p, b)), b, L))
    BY <1>6, <2>1, HasTail
  <2>3. QED  BY <1>6, <2>2
<1>7. ASSUME NEW p \in Cache, NEW b \in Addr, p # c \/ b # a PROVE NoLess(p, b)
  <2>1. CASE Forwards(p, b)' = Forwards(p, b)
    BY <2>1 DEF NoLess, Losing, Taken, Lent, LentAndLost, Acknowledged
  <2>2. CASE /\ p = c /\ Forwards(p, b)' = Tail(Forwards(p, b))
             /\ Forwards(p, b) # <<>> /\ Head(Forwards(p, b)) = m
    <3>1. \A K : ~Is(m, b, K)  BY <1>7, <2>2 DEF Is
    <3>2. \A K, L : /\ Has(Forwards(p, b)', b, K) <=> Has(Forwards(p, b), b, K)
                    /\ Before(Forwards(p, b)', b, K, L) <=> Before(Forwards(p, b), b, K, L)
      BY <1>6, <2>2, <3>1
    <3>3. QED  BY <3>2 DEF NoLess, Losing, Taken, Lent, LentAndLost, Acknowledged
  <2>3. QED  BY <1>5, <2>1, <2>2
<1>8. /\ Forwards(c, a)' = Tail(Forwards(c, a))
      /\ Forwards(c, a) # <<>> /\ Head(Forwards(c, a)) = m
  BY <1>4, <1>5
<1>9. ASSUME NEW K, NEW L
      PROVE  /\ Has(Forwards(c, a), a, K) <=> Has(Forwards(c, a)', a, K) \/ Is(m, a, K)
             /\ Before(Forwards(c, a), a, K, L) <=>
                  Before(Forwards(c, a)', a, K, L) \/ (Is(m, a, K) /\ Has(Forwards(c, a)', a, L))
  BY <1>4, <1>6, <1>8
<1>10. \A K : Is(m, a, K) <=> m.type \in K  BY DEF Is
<1>11. Has(Forwards(c, a)', a, {"INV"}) => Losing(c, a)'
  BY DEF Losing, Has, Is
<1>12. /\ m.type # "GETM" /\ Taken(c, a) => Taken(c, a)'
       /\ m.type # "GETS" /\ Lent(c, a) => Lent(c, a)'
       /\ m.type # "WB_ACK" /\ Acknowledged(c, a) => Acknowledged(c, a)'
  BY <1>9, <1>10 DEF Taken, Lent, Acknowledged
<1>13. m.type # "GETS" /\ LentAndLost(c, a) => LentAndLost(c, a)'
  BY <1>9, <1>10 DEF LentAndLost
<1>14. ASSUME m.type = "GETS", Losing(c, a) PROVE Losing(c, a)'
  BY <1>9, <1>10, <1>14 DEF Losing
<1>15. ASSUME m.type = "GETS", LentAndLost(c, a) PROVE Losing(c, a)'
  <2>1. \/ Before(Forwards(c, a)', a, {"GETS"}, {"INV"})
        \/ Has(Forwards(c, a)', a, {"INV"})
    BY <1>9, <1>15 DEF LentAndLost
  <2>2. Before(Forwards(c, a)', a, {"GETS"}, {"INV"}) => Has(Forwards(c, a)', a, {"INV"})
    BY DEF Before, Has
  <2>3. QED  BY <1>11, <2>1, <2>2
<1>16. QED  BY <1>7, <1>12, <1>13, <1>14, <1>15

-----------------------------------------------------------------------------
(* The parts that a cache plays for a line, and who knows of them.         *)

\* A write-back precedes the next request of its cache for the line, so no
\* directory takes it after that request: a cache whose write-back has not been
\* taken has given its copy up, and has at most asked for the line again.
PutInv(c, a) ==
  /\ ~Overtaken(c, a)
  /\ Returned(c, a) => \/ cacheState[c][a] \in {"I", "SI_A", "MI_A", "II_A"}
                       \/ Asked(c, a) /\ cacheState[c][a] \in {"IS_D", "IM_AD"}

\* c has a copy to read, or one that the directory has granted is on its way.
Shares(c, a) ==
  \/ cacheState[c][a] = "S"
  \/ cacheState[c][a] = "SM_AD" /\ Asked(c, a)
  \/ cacheState[c][a] = "IS_D" /\ ~Asked(c, a)

\* The directory has made c the owner and has not taken the line back.
Owns(c, a) ==
  \/ cacheState[c][a] \in {"M", "IM_A", "SM_A"}
  \/ cacheState[c][a] \in {"IM_AD", "SM_AD"} /\ ~Asked(c, a)

\* Where the directory has noted a sharer, and an owner: an owner that it has
\* asked to share the line is a sharer from then on, which it may go on to
\* invalidate before the owner has shared.
Noted(c, a) == c \in sharers[a] \cup owner[a] \/ Losing(c, a)

Charged(c, a) ==
  \/ c \in owner[a]
  \/ Taken(c, a)
  \/ Lent(c, a) /\ c \in sharers[a]
  \/ LentAndLost(c, a)

CoverInv(c, a) ==
  /\ Shares(c, a) => Noted(c, a)
  /\ Owns(c, a) => Charged(c, a)

Covered(c, a) == PutInv(c, a) /\ CoverInv(c, a)

SameEntry == UNCHANGED <<owner, sharers>>
SameState(c, a) == cacheState'[c][a] = cacheState[c][a]

\* The miss of a cache is among the messages that MissInv counts.
LEMMA AskedIs ==
  ASSUME NEW c \in Cache, NEW a \in Addr
  PROVE  Asked(c, a) <=> \E m : AtReq(c, a, m)
BY DEF Asked, Has, Is, Requests, AtReq, In, Range

\* A cache that waits for nothing, or whose data is there, has no request.
LEMMA NotAsked ==
  ASSUME MissInv, NEW c \in Cache, NEW a \in Addr,
         Class(c, a) = "none" \/ \E n, m : AtData(c, a, n, m)
  PROVE  ~Asked(c, a)
<1>1. LineInv(c, a)  BY DEF MissInv, Lines
<1>2. CASE Class(c, a) = "none"
  BY <1>2, AskedIs, Idle DEF MissInv
<1>3. ASSUME NEW n, NEW m, AtData(c, a, n, m) PROVE ~Asked(c, a)
  <2>1. At(c, a, "data", n, m)  BY <1>3 DEF At
  <2>2. OnlyPlace(c, a, "data", n, m)  BY <1>1, <2>1, FoundPlace DEF LineInv
  <2>3. \A k : ~AtReq(c, a, k)  BY <2>2, OnlyKind
  <2>4. QED  BY <2>3, AskedIs
<1>4. QED  BY <1>2, <1>3

\* A cache whose write-back has not been taken plays no part.
LEMMA ReturnedNoPart ==
  ASSUME NEW c, NEW a, PutInv(c, a), Returned(c, a)
  PROVE  ~Shares(c, a) /\ ~Owns(c, a)
BY DEF PutInv, Shares, Owns

\* The line is in the same state, its cache has sent no request and the
\* directory knows what it knew.
LEMMA StillCovered ==
  ASSUME NEW c, NEW a, Covered(c, a), SameState(c, a), SameRequests(c, a), NoLess(c, a),
         c \in owner[a] => c \in owner'[a], c \in sharers[a] => c \in sharers'[a]
  PROVE  Covered(c, a)'
<1>1. PutInv(c, a)'
  BY DEF Covered, PutInv, SameState, SameRequests
<1>2. (Shares(c, a)' <=> Shares(c, a)) /\ (Owns(c, a)' <=> Owns(c, a))
  BY DEF Shares, Owns, SameState, SameRequests
<1>3. Noted(c, a) => Noted(c, a)'
  BY DEF Noted, NoLess
<1>4. Charged(c, a) => Charged(c, a)'
  BY DEF Charged, NoLess
<1>5. QED  BY <1>1, <1>2, <1>3, <1>4 DEF Covered, CoverInv

LEMMA RequestsStay ==
  ASSUME requestNet' = requestNet
  PROVE  \A c, a : SameRequests(c, a)
BY DEF SameRequests, Asked, Returned, Overtaken, Requests

\* The messages at the head of a channel.
LEMMA RequestFirst ==
  ASSUME TypeOK, MissInv, NEW d \in Dir, NEW c \in Cache, AtHead(requestNet, requestHead, c, d),
         NEW m, m = Head(requestNet[c][d])
  PROVE  /\ m \in RequestMsg /\ m.addr \in Addr /\ DirOf[m.addr] = d
         /\ m.type \in PutTypes => Returned(c, m.addr)
<1>1. requestNet[c][d] \in Seq(RequestMsg) /\ requestNet[c][d] # <<>>
  BY DEF TypeOK, NetTypeOK, AtHead
<1>2. m \in RequestMsg  BY <1>1, HeadTailProperties
<1>3. 1 \in DOMAIN requestNet[c][d] /\ m = requestNet[c][d][1]
  BY <1>1, HeadTailProperties, LenProperties, EmptySeq
<1>4. In(requestNet, c, d, m)  BY <1>3 DEF In, Range
<1>5. m.addr \in Addr /\ DirOf[m.addr] = d
  BY <1>2, <1>4 DEF RequestMsg, MissInv, ChannelInv, RequestsInv
<1>6. m.type \in PutTypes => Returned(c, m.addr)
  BY <1>3, <1>5 DEF Returned, Has, Is, Requests
<1>7. QED  BY <1>2, <1>5, <1>6

LEMMA ForwardFirst ==
  ASSUME TypeOK, MissInv, NEW d \in Dir, NEW c \in Cache, AtHead(forwardNet, forwardHead, d, c),
         NEW m, m = Head(forwardNet[d][c])
  PROVE  m \in ForwardMsg /\ m.addr \in Addr /\ DirOf[m.addr] = d
<1>1. forwardNet[d][c] \in Seq(ForwardMsg) /\ forwardNet[d][c] # <<>>
  BY DEF TypeOK, NetTypeOK, AtHead
<1>2. m \in ForwardMsg  BY <1>1, HeadTailProperties
<1>3. 1 \in DOMAIN forwardNet[d][c] /\ m = forwardNet[d][c][1]
  BY <1>1, HeadTailProperties, LenProperties, EmptySeq
<1>4. In(forwardNet, d, c, m)  BY <1>3 DEF In, Range
<1>5. QED  BY <1>2, <1>4 DEF ForwardMsg, MissInv, ChannelInv, ForwardsInv

-----------------------------------------------------------------------------
(* The caches' transitions.                                                *)

AllCovered == \A c \in Cache, a \in Addr : Covered(c, a)

\* Only the line's own state changes.
LEMMA OtherStates ==
  ASSUME TypeOK, NEW c \in Cache, NEW a \in Addr, NEW s, setCacheState(c, a, s)
  PROVE  /\ \A x \in Cache, y \in Addr : x # c \/ y # a => SameState(x, y)
         /\ cacheState'[c][a] = s
BY StateSet DEF SameState

\* Every other line is covered as before when one line is.
LEMMA OneCovered ==
  ASSUME AllCovered, NEW c \in Cache, NEW a \in Addr, Covered(c, a)', SameEntry,
         \A x \in Cache, y \in Addr :
           x # c \/ y # a => SameState(x, y) /\ SameRequests(x, y) /\ NoLess(x, y)
  PROVE  AllCovered'
<1>1. ASSUME NEW x \in Cache, NEW y \in Addr, x # c \/ y # a PROVE Covered(x, y)'
  BY <1>1, StillCovered DEF AllCovered, SameEntry
<1>2. QED  BY <1>1 DEF AllCovered

LEMMA QuietCovered ==
  ASSUME AllCovered, UNCHANGED <<requestNet, forwardNet, cacheState, owner, sharers>>
  PROVE  AllCovered'
<1>1. ASSUME NEW x \in Cache, NEW y \in Addr PROVE Covered(x, y)'
  BY StillCovered, RequestsStay, ForwardsSameNoLess DEF AllCovered, SameState
<1>2. QED  BY <1>1 DEF AllCovered

\* A cache that asks for a line has given it up, or keeps the copy it had.
LEMMA CacheMandatoryCovered ==
  ASSUME TypeOK, MissInv, AllCovered, NEW c \in Cache, NEW a \in Addr, CacheMandatory(c, a)
  PROVE  AllCovered'
<1>1. MandatoryStep(c, a) /\ SameEntry  BY DEF CacheMandatory, dirVars, SameEntry
<1>2. CASE LoadHit(c, a) \/ StoreHit(c, a)
  BY <1>1, <1>2, QuietCovered DEF LoadHit, StoreHit, netVars, cacheVars, SameEntry
<1>3. CASE Miss(c, a) \/ Upgrade(c, a)
  <2>1. PICK type \in GetTypes, s \in {"IS_D", "IM_AD", "SM_AD"} :
          /\ sendRequest(c, a, type, None) /\ setCacheState(c, a, s)
          /\ \/ cacheState[c][a] = "I" /\ s \in {"IS_D", "IM_AD"}
             \/ cacheState[c][a] = "S" /\ s = "SM_AD"
    BY <1>3 DEF Miss, Upgrade, GetTypes
  <2>2. forwardNet' = forwardNet  BY <1>3 DEF Miss, Upgrade
  <2>3. None \in DataBlk /\ type \in {"GETS", "GETM", "PUTS", "PUTM"} /\ type \notin PutTypes
    BY DEF DataBlk, GetTypes, PutTypes
  <2>4. /\ \A p \in Cache, b \in Addr : p # c \/ b # a => SameRequests(p, b)
        /\ Asked(c, a)' /\ (Returned(c, a)' <=> Returned(c, a))
        /\ Overtaken(c, a)' <=> Overtaken(c, a)
    BY <2>1, <2>3, RequestAdded
  <2>5. /\ \A x \in Cache, y \in Addr : x # c \/ y # a => SameState(x, y)
        /\ cacheState'[c][a] = s
    BY <2>1, OtherStates
  <2>6. Covered(c, a)  BY DEF AllCovered
  <2>7. PutInv(c, a)'
    BY <2>1, <2>4, <2>5, <2>6 DEF Covered, PutInv
  <2>8. ~Owns(c, a)' /\ (Shares(c, a)' => Shares(c, a))
    BY <2>1, <2>4, <2>5 DEF Owns, Shares
  <2>9. NoLess(c, a)  BY <2>2, ForwardsSameNoLess
  <2>10. Noted(c, a) => Noted(c, a)'
    BY <1>1, <2>9 DEF Noted, NoLess, SameEntry
  <2>11. Covered(c, a)'
    BY <2>6, <2>7, <2>8, <2>10 DEF Covered, CoverInv
  <2>12. QED  BY <1>1, <2>2, <2>4, <2>5, <2>11, OneCovered, ForwardsSameNoLess
<1>4. QED  BY <1>1, <1>2, <1>3 DEF MandatoryStep

\* A write-back follows no request, and its cache plays no part any more.
LEMMA CacheReplacementCovered ==
  ASSUME TypeOK, MissInv, AllCovered, NEW c \in Cache, CacheReplacement(c)
  PROVE  AllCovered'
<1>1. PICK a \in Addr : Replacement(c, a)  BY DEF CacheReplacement
<1>2. forwardNet' = forwardNet /\ SameEntry
  BY <1>1 DEF CacheReplacement, Replacement, dirVars, SameEntry
<1>3. PICK type \in {"PUTS", "PUTM"}, s \in {"SI_A", "MI_A"} :
        /\ cacheState[c][a] \in {"S", "M"}
        /\ sendRequest(c, a, type, entryBlk[c][a]) /\ setCacheState(c, a, s)
  BY <1>1 DEF Replacement
<1>4. entryBlk[c][a] \in DataBlk /\ type \in {"GETS", "GETM", "PUTS", "PUTM"}
      /\ type \notin GetTypes
  BY DEF TypeOK, CacheTypeOK, GetTypes
<1>5. ~Asked(c, a)
  BY <1>3, NotAsked DEF Class, ClassOf
<1>6. /\ \A p \in Cache, b \in Addr : p # c \/ b # a => SameRequests(p, b)
      /\ Overtaken(c, a)' <=> Overtaken(c, a)
  BY <1>3, <1>4, <1>5, RequestAdded
<1>7. /\ \A x \in Cache, y \in Addr : x # c \/ y # a => SameState(x, y)
      /\ cacheState'[c][a] = s
  BY <1>3, OtherStates
<1>8. Covered(c, a)'
  BY <1>6, <1>7 DEF AllCovered, Covered, PutInv, CoverInv, Shares, Owns
<1>9. QED  BY <1>2, <1>6, <1>7, <1>8, OneCovered, ForwardsSameNoLess

\* A cache that answers a forward keeps what the directory knows of it: an owner
\* that shares the line is noted as a sharer, or is being invalidated.
LEMMA CacheForwardCovered ==
  ASSUME TypeOK, MissInv, AllCovered, NEW c \in Cache, NEW d \in Dir, CacheForward(c, d)
  PROVE  AllCovered'
<1>1. ForwardStep(c, d) /\ SameEntry  BY DEF CacheForward, dirVars, SameEntry
<1>2. CASE ForwardStall(c, d)
  BY <1>1, <1>2, QuietCovered DEF ForwardStall, cacheVars, SameEntry
<1>3. CASE Inv(c, d) \/ WB_Ack(c, d) \/ Fwd_GetS(c, d) \/ Fwd_GetM(c, d)
  <2>m. PICK m : m = Head(forwardNet[d][c])  OBVIOUS
  <2>a. PICK a : a = m.addr  OBVIOUS
  <2>1. /\ AtHead(forwardNet, forwardHead, d, c) /\ forwardNet' = Pop(forwardNet, d, c)
        /\ requestNet' = requestNet
    BY <1>3 DEF Inv, WB_Ack, Fwd_GetS, Fwd_GetM, Forwarded, popForward
  <2>2. a \in Addr /\ DirOf[a] = d
    BY <2>m, <2>a, <2>1, ForwardFirst
  <2>3. /\ \A p \in Cache, b \in Addr : p # c \/ b # a => NoLess(p, b)
        /\ m.type # "GETM" /\ Taken(c, a) => Taken(c, a)'
        /\ m.type # "GETS" /\ Lent(c, a) => Lent(c, a)'
        /\ m.type # "GETS" /\ LentAndLost(c, a) => LentAndLost(c, a)'
        /\ m.type = "GETS" /\ (Losing(c, a) \/ LentAndLost(c, a)) => Losing(c, a)'
    BY <2>m, <2>a, <2>1, <2>2, ForwardGone
  <2>4. PICK s : setCacheState(c, a, s) /\
          \/ m.type = "INV" /\ cacheState[c][a] \in {"I", "S"} /\ s = "I"
          \/ m.type = "INV" /\ cacheState[c][a] = "SM_AD" /\ s = "IM_AD"
          \/ m.type = "INV" /\ cacheState[c][a] = "SI_A" /\ s = "II_A"
          \/ s = "I"
          \/ m.type = "GETS" /\ cacheState[c][a] = "M" /\ s = "S"
          \/ cacheState[c][a] = "MI_A" /\ s \in {"SI_A", "II_A"}
    <3>1. CASE Inv(c, d)
      <4>1. /\ m.type = "INV" /\ cacheState[c][a] \in {"I", "S", "SM_AD", "SI_A"}
            /\ setCacheState(c, a, AfterInv[cacheState[c][a]])
        BY <2>m, <2>a, <3>1 DEF Inv, Forwarded, AfterInv
      <4>2. /\ cacheState[c][a] \in {"I", "S"} => AfterInv[cacheState[c][a]] = "I"
            /\ cacheState[c][a] = "SM_AD" => AfterInv[cacheState[c][a]] = "IM_AD"
            /\ cacheState[c][a] = "SI_A" => AfterInv[cacheState[c][a]] = "II_A"
        BY DEF AfterInv
      <4>3. QED  BY <4>1, <4>2
    <3>2. CASE WB_Ack(c, d)
      BY <2>m, <2>a, <3>2 DEF WB_Ack
    <3>3. CASE Fwd_GetS(c, d)
      <4>1. /\ m.type = "GETS" /\ cacheState[c][a] \in {"M", "MI_A"}
            /\ setCacheState(c, a, IF cacheState[c][a] = "M" THEN "S" ELSE "SI_A")
        BY <2>m, <2>a, <3>3 DEF Fwd_GetS, Forwarded
      <4>2. QED  BY <4>1
    <3>4. CASE Fwd_GetM(c, d)
      <4>1. /\ cacheState[c][a] \in {"M", "MI_A"}
            /\ setCacheState(c, a, IF cacheState[c][a] = "M" THEN "I" ELSE "II_A")
        BY <2>m, <2>a, <3>4 DEF Fwd_GetM, Forwarded
      <4>2. QED  BY <4>1
    <3>5. QED  BY <1>3, <3>1, <3>2, <3>3, <3>4
  <2>5. /\ \A x \in Cache, y \in Addr : x # c \/ y # a => SameState(x, y)
        /\ cacheState'[c][a] = s
    BY <2>2, <2>4, OtherStates
  <2>6. Covered(c, a)  BY <2>2 DEF AllCovered
  <2>7. /\ \A x \in Cache, y \in Addr : SameRequests(x, y)
        /\ SameRequests(c, a)
    BY <2>1, RequestsStay
  <2>8. PutInv(c, a)'
    BY <2>4, <2>5, <2>6, <2>7 DEF Covered, PutInv, SameRequests
  <2>9. Shares(c, a)' => m.type = "GETS" /\ Owns(c, a)
    BY <2>4, <2>5, <2>7 DEF Shares, Owns, SameRequests
  <2>10. Owns(c, a)' => m.type = "INV" /\ Owns(c, a)
    BY <2>4, <2>5, <2>7 DEF Owns, SameRequests
  <2>11. m.type = "GETS" /\ Charged(c, a) => Noted(c, a)'
    <3>1. Taken(c, a) => Losing(c, a)  BY DEF Taken, Losing, Has, Is
    <3>2. QED  BY <1>1, <2>3, <3>1 DEF Charged, Noted, SameEntry
  <2>12. m.type = "INV" /\ Charged(c, a) => Charged(c, a)'
    BY <1>1, <2>3 DEF Charged, SameEntry
  <2>13. Covered(c, a)'
    BY <2>6, <2>8, <2>9, <2>10, <2>11, <2>12 DEF Covered, CoverInv
  <2>14. QED  BY <1>1, <2>2, <2>3, <2>5, <2>7, <2>13, OneCovered
<1>4. QED  BY <1>1, <1>2, <1>3 DEF ForwardStep

\* A cache gets no more than the directory granted when it took the request.
LEMMA CacheResponseCovered ==
  ASSUME TypeOK, MissInv, AllCovered, NEW c \in Cache, NEW n \in Node, CacheResponse(c, n)
  PROVE  AllCovered'
<1>1. ResponseStep(c, n) /\ SameEntry  BY DEF CacheResponse, dirVars, SameEntry
<1>2. UNCHANGED <<requestNet, forwardNet>>
  BY <1>1 DEF ResponseStep, LoadData, StoreData, Inv_Ack, StoreDone
<1>3. CASE Inv_Ack(c, n)
  BY <1>1, <1>2, <1>3, QuietCovered DEF Inv_Ack, SameEntry
<1>4. CASE LoadData(c, n) \/ StoreData(c, n) \/ StoreDone(c, n)
  <2>m. PICK m : m = Head(responseNet[n][c])  OBVIOUS
  <2>a. PICK a : a = m.addr  OBVIOUS
  <2>1. /\ responseNet[n][c] # <<>> /\ responseNet' = Pop(responseNet, n, c)
        /\ memQueue' = memQueue
    BY <1>4 DEF CacheResponse, dirVars, LoadData, StoreData, StoreDone, Responded, popResponse
  <2>2. /\ m \in ResponseMsg /\ a \in Addr /\ pendingAcks[c][a] \in Int
        /\ m.type \in DataTypes => AtData(c, a, n, m)
    BY <1>2, <2>m, <2>a, <2>1, TakeDelta
  <2>3. PICK s : setCacheState(c, a, s) /\
          \/ m.type \in DataTypes /\ cacheState[c][a] = "IS_D" /\ s = "S"
          \/ m.type \in DataTypes /\ cacheState[c][a] \in {"IM_AD", "SM_AD"} /\ s \in {"IM_A", "SM_A", "M"}
          \/ cacheState[c][a] \in {"IM_A", "SM_A"} /\ s = "M"
    <3>1. CASE LoadData(c, n)
      <4>1. m.type \in DataTypes
        BY <2>m, <2>a, <2>2, <3>1, EventCases DEF LoadData, Responded, DataTypes
      <4>2. QED  BY <2>m, <2>a, <3>1, <4>1 DEF LoadData, Responded
    <3>2. CASE StoreData(c, n)
      <4>1. m.type \in DataTypes /\ cacheState[c][a] \in {"IM_AD", "SM_AD"}
        BY <2>m, <2>a, <2>2, <3>2, EventCases DEF StoreData, Responded, DataTypes
      <4>2. setCacheState(c, a, IF cacheState[c][a] = "IM_AD" THEN "IM_A" ELSE "SM_A")
        BY <2>m, <2>a, <3>2 DEF StoreData
      <4>3. QED  BY <4>1, <4>2
    <3>3. CASE StoreDone(c, n)
      <4>1. /\ setCacheState(c, a, "M")
            /\ \/ /\ cacheState[c][a] \in {"IM_AD", "SM_AD"}
                  /\ ResponseEvent(c, m) \in {"Data_from_Dir_No_Acks", "Data_from_Owner",
                                              "Data_from_Dir_Ack_Cnt_Last"}
               \/ cacheState[c][a] \in {"IM_A", "SM_A"}
        BY <2>m, <2>a, <3>3 DEF StoreDone, Responded
      <4>2. cacheState[c][a] \in {"IM_AD", "SM_AD"} => m.type \in DataTypes
        BY <2>a, <2>2, <4>1, EventCases DEF DataTypes
      <4>3. QED  BY <4>1, <4>2
    <3>4. QED  BY <1>4, <3>1, <3>2, <3>3
  <2>4. m.type \in DataTypes => ~Asked(c, a)
    BY <2>2, NotAsked
  <2>5. /\ \A x \in Cache, y \in Addr : x # c \/ y # a => SameState(x, y)
        /\ cacheState'[c][a] = s
    BY <2>2, <2>3, OtherStates
  <2>6. Covered(c, a)  BY <2>2 DEF AllCovered
  <2>7. /\ \A x \in Cache, y \in Addr : SameRequests(x, y)
        /\ SameRequests(c, a)
    BY <1>2, RequestsStay
  <2>8. PutInv(c, a)'
    BY <2>3, <2>4, <2>5, <2>6, <2>7 DEF Covered, PutInv, SameRequests
  <2>9. (Shares(c, a)' => Shares(c, a)) /\ (Owns(c, a)' => Owns(c, a))
    BY <2>3, <2>4, <2>5, <2>7 DEF Shares, Owns, SameRequests
  <2>10. NoLess(c, a)  BY <1>2, <2>2, ForwardsSameNoLess
  <2>11. (Noted(c, a) => Noted(c, a)') /\ (Charged(c, a) => Charged(c, a)')
    BY <1>1, <2>10 DEF Noted, Charged, NoLess, SameEntry
  <2>12. Covered(c, a)'
    BY <2>6, <2>8, <2>9, <2>11 DEF Covered, CoverInv
  <2>13. QED  BY <1>1, <1>2, <2>2, <2>5, <2>7, <2>12, OneCovered, ForwardsSameNoLess
<1>5. QED  BY <1>1, <1>3, <1>4 DEF ResponseStep

-----------------------------------------------------------------------------
(* The directories' transitions.                                           *)

\* What the directory knows of every cache.
Remembered(p, b) ==
  /\ Noted(p, b) => Noted(p, b)'
  /\ Charged(p, b) => Charged(p, b)'

\* The same parts, known as before.
LEMMA PartsCovered ==
  ASSUME NEW c, NEW a, Covered(c, a), SameState(c, a), SameRequests(c, a), Remembered(c, a)
  PROVE  Covered(c, a)'
<1>1. PutInv(c, a)'
  BY DEF Covered, PutInv, SameState, SameRequests
<1>2. (Shares(c, a)' <=> Shares(c, a)) /\ (Owns(c, a)' <=> Owns(c, a))
  BY DEF Shares, Owns, SameState, SameRequests
<1>3. QED  BY <1>1, <1>2 DEF Covered, CoverInv, Remembered

LEMMA AllRemembered ==
  ASSUME NEW p \in Cache, NEW b \in Addr, NoLess(p, b),
         p \in owner[b] => p \in owner'[b], p \in sharers[b] => p \in sharers'[b]
  PROVE  Remembered(p, b)
BY DEF Remembered, Noted, Charged, NoLess

\* The directory takes a GETS or a GETM: it notes the requestor and forgets
\* nobody who is not sent a forward or an invalidation.
GetStep(d, c) ==
  \/ GETS_I(d, c) \/ GETM_I(d, c) \/ GETS_S(d, c) \/ GETM_S(d, c)
  \/ GETS_M(d, c) \/ GETM_M(d, c)

LEMMA GetNoted ==
  ASSUME TypeOK, MissInv, DirectoryEntries, Running, NEW d \in Dir, NEW c \in Cache, GetStep(d, c),
         NEW m, m = Head(requestNet[c][d]), NEW a, a = m.addr
  PROVE  /\ a \in Addr /\ DirOf[a] = d /\ m.type \in GetTypes
         /\ m.type = "GETS" => cacheState[c][a] = "IS_D" /\ c \in sharers'[a]
         /\ m.type = "GETM" => cacheState[c][a] \in {"IM_AD", "SM_AD"} /\ c \in owner'[a]
         /\ \A p \in Cache, b \in Addr : p # c \/ b # a => Remembered(p, b)
<1>1. /\ Requested(d, c, GetTypes, {"I", "S", "M"}) /\ popRequest(d, c)
      /\ GETS_I(d, c) \/ GETS_S(d, c) \/ GETS_M(d, c) => Requested(d, c, {"GETS"}, {"I", "S", "M"})
      /\ GETM_I(d, c) \/ GETM_S(d, c) \/ GETM_M(d, c) => Requested(d, c, {"GETM"}, {"I", "S", "M"})
      /\ GETS_I(d, c) \/ GETM_I(d, c) => Requested(d, c, GetTypes, {"I"})
      /\ GETS_S(d, c) \/ GETM_S(d, c) => Requested(d, c, GetTypes, {"S"})
      /\ GETS_M(d, c) \/ GETM_M(d, c) => Requested(d, c, GetTypes, {"M"})
  BY DEF GetStep, GETS_I, GETM_I, GETS_S, GETM_S, GETS_M, GETM_M, Requested, GetTypes
<1>2. /\ a \in Addr /\ DirOf[a] = d /\ m.type \in GetTypes
      /\ Class(c, a) \in {"load", "store"} /\ (m.type = "GETS" <=> Class(c, a) = "load")
  BY <1>1, GetDelta
<1>3. /\ GETS_I(d, c) \/ GETS_S(d, c) \/ GETS_M(d, c) => m.type = "GETS"
      /\ GETM_I(d, c) \/ GETM_S(d, c) \/ GETM_M(d, c) => m.type = "GETM"
  <2>1. {"GETS"} \in SUBSET GetTypes /\ {"GETM"} \in SUBSET GetTypes  BY DEF GetTypes
  <2>2. Requested(d, c, {"GETS"}, {"I", "S", "M"}) => m.type \in {"GETS"}
    BY <1>1, <2>1, GetDelta
  <2>3. Requested(d, c, {"GETM"}, {"I", "S", "M"}) => m.type \in {"GETM"}
    BY <1>1, <2>1, GetDelta
  <2>4. QED  BY <1>1, <2>2, <2>3
<1>4. /\ m.type = "GETS" => cacheState[c][a] = "IS_D"
      /\ m.type = "GETM" => cacheState[c][a] \in {"IM_AD", "SM_AD"}
  BY <1>2, Classes DEF Class
<1>5. /\ dirState[a] \in {"I", "S"} => owner[a] = {}
      /\ dirState[a] = "M" => sharers[a] = {} /\ \E o \in Cache : owner[a] = {o}
  BY <1>2 DEF DirectoryEntries, Running
<1>6. /\ GETS_I(d, c) \/ GETM_I(d, c) => dirState[a] = "I"
      /\ GETS_S(d, c) \/ GETM_S(d, c) => dirState[a] = "S"
      /\ GETS_M(d, c) \/ GETM_M(d, c) => dirState[a] = "M"
  BY <1>1 DEF Requested
<1> DEFINE Goal == /\ m.type = "GETS" => c \in sharers'[a]
                   /\ m.type = "GETM" => c \in owner'[a]
                   /\ \A p \in Cache, b \in Addr : p # c \/ b # a => Remembered(p, b)
<1>7. CASE GETS_I(d, c) \/ GETS_S(d, c) \/ GETM_I(d, c)
  <2>1. PICK s, own, shr :
          /\ setState(a, s, own, shr)
          /\ \/ m.type = "GETS" /\ own = owner[a] /\ shr = sharers[a] \cup {c}
             \/ m.type = "GETM" /\ owner[a] = {} /\ own = {c} /\ shr = sharers[a]
    BY <1>3, <1>5, <1>6, <1>7 DEF GETS_I, GETM_I, GETS_S, addRequestorToSharers
  <2>2. forwardNet' = forwardNet  BY <1>7 DEF GETS_I, GETM_I, GETS_S
  <2>3. /\ owner'[a] = own /\ sharers'[a] = shr
        /\ \A b \in Addr : b # a => owner'[b] = owner[b] /\ sharers'[b] = sharers[b]
    BY <1>2, <2>1, DirStateSet
  <2>4. \A p \in Cache, b \in Addr : Remembered(p, b)
    BY <2>1, <2>2, <2>3, ForwardsSameNoLess, AllRemembered
  <2>5. "GETS" # "GETM"  OBVIOUS
  <2>6. Goal  BY <2>1, <2>3, <2>4, <2>5
  <2>7. QED  BY <1>2, <1>4, <2>6
<1>8. CASE GETM_S(d, c)
  <2>1. setState(a, "M", {c}, {})  BY <1>8 DEF GETM_S, clearSharers
  <2>2. forward(d, sharers[a] \ {c}, "INV", a, c)  BY <1>8 DEF GETM_S, invalidateSharers
  <2>3. /\ owner'[a] = {c} /\ sharers'[a] = {}
        /\ \A b \in Addr : b # a => owner'[b] = owner[b] /\ sharers'[b] = sharers[b]
    BY <1>2, <2>1, DirStateSet
  <2>4. /\ \A p \in Cache, b \in Addr : NoLess(p, b)
        /\ \A p \in Cache : p \in sharers[a] \ {c} =>
             Losing(p, a)' /\ (Lent(p, a) => LentAndLost(p, a)')
    BY <1>2, <2>2, ForwardsAdded
  <2>5. ASSUME NEW p \in Cache, p # c PROVE Remembered(p, a)
    <3>1. owner[a] = {} /\ NoLess(p, a)  BY <1>2, <1>5, <1>6, <1>8, <2>4
    <3>2. p \in sharers[a] => Losing(p, a)' /\ (Lent(p, a) => LentAndLost(p, a)')
      BY <2>4, <2>5
    <3>3. QED  BY <3>1, <3>2 DEF Remembered, Noted, Charged, NoLess
  <2>6. ASSUME NEW p \in Cache, NEW b \in Addr, b # a PROVE Remembered(p, b)
    BY <2>3, <2>4, <2>6, AllRemembered
  <2>7. Goal  BY <1>3, <1>8, <2>3, <2>5, <2>6
  <2>8. QED  BY <1>2, <1>4, <2>7
<1>9. CASE GETS_M(d, c)
  <2>1. setState(a, "MS_D", {}, (sharers[a] \cup {c}) \cup (sharers[a] \cup owner[a]))
    BY <1>9 DEF GETS_M, clearOwner, addRequestorToSharers, addOwnertoSharers
  <2>2. forward(d, owner[a], "GETS", a, c)  BY <1>9 DEF GETS_M
  <2>3. /\ owner'[a] = {} /\ sharers'[a] = (sharers[a] \cup {c}) \cup (sharers[a] \cup owner[a])
        /\ \A b \in Addr : b # a => owner'[b] = owner[b] /\ sharers'[b] = sharers[b]
    BY <1>2, <2>1, DirStateSet
  <2>4. /\ \A p \in Cache, b \in Addr : NoLess(p, b)
        /\ \A p \in Cache : p \in owner[a] => Lent(p, a)'
    BY <1>2, <2>2, ForwardsAdded
  <2>5. ASSUME NEW p \in Cache PROVE Remembered(p, a)
    <3>1. NoLess(p, a) /\ (p \in owner[a] => Lent(p, a)')  BY <1>2, <2>4
    <3>2. p \in sharers[a] \cup owner[a] => p \in sharers'[a]  BY <2>3
    <3>3. QED  BY <3>1, <3>2 DEF Remembered, Noted, Charged, NoLess
  <2>6. ASSUME NEW p \in Cache, NEW b \in Addr, b # a PROVE Remembered(p, b)
    BY <2>3, <2>4, <2>6, AllRemembered
  <2>7. Goal  BY <1>3, <1>9, <2>3, <2>5, <2>6
  <2>8. QED  BY <1>2, <1>4, <2>7
<1>10. CASE GETM_M(d, c)
  <2>1. setState(a, "M", {c}, sharers[a])  BY <1>10 DEF GETM_M
  <2>2. forward(d, owner[a], "GETM", a, c)  BY <1>10 DEF GETM_M
  <2>3. /\ owner'[a] = {c} /\ sharers'[a] = sharers[a]
        /\ \A b \in Addr : b # a => owner'[b] = owner[b] /\ sharers'[b] = sharers[b]
    BY <1>2, <2>1, DirStateSet
  <2>4. /\ \A p \in Cache, b \in Addr : NoLess(p, b)
        /\ \A p \in Cache : p \in owner[a] => Taken(p, a)' /\ Losing(p, a)'
    BY <1>2, <2>2, ForwardsAdded
  <2>5. ASSUME NEW p \in Cache PROVE Remembered(p, a)
    <3>1. NoLess(p, a) /\ (p \in owner[a] => Taken(p, a)' /\ Losing(p, a)')  BY <1>2, <2>4
    <3>2. QED  BY <2>3, <3>1 DEF Remembered, Noted, Charged, NoLess
  <2>6. ASSUME NEW p \in Cache, NEW b \in Addr, b # a PROVE Remembered(p, b)
    BY <2>3, <2>4, <2>6, AllRemembered
  <2>7. Goal  BY <1>3, <1>10, <2>3, <2>5, <2>6
  <2>8. QED  BY <1>2, <1>4, <2>7
<1>11. QED  BY <1>7, <1>8, <1>9, <1>10 DEF GetStep

LEMMA GetCovered ==
  ASSUME TypeOK, MissInv, DirectoryEntries, Running, AllCovered, NEW d \in Dir, NEW c \in Cache,
         GetStep(d, c), cacheState' = cacheState
  PROVE  AllCovered'
<1>m. PICK m : m = Head(requestNet[c][d])  OBVIOUS
<1>a. PICK a : a = m.addr  OBVIOUS
<1>1. /\ a \in Addr /\ DirOf[a] = d /\ m.type \in GetTypes
      /\ m.type = "GETS" => cacheState[c][a] = "IS_D" /\ c \in sharers'[a]
      /\ m.type = "GETM" => cacheState[c][a] \in {"IM_AD", "SM_AD"} /\ c \in owner'[a]
      /\ \A p \in Cache, b \in Addr : p # c \/ b # a => Remembered(p, b)
  BY <1>m, <1>a, GetNoted
<1>2. AtHead(requestNet, requestHead, c, d) /\ requestNet' = Pop(requestNet, c, d)
  BY DEF GetStep, GETS_I, GETM_I, GETS_S, GETM_S, GETS_M, GETM_M, Requested, popRequest
<1>3. /\ \A p \in Cache, b \in Addr : p # c \/ b # a => SameRequests(p, b)
      /\ Overtaken(c, a)' => Overtaken(c, a)
      /\ Returned(c, a)' => Overtaken(c, a)
  BY <1>m, <1>a, <1>1, <1>2, RequestGone
<1>4. Covered(c, a)  BY <1>1 DEF AllCovered
<1>5. PutInv(c, a)'  BY <1>3, <1>4 DEF Covered, PutInv
<1>6. CASE m.type = "GETS"
  <2>1. cacheState'[c][a] = "IS_D" /\ c \in sharers'[a]  BY <1>1, <1>6
  <2>2. ~Owns(c, a)' /\ Noted(c, a)'  BY <2>1 DEF Owns, Noted
  <2>3. QED  BY <1>3, <1>1, <1>5, <2>2, PartsCovered DEF AllCovered, Covered, CoverInv, SameState
<1>7. CASE m.type = "GETM"
  <2>1. Noted(c, a)' /\ Charged(c, a)'  BY <1>1, <1>7 DEF Noted, Charged
  <2>2. QED  BY <1>3, <1>1, <1>5, <2>1, PartsCovered DEF AllCovered, Covered, CoverInv, SameState
<1>8. QED  BY <1>1, <1>6, <1>7 DEF GetTypes

\* The directory takes a write-back, or serves it again: only its cache, which
\* has no copy any more, is forgotten.
LEMMA PutCovered ==
  ASSUME TypeOK, MissInv, DirectoryEntries, Running, AllCovered, NEW d \in Dir, NEW c \in Cache,
         PutStep(d, c), cacheState' = cacheState
  PROVE  AllCovered'
<1>m. PICK m : m = Head(requestNet[c][d])  OBVIOUS
<1>a. PICK a : a = m.addr  OBVIOUS
<1>1. /\ AtHead(requestNet, requestHead, c, d)
      /\ RequestEvent(c, m) \in {"PUTS_Last", "PUTS_NotLast", "PUTM_Owner", "PUTM_NotOwner"}
      /\ requestNet' = Pop(requestNet, c, d) \/ requestNet' = requestNet
      /\ sendWriteBackAck(d, c, a) \/ forwardNet' = forwardNet
      /\ \E s, own, shr :
           /\ setState(a, s, own, shr) /\ shr \in {sharers[a], sharers[a] \ {c}}
           /\ \/ own = owner[a]
              \/ own = {} /\ c \in owner[a] /\ dirState[a] = "M"
  <2> USE <1>m, <1>a DEF Requested, popRequest
  <2>1. CASE PutDropsSharer(d, c) \/ PUTS_Last_S(d, c)
    BY <2>1 DEF PutDropsSharer, PUTS_Last_S, removeRequestSharer
  <2>2. CASE PUTS_Stale(d, c) \/ PUTS_Last_MS(d, c)
    BY <2>2 DEF PUTS_Stale, PUTS_Last_MS, removeRequestSharer
  <2>3. CASE PUTM_Owner(d, c)
    <3>1. /\ AtHead(requestNet, requestHead, c, d) /\ RequestEvent(c, m) = "PUTM_Owner"
          /\ requestNet' = Pop(requestNet, c, d) /\ forwardNet' = forwardNet
          /\ setState(a, "MI_M", {}, sharers[a]) /\ dirState[a] = "M"
      BY <2>3 DEF PUTM_Owner, clearOwner
    <3>2. c \in owner[a]
      <4>1. m \in RequestMsg  BY <3>1, RequestFirst
      <4>2. m.type = "PUTM"  BY <3>1, <4>1, RequestTypes
      <4>3. QED  BY <3>1, <4>2 DEF RequestEvent
    <3>3. QED  BY <3>1, <3>2
  <2>4. CASE PUTM_NotOwner(d, c)
    BY <2>4 DEF PUTM_NotOwner
  <2>5. CASE PUTM_MS_D(d, c) \/ PUTM_MS_M(d, c)
    BY <2>5 DEF PUTM_MS_D, PUTM_MS_M
  <2>6. QED  BY <2>1, <2>2, <2>3, <2>4, <2>5 DEF PutStep
<1>2. m \in RequestMsg /\ a \in Addr /\ DirOf[a] = d /\ m.type \in PutTypes /\ Returned(c, a)
  <2>1. /\ m \in RequestMsg /\ a \in Addr /\ DirOf[a] = d
        /\ m.type \in PutTypes => Returned(c, a)
    BY <1>m, <1>a, <1>1, RequestFirst
  <2>2. m.type \in PutTypes  BY <1>1, <2>1, RequestTypes DEF PutTypes
  <2>3. QED  BY <2>1, <2>2
<1>3. /\ \A p \in Cache, b \in Addr : p # c \/ b # a => SameRequests(p, b)
      /\ Overtaken(c, a)' => Overtaken(c, a)
      /\ Returned(c, a)' => Returned(c, a)
      /\ Asked(c, a)' <=> Asked(c, a)
  <2>1. CASE requestNet' = requestNet
    BY <2>1, RequestsStay DEF SameRequests
  <2>2. CASE requestNet' = Pop(requestNet, c, d)
    BY <1>m, <1>a, <1>1, <1>2, <2>2, RequestGone
  <2>3. QED  BY <1>1, <2>1, <2>2
<1>4. \A p \in Cache, b \in Addr : NoLess(p, b)
  BY <1>1, <1>2, AckAdded, ForwardsSameNoLess
<1>5. \A p \in Cache, b \in Addr : p # c \/ b # a =>
        /\ p \in owner[b] => p \in owner'[b]
        /\ p \in sharers[b] => p \in sharers'[b]
  <2>1. PICK s, own, shr :
          /\ setState(a, s, own, shr) /\ shr \in {sharers[a], sharers[a] \ {c}}
          /\ \/ own = owner[a]
             \/ own = {} /\ c \in owner[a] /\ dirState[a] = "M"
    BY <1>1
  <2>2. dirState[a] = "M" => \E o \in Cache : owner[a] = {o}
    BY <1>2 DEF DirectoryEntries, Running
  <2>3. /\ owner'[a] = own /\ sharers'[a] = shr
        /\ \A b \in Addr : b # a => owner'[b] = owner[b] /\ sharers'[b] = sharers[b]
    BY <1>2, <2>1, DirStateSet
  <2>4. ASSUME NEW p, p # c PROVE (p \in owner[a] => p \in own) /\ (p \in sharers[a] => p \in shr)
    BY <2>1, <2>2, <2>4
  <2>5. QED  BY <2>3, <2>4
<1>6. Covered(c, a) /\ ~Shares(c, a) /\ ~Owns(c, a)
  BY <1>2, ReturnedNoPart DEF AllCovered, Covered
<1>7. PutInv(c, a)'
  BY <1>3, <1>6 DEF Covered, PutInv
<1>8. ~Shares(c, a)' /\ ~Owns(c, a)'
  BY <1>3, <1>6 DEF Shares, Owns
<1>9. Covered(c, a)'
  BY <1>7, <1>8 DEF Covered, CoverInv
<1>10. ASSUME NEW p \in Cache, NEW b \in Addr, p # c \/ b # a PROVE Covered(p, b)'
  BY <1>3, <1>4, <1>5, <1>10, StillCovered DEF AllCovered, SameState
<1>11. QED  BY <1>9, <1>10 DEF AllCovered

LEMMA DirRequestCovered ==
  ASSUME TypeOK, MissInv, DirectoryEntries, AllCovered, NEW d \in Dir, NEW c \in Cache,
         DirRequest(d, c)
  PROVE  AllCovered'
<1>1. Running /\ RequestStep(d, c) /\ cacheState' = cacheState  BY DEF DirRequest, cacheVars
<1>2. CASE GetStep(d, c)  BY <1>1, <1>2, GetCovered
<1>3. CASE PutStep(d, c)  BY <1>1, <1>3, PutCovered
<1>4. CASE RequestStall(d, c)
  BY <1>1, <1>4, QuietCovered DEF RequestStall, dirVars
<1>5. QED  BY <1>1, <1>2, <1>3, <1>4 DEF RequestStep, GetStep, PutStep

\* The directory's other steps change no owner and no sharer.
LEMMA EntryKept ==
  ASSUME TypeOK, NEW a \in Addr, NEW s, setState(a, s, owner[a], sharers[a])
  PROVE  \A b \in Addr : owner'[b] = owner[b] /\ sharers'[b] = sharers[b]
BY DirStateSet

LEMMA EntryKeptCovered ==
  ASSUME AllCovered, UNCHANGED <<requestNet, cacheState>>,
         \A p \in Cache, b \in Addr : NoLess(p, b),
         \A b \in Addr : owner'[b] = owner[b] /\ sharers'[b] = sharers[b]
  PROVE  AllCovered'
<1>1. ASSUME NEW p \in Cache, NEW b \in Addr PROVE Covered(p, b)'
  BY RequestsStay, StillCovered DEF AllCovered, SameState
<1>2. QED  BY <1>1 DEF AllCovered

LEMMA DirResponseCovered ==
  ASSUME TypeOK, MissInv, AllCovered, NEW d \in Dir, NEW c \in Cache, DirResponse(d, c)
  PROVE  AllCovered'
<1>m. PICK m : m = Head(responseNet[c][d])  OBVIOUS
<1>1. DataStep(d, c) /\ cacheState' = cacheState  BY DEF DirResponse, cacheVars
<1>2. /\ UNCHANGED <<requestNet, forwardNet>> /\ responseNet[c][d] # <<>>
      /\ \E s : setState(m.addr, s, owner[m.addr], sharers[m.addr])
  BY <1>m, <1>1 DEF DataStep, Data_Dropped, Data_MS_D, Data_MS_M, DataArrived
<1>3. m.addr \in Addr
  <2>1. responseNet[c][d] \in Seq(ResponseMsg)  BY Places DEF TypeOK, NetTypeOK
  <2>2. m \in ResponseMsg  BY <1>m, <1>2, <2>1, HeadTailProperties
  <2>3. QED  BY <2>2 DEF ResponseMsg
<1>4. \A b \in Addr : owner'[b] = owner[b] /\ sharers'[b] = sharers[b]
  BY <1>2, <1>3, EntryKept
<1>5. QED  BY <1>1, <1>2, <1>4, EntryKeptCovered, ForwardsSameNoLess

LEMMA DirMemoryCovered ==
  ASSUME TypeOK, MissInv, AllCovered, NEW d \in Dir, DirMemory(d)
  PROVE  AllCovered'
<1>1. PICK m \in memQueue : Memory_Data(d, m) \/ Memory_Ack(d, m)
  BY DEF DirMemory, MemoryStep
<1>2. m.addr \in Addr /\ m.requestor \in Cache  BY DEF TypeOK, DirTypeOK, MemoryMsg
<1>3. /\ requestNet' = requestNet /\ cacheState' = cacheState
      /\ forwardNet' = forwardNet \/ sendWriteBackAck(d, m.requestor, m.addr)
      /\ DirOf[m.addr] = d
      /\ \E s : setState(m.addr, s, owner[m.addr], sharers[m.addr])
  BY <1>1 DEF DirMemory, Memory_Data, Memory_Ack, cacheVars
<1>4. \A b \in Addr : owner'[b] = owner[b] /\ sharers'[b] = sharers[b]
  BY <1>2, <1>3, EntryKept
<1>5. \A p \in Cache, b \in Addr : NoLess(p, b)
  BY <1>2, <1>3, AckAdded, ForwardsSameNoLess
<1>6. QED  BY <1>3, <1>4, <1>5, EntryKeptCovered

-----------------------------------------------------------------------------
(* The invariant and what follows from it.                                 *)

LEMMA CoveredInit == Init => AllCovered
<1> SUFFICES ASSUME Init, NEW c \in Cache, NEW a \in Addr PROVE Covered(c, a)
  BY DEF AllCovered
<1>1. cacheState[c][a] = "I" /\ Requests(c, a) = <<>>
  BY Places DEF Init, NetInit, CacheInit, Requests
<1>2. ~Overtaken(c, a)  BY <1>1 DEF Overtaken, Before
<1>3. QED  BY <1>1, <1>2 DEF Covered, PutInv, CoverInv, Shares, Owns

LEMMA CoveredNext ==
  ASSUME TypeOK, DirectoryEntries, MissInv, AllCovered, [Next]_vars
  PROVE  AllCovered'
<1>1. CASE UNCHANGED vars
  BY <1>1, QuietCovered DEF vars, netVars, cacheVars, dirVars
<1>2. ASSUME NEW c \in Cache, ProcessorRequest(c) PROVE AllCovered'
  BY <1>2, QuietCovered DEF ProcessorRequest, netVars, cacheVars, dirVars
<1>3. ASSUME NEW c \in Cache, NEW a \in Addr, CacheMandatory(c, a) PROVE AllCovered'
  BY <1>3, CacheMandatoryCovered
<1>4. ASSUME NEW c \in Cache, CacheReplacement(c) PROVE AllCovered'
  BY <1>4, CacheReplacementCovered
<1>5. ASSUME NEW c \in Cache, NEW d \in Dir, CacheForward(c, d) PROVE AllCovered'
  BY <1>5, CacheForwardCovered
<1>6. ASSUME NEW c \in Cache, NEW n \in Node, CacheResponse(c, n) PROVE AllCovered'
  BY <1>6, CacheResponseCovered
<1>7. ASSUME NEW c \in Cache, CacheFatal(c) PROVE AllCovered'
  BY <1>7, QuietCovered DEF CacheFatal, CacheInvalidTransition, netVars, cacheVars, dirVars
<1>8. ASSUME NEW d \in Dir, NEW c \in Cache, DirRequest(d, c) PROVE AllCovered'
  BY <1>8, DirRequestCovered
<1>9. ASSUME NEW d \in Dir, NEW c \in Cache, DirResponse(d, c) PROVE AllCovered'
  BY <1>9, DirResponseCovered
<1>10. ASSUME NEW d \in Dir, DirMemory(d) PROVE AllCovered'
  BY <1>10, DirMemoryCovered
<1>11. ASSUME NEW d \in Dir, DirFatal(d) PROVE AllCovered'
  BY <1>11, QuietCovered DEF DirFatal, DirInvalidTransition, netVars, cacheVars, dirVars
<1>12. QED  BY <1>1, <1>2, <1>3, <1>4, <1>5, <1>6, <1>7, <1>8, <1>9, <1>10, <1>11
            DEF Next, ControllerStep

\* Every part that a cache plays for a line is known to the line's directory,
\* and a write-back is taken before the next request of its cache.
THEOREM PartsKnown == Spec => []AllCovered
<1>1. Init => AllCovered  BY CoveredInit
<1>2. TypeOK /\ DirectoryEntries /\ MissInv /\ AllCovered /\ [Next]_vars => AllCovered'
  BY CoveredNext
<1>3. QED  BY <1>1, <1>2, TypeCorrect, EntriesCorrect, MissesCorrect, PTL DEF Spec

\* A cache with a readable block is a sharer or an owner.
LEMMA TrackedFromCovered ==
  ASSUME AllCovered
  PROVE  TrackedCopies
<1>1. SUFFICES ASSUME NEW c \in Cache, NEW a \in Addr, cacheState[c][a] \in Readable
               PROVE  c \in sharers[a] \cup owner[a] \/ Losing(c, a)
  <2>1. ASSUME NEW c \in Cache, NEW a \in Addr, Losing(c, a)
        PROVE  \E m \in Range(forwardNet[DirOf[a]][c]) : m.addr = a /\ m.type \in {"INV", "GETM"}
    BY <2>1 DEF Losing, Has, Is, Forwards, Range
  <2>2. QED  BY <2>1 DEF TrackedCopies
<1>2. Shares(c, a) \/ Owns(c, a)
  BY <1>1 DEF Readable, Shares, Owns
<1>3. Charged(c, a) => c \in sharers[a] \cup owner[a] \/ Losing(c, a)
  <2>1. Taken(c, a) => Losing(c, a)  BY DEF Taken, Losing, Has, Is
  <2>2. LentAndLost(c, a) => Losing(c, a)  BY DEF LentAndLost, Losing, Before, Has, Is
  <2>3. QED  BY <2>1, <2>2 DEF Charged
<1>4. QED  BY <1>2, <1>3 DEF AllCovered, Covered, CoverInv, Noted

\* The directory can reach every copy that a load may read: setState keeps no
\* stale owner and no write-back that arrives late makes it forget a sharer
\* that has asked for the line again, whatever is evicted and even after a
\* controller has called fatal.
THEOREM CopiesTracked == Spec => []TrackedCopies
<1>1. AllCovered => TrackedCopies  BY TrackedFromCovered
<1>2. QED  BY <1>1, PartsKnown, PTL

-----------------------------------------------------------------------------
(* Write-backs and their acknowledgements.                                 *)

Evicting(c, a) == cacheState[c][a] \in {"MI_A", "SI_A", "II_A"}

\* The memory write after which the directory acknowledges c's write-back.
BeingWritten(c, a) ==
  dirState[a] = "MI_M" /\ \E m \in memQueue : m.addr = a /\ m.requestor = c

\* An answer is still to come.
Pending(c, a) == Returned(c, a) \/ Acknowledged(c, a) \/ BeingWritten(c, a)

AllAnswered == \A c \in Cache, a \in Addr : Evicting(c, a) => Pending(c, a)

\* The step that pops a write-back and answers nothing: MS_M, PUTM_NotOwner.
ForgetsPut == \E d \in Dir, c \in Cache : PUTM_MS_M(d, c)

\* c starts no eviction of a and what will answer one stays or moves on.
StillAnswered(c, a) ==
  /\ Evicting(c, a)' => Evicting(c, a)
  /\ Pending(c, a) => Pending(c, a)'

LEMMA AllStillAnswered ==
  ASSUME AllAnswered,
         \A c \in Cache, a \in Addr : StillAnswered(c, a) \/ ~Evicting(c, a)' \/ Pending(c, a)'
  PROVE  AllAnswered'
BY DEF AllAnswered, StillAnswered

LEMMA StaysWritten ==
  ASSUME NEW c, NEW a, dirState[a] = "MI_M" => dirState'[a] = "MI_M", memQueue \subseteq memQueue',
         BeingWritten(c, a)
  PROVE  BeingWritten(c, a)'
BY DEF BeingWritten

LEMMA PartsKept ==
  ASSUME NEW c, NEW a, SameState(c, a), SameRequests(c, a), NoLess(c, a),
         BeingWritten(c, a) => BeingWritten(c, a)' \/ Acknowledged(c, a)'
  PROVE  StillAnswered(c, a)
BY DEF StillAnswered, Evicting, Pending, SameState, SameRequests, NoLess

LEMMA QuietAnswered ==
  ASSUME AllAnswered, UNCHANGED <<requestNet, forwardNet, cacheState, dirState, memQueue>>
  PROVE  AllAnswered'
<1>1. ASSUME NEW c \in Cache, NEW a \in Addr PROVE StillAnswered(c, a)
  BY RequestsStay, ForwardsSameNoLess, StaysWritten, PartsKept DEF SameState
<1>2. QED  BY <1>1, AllStillAnswered

\* A step of a cache leaves the directories and the memory alone.
LEMMA CacheKept ==
  ASSUME AllAnswered, UNCHANGED <<dirState, memQueue>>, NEW c \in Cache, NEW a \in Addr,
         \A x \in Cache, y \in Addr :
           x # c \/ y # a => SameState(x, y) /\ SameRequests(x, y) /\ NoLess(x, y),
         StillAnswered(c, a) \/ ~Evicting(c, a)' \/ Pending(c, a)'
  PROVE  AllAnswered'
<1>1. ASSUME NEW x \in Cache, NEW y \in Addr, x # c \/ y # a PROVE StillAnswered(x, y)
  BY <1>1, StaysWritten, PartsKept
<1>2. QED  BY <1>1, AllStillAnswered

LEMMA CacheMandatoryAnswered ==
  ASSUME TypeOK, MissInv, AllAnswered, NEW c \in Cache, NEW a \in Addr, CacheMandatory(c, a)
  PROVE  AllAnswered'
<1>1. MandatoryStep(c, a) /\ UNCHANGED <<dirState, memQueue>>  BY DEF CacheMandatory, dirVars
<1>2. CASE LoadHit(c, a) \/ StoreHit(c, a)
  BY <1>1, <1>2, QuietAnswered DEF LoadHit, StoreHit, netVars, cacheVars
<1>3. CASE Miss(c, a) \/ Upgrade(c, a)
  <2>1. PICK type \in GetTypes, s \in {"IS_D", "IM_AD", "SM_AD"} :
          sendRequest(c, a, type, None) /\ setCacheState(c, a, s)
    BY <1>3 DEF Miss, Upgrade, GetTypes
  <2>2. forwardNet' = forwardNet  BY <1>3 DEF Miss, Upgrade
  <2>3. None \in DataBlk /\ type \in {"GETS", "GETM", "PUTS", "PUTM"}
    BY DEF DataBlk, GetTypes
  <2>4. \A p \in Cache, b \in Addr : p # c \/ b # a => SameRequests(p, b)
    BY <2>1, <2>3, RequestAdded
  <2>5. /\ \A x \in Cache, y \in Addr : x # c \/ y # a => SameState(x, y)
        /\ cacheState'[c][a] = s
    BY <2>1, OtherStates
  <2>6. ~Evicting(c, a)'  BY <2>5 DEF Evicting
  <2>7. QED  BY <1>1, <2>2, <2>4, <2>5, <2>6, CacheKept, ForwardsSameNoLess
<1>4. QED  BY <1>1, <1>2, <1>3 DEF MandatoryStep

LEMMA CacheReplacementAnswered ==
  ASSUME TypeOK, AllAnswered, NEW c \in Cache, CacheReplacement(c)
  PROVE  AllAnswered'
<1>1. PICK a \in Addr : Replacement(c, a)  BY DEF CacheReplacement
<1>2. UNCHANGED <<dirState, memQueue, forwardNet>>
  BY <1>1 DEF CacheReplacement, Replacement, dirVars
<1>3. PICK type \in PutTypes, s \in {"SI_A", "MI_A"} :
        sendRequest(c, a, type, entryBlk[c][a]) /\ setCacheState(c, a, s)
  BY <1>1 DEF Replacement, PutTypes
<1>4. entryBlk[c][a] \in DataBlk /\ type \in {"GETS", "GETM", "PUTS", "PUTM"}
  BY DEF TypeOK, CacheTypeOK, PutTypes
<1>5. /\ \A p \in Cache, b \in Addr : p # c \/ b # a => SameRequests(p, b)
      /\ Returned(c, a)'
  BY <1>3, <1>4, RequestAdded
<1>6. \A x \in Cache, y \in Addr : x # c \/ y # a => SameState(x, y)
  BY <1>3, OtherStates
<1>7. Pending(c, a)'  BY <1>5 DEF Pending
<1>8. QED  BY <1>2, <1>5, <1>6, <1>7, CacheKept, ForwardsSameNoLess

\* A cache that takes its acknowledgement has evicted the line.
LEMMA CacheForwardAnswered ==
  ASSUME TypeOK, MissInv, AllAnswered, NEW c \in Cache, NEW d \in Dir, CacheForward(c, d)
  PROVE  AllAnswered'
<1>1. ForwardStep(c, d) /\ UNCHANGED <<dirState, memQueue>>  BY DEF CacheForward, dirVars
<1>2. CASE ForwardStall(c, d)
  BY <1>1, <1>2, QuietAnswered DEF ForwardStall, cacheVars
<1>3. CASE Inv(c, d) \/ WB_Ack(c, d) \/ Fwd_GetS(c, d) \/ Fwd_GetM(c, d)
  <2>m. PICK m : m = Head(forwardNet[d][c])  OBVIOUS
  <2>a. PICK a : a = m.addr  OBVIOUS
  <2>1. /\ AtHead(forwardNet, forwardHead, d, c) /\ forwardNet' = Pop(forwardNet, d, c)
        /\ requestNet' = requestNet
    BY <1>3 DEF Inv, WB_Ack, Fwd_GetS, Fwd_GetM, Forwarded, popForward
  <2>2. a \in Addr /\ DirOf[a] = d
    BY <2>m, <2>a, <2>1, ForwardFirst
  <2>3. /\ \A p \in Cache, b \in Addr : p # c \/ b # a => NoLess(p, b)
        /\ m.type # "WB_ACK" /\ Acknowledged(c, a) => Acknowledged(c, a)'
    BY <2>m, <2>a, <2>1, <2>2, ForwardGone
  <2>4. PICK s : setCacheState(c, a, s) /\
          \/ s \notin {"MI_A", "SI_A", "II_A"}
          \/ m.type # "WB_ACK" /\ Evicting(c, a)
    <3>1. CASE Inv(c, d)
      <4>1. /\ m.type = "INV" /\ cacheState[c][a] \in {"I", "S", "SM_AD", "SI_A"}
            /\ setCacheState(c, a, AfterInv[cacheState[c][a]])
        BY <2>m, <2>a, <3>1 DEF Inv, Forwarded, AfterInv
      <4>2. /\ cacheState[c][a] \in {"I", "S"} => AfterInv[cacheState[c][a]] = "I"
            /\ cacheState[c][a] = "SM_AD" => AfterInv[cacheState[c][a]] = "IM_AD"
            /\ cacheState[c][a] = "SI_A" => AfterInv[cacheState[c][a]] = "II_A"
        BY DEF AfterInv
      <4>3. QED  BY <4>1, <4>2 DEF Evicting
    <3>2. CASE WB_Ack(c, d)
      BY <2>m, <2>a, <3>2 DEF WB_Ack
    <3>3. CASE Fwd_GetS(c, d)
      <4>1. /\ m.type = "GETS" /\ cacheState[c][a] \in {"M", "MI_A"}
            /\ setCacheState(c, a, IF cacheState[c][a] = "M" THEN "S" ELSE "SI_A")
        BY <2>m, <2>a, <3>3 DEF Fwd_GetS, Forwarded
      <4>2. QED  BY <4>1 DEF Evicting
    <3>4. CASE Fwd_GetM(c, d)
      <4>1. /\ m.type = "GETM" /\ cacheState[c][a] \in {"M", "MI_A"}
            /\ setCacheState(c, a, IF cacheState[c][a] = "M" THEN "I" ELSE "II_A")
        BY <2>m, <2>a, <3>4 DEF Fwd_GetM, Forwarded
      <4>2. QED  BY <4>1 DEF Evicting
    <3>5. QED  BY <1>3, <3>1, <3>2, <3>3, <3>4
  <2>5. /\ \A x \in Cache, y \in Addr : x # c \/ y # a => SameState(x, y)
        /\ cacheState'[c][a] = s
    BY <2>2, <2>4, OtherStates
  <2>6. \A x \in Cache, y \in Addr : SameRequests(x, y)
    BY <2>1, RequestsStay
  <2>7. CASE s \notin {"MI_A", "SI_A", "II_A"}
    <3>1. ~Evicting(c, a)'  BY <2>5, <2>7 DEF Evicting
    <3>2. QED  BY <1>1, <2>2, <2>3, <2>5, <2>6, <3>1, CacheKept
  <2>8. CASE m.type # "WB_ACK" /\ Evicting(c, a)
    <3>1. BeingWritten(c, a) => BeingWritten(c, a)'  BY <1>1, StaysWritten
    <3>2. SameRequests(c, a)  BY <2>2, <2>6
    <3>3. StillAnswered(c, a)
      BY <2>3, <2>8, <3>1, <3>2 DEF StillAnswered, Pending, SameRequests
    <3>4. QED  BY <1>1, <2>2, <2>3, <2>5, <2>6, <3>3, CacheKept
  <2>9. QED  BY <2>4, <2>7, <2>8
<1>4. QED  BY <1>1, <1>2, <1>3 DEF ForwardStep

LEMMA CacheResponseAnswered ==
  ASSUME TypeOK, AllAnswered, NEW c \in Cache, NEW n \in Node, CacheResponse(c, n)
  PROVE  AllAnswered'
<1>1. ResponseStep(c, n) /\ UNCHANGED <<dirState, memQueue>>  BY DEF CacheResponse, dirVars
<1>2. UNCHANGED <<requestNet, forwardNet>>
  BY <1>1 DEF ResponseStep, LoadData, StoreData, Inv_Ack, StoreDone
<1>3. CASE Inv_Ack(c, n)
  BY <1>1, <1>2, <1>3, QuietAnswered DEF Inv_Ack
<1>4. CASE LoadData(c, n) \/ StoreData(c, n) \/ StoreDone(c, n)
  <2>m. PICK m : m = Head(responseNet[n][c])  OBVIOUS
  <2>a. PICK a : a = m.addr  OBVIOUS
  <2>1. responseNet[n][c] # <<>>
    BY <1>4 DEF LoadData, StoreData, StoreDone, Responded
  <2>2. a \in Addr
    <3>1. responseNet[n][c] \in Seq(ResponseMsg)  BY DEF TypeOK, NetTypeOK, Node
    <3>2. m \in ResponseMsg  BY <2>m, <2>1, <3>1, HeadTailProperties
    <3>3. QED  BY <2>a, <3>2 DEF ResponseMsg
  <2>3. PICK s \in {"S", "IM_A", "SM_A", "M"} : setCacheState(c, a, s)
    BY <1>4, <2>m, <2>a DEF LoadData, StoreData, StoreDone
  <2>4. /\ \A x \in Cache, y \in Addr : x # c \/ y # a => SameState(x, y)
        /\ cacheState'[c][a] = s
    BY <2>2, <2>3, OtherStates
  <2>5. ~Evicting(c, a)'  BY <2>4 DEF Evicting
  <2>6. QED  BY <1>1, <1>2, <2>2, <2>4, <2>5, CacheKept, RequestsStay, ForwardsSameNoLess
<1>5. QED  BY <1>1, <1>3, <1>4 DEF ResponseStep

\* The directory takes a GETS or a GETM while it writes nothing back.
LEMMA GetAnswered ==
  ASSUME TypeOK, MissInv, AllAnswered, NEW d \in Dir, NEW c \in Cache, GetStep(d, c),
         cacheState' = cacheState
  PROVE  AllAnswered'
<1>m. PICK m : m = Head(requestNet[c][d])  OBVIOUS
<1>a. PICK a : a = m.addr  OBVIOUS
<1>1. /\ Requested(d, c, GetTypes, {"I", "S", "M"}) /\ popRequest(d, c)
      /\ memQueue \subseteq memQueue'
      /\ \E s, own, shr : setState(a, s, own, shr)
  BY <1>m, <1>a DEF GetStep, GETS_I, GETM_I, GETS_S, GETM_S, GETS_M, GETM_M, Requested, GetTypes,
                    queueMemory
<1>2. /\ AtHead(requestNet, requestHead, c, d) /\ requestNet' = Pop(requestNet, c, d)
      /\ RequestEvent(c, m) \in GetTypes /\ dirState[a] # "MI_M"
  BY <1>m, <1>a, <1>1 DEF Requested, popRequest
<1>3. m \in RequestMsg /\ a \in Addr /\ DirOf[a] = d  BY <1>m, <1>a, <1>2, RequestFirst
<1>4. m.type \in GetTypes  BY <1>2, <1>3, RequestTypes DEF GetTypes
<1>5. \A p \in Cache, b \in Addr : NoLess(p, b)
  <2>1. CASE forwardNet' = forwardNet  BY <2>1, ForwardsSameNoLess
  <2>2. CASE \E dsts : \E type \in {"GETS", "GETM", "INV"} : forward(d, dsts, type, a, c)
    <3>1. PICK dsts, type : /\ type \in {"GETS", "GETM", "INV"}
                            /\ forward(d, dsts, type, a, c)
      BY <2>2
    <3>2. QED  BY <1>3, <3>1, ForwardsAdded
  <2>3. \/ forwardNet' = forwardNet
        \/ \E dsts : \E type \in {"GETS", "GETM", "INV"} : forward(d, dsts, type, a, c)
    BY <1>m, <1>a DEF GetStep, GETS_I, GETM_I, GETS_S, GETM_S, GETS_M, GETM_M, invalidateSharers
  <2>4. QED  BY <2>1, <2>2, <2>3
<1>6. /\ \A p \in Cache, b \in Addr : p # c \/ b # a => SameRequests(p, b)
      /\ Returned(c, a)' <=> Returned(c, a)
  BY <1>m, <1>a, <1>2, <1>3, <1>4, RequestGone
<1>7. \A b \in Addr : dirState[b] = "MI_M" => dirState'[b] = "MI_M"
  BY <1>1, <1>2, <1>3, DirStateSet
<1>8. ASSUME NEW p \in Cache, NEW b \in Addr PROVE StillAnswered(p, b)
  <2>1. Returned(p, b)' <=> Returned(p, b)  BY <1>6 DEF SameRequests
  <2>2. BeingWritten(p, b) => BeingWritten(p, b)'  BY <1>1, <1>7, StaysWritten
  <2>3. NoLess(p, b)  BY <1>5
  <2>4. QED  BY <2>1, <2>2, <2>3 DEF StillAnswered, Evicting, Pending, NoLess
<1>9. QED  BY <1>8, AllStillAnswered

\* A write-back that is taken is acknowledged, at once or by memory.
LEMMA PutAnswered ==
  ASSUME TypeOK, MissInv, AllAnswered, NEW d \in Dir, NEW c \in Cache, PutStep(d, c),
         ~PUTM_MS_M(d, c), cacheState' = cacheState
  PROVE  AllAnswered'
<1>m. PICK m : m = Head(requestNet[c][d])  OBVIOUS
<1>a. PICK a : a = m.addr  OBVIOUS
<1>1. /\ AtHead(requestNet, requestHead, c, d)
      /\ requestNet' = Pop(requestNet, c, d) \/ requestNet' = requestNet
      /\ memQueue \subseteq memQueue'
      /\ \E s, own, shr : setState(a, s, own, shr) /\ (dirState[a] = "MI_M" => s = "MI_M")
      /\ \/ sendWriteBackAck(d, c, a)
         \/ forwardNet' = forwardNet /\ PUTM_Owner(d, c)
  BY <1>m, <1>a DEF PutStep, PutDropsSharer, PUTS_Last_S, PUTS_Stale, PUTS_Last_MS, PUTM_Owner,
                    PUTM_NotOwner, PUTM_MS_D, Requested, popRequest, queueMemory
<1>2. a \in Addr /\ DirOf[a] = d  BY <1>m, <1>a, <1>1, RequestFirst
<1>3. \A p \in Cache, b \in Addr : NoLess(p, b)
  BY <1>1, <1>2, AckAdded, ForwardsSameNoLess
<1>4. \A p \in Cache, b \in Addr : p # c \/ b # a => SameRequests(p, b)
  <2>1. CASE requestNet' = requestNet  BY <2>1, RequestsStay
  <2>2. CASE requestNet' = Pop(requestNet, c, d)
    BY <1>m, <1>a, <1>1, <1>2, <2>2, RequestGone
  <2>3. QED  BY <1>1, <2>1, <2>2
<1>5. \A b \in Addr : dirState[b] = "MI_M" => dirState'[b] = "MI_M"
  BY <1>1, <1>2, DirStateSet
<1>6. Pending(c, a)'
  <2>1. CASE sendWriteBackAck(d, c, a)  BY <1>2, <2>1, AckAdded DEF Pending
  <2>2. CASE PUTM_Owner(d, c)
    <3>1. /\ queueMemory(a, "MEMORY_WB", c, m.data)
          /\ setState(a, "MI_M", clearOwner(a), sharers[a])
      BY <1>m, <1>a, <2>2 DEF PUTM_Owner
    <3>2. dirState'[a] = "MI_M"  BY <1>2, <3>1, DirStateSet
    <3>3. [type |-> "MEMORY_WB", addr |-> a, requestor |-> c, data |-> m.data] \in memQueue'
      BY <3>1 DEF queueMemory
    <3>4. QED  BY <3>2, <3>3 DEF Pending, BeingWritten
  <2>3. QED  BY <1>1, <2>1, <2>2
<1>7. ASSUME NEW p \in Cache, NEW b \in Addr, p # c \/ b # a PROVE StillAnswered(p, b)
  BY <1>1, <1>3, <1>4, <1>5, <1>7, StaysWritten, PartsKept DEF SameState
<1>8. QED  BY <1>6, <1>7, AllStillAnswered

LEMMA DirRequestAnswered ==
  ASSUME TypeOK, MissInv, AllAnswered, ~ForgetsPut, NEW d \in Dir, NEW c \in Cache,
         DirRequest(d, c)
  PROVE  AllAnswered'
<1>1. RequestStep(d, c) /\ cacheState' = cacheState  BY DEF DirRequest, cacheVars
<1>2. CASE GetStep(d, c)  BY <1>1, <1>2, GetAnswered
<1>3. CASE PutStep(d, c)  BY <1>1, <1>3, PutAnswered DEF ForgetsPut
<1>4. CASE RequestStall(d, c)
  BY <1>1, <1>4, QuietAnswered DEF RequestStall, dirVars
<1>5. QED  BY <1>1, <1>2, <1>3, <1>4 DEF RequestStep, GetStep, PutStep

LEMMA DirResponseAnswered ==
  ASSUME TypeOK, MissInv, AllAnswered, NEW d \in Dir, NEW c \in Cache, DirResponse(d, c)
  PROVE  AllAnswered'
<1>m. PICK m : m = Head(responseNet[c][d])  OBVIOUS
<1>1. DataStep(d, c) /\ cacheState' = cacheState  BY DEF DirResponse, cacheVars
<1>2. /\ UNCHANGED <<requestNet, forwardNet>> /\ responseNet[c][d] # <<>>
      /\ dirState[m.addr] # "MI_M" /\ memQueue \subseteq memQueue'
      /\ \E s : setState(m.addr, s, owner[m.addr], sharers[m.addr])
  BY <1>m, <1>1 DEF DataStep, Data_Dropped, Data_MS_D, Data_MS_M, DataArrived, queueMemory
<1>3. m.addr \in Addr
  <2>1. responseNet[c][d] \in Seq(ResponseMsg)  BY Places DEF TypeOK, NetTypeOK
  <2>2. m \in ResponseMsg  BY <1>m, <1>2, <2>1, HeadTailProperties
  <2>3. QED  BY <2>2 DEF ResponseMsg
<1>4. \A b \in Addr : dirState[b] = "MI_M" => dirState'[b] = "MI_M"
  BY <1>2, <1>3, DirStateSet
<1>5. ASSUME NEW p \in Cache, NEW b \in Addr PROVE StillAnswered(p, b)
  BY <1>1, <1>2, <1>4, RequestsStay, ForwardsSameNoLess, StaysWritten, PartsKept DEF SameState
<1>6. QED  BY <1>5, AllStillAnswered

\* The one answer that memory owes a line in MI_M is the one that its write-back
\* waits for.
LEMMA DirMemoryAnswered ==
  ASSUME TypeOK, MissInv, MemoryAwaited, AllAnswered, NEW d \in Dir, DirMemory(d)
  PROVE  AllAnswered'
<1>1. PICK m \in memQueue : Memory_Data(d, m) \/ Memory_Ack(d, m)
  BY DEF DirMemory, MemoryStep
<1>2. m.addr \in Addr /\ m.requestor \in Cache  BY DEF TypeOK, DirTypeOK, MemoryMsg
<1>3. /\ requestNet' = requestNet /\ cacheState' = cacheState /\ memQueue' = memQueue \ {m}
      /\ DirOf[m.addr] = d
      /\ \/ forwardNet' = forwardNet /\ dirState[m.addr] # "MI_M"
         \/ sendWriteBackAck(d, m.requestor, m.addr)
      /\ \E s : setState(m.addr, s, owner[m.addr], sharers[m.addr])
  BY <1>1 DEF DirMemory, Memory_Data, Memory_Ack, cacheVars, popMemQueue
<1>4. \A p \in Cache, b \in Addr : NoLess(p, b)
  BY <1>2, <1>3, AckAdded, ForwardsSameNoLess
<1>5. ASSUME NEW p \in Cache, NEW b \in Addr, BeingWritten(p, b)
      PROVE  BeingWritten(p, b)' \/ Acknowledged(p, b)'
  <2>1. PICK k \in memQueue : k.addr = b /\ k.requestor = p  BY <1>5 DEF BeingWritten
  <2>2. dirState[b] = "MI_M"  BY <1>5 DEF BeingWritten
  <2>3. CASE b = m.addr
    <3>1. k = m  BY <2>1, <2>3 DEF MemoryAwaited
    <3>2. QED  BY <1>2, <1>3, <2>1, <2>2, <2>3, <3>1, AckAdded
  <2>4. CASE b # m.addr
    <3>1. k \in memQueue' /\ dirState'[b] = dirState[b]
      BY <1>2, <1>3, <2>1, <2>4, DirStateSet
    <3>2. QED  BY <2>1, <2>2, <3>1 DEF BeingWritten
  <2>5. QED  BY <2>3, <2>4
<1>6. ASSUME NEW p \in Cache, NEW b \in Addr PROVE StillAnswered(p, b)
  BY <1>3, <1>4, <1>5, RequestsStay, PartsKept DEF SameState
<1>7. QED  BY <1>6, AllStillAnswered

LEMMA AnsweredNext ==
  ASSUME TypeOK, MissInv, MemoryAwaited, AllAnswered, [Next]_vars, [~ForgetsPut]_vars
  PROVE  AllAnswered'
<1>1. CASE UNCHANGED vars
  BY <1>1, QuietAnswered DEF vars, netVars, cacheVars, dirVars
<1>2. ASSUME NEW c \in Cache, ProcessorRequest(c) PROVE AllAnswered'
  BY <1>2, QuietAnswered DEF ProcessorRequest, netVars, cacheVars, dirVars
<1>3. ASSUME NEW c \in Cache, NEW a \in Addr, CacheMandatory(c, a) PROVE AllAnswered'
  BY <1>3, CacheMandatoryAnswered
<1>4. ASSUME NEW c \in Cache, CacheReplacement(c) PROVE AllAnswered'
  BY <1>4, CacheReplacementAnswered
<1>5. ASSUME NEW c \in Cache, NEW d \in Dir, CacheForward(c, d) PROVE AllAnswered'
  BY <1>5, CacheForwardAnswered
<1>6. ASSUME NEW c \in Cache, NEW n \in Node, CacheResponse(c, n) PROVE AllAnswered'
  BY <1>6, CacheResponseAnswered
<1>7. ASSUME NEW c \in Cache, CacheFatal(c) PROVE AllAnswered'
  BY <1>7, QuietAnswered DEF CacheFatal, CacheInvalidTransition, netVars, cacheVars, dirVars
<1>8. ASSUME ~ForgetsPut, NEW d \in Dir, NEW c \in Cache, DirRequest(d, c) PROVE AllAnswered'
  BY <1>8, DirRequestAnswered
<1>9. ASSUME NEW d \in Dir, NEW c \in Cache, DirResponse(d, c) PROVE AllAnswered'
  BY <1>9, DirResponseAnswered
<1>10. ASSUME NEW d \in Dir, DirMemory(d) PROVE AllAnswered'
  BY <1>10, DirMemoryAnswered
<1>11. ASSUME NEW d \in Dir, DirFatal(d) PROVE AllAnswered'
  BY <1>11, QuietAnswered DEF DirFatal, DirInvalidTransition, netVars, cacheVars, dirVars
<1>12. QED  BY <1>1, <1>2, <1>3, <1>4, <1>5, <1>6, <1>7, <1>8, <1>9, <1>10, <1>11
            DEF Next, ControllerStep

LEMMA AnsweredInit == Init => AllAnswered
<1> SUFFICES ASSUME Init, NEW c \in Cache, NEW a \in Addr PROVE ~Evicting(c, a)
  BY DEF AllAnswered
<1>1. cacheState[c][a] = "I"  BY DEF Init, CacheInit
<1>2. QED  BY <1>1 DEF Evicting

LEMMA AnsweredFromAll ==
  ASSUME AllAnswered
  PROVE  EvictionAnswered
<1>1. ASSUME NEW c \in Cache, NEW a \in Addr, Returned(c, a)
      PROVE  \E m \in Range(requestNet[c][DirOf[a]]) : m.addr = a /\ m.type \in {"PUTS", "PUTM"}
  BY <1>1 DEF Returned, Has, Is, Requests, PutTypes, Range
<1>2. ASSUME NEW c \in Cache, NEW a \in Addr, Acknowledged(c, a)
      PROVE  \E m \in Range(forwardNet[DirOf[a]][c]) : m.addr = a /\ m.type = "WB_ACK"
  BY <1>2 DEF Acknowledged, Has, Is, Forwards, Range
<1>3. QED
  BY <1>1, <1>2 DEF AllAnswered, EvictionAnswered, Evicting, Pending, BeingWritten

\* As long as no directory takes a PUTM while it writes the line's block to
\* memory (MS_M, PUTM_NotOwner pops it and answers nothing), no eviction is
\* forgotten: that transition is the only one that loses an acknowledgement.
THEOREM EvictionsAnswered == Spec /\ [][~ForgetsPut]_vars => []EvictionAnswered
<1>1. Init => AllAnswered  BY AnsweredInit
<1>2. TypeOK /\ MissInv /\ MemoryAwaited /\ AllAnswered /\ [Next]_vars /\ [~ForgetsPut]_vars
        => AllAnswered'
  BY AnsweredNext
<1>3. AllAnswered => EvictionAnswered  BY AnsweredFromAll
<1>4. QED
  BY <1>1, <1>2, <1>3, TypeCorrect, MissesCorrect, MemoryCorrect, PTL DEF Spec
=============================================================================
