---------------------------- MODULE Cache_proofs ----------------------------
(***************************************************************************)
(* Proofs about the cache of lab 5, for every geometry, program and        *)
(* configuration.                                                          *)
(***************************************************************************)
EXTENDS Cache, TLAPS

-----------------------------------------------------------------------------
(* Arithmetic of addresses and table indices.                              *)

\* Remainders and quotients of natural numbers.
LEMMA DivMod ==
  ASSUME NEW a \in Nat, NEW n \in Nat \ {0}
  PROVE  /\ a % n \in 0..(n - 1) /\ a \div n \in Nat
         /\ a >= n => a \div n # 0
  OBVIOUS

\* A number is determined by quotient and remainder.
LEMMA DivModUnique ==
  ASSUME NEW a \in Nat, NEW b \in Nat, NEW n \in Nat \ {0}, a % n = b % n, a \div n = b \div n
  PROVE  a = b
  OBVIOUS

\* CACHE_SET, CACHE_TAG and CACHE_TAGSET of an address.
LEMMA AddressParts ==
  ASSUME NEW a \in Nat
  PROVE  /\ CACHE_SET(a) \in Sets /\ CACHE_TAG(a) \in Nat /\ CACHE_TAGSET(a) \in Nat
         /\ CACHE_SET(a) = CACHE_TAGSET(a) % nsets
         /\ CACHE_TAG(a) = CACHE_TAGSET(a) \div nsets
         /\ a >= bsize => CACHE_TAGSET(a) # 0
<1>1. CACHE_TAGSET(a) \in Nat /\ (a >= bsize => CACHE_TAGSET(a) # 0)
  BY DivMod, LayoutAssumption DEF CACHE_TAGSET
<1>2. QED  BY <1>1, DivMod, GeometryAssumption DEF CACHE_SET, CACHE_TAG, Sets

\* The parts of an access of the program.
LEMMA ProgramAccess ==
  ASSUME NEW access \in Program
  PROVE  /\ access[1] \in PC /\ access[1] \in Nat /\ access[2] \in {"Read", "Write"}
         /\ access[3] \in Addr /\ access[3] \in Nat /\ access[3] >= bsize
<1>1. access[1] \in PC /\ access[3] \in Addr  BY ProgramAssumption
<1>2. access[1] \in Nat /\ access[2] \in {"Read", "Write"}  BY <1>1, ProgramAssumption
<1>3. access[3] \in Nat /\ access[3] >= bsize
  <2>1. bsize \in Nat /\ ADDR_SPACE \in Nat /\ Addr \subseteq bsize..(ADDR_SPACE - 1)
    BY LayoutAssumption, Zenon
  <2>2. \A a \in Addr : a \in Nat /\ a >= bsize  BY <2>1
  <2>3. QED  BY <1>1, <2>2, Zenon
<1>4. QED  BY <1>1, <1>2, <1>3

-----------------------------------------------------------------------------
(* The way list.                                                           *)

\* A list of ways: every way has a position of its own.
WayList(pos) == pos \in [Way -> Way] /\ \A v, w \in Way : pos[v] = pos[w] => v = w

\* Block w comes first, the others stay in order.
FirstOf(pos, w, new) ==
  /\ new[w] = 0
  /\ \A v \in Way : v # w => 0 < new[v] /\ new[v] <= pos[v] + 1
  /\ \A u, v \in Way : u # w /\ v # w => (pos[u] < pos[v] <=> new[u] < new[v])

\* Block w comes last, the others stay in order.
LastOf(pos, w, new) ==
  /\ \A v \in Way : v # w => new[v] < new[w]
  /\ \A u, v \in Way : u # w /\ v # w => (pos[u] < pos[v] <=> new[u] < new[v])

\* Moving a block to the head keeps the list and the order of the others.
LEMMA MoveToHead ==
  ASSUME NEW pos, WayList(pos), NEW w \in Way, NEW new, new = update_way_list(pos, w, "Head")
  PROVE  WayList(new) /\ FirstOf(pos, w, new)
<1>1. \A v \in Way : new[v] = IF v = w THEN 0 ELSE IF pos[v] < pos[w] THEN pos[v] + 1 ELSE pos[v]
  BY DEF update_way_list
<1>2. \A v \in Way : pos[v] \in 0..(assoc - 1) /\ (v # w => pos[v] # pos[w])
  BY DEF WayList, Way
<1>3. assoc \in Nat \ {0}  BY GeometryAssumption
<1>4. /\ \A v \in Way : new[v] \in 0..(assoc - 1) /\ (v # w => 0 < new[v] /\ new[v] <= pos[v] + 1)
      /\ new[w] = 0
  BY <1>1, <1>2, <1>3
<1>5. \A u, v \in Way : u # w /\ v # w => (pos[u] < pos[v] <=> new[u] < new[v])
  BY <1>1, <1>2, <1>3
<1>6. \A u, v \in Way : new[u] = new[v] => u = v
  BY <1>1, <1>2, <1>3 DEF WayList
<1>7. new \in [Way -> Way]  BY <1>4 DEF update_way_list, Way
<1>8. QED  BY <1>4, <1>5, <1>6, <1>7 DEF WayList, FirstOf

\* Moving a block to the tail keeps the list and the order of the others.
LEMMA MoveToTail ==
  ASSUME NEW pos, WayList(pos), NEW w \in Way, NEW new, new = update_way_list(pos, w, "Tail")
  PROVE  WayList(new) /\ LastOf(pos, w, new)
<1>1. \A v \in Way : new[v] = IF v = w THEN assoc - 1 ELSE IF pos[v] > pos[w] THEN pos[v] - 1 ELSE pos[v]
  BY DEF update_way_list
<1>2. \A v \in Way : pos[v] \in 0..(assoc - 1) /\ (v # w => pos[v] # pos[w])
  BY DEF WayList, Way
<1>3. assoc \in Nat \ {0}  BY GeometryAssumption
<1>4. /\ \A v \in Way : new[v] \in 0..(assoc - 1) /\ (v # w => new[v] < assoc - 1)
      /\ new[w] = assoc - 1
  BY <1>1, <1>2, <1>3
<1>5. \A u, v \in Way : u # w /\ v # w => (pos[u] < pos[v] <=> new[u] < new[v])
  BY <1>1, <1>2, <1>3
<1>6. \A u, v \in Way : new[u] = new[v] => u = v
  BY <1>1, <1>2, <1>3 DEF WayList
<1>7. new \in [Way -> Way]  BY <1>4 DEF update_way_list, Way
<1>8. QED  BY <1>3, <1>4, <1>5, <1>6, <1>7 DEF WayList, LastOf
-----------------------------------------------------------------------------
(* The blocks.                                                             *)

Blk == [tag : Nat, valid : BOOLEAN, dirty : BOOLEAN]

\* The type of the variables that hold the blocks.
BlockType ==
  /\ policy \in {"LRU", "FIFO", "Random"}
  /\ blk \in [Sets -> [Way -> Blk]]
  /\ way_pos \in [Sets -> [Way -> Way]]
  /\ \A s \in Sets : WayList(way_pos[s])
  /\ linked \in [Sets -> [Way -> Nat]]
  /\ last_tagset \in Nat
  /\ last_blk \in (Sets \X Way) \cup {NULL}

\* DirtyKept, block by block.
LEMMA DirtyPoint ==
  DirtyKept <=>
    \A p : p \in unsaved <=>
      \E s \in Sets, w \in Way : blk[s][w].valid /\ blk[s][w].dirty /\ p = <<s, blk[s][w].tag>>
BY DEF DirtyKept, DirtyBlocks

\* A search finds exactly the valid blocks with the tag.
LEMMA LookupExact ==
  ASSUME HashChains, NEW s \in Sets, NEW t, NEW w \in Way
  PROVE  w \in Lookup(s, t) <=> blk[s][w].valid /\ blk[s][w].tag = t
BY DEF HashChains, Lookup

BlockInv ==
  /\ BlockType /\ FastHitSound /\ OneCopy /\ HashChains /\ DirtyKept /\ ValidFirst

\* Under LRU the block with tag t of set s is the most recently used.
AtHead(s, t) ==
  policy = "LRU" =>
    \E w \in Way : blk[s][w].valid /\ blk[s][w].tag = t /\ way_pos[s][w] = 0

\* Block w of set s is marked as dirty if cmd is a store; nothing else changes.
MarkedAs(s, w, cmd) ==
  /\ blk' \in [Sets -> [Way -> Blk]]
  /\ \A s1 \in Sets, w1 \in Way :
       /\ blk'[s1][w1].valid <=> blk[s1][w1].valid
       /\ blk'[s1][w1].tag = blk[s1][w1].tag
       /\ blk'[s1][w1].dirty <=>
            (blk[s1][w1].dirty \/ (s1 = s /\ w1 = w /\ cmd = "Write"))

\* An access marks a block as dirty if it is a store.
LEMMA Marked ==
  ASSUME blk \in [Sets -> [Way -> Blk]], NEW s \in Sets, NEW w \in Way,
         NEW cmd \in {"Read", "Write"},
         blk' = [blk EXCEPT ![s][w].dirty = @ \/ cmd = "Write"]
  PROVE  MarkedAs(s, w, cmd)
<1> DEFINE r == [blk[s][w] EXCEPT !.dirty = @ \/ cmd = "Write"]
<1>1. blk[s][w] \in Blk  OBVIOUS
<1>2. r \in Blk  BY <1>1 DEF Blk
<1>3. /\ r.valid = blk[s][w].valid /\ r.tag = blk[s][w].tag
      /\ r.dirty = (blk[s][w].dirty \/ cmd = "Write")
  BY <1>1 DEF Blk
<1>4. r.dirty <=> (blk[s][w].dirty \/ cmd = "Write")  BY <1>3, Zenon
<1>5. blk' = [blk EXCEPT ![s] = [blk[s] EXCEPT ![w] = r]]  OBVIOUS
<1> HIDE DEF r
<1>6. /\ blk' \in [Sets -> [Way -> Blk]] /\ blk'[s][w] = r
      /\ \A s1 \in Sets, w1 \in Way : s1 # s \/ w1 # w => blk'[s1][w1] = blk[s1][w1]
  BY <1>2, <1>5
<1>7. QED  BY <1>3, <1>4, <1>6 DEF MarkedAs

\* The stores that memory lacks, after an access to a block that is there.
LEMMA MarkedDirty ==
  ASSUME DirtyKept, NEW s \in Sets, NEW w \in Way, NEW t, NEW cmd \in {"Read", "Write"},
         blk[s][w].valid, blk[s][w].tag = t, unsaved' = unsaved \cup Stored(s, t, cmd),
         MarkedAs(s, w, cmd)
  PROVE  DirtyKept'
<1>1. \A p : p \in unsaved' <=> p \in unsaved \/ (cmd = "Write" /\ p = <<s, t>>)
  BY DEF Stored
<1>2. ASSUME NEW p, p \in unsaved'
      PROVE  \E s1 \in Sets, w1 \in Way :
               blk'[s1][w1].valid /\ blk'[s1][w1].dirty /\ p = <<s1, blk'[s1][w1].tag>>
  <2>1. CASE p \in unsaved
    <3>1. PICK s1 \in Sets, w1 \in Way :
            blk[s1][w1].valid /\ blk[s1][w1].dirty /\ p = <<s1, blk[s1][w1].tag>>
      BY <2>1, DirtyPoint
    <3>2. blk'[s1][w1].valid /\ blk'[s1][w1].dirty /\ blk'[s1][w1].tag = blk[s1][w1].tag
      BY <3>1, Zenon DEF MarkedAs
    <3>3. QED  BY <3>1, <3>2
  <2>2. CASE cmd = "Write" /\ p = <<s, t>>
    <3>1. blk'[s][w].valid /\ blk'[s][w].dirty /\ blk'[s][w].tag = t
      BY <2>2, Zenon DEF MarkedAs
    <3>2. QED  BY <2>2, <3>1
  <2>3. QED  BY <1>1, <1>2, <2>1, <2>2
<1>3. ASSUME NEW s1 \in Sets, NEW w1 \in Way, blk'[s1][w1].valid, blk'[s1][w1].dirty
      PROVE  <<s1, blk'[s1][w1].tag>> \in unsaved'
  <2>1. /\ blk[s1][w1].valid /\ blk'[s1][w1].tag = blk[s1][w1].tag
        /\ blk[s1][w1].dirty \/ (s1 = s /\ w1 = w /\ cmd = "Write")
    BY <1>3, Zenon DEF MarkedAs
  <2>2. blk[s1][w1].dirty => <<s1, blk[s1][w1].tag>> \in unsaved  BY <2>1, DirtyPoint
  <2>3. QED  BY <1>1, <2>1, <2>2
<1>4. QED  BY <1>2, <1>3 DEF DirtyKept, DirtyBlocks

\* The way list of one set changes: a block moves to the head.
LEMMA HeadMoved ==
  ASSUME way_pos \in [Sets -> [Way -> Way]], \A s1 \in Sets : WayList(way_pos[s1]),
         NEW s \in Sets, NEW w \in Way,
         way_pos' = [way_pos EXCEPT ![s] = update_way_list(@, w, "Head")]
  PROVE  /\ way_pos' \in [Sets -> [Way -> Way]] /\ \A s1 \in Sets : WayList(way_pos'[s1])
         /\ \A s1 \in Sets : s1 # s => way_pos'[s1] = way_pos[s1]
         /\ FirstOf(way_pos[s], w, way_pos'[s])
<1> DEFINE new == update_way_list(way_pos[s], w, "Head")
<1>1. way_pos' = [way_pos EXCEPT ![s] = new]  OBVIOUS
<1>2. WayList(new) /\ FirstOf(way_pos[s], w, new)  BY MoveToHead
<1> HIDE DEF new
<1>3. new \in [Way -> Way]  BY <1>2 DEF WayList
<1>4. way_pos'[s] = new /\ \A s1 \in Sets : s1 # s => way_pos'[s1] = way_pos[s1]
  BY <1>1
<1>5. QED  BY <1>1, <1>2, <1>3, <1>4

\* The same for the tail.
LEMMA TailMoved ==
  ASSUME way_pos \in [Sets -> [Way -> Way]], \A s1 \in Sets : WayList(way_pos[s1]),
         NEW s \in Sets, NEW w \in Way,
         way_pos' = [way_pos EXCEPT ![s] = update_way_list(@, w, "Tail")]
  PROVE  /\ way_pos' \in [Sets -> [Way -> Way]] /\ \A s1 \in Sets : WayList(way_pos'[s1])
         /\ \A s1 \in Sets : s1 # s => way_pos'[s1] = way_pos[s1]
         /\ LastOf(way_pos[s], w, way_pos'[s])
<1> DEFINE new == update_way_list(way_pos[s], w, "Tail")
<1>1. way_pos' = [way_pos EXCEPT ![s] = new]  OBVIOUS
<1>2. WayList(new) /\ LastOf(way_pos[s], w, new)  BY MoveToTail
<1> HIDE DEF new
<1>3. new \in [Way -> Way]  BY <1>2 DEF WayList
<1>4. way_pos'[s] = new /\ \A s1 \in Sets : s1 # s => way_pos'[s1] = way_pos[s1]
  BY <1>1
<1>5. QED  BY <1>1, <1>2, <1>3, <1>4

\* A hit found by search.
LEMMA HitBlock ==
  ASSUME BlockInv, NEW b \in Nat, b # 0, NEW s, NEW t, s = b % nsets, t = b \div nsets,
         s \in Sets, NEW cmd \in {"Read", "Write"}, NEW w \in Way, Hit(s, t, b, cmd, w),
         UNCHANGED policy
  PROVE  BlockInv' /\ AtHead(s, t)'
<1>1. /\ BlockType /\ FastHitSound /\ OneCopy /\ HashChains /\ DirtyKept /\ ValidFirst
      /\ blk[s][w].valid /\ blk[s][w].tag = t
  BY LookupExact DEF BlockInv, Hit
<1>2. MarkedAs(s, w, cmd)
  <2>1. /\ blk \in [Sets -> [Way -> Blk]]
        /\ blk' = [blk EXCEPT ![s][w].dirty = @ \/ cmd = "Write"]
    BY <1>1 DEF Hit, BlockType
  <2>2. QED  BY <2>1, Marked, Zenon
<1>3. /\ way_pos' \in [Sets -> [Way -> Way]] /\ \A s1 \in Sets : WayList(way_pos'[s1])
      /\ ValidFirst' /\ (policy = "LRU" => way_pos'[s][w] = 0)
  <2>1. CASE policy = "LRU"
    <3>1. /\ way_pos' \in [Sets -> [Way -> Way]] /\ \A s1 \in Sets : WayList(way_pos'[s1])
          /\ \A s1 \in Sets : s1 # s => way_pos'[s1] = way_pos[s1]
          /\ FirstOf(way_pos[s], w, way_pos'[s])
      <4>1. /\ way_pos \in [Sets -> [Way -> Way]] /\ \A s1 \in Sets : WayList(way_pos[s1])
            /\ way_pos' = [way_pos EXCEPT ![s] = update_way_list(@, w, "Head")]
        BY <1>1, <2>1 DEF Hit, BlockType
      <4>2. QED  BY <4>1, HeadMoved, Zenon
    <3>2. QED  BY <1>1, <1>2, <2>1, <3>1 DEF ValidFirst, FirstOf, MarkedAs
  <2>2. CASE policy # "LRU"
    BY <1>1, <1>2, <2>2 DEF Hit, ValidFirst, BlockType, MarkedAs
  <2>3. QED  BY <2>1, <2>2
<1>4. BlockType'
  BY <1>1, <1>2, <1>3 DEF BlockType, Hit, MarkedAs
<1>5. FastHitSound'
  <2>1. last_tagset' = b /\ last_blk' = <<s, w>>  BY DEF Hit
  <2>2. <<s, w>> # NULL  BY GeometryAssumption
  <2>3. QED  BY <1>1, <1>2, <1>3, <2>1, <2>2 DEF FastHitSound, MarkedAs
<1>6. OneCopy' /\ HashChains'
  BY <1>1, <1>2 DEF OneCopy, HashChains, Hit, MarkedAs
<1>7. DirtyKept'
  <2>1. unsaved' = unsaved \cup Stored(s, t, cmd)  BY DEF Hit
  <2>2. QED  BY <1>1, <1>2, <2>1, MarkedDirty, Zenon
<1>8. AtHead(s, t)'  BY <1>1, <1>2, <1>3 DEF AtHead, MarkedAs
<1>9. QED  BY <1>3, <1>4, <1>5, <1>6, <1>7, <1>8 DEF BlockInv

\* The last block is that of last_tagset.
LEMMA LastBlock ==
  ASSUME BlockInv, NEW b \in Nat, b # 0, NEW s, NEW t, s = b % nsets, t = b \div nsets,
         b = last_tagset
  PROVE  \E w \in Way : /\ last_blk = <<s, w>> /\ blk[s][w].valid /\ blk[s][w].tag = t
                        /\ policy = "LRU" => way_pos[s][w] = 0
<1>1. BlockType /\ FastHitSound  BY DEF BlockInv
<1>2. last_blk \in Sets \X Way  BY <1>1 DEF BlockType, FastHitSound
<1>3. PICK s0 \in Sets, w \in Way : last_blk = <<s0, w>>
  <2>1. last_blk[1] \in Sets /\ last_blk[2] \in Way /\ last_blk = <<last_blk[1], last_blk[2]>>
    BY <1>2
  <2>2. QED  BY <2>1, Zenon
<1>4. /\ s0 = last_tagset % nsets /\ blk[s0][w].valid /\ blk[s0][w].tag = last_tagset \div nsets
      /\ policy = "LRU" => way_pos[s0][w] = 0
  BY <1>1, <1>3 DEF FastHitSound
<1>5. QED  BY <1>3, <1>4

\* A fast hit: the recorded block is the one that is accessed.
LEMMA FastHitBlock ==
  ASSUME BlockInv, NEW b \in Nat, b # 0, NEW s, NEW t, s = b % nsets, t = b \div nsets,
         s \in Sets, NEW cmd \in {"Read", "Write"}, FastHit(s, t, b, cmd), UNCHANGED policy
  PROVE  BlockInv' /\ AtHead(s, t)'
<1>1. /\ BlockType /\ FastHitSound /\ OneCopy /\ HashChains /\ DirtyKept /\ ValidFirst
  BY DEF BlockInv
<1>2. PICK w \in Way : last_blk = <<s, w>> /\ blk[s][w].valid /\ blk[s][w].tag = t
  <2>1. b = last_tagset  BY DEF FastHit
  <2>2. QED  BY <2>1, LastBlock
<1>3. MarkedAs(s, w, cmd)
  <2>1. blk' = [blk EXCEPT ![s][w].dirty = @ \/ cmd = "Write"]
    BY <1>2 DEF FastHit
  <2>2. blk \in [Sets -> [Way -> Blk]]  BY <1>1 DEF BlockType
  <2>3. QED  BY <2>1, <2>2, Marked, Zenon
<1>4. DirtyKept'
  <2>1. unsaved' = unsaved \cup Stored(s, t, cmd)  BY DEF FastHit
  <2>2. QED  BY <1>1, <1>2, <1>3, <2>1, MarkedDirty, Zenon
<1>5. BlockType'
  BY <1>1, <1>3 DEF BlockType, FastHit, MarkedAs
<1>6. FastHitSound'
  <2>1. /\ last_blk' = last_blk /\ last_tagset' = last_tagset /\ way_pos' = way_pos
        /\ policy' = policy
    BY DEF FastHit
  <2>2. QED  BY <1>1, <1>3, <2>1 DEF FastHitSound, MarkedAs
<1>7. OneCopy' /\ HashChains' /\ ValidFirst'
  <2>1. linked' = linked /\ way_pos' = way_pos /\ policy' = policy  BY DEF FastHit
  <2>2. OneCopy'  BY <1>1, <1>3 DEF OneCopy, MarkedAs
  <2>3. HashChains'  BY <1>1, <1>3, <2>1 DEF HashChains, MarkedAs
  <2>4. ValidFirst'  BY <1>1, <1>3, <2>1 DEF ValidFirst, MarkedAs
  <2>5. QED  BY <2>2, <2>3, <2>4
<1>8. AtHead(s, t)'
  <2>1. policy = "LRU" => way_pos[s][w] = 0  BY <1>1, <1>2 DEF FastHitSound
  <2>2. way_pos' = way_pos  BY DEF FastHit
  <2>3. QED  BY <1>2, <1>3, <2>1, <2>2 DEF AtHead, MarkedAs
<1>9. QED  BY <1>4, <1>5, <1>6, <1>7, <1>8 DEF BlockInv

\* A miss: the block of the tail, or any, gives way to the new one.
LEMMA MissBlock ==
  ASSUME BlockInv, NEW b, NEW s \in Sets, NEW t \in Nat,
         NEW cmd \in {"Read", "Write"}, NEW repl \in Way, Miss(s, t, b, cmd, repl),
         UNCHANGED policy
  PROVE  BlockInv' /\ AtHead(s, t)'
<1>1. /\ BlockType /\ FastHitSound /\ OneCopy /\ HashChains /\ DirtyKept /\ ValidFirst
      /\ \A w \in Way : ~(blk[s][w].valid /\ blk[s][w].tag = t)
  BY LookupExact DEF BlockInv, Miss
<1>2. /\ blk' \in [Sets -> [Way -> Blk]]
      /\ \A s1 \in Sets, w1 \in Way : s1 # s \/ w1 # repl => blk'[s1][w1] = blk[s1][w1]
      /\ blk'[s][repl] = [tag |-> t, valid |-> TRUE, dirty |-> cmd = "Write"]
  <2>1. [tag |-> t, valid |-> TRUE, dirty |-> cmd = "Write"] \in Blk  BY DEF Blk
  <2>2. QED  BY <1>1, <2>1 DEF Miss, BlockType
<1>3. blk'[s][repl].tag = t /\ blk'[s][repl].valid /\ (blk'[s][repl].dirty <=> cmd = "Write")
  <2>1. blk'[s][repl].tag = t /\ blk'[s][repl].valid = TRUE /\ blk'[s][repl].dirty = (cmd = "Write")
    BY <1>2
  <2>2. QED  BY <2>1, Zenon
<1>4. /\ linked' \in [Sets -> [Way -> Nat]] /\ linked'[s][repl] = t
      /\ \A s1 \in Sets, w1 \in Way : s1 # s \/ w1 # repl => linked'[s1][w1] = linked[s1][w1]
  BY <1>1 DEF Miss, link_htab_ent, BlockType
<1>5. OneCopy'
  BY <1>1, <1>2, <1>3 DEF OneCopy
<1>6. HashChains'
  BY <1>1, <1>2, <1>3, <1>4 DEF HashChains
<1>7. FastHitSound'
  <2>1. last_tagset' = 0 /\ last_blk' = NULL  BY DEF Miss, ForgetLast
  <2>2. \A s1 \in Sets, w1 \in Way : <<s1, w1>> # NULL  BY GeometryAssumption
  <2>3. QED  BY <2>1, <2>2 DEF FastHitSound
<1>8. /\ way_pos' \in [Sets -> [Way -> Way]] /\ \A s1 \in Sets : WayList(way_pos'[s1])
      /\ ValidFirst' /\ (policy = "LRU" => way_pos'[s][repl] = 0)
  <2>1. CASE policy = "Random"
    BY <1>1, <2>1 DEF Miss, ValidFirst, BlockType
  <2>2. CASE policy # "Random"
    <3>1. /\ way_pos' \in [Sets -> [Way -> Way]] /\ \A s1 \in Sets : WayList(way_pos'[s1])
          /\ \A s1 \in Sets : s1 # s => way_pos'[s1] = way_pos[s1]
          /\ FirstOf(way_pos[s], repl, way_pos'[s])
      BY <1>1, <2>2, HeadMoved DEF Miss, BlockType
    <3>2. QED  BY <1>1, <1>2, <1>3, <2>2, <3>1 DEF ValidFirst, FirstOf
  <2>3. QED  BY <2>1, <2>2
<1>9. BlockType'
  BY <1>1, <1>2, <1>4, <1>7, <1>8 DEF BlockType, Miss, ForgetLast
<1>10. DirtyKept'
  <2>1. \A p : p \in DirtyBlocks(s, {repl}) <=>
          blk[s][repl].valid /\ blk[s][repl].dirty /\ p = <<s, blk[s][repl].tag>>
    BY DEF DirtyBlocks
  <2>2. \A p : p \in Stored(s, t, cmd) <=> cmd = "Write" /\ p = <<s, t>>
    BY DEF Stored
  <2>3. \A p : p \in unsaved' <=>
          (p \in unsaved /\ p \notin DirtyBlocks(s, {repl})) \/ p \in Stored(s, t, cmd)
    BY DEF Miss
  <2>4. \A p : p \in unsaved' <=>
          \E s1 \in Sets, w1 \in Way :
            blk'[s1][w1].valid /\ blk'[s1][w1].dirty /\ p = <<s1, blk'[s1][w1].tag>>
    <3>1. ASSUME NEW p, p \in unsaved'
          PROVE  \E s1 \in Sets, w1 \in Way :
                   blk'[s1][w1].valid /\ blk'[s1][w1].dirty /\ p = <<s1, blk'[s1][w1].tag>>
      <4>1. CASE p \in Stored(s, t, cmd)
        BY <1>3, <2>2, <4>1
      <4>2. CASE p \in unsaved /\ p \notin DirtyBlocks(s, {repl})
        <5>1. PICK s1 \in Sets, w1 \in Way :
                blk[s1][w1].valid /\ blk[s1][w1].dirty /\ p = <<s1, blk[s1][w1].tag>>
          BY <1>1, <4>2, DirtyPoint
        <5>2. s1 # s \/ w1 # repl  BY <2>1, <4>2, <5>1
        <5>3. QED  BY <1>2, <5>1, <5>2
      <4>3. QED  BY <2>3, <3>1, <4>1, <4>2
    <3>2. ASSUME NEW s1 \in Sets, NEW w1 \in Way, blk'[s1][w1].valid, blk'[s1][w1].dirty
          PROVE  <<s1, blk'[s1][w1].tag>> \in unsaved'
      <4>1. CASE s1 = s /\ w1 = repl
        BY <1>3, <2>2, <2>3, <3>2, <4>1
      <4>2. CASE s1 # s \/ w1 # repl
        <5>1. blk'[s1][w1] = blk[s1][w1]  BY <1>2, <4>2
        <5>2. <<s1, blk[s1][w1].tag>> \in unsaved  BY <1>1, <3>2, <5>1, DirtyPoint
        <5>3. <<s1, blk[s1][w1].tag>> \notin DirtyBlocks(s, {repl})
          <6>1. s1 = s /\ blk[s][repl].valid => blk[s][repl].tag # blk[s][w1].tag
            BY <1>1, <3>2, <4>2, <5>1 DEF OneCopy
          <6>2. QED  BY <2>1, <6>1
        <5>4. QED  BY <2>3, <5>1, <5>2, <5>3
      <4>3. QED  BY <4>1, <4>2
    <3>3. QED  BY <3>1, <3>2
  <2>5. QED  BY <2>4 DEF DirtyKept, DirtyBlocks
<1>11. AtHead(s, t)'  BY <1>3, <1>8 DEF AtHead
<1>12. QED  BY <1>5, <1>6, <1>7, <1>8, <1>9, <1>10, <1>11 DEF BlockInv

\* Flushing the whole cache.
LEMMA FlushBlock ==
  ASSUME BlockInv, cache_flush
  PROVE  BlockInv'
<1>1. /\ BlockType /\ FastHitSound /\ OneCopy /\ HashChains /\ DirtyKept /\ ValidFirst
      /\ UNCHANGED policy
  BY DEF BlockInv, cache_flush, configVars
<1>2. /\ blk' \in [Sets -> [Way -> Blk]]
      /\ \A s1 \in Sets, w1 \in Way :
           ~blk'[s1][w1].valid /\ blk'[s1][w1].tag = blk[s1][w1].tag
  <2>1. /\ blk \in [Sets -> [Way -> Blk]]
        /\ blk' = [s \in Sets |-> [w \in Way |-> [blk[s][w] EXCEPT !.valid = FALSE]]]
    BY <1>1 DEF cache_flush, BlockType
  <2>2. \A r \in Blk : LET f == [r EXCEPT !.valid = FALSE]
                       IN  f \in Blk /\ f.valid = FALSE /\ f.tag = r.tag
    BY DEF Blk
  <2>3. \A s1 \in Sets, w1 \in Way :
          blk'[s1][w1] \in Blk /\ blk'[s1][w1].valid = FALSE /\ blk'[s1][w1].tag = blk[s1][w1].tag
    BY <2>1, <2>2
  <2>4. QED  BY <2>1, <2>3
<1>3. FastHitSound'
  <2>1. last_tagset' = 0 /\ last_blk' = NULL  BY DEF cache_flush, ForgetLast
  <2>2. \A s1 \in Sets, w1 \in Way : <<s1, w1>> # NULL  BY GeometryAssumption
  <2>3. QED  BY <2>1, <2>2 DEF FastHitSound
<1>4. BlockType' /\ OneCopy' /\ HashChains' /\ ValidFirst'
  <2>1. /\ linked' = linked /\ way_pos' = way_pos /\ policy' = policy
        /\ last_tagset' = 0 /\ last_blk' = NULL
    BY <1>1 DEF cache_flush, ForgetLast
  <2>2. BlockType'  BY <1>1, <1>2, <2>1 DEF BlockType
  <2>3. OneCopy' /\ ValidFirst'  BY <1>2 DEF OneCopy, ValidFirst
  <2>4. HashChains'  BY <1>1, <1>2, <2>1 DEF HashChains
  <2>5. QED  BY <2>2, <2>3, <2>4
<1>5. unsaved' = {}
  BY <1>1 DEF cache_flush, DirtyKept
<1>6. DirtyKept'
  BY <1>2, <1>5 DEF DirtyKept, DirtyBlocks
<1>7. QED  BY <1>3, <1>4, <1>6 DEF BlockInv

\* Flushing one block.
LEMMA FlushAddrBlock ==
  ASSUME BlockInv, NEW addr \in Nat, cache_flush_addr(addr)
  PROVE  BlockInv'
<1> DEFINE s == CACHE_SET(addr)
           t == CACHE_TAG(addr)
<1>1. /\ BlockType /\ FastHitSound /\ OneCopy /\ HashChains /\ DirtyKept /\ ValidFirst
      /\ policy' = policy /\ linked' = linked
  BY DEF BlockInv, cache_flush_addr, configVars
<1>2. s \in Sets  BY AddressParts
<1>3. PICK w \in Lookup(s, t) :
        /\ blk' = [blk EXCEPT ![s][w].valid = FALSE]
        /\ ForgetLast
        /\ unsaved' = unsaved \ DirtyBlocks(s, {w})
        /\ way_pos' = [way_pos EXCEPT ![s] = update_way_list(@, w, "Tail")]
  BY DEF cache_flush_addr
<1>4. w \in Way  BY <1>3 DEF Lookup
<1> HIDE DEF s, t
<1>5. /\ blk' \in [Sets -> [Way -> Blk]]
      /\ \A s1 \in Sets, w1 \in Way : s1 # s \/ w1 # w => blk'[s1][w1] = blk[s1][w1]
      /\ blk'[s][w].valid = FALSE /\ blk'[s][w].tag = blk[s][w].tag
  <2> DEFINE r == [blk[s][w] EXCEPT !.valid = FALSE]
  <2>1. blk \in [Sets -> [Way -> Blk]] /\ blk[s][w] \in Blk
    BY <1>1, <1>2, <1>4 DEF BlockType
  <2>2. r \in Blk /\ r.valid = FALSE /\ r.tag = blk[s][w].tag  BY <2>1 DEF Blk
  <2>3. blk' = [blk EXCEPT ![s] = [blk[s] EXCEPT ![w] = r]]  BY <1>3
  <2> HIDE DEF r
  <2>4. QED  BY <1>2, <1>4, <2>1, <2>2, <2>3
<1>6. FastHitSound'
  <2>1. last_tagset' = 0 /\ last_blk' = NULL  BY <1>3 DEF ForgetLast
  <2>2. \A s1 \in Sets, w1 \in Way : <<s1, w1>> # NULL  BY GeometryAssumption
  <2>3. QED  BY <2>1, <2>2 DEF FastHitSound
<1>7. /\ way_pos' \in [Sets -> [Way -> Way]] /\ \A s1 \in Sets : WayList(way_pos'[s1])
      /\ \A s1 \in Sets : s1 # s => way_pos'[s1] = way_pos[s1]
      /\ LastOf(way_pos[s], w, way_pos'[s])
  BY <1>1, <1>2, <1>3, <1>4, TailMoved DEF BlockType
<1>8. BlockType'
  BY <1>1, <1>3, <1>5, <1>6, <1>7 DEF BlockType, ForgetLast
<1>9. OneCopy' /\ HashChains'
  BY <1>1, <1>2, <1>4, <1>5 DEF OneCopy, HashChains
<1>10. ValidFirst'
  BY <1>1, <1>2, <1>4, <1>5, <1>7 DEF ValidFirst, LastOf
<1>11. DirtyKept'
  <2>1. \A p : p \in DirtyBlocks(s, {w}) <=>
          blk[s][w].valid /\ blk[s][w].dirty /\ p = <<s, blk[s][w].tag>>
    BY DEF DirtyBlocks
  <2>2. \A p : p \in unsaved' <=> p \in unsaved /\ p \notin DirtyBlocks(s, {w})
    BY <1>3
  <2>3. ASSUME NEW p, p \in unsaved'
        PROVE  \E s1 \in Sets, w1 \in Way :
                 blk'[s1][w1].valid /\ blk'[s1][w1].dirty /\ p = <<s1, blk'[s1][w1].tag>>
    <3>1. PICK s1 \in Sets, w1 \in Way :
            blk[s1][w1].valid /\ blk[s1][w1].dirty /\ p = <<s1, blk[s1][w1].tag>>
      BY <1>1, <2>2, <2>3, DirtyPoint
    <3>2. s1 # s \/ w1 # w  BY <2>1, <2>2, <2>3, <3>1
    <3>3. QED  BY <1>5, <3>1, <3>2
  <2>4. ASSUME NEW s1 \in Sets, NEW w1 \in Way, blk'[s1][w1].valid, blk'[s1][w1].dirty
        PROVE  <<s1, blk'[s1][w1].tag>> \in unsaved'
    <3>1. s1 # s \/ w1 # w  BY <1>5, <2>4
    <3>2. blk'[s1][w1] = blk[s1][w1]  BY <1>5, <3>1
    <3>3. <<s1, blk[s1][w1].tag>> \in unsaved  BY <1>1, <2>4, <3>2, DirtyPoint
    <3>4. <<s1, blk[s1][w1].tag>> \notin DirtyBlocks(s, {w})
      <4>1. s1 = s /\ blk[s][w].valid => blk[s][w].tag # blk[s][w1].tag
        BY <1>1, <1>4, <2>4, <3>1, <3>2 DEF OneCopy
      <4>2. QED  BY <2>1, <4>1
    <3>5. QED  BY <2>2, <3>2, <3>3, <3>4
  <2>5. QED  BY <2>3, <2>4 DEF DirtyKept, DirtyBlocks
<1>12. QED  BY <1>6, <1>8, <1>9, <1>10, <1>11 DEF BlockInv

-----------------------------------------------------------------------------
(* The order of use.                                                       *)

\* The pairs r are the order of the valid blocks b in a way list, block by block.
Ordered(r, b, pos) ==
  /\ \A p \in r : \E v, w \in Way : /\ b[v].valid /\ b[w].valid /\ pos[v] <= pos[w]
                                    /\ p = <<b[v].tag, b[w].tag>>
  /\ \A v, w \in Way : b[v].valid /\ b[w].valid /\ pos[v] <= pos[w] =>
                         <<b[v].tag, b[w].tag>> \in r

LEMMA OrderPoint ==
  LRUOrder <=> (policy = "LRU" => \A s \in Sets : Ordered(recency[s], blk[s], way_pos[s]))
<1> DEFINE O(s) == {<<blk[s][x[1]].tag, blk[s][x[2]].tag>> : x \in
                      {x \in Way \X Way : /\ blk[s][x[1]].valid /\ blk[s][x[2]].valid
                                         /\ way_pos[s][x[1]] <= way_pos[s][x[2]]}}
<1>1. ASSUME NEW s \in Sets
      PROVE  recency[s] = O(s) <=> Ordered(recency[s], blk[s], way_pos[s])
  <2>1. \A p : p \in O(s) <=>
          \E v, w \in Way : /\ blk[s][v].valid /\ blk[s][w].valid /\ way_pos[s][v] <= way_pos[s][w]
                            /\ p = <<blk[s][v].tag, blk[s][w].tag>>
    <3>1. ASSUME NEW p, p \in O(s)
          PROVE  \E v, w \in Way : /\ blk[s][v].valid /\ blk[s][w].valid
                                   /\ way_pos[s][v] <= way_pos[s][w]
                                   /\ p = <<blk[s][v].tag, blk[s][w].tag>>
      <4>1. PICK x \in Way \X Way :
              /\ blk[s][x[1]].valid /\ blk[s][x[2]].valid /\ way_pos[s][x[1]] <= way_pos[s][x[2]]
              /\ p = <<blk[s][x[1]].tag, blk[s][x[2]].tag>>
        BY <3>1
      <4>2. x[1] \in Way /\ x[2] \in Way  OBVIOUS
      <4>3. QED  BY <4>1, <4>2
    <3>2. ASSUME NEW v \in Way, NEW w \in Way, blk[s][v].valid, blk[s][w].valid,
                 way_pos[s][v] <= way_pos[s][w]
          PROVE  <<blk[s][v].tag, blk[s][w].tag>> \in O(s)
      <4>1. <<v, w>> \in Way \X Way /\ <<v, w>>[1] = v /\ <<v, w>>[2] = w  OBVIOUS
      <4>2. QED  BY <3>2, <4>1
    <3>3. QED  BY <3>1, <3>2
  <2> HIDE DEF O
  <2>2. ASSUME recency[s] = O(s) PROVE Ordered(recency[s], blk[s], way_pos[s])
    BY <2>1, <2>2 DEF Ordered
  <2>3. ASSUME Ordered(recency[s], blk[s], way_pos[s]) PROVE recency[s] = O(s)
    <3>1. \A p : p \in recency[s] <=> p \in O(s)  BY <2>1, <2>3 DEF Ordered
    <3>2. QED  BY <3>1, Zenon
  <2>4. QED  BY <2>2, <2>3
<1>2. QED  BY <1>1 DEF LRUOrder

\* x is the tag of a valid block; x is the first component of a pair.
TagOf(b, x) == \E v \in Way : b[v].valid /\ x = b[v].tag
FirstIn(r, x) == \E p \in r : x = p[1]

\* The first components of the order are the tags of the valid blocks.
LEMMA OrderTags ==
  ASSUME NEW r, NEW b, NEW pos \in [Way -> Way], Ordered(r, b, pos), NEW x
  PROVE  FirstIn(r, x) <=> TagOf(b, x)
<1>1. ASSUME NEW p \in r PROVE \E v \in Way : b[v].valid /\ p[1] = b[v].tag
  BY DEF Ordered
<1>2. ASSUME NEW v \in Way, b[v].valid PROVE \E p \in r : p[1] = b[v].tag
  <2>1. pos[v] <= pos[v]  BY GeometryAssumption DEF Way
  <2>2. <<b[v].tag, b[v].tag>> \in r  BY <1>2, <2>1 DEF Ordered
  <2>3. QED  BY <2>2
<1>3. QED  BY <1>1, <1>2 DEF FirstIn, TagOf

\* A pair of the order does not mention t if neither of its blocks has that tag.
LEMMA WithoutPoint ==
  ASSUME NEW r, NEW t, NEW x, NEW y
  PROVE  <<x, y>> \in Without(r, t) <=> <<x, y>> \in r /\ x # t /\ y # t
BY DEF Without

\* x is the tag of a valid block other than w.
TagBut(b, w, x) == \E v \in Way : v # w /\ b[v].valid /\ x = b[v].tag

\* r2 is the order r after a use of tag t, without the blocks that b no longer
\* holds in ways other than w.
UsedOrder(r, b, w, t, r2) ==
  /\ \A p \in r2 : p = <<p[1], p[2]>>
  /\ \A x, y : <<x, y>> \in r2 <=>
       \/ <<x, y>> \in r /\ TagBut(b, w, x) /\ TagBut(b, w, y)
       \/ x = t /\ (y = t \/ TagBut(b, w, y))

\* The valid blocks are those of b and, in way w, one with the tag t that no
\* other has.
BlockBrought(b, w, t, c) ==
  /\ c[w].valid /\ c[w].tag = t
  /\ \A v \in Way : v # w => /\ c[v].valid <=> b[v].valid
                             /\ c[v].tag = b[v].tag
                             /\ b[v].valid => b[v].tag # t

\* The order after a use of block w, which moves to the head and may be new.
LEMMA UseOrdered ==
  ASSUME NEW r, NEW b, NEW pos \in [Way -> Way], Ordered(r, b, pos),
         NEW w \in Way, NEW new \in [Way -> Way], FirstOf(pos, w, new),
         NEW c, NEW t, BlockBrought(b, w, t, c),
         NEW r2, UsedOrder(r, b, w, t, r2),
         \A u, v \in Way : b[u].valid /\ b[v].valid /\ b[u].tag = b[v].tag => u = v
  PROVE  Ordered(r2, c, new)
<1>0. /\ c[w].valid /\ c[w].tag = t
      /\ \A v \in Way : v # w => /\ c[v].valid <=> b[v].valid
                                 /\ c[v].tag = b[v].tag
                                 /\ b[v].valid => b[v].tag # t
      /\ \A x, y : <<x, y>> \in r2 <=>
           \/ <<x, y>> \in r
                /\ (\E v \in Way : v # w /\ b[v].valid /\ x = b[v].tag)
                /\ (\E v \in Way : v # w /\ b[v].valid /\ y = b[v].tag)
           \/ x = t /\ (y = t \/ \E v \in Way : v # w /\ b[v].valid /\ y = b[v].tag)
      /\ \A p \in r2 : p = <<p[1], p[2]>>
  BY DEF BlockBrought, UsedOrder, TagBut
<1>1. \A v \in Way : pos[v] \in Nat /\ new[v] \in Nat
  <2>1. Way \subseteq Nat  BY GeometryAssumption DEF Way
  <2>2. QED  BY <2>1
<1>2. \A u, v \in Way : u # w /\ v # w => (pos[u] <= pos[v] <=> new[u] <= new[v])
  BY <1>1 DEF FirstOf
<1>3. \A v \in Way : v # w => new[w] < new[v]  BY DEF FirstOf
<1>4. ASSUME NEW u \in Way, NEW v \in Way, c[u].valid, c[v].valid, new[u] <= new[v]
      PROVE  <<c[u].tag, c[v].tag>> \in r2
  <2>1. CASE u = w
    BY <1>0, <1>4, <2>1
  <2>2. CASE u # w
    <3>1. v # w  BY <1>1, <1>3, <1>4, <2>2
    <3>2. b[u].valid /\ b[v].valid /\ pos[u] <= pos[v]  BY <1>0, <1>2, <1>4, <2>2, <3>1
    <3>3. <<b[u].tag, b[v].tag>> \in r  BY <3>2 DEF Ordered
    <3>4. QED  BY <1>0, <2>2, <3>1, <3>2, <3>3
  <2>3. QED  BY <2>1, <2>2
<1>5. ASSUME NEW p \in r2
      PROVE  \E u, v \in Way : c[u].valid /\ c[v].valid /\ new[u] <= new[v] /\ p = <<c[u].tag, c[v].tag>>
  <2> DEFINE x == p[1]
             y == p[2]
  <2>1. p = <<x, y>> /\ <<x, y>> \in r2  BY <1>0, <1>5
  <2> HIDE DEF x, y
  <2>2. CASE x = t /\ y = t
    BY <1>0, <1>1, <2>1, <2>2
  <2>3. CASE x = t /\ \E v \in Way : v # w /\ b[v].valid /\ y = b[v].tag
    <3>1. PICK v \in Way : v # w /\ b[v].valid /\ y = b[v].tag  BY <2>3
    <3>2. new[w] <= new[v]  BY <1>1, <1>3, <3>1
    <3>3. QED  BY <1>0, <2>1, <2>3, <3>1, <3>2
  <2>4. CASE /\ <<x, y>> \in r
             /\ \E v \in Way : v # w /\ b[v].valid /\ x = b[v].tag
             /\ \E v \in Way : v # w /\ b[v].valid /\ y = b[v].tag
    <3>1. PICK u \in Way, v \in Way :
            /\ b[u].valid /\ b[v].valid /\ pos[u] <= pos[v]
            /\ <<x, y>> = <<b[u].tag, b[v].tag>>
      BY <2>4 DEF Ordered
    <3>2. x = b[u].tag /\ y = b[v].tag  BY <3>1
    <3>3. u # w /\ v # w  BY <1>0, <2>4, <3>1, <3>2
    <3>4. c[u].valid /\ c[v].valid /\ new[u] <= new[v] /\ c[u].tag = x /\ c[v].tag = y
      BY <1>0, <1>2, <3>1, <3>2, <3>3
    <3>5. QED  BY <2>1, <3>4
  <2>5. QED  BY <1>0, <2>1, <2>2, <2>3, <2>4
<1>6. QED  BY <1>4, <1>5 DEF Ordered

\* The order of use of each set, as pairs of tags.
OrderInv ==
  /\ recency \in [Sets -> SUBSET (Nat \X Nat)]
  /\ policy = "LRU" => \A s \in Sets : Ordered(recency[s], blk[s], way_pos[s])

\* A pair of natural numbers is the pair of its components.
LEMMA NatPair ==
  ASSUME NEW p \in Nat \X Nat
  PROVE  p = <<p[1], p[2]>> /\ p[1] \in Nat /\ p[2] \in Nat
OBVIOUS

\* The order of a set after a use of block t.
LEMMA UsedPoint ==
  ASSUME recency \in [Sets -> SUBSET (Nat \X Nat)], NEW s \in Sets, NEW t \in Nat
  PROVE  /\ Used(s, t) \in [Sets -> SUBSET (Nat \X Nat)]
         /\ \A s1 \in Sets : s1 # s => Used(s, t)[s1] = recency[s1]
         /\ \A x, y : <<x, y>> \in Used(s, t)[s] <=>
              \/ <<x, y>> \in recency[s] /\ x # t /\ y # t
              \/ x = t /\ (y = t \/ FirstIn(recency[s], y))
<1> DEFINE new == Without(recency[s], t) \cup {<<t, u>> : u \in {t} \cup {p[1] : p \in recency[s]}}
<1>1. Used(s, t) = [recency EXCEPT ![s] = new]  BY DEF Used
<1>2. \A x, y : <<x, y>> \in new <=>
        \/ <<x, y>> \in recency[s] /\ x # t /\ y # t
        \/ x = t /\ (y = t \/ FirstIn(recency[s], y))
  <2>1. \A x, y : <<x, y>> \in {<<t, u>> : u \in {t} \cup {p[1] : p \in recency[s]}} <=>
          x = t /\ (y = t \/ FirstIn(recency[s], y))
    BY DEF FirstIn
  <2>2. \A x, y : <<x, y>> \in Without(recency[s], t) <=> <<x, y>> \in recency[s] /\ x # t /\ y # t
    BY WithoutPoint
  <2>3. QED  BY <2>1, <2>2, Zenon
<1>3. new \in SUBSET (Nat \X Nat)
  <2>1. \A p \in recency[s] : p[1] \in Nat /\ p \in Nat \X Nat  BY NatPair
  <2>2. QED  BY <2>1 DEF Without
<1> HIDE DEF new
<1>4. Used(s, t)[s] = new /\ \A s1 \in Sets : s1 # s => Used(s, t)[s1] = recency[s1]
  BY <1>1
<1>5. QED  BY <1>1, <1>2, <1>3, <1>4

\* The order of a set without block t.
LEMMA DroppedPoint ==
  ASSUME NEW r \in [Sets -> SUBSET (Nat \X Nat)], NEW s \in Sets, NEW t
  PROVE  /\ Dropped(r, s, t) \in [Sets -> SUBSET (Nat \X Nat)]
         /\ \A s1 \in Sets : s1 # s => Dropped(r, s, t)[s1] = r[s1]
         /\ \A x, y : <<x, y>> \in Dropped(r, s, t)[s] <=> <<x, y>> \in r[s] /\ x # t /\ y # t
<1> DEFINE new == Without(r[s], t)
<1>1. Dropped(r, s, t) = [r EXCEPT ![s] = new]  BY DEF Dropped
<1>2. new \in SUBSET (Nat \X Nat)  BY DEF Without
<1>3. \A x, y : <<x, y>> \in new <=> <<x, y>> \in r[s] /\ x # t /\ y # t  BY WithoutPoint
<1> HIDE DEF new
<1>4. QED  BY <1>1, <1>2, <1>3

\* The order depends only on validity, tag and position.
LEMMA SameOrder ==
  ASSUME NEW r, NEW b, NEW pos, NEW c, Ordered(r, b, pos),
         \A v \in Way : (c[v].valid <=> b[v].valid) /\ c[v].tag = b[v].tag
  PROVE  Ordered(r, c, pos)
BY DEF Ordered

\* The order after a use of a block that is there and moves, or is already,
\* at the head.
LEMMA HitOrdered ==
  ASSUME BlockInv, OrderInv, NEW s \in Sets, NEW t \in Nat, NEW w \in Way, NEW cmd,
         blk[s][w].valid, blk[s][w].tag = t, MarkedAs(s, w, cmd), policy = "LRU",
         way_pos'[s] \in [Way -> Way], FirstOf(way_pos[s], w, way_pos'[s]),
         \A s1 \in Sets : s1 # s => way_pos'[s1] = way_pos[s1],
         recency' = Used(s, t)
  PROVE  \A s1 \in Sets : Ordered(recency'[s1], blk'[s1], way_pos'[s1])
<1>1. /\ \A s1 \in Sets : Ordered(recency[s1], blk[s1], way_pos[s1])
      /\ recency \in [Sets -> SUBSET (Nat \X Nat)]
      /\ way_pos \in [Sets -> [Way -> Way]]
      /\ \A u, v \in Way : blk[s][u].valid /\ blk[s][v].valid /\ blk[s][u].tag = blk[s][v].tag => u = v
  BY DEF OrderInv, BlockInv, BlockType, OneCopy
<1>2. \A s1 \in Sets, w1 \in Way : (blk'[s1][w1].valid <=> blk[s1][w1].valid)
                                   /\ blk'[s1][w1].tag = blk[s1][w1].tag
  BY DEF MarkedAs
<1>3. /\ recency' \in [Sets -> SUBSET (Nat \X Nat)]
      /\ \A s1 \in Sets : s1 # s => recency'[s1] = recency[s1]
      /\ \A x, y : <<x, y>> \in recency'[s] <=>
           \/ <<x, y>> \in recency[s] /\ x # t /\ y # t
           \/ x = t /\ (y = t \/ FirstIn(recency[s], y))
  BY <1>1, UsedPoint
<1>4. ASSUME NEW s1 \in Sets, s1 # s PROVE Ordered(recency'[s1], blk'[s1], way_pos'[s1])
  <2>1. recency'[s1] = recency[s1] /\ way_pos'[s1] = way_pos[s1]  BY <1>3, <1>4
  <2>2. Ordered(recency[s1], blk[s1], way_pos[s1])  BY <1>1
  <2>3. \A v \in Way : (blk'[s1][v].valid <=> blk[s1][v].valid) /\ blk'[s1][v].tag = blk[s1][v].tag
    BY <1>2
  <2>4. Ordered(recency[s1], blk'[s1], way_pos[s1])  BY <2>2, <2>3, SameOrder
  <2>5. QED  BY <2>1, <2>4
<1>5. Ordered(recency'[s], blk'[s], way_pos'[s])
  <2>1. Ordered(recency[s], blk[s], way_pos[s]) /\ way_pos[s] \in [Way -> Way]  BY <1>1
  <2>2. \A x : FirstIn(recency[s], x) <=> TagOf(blk[s], x)
    BY <2>1, OrderTags
  <2>3. \A x : TagBut(blk[s], w, x) <=> TagOf(blk[s], x) /\ x # t
    BY <1>1 DEF TagBut, TagOf
  <2>4. \A x, y : <<x, y>> \in recency[s] => TagOf(blk[s], x) /\ TagOf(blk[s], y)
    BY <2>1 DEF Ordered, TagOf
  <2>5. \A p \in recency'[s] : p = <<p[1], p[2]>>  BY <1>3, NatPair
  <2>6. UsedOrder(recency[s], blk[s], w, t, recency'[s])
    BY <1>3, <2>2, <2>3, <2>4, <2>5 DEF UsedOrder
  <2>7. BlockBrought(blk[s], w, t, blk'[s])  BY <1>1, <1>2 DEF BlockBrought
  <2>8. \A u, v \in Way : blk[s][u].valid /\ blk[s][v].valid /\ blk[s][u].tag = blk[s][v].tag => u = v
    BY <1>1
  <2>9. QED  BY <2>1, <2>6, <2>7, <2>8, UseOrdered
<1>6. QED  BY <1>4, <1>5

\* The order does not change when the blocks of a set and their list do not.
LEMMA OrderElsewhere ==
  ASSUME OrderInv, policy = "LRU", NEW s \in Sets,
         \A s1 \in Sets : s1 # s => /\ recency'[s1] = recency[s1] /\ way_pos'[s1] = way_pos[s1]
                                    /\ \A v \in Way : blk'[s1][v] = blk[s1][v],
         Ordered(recency'[s], blk'[s], way_pos'[s])
  PROVE  \A s1 \in Sets : Ordered(recency'[s1], blk'[s1], way_pos'[s1])
<1>1. ASSUME NEW s1 \in Sets, s1 # s PROVE Ordered(recency'[s1], blk'[s1], way_pos'[s1])
  <2>1. /\ recency'[s1] = recency[s1] /\ way_pos'[s1] = way_pos[s1]
        /\ \A v \in Way : blk'[s1][v].valid = blk[s1][v].valid /\ blk'[s1][v].tag = blk[s1][v].tag
    BY <1>1
  <2>2. Ordered(recency[s1], blk[s1], way_pos[s1])  BY DEF OrderInv
  <2>3. Ordered(recency[s1], blk'[s1], way_pos[s1])  BY <2>1, <2>2, SameOrder
  <2>4. QED  BY <2>1, <2>3
<1>2. QED  BY <1>1

\* A hit found by search.
LEMMA HitOrder ==
  ASSUME BlockInv, OrderInv, NEW b, NEW s \in Sets, NEW t \in Nat,
         NEW cmd \in {"Read", "Write"}, NEW w \in Way, Hit(s, t, b, cmd, w), UNCHANGED policy
  PROVE  OrderInv'
<1>1. /\ blk \in [Sets -> [Way -> Blk]] /\ blk' = [blk EXCEPT ![s][w].dirty = @ \/ cmd = "Write"]
      /\ blk[s][w].valid /\ blk[s][w].tag = t /\ recency' = Used(s, t)
      /\ recency \in [Sets -> SUBSET (Nat \X Nat)]
      /\ way_pos \in [Sets -> [Way -> Way]] /\ \A s1 \in Sets : WayList(way_pos[s1])
  BY LookupExact DEF BlockInv, BlockType, OrderInv, Hit
<1>2. recency' \in [Sets -> SUBSET (Nat \X Nat)]  BY <1>1, UsedPoint
<1>3. MarkedAs(s, w, cmd)  BY <1>1, Marked, Zenon
<1>4. ASSUME policy = "LRU" PROVE \A s1 \in Sets : Ordered(recency'[s1], blk'[s1], way_pos'[s1])
  <2>1. way_pos' = [way_pos EXCEPT ![s] = update_way_list(@, w, "Head")]  BY <1>4 DEF Hit
  <2>2. /\ way_pos' \in [Sets -> [Way -> Way]]
        /\ \A s1 \in Sets : s1 # s => way_pos'[s1] = way_pos[s1]
        /\ FirstOf(way_pos[s], w, way_pos'[s])
    BY <1>1, <2>1, HeadMoved, Zenon
  <2>3. way_pos'[s] \in [Way -> Way]  BY <2>2
  <2>4. QED  BY <1>1, <1>3, <1>4, <2>2, <2>3, HitOrdered, Zenon
<1>5. QED  BY <1>2, <1>4 DEF OrderInv

\* A fast hit: the block is at the head already.
LEMMA FastHitOrder ==
  ASSUME BlockInv, OrderInv, NEW b \in Nat, b # 0, NEW s, NEW t, s = b % nsets, t = b \div nsets,
         s \in Sets, t \in Nat, NEW cmd \in {"Read", "Write"}, FastHit(s, t, b, cmd), UNCHANGED policy
  PROVE  OrderInv'
<1>1. /\ blk \in [Sets -> [Way -> Blk]] /\ recency' = Used(s, t) /\ way_pos' = way_pos
      /\ recency \in [Sets -> SUBSET (Nat \X Nat)]
      /\ way_pos \in [Sets -> [Way -> Way]] /\ \A s1 \in Sets : WayList(way_pos[s1])
  BY DEF BlockInv, BlockType, OrderInv, FastHit
<1>2. recency' \in [Sets -> SUBSET (Nat \X Nat)]  BY <1>1, UsedPoint
<1>3. PICK w \in Way : /\ last_blk = <<s, w>> /\ blk[s][w].valid /\ blk[s][w].tag = t
                       /\ policy = "LRU" => way_pos[s][w] = 0
  <2>1. b = last_tagset  BY DEF FastHit
  <2>2. QED  BY <2>1, LastBlock
<1>4. MarkedAs(s, w, cmd)
  <2>1. blk' = [blk EXCEPT ![s][w].dirty = @ \/ cmd = "Write"]  BY <1>3 DEF FastHit
  <2>2. QED  BY <1>1, <2>1, Marked, Zenon
<1>5. ASSUME policy = "LRU" PROVE \A s1 \in Sets : Ordered(recency'[s1], blk'[s1], way_pos'[s1])
  <2>1. FirstOf(way_pos[s], w, way_pos[s])
    <3>1. \A v \in Way : way_pos[s][v] \in Nat  BY <1>1, GeometryAssumption DEF Way
    <3>2. \A v \in Way : v # w => way_pos[s][v] # 0  BY <1>1, <1>3, <1>5 DEF WayList
    <3>3. QED  BY <1>3, <1>5, <3>1, <3>2 DEF FirstOf
  <2>2. way_pos'[s] \in [Way -> Way] /\ FirstOf(way_pos[s], w, way_pos'[s])
        /\ \A s1 \in Sets : s1 # s => way_pos'[s1] = way_pos[s1]
    BY <1>1, <2>1
  <2>3. QED  BY <1>1, <1>3, <1>4, <1>5, <2>2, HitOrdered, Zenon
<1>6. QED  BY <1>2, <1>5 DEF OrderInv

\* A miss: the replaced block leaves the order, the new one is first.
LEMMA MissOrder ==
  ASSUME BlockInv, OrderInv, NEW b, NEW s \in Sets, NEW t \in Nat, NEW cmd,
         NEW repl \in Way, Miss(s, t, b, cmd, repl), UNCHANGED policy
  PROVE  OrderInv'
<1> DEFINE old == blk[s][repl].tag
<1>1. /\ blk \in [Sets -> [Way -> Blk]]
      /\ blk' = [blk EXCEPT ![s][repl] = [tag |-> t, valid |-> TRUE, dirty |-> cmd = "Write"]]
      /\ \A w \in Way : ~(blk[s][w].valid /\ blk[s][w].tag = t)
      /\ recency' = IF blk[s][repl].valid THEN Dropped(Used(s, t), s, old) ELSE Used(s, t)
      /\ recency \in [Sets -> SUBSET (Nat \X Nat)]
      /\ way_pos \in [Sets -> [Way -> Way]] /\ \A s1 \in Sets : WayList(way_pos[s1])
      /\ OneCopy
  BY LookupExact DEF BlockInv, BlockType, OrderInv, Miss
<1> HIDE DEF old
<1>2. /\ \A s1 \in Sets : s1 # s => \A v \in Way : blk'[s1][v] = blk[s1][v]
      /\ \A v \in Way : v # repl => blk'[s][v] = blk[s][v]
      /\ blk'[s][repl].valid /\ blk'[s][repl].tag = t
  <2> DEFINE r == [tag |-> t, valid |-> TRUE, dirty |-> cmd = "Write"]
  <2>1. blk' = [blk EXCEPT ![s] = [blk[s] EXCEPT ![repl] = r]]  BY <1>1
  <2>2. r.valid /\ r.tag = t  OBVIOUS
  <2> HIDE DEF r
  <2>3. QED  BY <1>1, <2>1, <2>2
<1>3. /\ Used(s, t) \in [Sets -> SUBSET (Nat \X Nat)]
      /\ \A s1 \in Sets : s1 # s => Used(s, t)[s1] = recency[s1]
      /\ \A x, y : <<x, y>> \in Used(s, t)[s] <=>
           \/ <<x, y>> \in recency[s] /\ x # t /\ y # t
           \/ x = t /\ (y = t \/ FirstIn(recency[s], y))
  BY <1>1, UsedPoint
<1>4. /\ recency' \in [Sets -> SUBSET (Nat \X Nat)]
      /\ \A s1 \in Sets : s1 # s => recency'[s1] = recency[s1]
      /\ \A x, y : <<x, y>> \in recency'[s] <=>
           /\ <<x, y>> \in Used(s, t)[s]
           /\ blk[s][repl].valid => x # old /\ y # old
  <2>1. CASE blk[s][repl].valid
    <3>1. recency' = Dropped(Used(s, t), s, old)  BY <1>1, <2>1
    <3>2. QED  BY <1>3, <2>1, <3>1, DroppedPoint
  <2>2. CASE ~blk[s][repl].valid
    BY <1>1, <1>3, <2>2
  <2>3. QED  BY <2>1, <2>2
<1>5. ASSUME policy = "LRU" PROVE \A s1 \in Sets : Ordered(recency'[s1], blk'[s1], way_pos'[s1])
  <2>1. way_pos' = [way_pos EXCEPT ![s] = update_way_list(@, repl, "Head")]
    BY <1>5 DEF Miss
  <2>2. /\ way_pos' \in [Sets -> [Way -> Way]]
        /\ \A s1 \in Sets : s1 # s => way_pos'[s1] = way_pos[s1]
        /\ FirstOf(way_pos[s], repl, way_pos'[s])
    BY <1>1, <2>1, HeadMoved, Zenon
  <2>3. /\ Ordered(recency[s], blk[s], way_pos[s]) /\ way_pos[s] \in [Way -> Way]
        /\ way_pos'[s] \in [Way -> Way]
    BY <1>1, <1>5, <2>2 DEF OrderInv
  <2>4. \A x : FirstIn(recency[s], x) <=> TagOf(blk[s], x)  BY <2>3, OrderTags
  <2>5. \A x : TagBut(blk[s], repl, x) <=> TagOf(blk[s], x) /\ (blk[s][repl].valid => x # old)
    BY <1>1 DEF TagBut, TagOf, OneCopy, old
  <2>6. /\ \A x, y : <<x, y>> \in recency[s] => TagOf(blk[s], x) /\ TagOf(blk[s], y)
        /\ ~TagOf(blk[s], t)
    BY <1>1, <2>3 DEF Ordered, TagOf
  <2>7. blk[s][repl].valid => t # old  BY <1>1 DEF old
  <2>8. UsedOrder(recency[s], blk[s], repl, t, recency'[s])
    <3>1. \A p \in recency'[s] : p = <<p[1], p[2]>>  BY <1>4, NatPair
    <3>2. \A x, y : <<x, y>> \in recency'[s] <=>
            \/ <<x, y>> \in recency[s] /\ TagBut(blk[s], repl, x) /\ TagBut(blk[s], repl, y)
            \/ x = t /\ (y = t \/ TagBut(blk[s], repl, y))
      <4>1. ASSUME NEW x, NEW y
            PROVE  <<x, y>> \in recency'[s] <=>
                     \/ <<x, y>> \in recency[s] /\ TagBut(blk[s], repl, x) /\ TagBut(blk[s], repl, y)
                     \/ x = t /\ (y = t \/ TagBut(blk[s], repl, y))
        <5>1. <<x, y>> \in recency'[s] <=>
                /\ \/ <<x, y>> \in recency[s] /\ x # t /\ y # t
                   \/ x = t /\ (y = t \/ FirstIn(recency[s], y))
                /\ blk[s][repl].valid => x # old /\ y # old
          BY <1>3, <1>4
        <5>2. /\ FirstIn(recency[s], y) <=> TagOf(blk[s], y)
              /\ TagBut(blk[s], repl, y) <=> TagOf(blk[s], y) /\ (blk[s][repl].valid => y # old)
              /\ TagBut(blk[s], repl, x) <=> TagOf(blk[s], x) /\ (blk[s][repl].valid => x # old)
              /\ <<x, y>> \in recency[s] => TagOf(blk[s], x) /\ TagOf(blk[s], y)
          BY <2>4, <2>5, <2>6
        <5>3. (x = t => ~TagOf(blk[s], x)) /\ (y = t => ~TagOf(blk[s], y))  BY <2>6
        <5>4. CASE x = t
          BY <2>7, <5>1, <5>2, <5>3, <5>4
        <5>5. CASE x # t
          BY <2>7, <5>1, <5>2, <5>3, <5>5
        <5>6. QED  BY <5>4, <5>5
      <4>2. QED  BY <4>1
    <3>3. QED  BY <3>1, <3>2 DEF UsedOrder
  <2>9. BlockBrought(blk[s], repl, t, blk'[s])  BY <1>1, <1>2 DEF BlockBrought
  <2>10. \A u, v \in Way : blk[s][u].valid /\ blk[s][v].valid /\ blk[s][u].tag = blk[s][v].tag => u = v
    BY <1>1 DEF OneCopy
  <2>11. Ordered(recency'[s], blk'[s], way_pos'[s])
    BY <2>2, <2>3, <2>8, <2>9, <2>10, UseOrdered
  <2>12. QED  BY <1>2, <1>4, <1>5, <2>2, <2>11, OrderElsewhere
<1>6. QED  BY <1>4, <1>5 DEF OrderInv

\* Flushing the whole cache.
LEMMA FlushOrder ==
  ASSUME BlockInv, OrderInv, cache_flush
  PROVE  OrderInv'
<1>1. recency' = [s \in Sets |-> {}]  BY DEF cache_flush
<1>2. \A s \in Sets, w \in Way : ~blk'[s][w].valid
  <2>1. /\ blk \in [Sets -> [Way -> Blk]]
        /\ blk' = [s \in Sets |-> [w \in Way |-> [blk[s][w] EXCEPT !.valid = FALSE]]]
    BY DEF cache_flush, BlockInv, BlockType
  <2>2. \A r \in Blk : [r EXCEPT !.valid = FALSE].valid = FALSE  BY DEF Blk
  <2>3. QED  BY <2>1, <2>2
<1>3. \A s \in Sets : Ordered(recency'[s], blk'[s], way_pos'[s])
  BY <1>1, <1>2 DEF Ordered
<1>4. QED  BY <1>1, <1>3 DEF OrderInv

\* Flushing one block, which moves to the tail and leaves the order.
LEMMA FlushAddrOrder ==
  ASSUME BlockInv, OrderInv, NEW addr \in Nat, cache_flush_addr(addr)
  PROVE  OrderInv'
<1> DEFINE s == CACHE_SET(addr)
           t == CACHE_TAG(addr)
<1>1. /\ blk \in [Sets -> [Way -> Blk]] /\ recency \in [Sets -> SUBSET (Nat \X Nat)]
      /\ way_pos \in [Sets -> [Way -> Way]] /\ \A s1 \in Sets : WayList(way_pos[s1])
      /\ OneCopy /\ HashChains /\ policy' = policy
  BY DEF BlockInv, BlockType, OrderInv, cache_flush_addr, configVars
<1>2. s \in Sets /\ t \in Nat  BY AddressParts
<1>3. PICK w \in Lookup(s, t) :
        /\ blk' = [blk EXCEPT ![s][w].valid = FALSE]
        /\ way_pos' = [way_pos EXCEPT ![s] = update_way_list(@, w, "Tail")]
        /\ recency' = Dropped(recency, s, t)
  BY DEF cache_flush_addr
<1>4. w \in Way  BY <1>3 DEF Lookup
<1> HIDE DEF s, t
<1>5. blk[s][w].valid /\ blk[s][w].tag = t  BY <1>1, <1>2, <1>3, <1>4, LookupExact
<1>6. /\ \A s1 \in Sets : s1 # s => \A v \in Way : blk'[s1][v] = blk[s1][v]
      /\ \A v \in Way : v # w => blk'[s][v] = blk[s][v]
      /\ ~blk'[s][w].valid
  <2> DEFINE r == [blk[s][w] EXCEPT !.valid = FALSE]
  <2>1. blk[s][w] \in Blk  BY <1>1, <1>2, <1>4
  <2>2. r.valid = FALSE  BY <2>1 DEF Blk
  <2>3. blk' = [blk EXCEPT ![s] = [blk[s] EXCEPT ![w] = r]]  BY <1>3
  <2> HIDE DEF r
  <2>4. QED  BY <1>1, <1>2, <1>4, <2>2, <2>3
<1>7. /\ recency' \in [Sets -> SUBSET (Nat \X Nat)]
      /\ \A s1 \in Sets : s1 # s => recency'[s1] = recency[s1]
      /\ \A x, y : <<x, y>> \in recency'[s] <=> <<x, y>> \in recency[s] /\ x # t /\ y # t
  BY <1>1, <1>2, <1>3, DroppedPoint
<1>8. /\ way_pos' \in [Sets -> [Way -> Way]]
      /\ \A s1 \in Sets : s1 # s => way_pos'[s1] = way_pos[s1]
      /\ LastOf(way_pos[s], w, way_pos'[s])
  BY <1>1, <1>2, <1>3, <1>4, TailMoved, Zenon
<1>9. ASSUME policy = "LRU" PROVE \A s1 \in Sets : Ordered(recency'[s1], blk'[s1], way_pos'[s1])
  <2>1. Ordered(recency[s], blk[s], way_pos[s])  BY <1>2, <1>9 DEF OrderInv
  <2>2. \A u, v \in Way : u # w /\ v # w =>
          (way_pos[s][u] <= way_pos[s][v] <=> way_pos'[s][u] <= way_pos'[s][v])
    <3>1. Way \subseteq Nat  BY GeometryAssumption DEF Way
    <3>2. \A v \in Way : way_pos[s][v] \in Nat /\ way_pos'[s][v] \in Nat
      <4>1. way_pos[s] \in [Way -> Way] /\ way_pos'[s] \in [Way -> Way]  BY <1>1, <1>2, <1>8
      <4>2. QED  BY <3>1, <4>1
    <3>3. QED  BY <1>8, <3>2 DEF LastOf
  <2>3. \A v \in Way : v # w /\ blk[s][v].valid => blk[s][v].tag # t
    BY <1>1, <1>2, <1>4, <1>5 DEF OneCopy
  <2>4. ASSUME NEW p \in recency'[s]
        PROVE  \E u, v \in Way : /\ blk'[s][u].valid /\ blk'[s][v].valid
                                 /\ way_pos'[s][u] <= way_pos'[s][v]
                                 /\ p = <<blk'[s][u].tag, blk'[s][v].tag>>
    <3>1. p = <<p[1], p[2]>>
      <4>1. recency'[s] \in SUBSET (Nat \X Nat)  BY <1>2, <1>7
      <4>2. QED  BY <4>1, NatPair
    <3>2. p \in recency[s] /\ p[1] # t /\ p[2] # t  BY <1>7, <2>4, <3>1
    <3>3. PICK u \in Way, v \in Way :
            /\ blk[s][u].valid /\ blk[s][v].valid /\ way_pos[s][u] <= way_pos[s][v]
            /\ p = <<blk[s][u].tag, blk[s][v].tag>>
      BY <2>1, <3>2 DEF Ordered
    <3>4. u # w /\ v # w  BY <1>5, <3>2, <3>3
    <3>5. blk'[s][u] = blk[s][u] /\ blk'[s][v] = blk[s][v] /\ way_pos'[s][u] <= way_pos'[s][v]
      BY <1>6, <2>2, <3>3, <3>4
    <3>6. QED  BY <3>3, <3>5
  <2>5. ASSUME NEW u \in Way, NEW v \in Way, blk'[s][u].valid, blk'[s][v].valid,
               way_pos'[s][u] <= way_pos'[s][v]
        PROVE  <<blk'[s][u].tag, blk'[s][v].tag>> \in recency'[s]
    <3>1. u # w /\ v # w  BY <1>6, <2>5
    <3>2. blk'[s][u] = blk[s][u] /\ blk'[s][v] = blk[s][v] /\ way_pos[s][u] <= way_pos[s][v]
      BY <1>6, <2>2, <2>5, <3>1
    <3>3. <<blk[s][u].tag, blk[s][v].tag>> \in recency[s]  BY <2>1, <2>5, <3>2 DEF Ordered
    <3>4. QED  BY <1>7, <2>3, <2>5, <3>1, <3>2, <3>3
  <2>6. Ordered(recency'[s], blk'[s], way_pos'[s])  BY <2>4, <2>5 DEF Ordered
  <2>7. QED  BY <1>2, <1>6, <1>7, <1>8, <1>9, <2>6, OrderElsewhere
<1>10. QED  BY <1>1, <1>7, <1>9 DEF OrderInv

-----------------------------------------------------------------------------
(* The prefetchers.                                                        *)

\* What prefetcher tables hold, and the accesses they stand for.
TableType ==
  /\ <<prefetch_type, policy>> \in Configurations
  /\ rpt \in [RptIndex -> RptEntry]
  /\ latest \in [RptIndex -> [1..2 -> [pc : Nat, addr : Nat]]]

\* An entry in use belongs to the instruction that last accessed it; one never
\* used is in its initial state.
Owned ==
  \A i \in RptIndex :
    /\ rpt[i].tag # 0 => index(latest[i][1].pc) = i
    /\ rpt[i].tag = 0 => rpt[i].state = "Initial"

TableInv == TableType /\ Owned /\ StrideIsLast

QueueType ==
  /\ miss_queue \in [QueueSlots -> Nat]
  /\ miss_queue_head \in QueueSlots
  /\ miss_queue_size \in 0..MISS_QUEUE_MAX_SIZE

\* The configuration in use.
LEMMA Configured ==
  ASSUME TableType
  PROVE  /\ prefetch_type \in Nat /\ policy \in {"LRU", "FIFO", "Random"}
         /\ prefetch_type >= 2 => rpt_size \in Nat \ {0} /\ RptIndex = 0..(rpt_size - 1)
<1>1. <<prefetch_type, policy>> \in Nat \X {"LRU", "FIFO", "Random"}
  BY TableAssumption DEF TableType
<1>2. QED  BY <1>1, TableAssumption DEF rpt_size, RptIndex

\* The entry of an instruction exists, and the instruction has a nonzero tag.
LEMMA InstructionEntry ==
  ASSUME TableType, prefetch_type >= 2, NEW pc \in PC
  PROVE  pc \in Nat /\ index(pc) \in RptIndex /\ tag(pc) \in Nat \ {0}
<1>1. pc \in Nat  BY ProgramAssumption
<1>2. rpt_size \in Nat \ {0} /\ RptIndex = 0..(rpt_size - 1) /\ prefetch_type \in Nat  BY Configured
<1>3. index(pc) \in RptIndex /\ tag(pc) \in Nat  BY <1>1, <1>2, DivMod DEF index, tag
<1>4. tag(pc) # 0
  <2>1. CASE prefetch_type = 2  BY <2>1, ProgramAssumption DEF tag, rpt_size
  <2>2. CASE prefetch_type # 2
    <3>1. PICK c \in Configurations : c = <<prefetch_type, policy>>  BY DEF TableType
    <3>2. c[1] = prefetch_type /\ c[1] > 2  BY <1>2, <2>2, <3>1
    <3>3. pc \div c[1] # 0  BY <3>2, ProgramAssumption
    <3>4. QED  BY <2>2, <3>2, <3>3 DEF tag, rpt_size
  <2>3. QED  BY <2>1, <2>2
<1>5. QED  BY <1>1, <1>3, <1>4

\* An instruction is determined by its entry and its tag.
LEMMA SameInstruction ==
  ASSUME TableType, prefetch_type >= 2, NEW a \in Nat, NEW b \in Nat,
         index(a) = index(b), tag(a) = tag(b)
  PROVE  a = b
<1>1. rpt_size \in Nat \ {0}  BY Configured
<1>2. QED  BY <1>1, DivModUnique DEF index, tag

\* Accessing addr after e.prev_addr: the entry records the distance unless it
\* is back in its initial state.
LEMMA NextEntryStride ==
  ASSUME NEW e \in RptEntry, NEW addr \in Nat, NEW f, f = NextEntry(e, addr)
  PROVE  /\ f \in RptEntry /\ f.tag = e.tag /\ f.prev_addr = addr
         /\ f.state # "Initial" => SignedStride(f) = addr - e.prev_addr
<1> DEFINE new_stride  == IF addr > e.prev_addr THEN addr - e.prev_addr ELSE e.prev_addr - addr
           is_negative == e.prev_addr > addr
           condition   == new_stride = e.stride /\ is_negative = e.is_negative
           next        == get_next_rpt_state(e.state, condition)
           update      == ~condition /\ next \in {"Transient", "NoPrediction"}
<1>1. /\ e.prev_addr \in Nat /\ e.stride \in Nat /\ e.is_negative \in BOOLEAN /\ e.tag \in Nat
      /\ e.state \in rpt_state_t
  BY DEF RptEntry
<1>2. new_stride \in Nat /\ is_negative \in BOOLEAN  BY <1>1
<1>3. /\ next \in rpt_state_t
      /\ ~condition => next # "Steady"
  BY <1>1 DEF get_next_rpt_state, rpt_state_t
<1>4. f = [tag         |-> e.tag,
           prev_addr   |-> addr,
           stride      |-> IF update THEN new_stride ELSE e.stride,
           is_negative |-> IF update THEN is_negative ELSE e.is_negative,
           state       |-> next]
  BY DEF NextEntry
<1>5. (IF is_negative THEN -new_stride ELSE new_stride) = addr - e.prev_addr
  BY <1>1
<1> HIDE DEF next
<1>6. f \in RptEntry /\ f.tag = e.tag /\ f.prev_addr = addr /\ f.state = next
  <2> HIDE DEF new_stride, is_negative, update
  <2>1. QED  BY <1>1, <1>2, <1>3, <1>4 DEF RptEntry
<1>7. ASSUME next # "Initial" PROVE f.stride = new_stride /\ (f.is_negative <=> is_negative)
  <2>1. CASE update
    <3>1. f.stride = new_stride /\ f.is_negative = is_negative  BY <1>4, <2>1
    <3>2. QED  BY <3>1
  <2>2. CASE ~update
    <3>1. condition  BY <1>3, <1>7, <2>2 DEF rpt_state_t
    <3>2. f.stride = e.stride /\ f.is_negative = e.is_negative  BY <1>4, <2>2
    <3>3. QED  BY <3>1, <3>2
  <2>3. QED  BY <2>1, <2>2
<1>8. QED  BY <1>5, <1>6, <1>7 DEF SignedStride

\* One entry and its history change.
LEMMA TableStep ==
  ASSUME TableInv, prefetch_type >= 2, NEW pc \in PC, NEW addr \in Nat,
         rpt' = [rpt EXCEPT ![index(pc)] = UpdatedEntry(pc, addr)],
         latest' = [latest EXCEPT ![index(pc)] = Recent(@, [pc |-> pc, addr |-> addr], 2)],
         UNCHANGED configVars
  PROVE  TableInv'
<1> DEFINE j == index(pc)
           e == rpt[j]
           f == UpdatedEntry(pc, addr)
           r == [pc |-> pc, addr |-> addr]
           h == Recent(latest[j], r, 2)
<1>1. TableType /\ Owned /\ StrideIsLast  BY DEF TableInv
<1>2. pc \in Nat /\ j \in RptIndex /\ tag(pc) \in Nat \ {0}  BY <1>1, InstructionEntry
<1>3. /\ rpt \in [RptIndex -> RptEntry] /\ latest \in [RptIndex -> [1..2 -> [pc : Nat, addr : Nat]]]
      /\ e \in RptEntry /\ latest[j] \in [1..2 -> [pc : Nat, addr : Nat]]
  BY <1>1, <1>2 DEF TableType
<1>4. /\ h \in [1..2 -> [pc : Nat, addr : Nat]] /\ h[1] = r /\ h[2] = latest[j][1]
      /\ r.pc = pc /\ r.addr = addr /\ latest[j][1].pc \in Nat
  BY <1>2, <1>3 DEF Recent
<1>5. /\ f \in RptEntry /\ f.tag = tag(pc) /\ f.prev_addr = addr
      /\ f.state # "Initial" =>
           latest[j][1].pc = pc /\ SignedStride(f) = addr - latest[j][1].addr
  <2>1. CASE e.tag = tag(pc)
    <3>1. f = NextEntry(e, addr)  BY <2>1 DEF UpdatedEntry
    <3>2. tag(latest[j][1].pc) = tag(pc) /\ e.prev_addr = latest[j][1].addr
      BY <1>1, <1>2, <2>1 DEF StrideIsLast
    <3>3. index(latest[j][1].pc) = index(pc)
      BY <1>1, <1>2, <2>1 DEF Owned
    <3>4. latest[j][1].pc = pc
      <4> DEFINE q == latest[j][1].pc
      <4>1. q \in Nat /\ index(q) = index(pc) /\ tag(q) = tag(pc)  BY <1>4, <3>2, <3>3
      <4> HIDE DEF q, j
      <4>2. q = pc  BY <1>1, <1>2, <4>1, SameInstruction
      <4>3. QED  BY <4>2 DEF q
    <3> HIDE DEF f, e, j
    <3>5. /\ f \in RptEntry /\ f.tag = e.tag /\ f.prev_addr = addr
          /\ f.state # "Initial" => SignedStride(f) = addr - e.prev_addr
      BY <1>3, <3>1, NextEntryStride
    <3>6. QED  BY <2>1, <3>2, <3>4, <3>5
  <2>2. CASE e.tag # tag(pc)
    <3>1. f = [tag |-> tag(pc), prev_addr |-> addr, stride |-> 0, is_negative |-> FALSE,
               state |-> "Initial"]
      BY <2>2 DEF UpdatedEntry, NewEntry
    <3>2. QED  BY <1>2, <3>1 DEF RptEntry, rpt_state_t
  <2>3. QED  BY <2>1, <2>2
<1>6. /\ prefetch_type' = prefetch_type /\ policy' = policy /\ RptIndex' = RptIndex
      /\ rpt_size' = rpt_size
  BY DEF configVars, RptIndex, rpt_size
<1>7. rpt' = [rpt EXCEPT ![j] = f] /\ latest' = [latest EXCEPT ![j] = h]  OBVIOUS
<1> HIDE DEF f, h, r, e
<1>8. /\ rpt' \in [RptIndex -> RptEntry] /\ rpt'[j] = f
      /\ latest' \in [RptIndex -> [1..2 -> [pc : Nat, addr : Nat]]] /\ latest'[j] = h
      /\ \A i \in RptIndex : i # j => rpt'[i] = rpt[i] /\ latest'[i] = latest[i]
  <2> HIDE DEF j
  <2>1. /\ rpt' \in [RptIndex -> RptEntry] /\ rpt'[j] = f
        /\ \A i \in RptIndex : i # j => rpt'[i] = rpt[i]
    BY <1>2, <1>3, <1>5, <1>7
  <2>2. /\ latest' \in [RptIndex -> [1..2 -> [pc : Nat, addr : Nat]]] /\ latest'[j] = h
        /\ \A i \in RptIndex : i # j => latest'[i] = latest[i]
    <3> DEFINE L == [1..2 -> [pc : Nat, addr : Nat]]
    <3>1. latest \in [RptIndex -> L] /\ h \in L  BY <1>3, <1>4
    <3> HIDE DEF L
    <3>2. latest' \in [RptIndex -> L] /\ latest'[j] = h
          /\ \A i \in RptIndex : i # j => latest'[i] = latest[i]
      BY <1>2, <1>7, <3>1
    <3>3. QED  BY <3>2 DEF L
  <2>3. QED  BY <2>1, <2>2
<1>9. TableType'  BY <1>1, <1>6, <1>8 DEF TableType
<1>10. Owned'
  <2>1. SUFFICES ASSUME NEW i \in RptIndex
                 PROVE  /\ rpt'[i].tag # 0 => latest'[i][1].pc % rpt_size = i
                        /\ rpt'[i].tag = 0 => rpt'[i].state = "Initial"
    BY <1>6 DEF Owned, index
  <2>2. CASE i = j
    <3>1. rpt'[i].tag # 0  BY <1>2, <1>5, <1>8, <2>2
    <3>2. latest'[i][1].pc = pc  BY <1>4, <1>8, <2>2
    <3>3. QED  BY <2>2, <3>1, <3>2 DEF index
  <2>3. CASE i # j
    <3>1. rpt'[i] = rpt[i] /\ latest'[i] = latest[i]  BY <1>8, <2>3
    <3>2. QED  BY <1>1, <3>1 DEF Owned, index
  <2>4. QED  BY <2>2, <2>3
<1>11. StrideIsLast'
  <2>1. SUFFICES ASSUME NEW i \in RptIndex
                 PROVE  /\ rpt'[i].tag # 0 => /\ latest'[i][1].pc \div rpt_size = rpt'[i].tag
                                             /\ rpt'[i].prev_addr = latest'[i][1].addr
                        /\ rpt'[i].state # "Initial" =>
                             /\ latest'[i][1].pc = latest'[i][2].pc
                             /\ SignedStride(rpt'[i]) = latest'[i][1].addr - latest'[i][2].addr
    BY <1>6 DEF StrideIsLast, tag
  <2>2. CASE i = j
    <3>1. /\ latest'[i][1].pc = pc /\ latest'[i][1].addr = addr
          /\ latest'[i][2] = latest[j][1] /\ rpt'[i] = f
      BY <1>4, <1>8, <2>2
    <3>2. f.tag = pc \div rpt_size  BY <1>5 DEF tag
    <3>3. QED  BY <1>5, <3>1, <3>2
  <2>3. CASE i # j
    <3>1. rpt'[i] = rpt[i] /\ latest'[i] = latest[i]  BY <1>8, <2>3
    <3>2. QED  BY <1>1, <3>1 DEF StrideIsLast, tag
  <2>4. QED  BY <2>2, <2>3
<1>12. QED  BY <1>9, <1>10, <1>11 DEF TableInv

\* A step that leaves the tables alone.
LEMMA TableKept ==
  ASSUME TableInv, UNCHANGED <<configVars, rpt, latest>>
  PROVE  TableInv'
<1>1. /\ prefetch_type' = prefetch_type /\ policy' = policy /\ rpt' = rpt /\ latest' = latest
  BY DEF configVars
<1>2. RptIndex' = RptIndex /\ rpt_size' = rpt_size  BY <1>1 DEF RptIndex, rpt_size
<1>3. TableType /\ Owned /\ StrideIsLast  BY DEF TableInv
<1>4. TableType'  BY <1>1, <1>2, <1>3 DEF TableType
<1>5. Owned'  BY <1>1, <1>2, <1>3 DEF Owned, index
<1>6. StrideIsLast'  BY <1>1, <1>2, <1>3 DEF StrideIsLast, tag
<1>7. QED  BY <1>4, <1>5, <1>6 DEF TableInv

\* What an access prefetches and learns.
LEMMA PrefetchStep ==
  ASSUME TableInv, NEW pc \in PC, NEW addr \in Nat, generate_prefetch(pc, addr),
         UNCHANGED configVars, miss_queue' \in [QueueSlots -> Nat]
  PROVE  TableInv' /\ prefetch_addr' \in Nat
<1>1. TableInv'
  <2>1. CASE prefetch_type >= 2
    <3>1. /\ rpt' = [rpt EXCEPT ![index(pc)] = UpdatedEntry(pc, addr)]
          /\ latest' = [latest EXCEPT ![index(pc)] = Recent(@, [pc |-> pc, addr |-> addr], 2)]
      BY <2>1 DEF generate_prefetch
    <3>2. QED  BY <2>1, <3>1, TableStep
  <2>2. CASE ~(prefetch_type >= 2)
    BY <2>2, TableKept DEF generate_prefetch
  <2>3. QED  BY <2>1, <2>2
<1>2. TableType /\ ADDR_SPACE \in Nat \ {0} /\ bsize \in Nat
  BY LayoutAssumption, Zenon DEF TableInv
<1>3. ASSUME prefetch_type >= 2
      PROVE  Extrapolated(UpdatedEntry(pc, addr), addr) \in Nat
  <2>1. index(pc) \in RptIndex' /\ rpt'[index(pc)] = UpdatedEntry(pc, addr)
    <3>1. index(pc) \in RptIndex  BY <1>2, <1>3, InstructionEntry
    <3>2. RptIndex' = RptIndex  BY DEF configVars, RptIndex, rpt_size
    <3>3. rpt' = [rpt EXCEPT ![index(pc)] = UpdatedEntry(pc, addr)] /\ rpt \in [RptIndex -> RptEntry]
      BY <1>2, <1>3 DEF generate_prefetch, TableType
    <3>4. QED  BY <3>1, <3>2, <3>3
  <2>2. UpdatedEntry(pc, addr) \in RptEntry
    <3>1. rpt' \in [RptIndex' -> RptEntry]  BY <1>1 DEF TableInv, TableType
    <3>2. QED  BY <2>1, <3>1
  <2>3. UpdatedEntry(pc, addr).stride \in Nat  BY <2>2 DEF RptEntry
  <2>4. QED  BY <1>2, <2>3 DEF Extrapolated
<1>4. ASSUME miss_queue_get_next_miss_addr(addr) PROVE prefetch_addr' \in Nat
  <2>1. MISS_QUEUE_MAX_SIZE \in Nat \ {0}  BY TableAssumption
  <2>2. \A i \in QueueSlots : (i + 1) % MISS_QUEUE_MAX_SIZE \in QueueSlots
    BY <2>1 DEF QueueSlots
  <2>3. QED  BY <1>4, <2>2 DEF miss_queue_get_next_miss_addr
<1>5. CASE prefetch_type = 0  BY <1>1, <1>5 DEF generate_prefetch
<1>6. CASE prefetch_type = 1  BY <1>1, <1>2, <1>6 DEF generate_prefetch, next_line_prefetcher
<1>7. CASE prefetch_type >= 2
  BY <1>1, <1>3, <1>4, <1>7 DEF generate_prefetch, open_ended_prefetcher, stride_prefetcher
<1>8. prefetch_type \in Nat  BY <1>2, Configured
<1>9. QED  BY <1>1, <1>5, <1>6, <1>7, <1>8

\* The miss queue stays within its bounds.
LEMMA QueueStep ==
  ASSUME QueueType, NEW addr \in Nat, miss_queue_insert(addr)
  PROVE  QueueType'
<1> DEFINE head == IF miss_queue_size = MISS_QUEUE_MAX_SIZE THEN miss_queue_head + 1
                                                           ELSE miss_queue_head
           slot == (head + miss_queue_size) % MISS_QUEUE_MAX_SIZE
<1>1. MISS_QUEUE_MAX_SIZE \in Nat \ {0}  BY TableAssumption
<1>2. head \in Nat /\ miss_queue_size \in Nat  BY DEF QueueType, QueueSlots
<1>3. head % MISS_QUEUE_MAX_SIZE \in QueueSlots /\ slot \in QueueSlots
  <2> HIDE DEF head
  <2>1. QED  BY <1>1, <1>2, DivMod DEF QueueSlots
<1>4. /\ miss_queue' = [miss_queue EXCEPT ![slot] = addr]
      /\ miss_queue_head' = head % MISS_QUEUE_MAX_SIZE
      /\ miss_queue_size' = IF miss_queue_size = MISS_QUEUE_MAX_SIZE THEN miss_queue_size
                                                                     ELSE miss_queue_size + 1
  BY DEF miss_queue_insert
<1> HIDE DEF head, slot
<1>5. miss_queue' \in [QueueSlots -> Nat]  BY <1>3, <1>4 DEF QueueType
<1>6. miss_queue_size' \in 0..MISS_QUEUE_MAX_SIZE  BY <1>1, <1>4 DEF QueueType
<1>7. QED  BY <1>3, <1>4, <1>5, <1>6 DEF QueueType

-----------------------------------------------------------------------------
(* The whole cache.                                                        *)

\* Under LRU and unless the cache is direct-mapped, the block of the latest
\* access is there, and while its prefetch is pending no other is more recent.
AccessKept ==
  policy = "LRU" /\ assoc > 1 /\ accessed # NULL =>
    /\ accessed \in Sets \X Nat
    /\ \E w \in Way :
         /\ blk[accessed[1]][w].valid /\ blk[accessed[1]][w].tag = accessed[2]
         /\ prefetch_addr # 0 => way_pos[accessed[1]][w] = 0

CacheInv == BlockInv /\ TableInv /\ QueueType /\ AccessKept /\ prefetch_addr \in Nat

\* Initially all blocks are free and all tables empty.
LEMMA InitInv == Init => CacheInv
<1> SUFFICES ASSUME Init PROVE CacheInv
  OBVIOUS
<1>1. PICK c \in Configurations : prefetch_type = c[1] /\ policy = c[2]
  BY DEF Init, PrefetcherInit
<1>2. c \in Nat \X {"LRU", "FIFO", "Random"}  BY TableAssumption
<1>3. <<prefetch_type, policy>> \in Configurations /\ policy \in {"LRU", "FIFO", "Random"}
  BY <1>1, <1>2
<1>4. TableInv
  <2>1. /\ rpt = [i \in RptIndex |-> [tag |-> 0, prev_addr |-> 0, stride |-> 0,
                                      is_negative |-> FALSE, state |-> "Initial"]]
        /\ latest = [i \in RptIndex |-> [k \in 1..2 |-> [pc |-> 0, addr |-> 0]]]
    BY DEF Init, PrefetcherInit
  <2>2. [tag |-> 0, prev_addr |-> 0, stride |-> 0, is_negative |-> FALSE, state |-> "Initial"]
          \in RptEntry
    BY DEF RptEntry, rpt_state_t
  <2>3. TableType  BY <1>3, <2>1, <2>2 DEF TableType
  <2>4. \A i \in RptIndex : rpt[i].tag = 0 /\ rpt[i].state = "Initial"  BY <2>1
  <2>5. QED  BY <2>3, <2>4 DEF TableInv, Owned, StrideIsLast
<1>5. QueueType /\ prefetch_addr \in Nat
  BY TableAssumption DEF Init, PrefetcherInit, QueueType, QueueSlots
<1>6. /\ blk = [s \in Sets |-> [w \in Way |-> [tag |-> 0, valid |-> FALSE, dirty |-> FALSE]]]
      /\ way_pos = [s \in Sets |-> [w \in Way |-> assoc - 1 - w]]
      /\ linked = [s \in Sets |-> [w \in Way |-> 0]]
      /\ last_tagset = 0 /\ last_blk = NULL /\ unsaved = {} /\ accessed = NULL
  BY DEF Init
<1>7. \A s \in Sets : WayList(way_pos[s])
  <2>1. \A s \in Sets, w \in Way : way_pos[s][w] = assoc - 1 - w /\ assoc - 1 - w \in Way
    BY <1>6, GeometryAssumption DEF Way
  <2>2. \A s \in Sets : way_pos[s] \in [Way -> Way]  BY <1>6, <2>1
  <2>3. \A s \in Sets, v, w \in Way : way_pos[s][v] = way_pos[s][w] => v = w
    BY <2>1, GeometryAssumption DEF Way
  <2>4. QED  BY <2>2, <2>3 DEF WayList
<1>8. blk \in [Sets -> [Way -> Blk]]  BY <1>6 DEF Blk
<1>9. \A s \in Sets, w \in Way : blk[s][w].valid = FALSE /\ blk[s][w].tag = 0 /\ linked[s][w] = 0
  BY <1>6
<1>10. BlockType
  <2>1. way_pos \in [Sets -> [Way -> Way]]  BY <1>6, <1>7 DEF WayList
  <2>2. QED  BY <1>3, <1>6, <1>7, <1>8, <2>1 DEF BlockType
<1>11. FastHitSound
  <2>1. \A s \in Sets, w \in Way : <<s, w>> # NULL  BY GeometryAssumption
  <2>2. QED  BY <1>6, <2>1 DEF FastHitSound
<1>12. OneCopy /\ HashChains /\ ValidFirst
  BY <1>9 DEF OneCopy, HashChains, ValidFirst
<1>13. DirtyKept  BY <1>6, <1>9 DEF DirtyKept, DirtyBlocks
<1>14. AccessKept  BY <1>6 DEF AccessKept
<1>15. QED  BY <1>4, <1>5, <1>10, <1>11, <1>12, <1>13, <1>14 DEF CacheInv, BlockInv

\* An access, up to its prefetch.
LEMMA AccessStep ==
  ASSUME CacheInv, NEW access \in Program, cache_access(access[1], access[2], access[3])
  PROVE  CacheInv'
<1> DEFINE pc == access[1]
           cmd == access[2]
           addr == access[3]
           s == CACHE_SET(addr)
           t == CACHE_TAG(addr)
           b == CACHE_TAGSET(addr)
<1>1. pc \in PC /\ cmd \in {"Read", "Write"} /\ addr \in Nat /\ addr >= bsize
  BY ProgramAccess
<1>2. /\ s \in Sets /\ t \in Nat /\ b \in Nat /\ b # 0 /\ s = b % nsets /\ t = b \div nsets
  <2> HIDE DEF addr
  <2>1. QED  BY <1>1, AddressParts
<1>3. /\ BlockInv /\ TableInv /\ QueueType
  BY DEF CacheInv
<1>4. /\ \/ /\ FastHit(s, t, b, cmd) \/ \E w \in Way : Hit(s, t, b, cmd, w)
            /\ UNCHANGED queueVars
         \/ /\ \E w \in Way : Miss(s, t, b, cmd, w)
            /\ IF prefetch_type = 2 THEN miss_queue_insert(addr) ELSE UNCHANGED queueVars
      /\ generate_prefetch(pc, addr) /\ accessed' = <<s, t>> /\ UNCHANGED configVars
      /\ UNCHANGED policy
  BY DEF cache_access, configVars
<1> HIDE DEF pc, cmd, addr, s, t, b
<1>5. BlockInv' /\ AtHead(s, t)'
  <2>1. CASE FastHit(s, t, b, cmd)  BY <1>1, <1>2, <1>3, <1>4, <2>1, FastHitBlock
  <2>2. ASSUME NEW w \in Way, Hit(s, t, b, cmd, w) PROVE BlockInv' /\ AtHead(s, t)'
    BY <1>1, <1>2, <1>3, <1>4, <2>2, HitBlock
  <2>3. ASSUME NEW w \in Way, Miss(s, t, b, cmd, w) PROVE BlockInv' /\ AtHead(s, t)'
    BY <1>1, <1>2, <1>3, <1>4, <2>3, MissBlock
  <2>4. QED  BY <1>4, <2>1, <2>2, <2>3
<1>6. QueueType'
  <2>1. CASE miss_queue_insert(addr)  BY <1>1, <1>3, <2>1, QueueStep
  <2>2. CASE UNCHANGED queueVars  BY <1>3, <2>2 DEF QueueType, queueVars
  <2>3. QED  BY <1>4, <2>1, <2>2
<1>7. TableInv' /\ prefetch_addr' \in Nat
  <2>1. miss_queue' \in [QueueSlots -> Nat]  BY <1>6 DEF QueueType
  <2>2. QED  BY <1>1, <1>3, <1>4, <2>1, PrefetchStep
<1>8. AccessKept'
  <2>1. <<s, t>> \in Sets \X Nat /\ <<s, t>>[1] = s /\ <<s, t>>[2] = t  BY <1>2
  <2>2. ASSUME policy' = "LRU" PROVE AccessKept'
    <3>1. PICK w \in Way : blk'[s][w].valid /\ blk'[s][w].tag = t /\ way_pos'[s][w] = 0
      BY <1>5, <2>2 DEF AtHead
    <3>2. accessed' \in Sets \X Nat /\ accessed'[1] = s /\ accessed'[2] = t  BY <1>4, <2>1
    <3>3. QED  BY <3>1, <3>2, Zenon DEF AccessKept
  <2>3. QED  BY <2>2 DEF AccessKept
<1>9. QED  BY <1>5, <1>6, <1>7, <1>8 DEF CacheInv

\* The prefetch of an access.
LEMMA PrefetchInv ==
  ASSUME CacheInv, prefetch
  PROVE  CacheInv'
<1> DEFINE a == prefetch_addr
           s == CACHE_SET(a)
           t == CACHE_TAG(a)
           b == CACHE_TAGSET(a)
<1>1. /\ BlockInv /\ TableInv /\ QueueType /\ AccessKept /\ a \in Nat
  BY DEF CacheInv
<1>2. s \in Sets /\ t \in Nat
  <2> HIDE DEF a
  <2>1. QED  BY <1>1, AddressParts
<1>3. /\ UNCHANGED <<blockVars, unsaved>> \/ \E w \in Way : Miss(s, t, b, "Read", w)
      /\ a # 0 /\ prefetch_addr' = 0
      /\ UNCHANGED <<configVars, rpt, latest, queueVars, accessed>> /\ UNCHANGED policy
  BY DEF prefetch, configVars, prefetcherVars
<1> HIDE DEF s, t, b
<1>4. TableInv' /\ QueueType' /\ prefetch_addr' \in Nat
  <2>1. TableInv'  BY <1>1, <1>3, TableKept
  <2>2. QED  BY <1>1, <1>3, <2>1 DEF QueueType, queueVars
<1>5. CASE UNCHANGED <<blockVars, unsaved>>
  <2>1. /\ blk' = blk /\ way_pos' = way_pos /\ linked' = linked /\ last_tagset' = last_tagset
        /\ last_blk' = last_blk /\ unsaved' = unsaved /\ policy' = policy /\ accessed' = accessed
    BY <1>3, <1>5 DEF blockVars
  <2>2. BlockInv'
    BY <1>1, <2>1 DEF BlockInv, BlockType, FastHitSound, OneCopy, HashChains, DirtyKept, DirtyBlocks,
                      ValidFirst
  <2>3. AccessKept'  BY <1>1, <1>3, <2>1 DEF AccessKept
  <2>4. QED  BY <1>4, <2>2, <2>3 DEF CacheInv
<1>6. ASSUME NEW repl \in Way, Miss(s, t, b, "Read", repl) PROVE CacheInv'
  <2>1. BlockInv'  BY <1>1, <1>2, <1>3, <1>6, MissBlock
  <2>2. AccessKept'
    <3>1. SUFFICES ASSUME policy' = "LRU", assoc > 1, accessed' # NULL
                   PROVE  AccessKept'
      BY DEF AccessKept
    <3>2. policy = "LRU" /\ accessed # NULL /\ accessed' = accessed  BY <1>3, <3>1
    <3>3. accessed \in Sets \X Nat  BY <1>1, <3>1, <3>2 DEF AccessKept
    <3>4. PICK w \in Way : /\ blk[accessed[1]][w].valid /\ blk[accessed[1]][w].tag = accessed[2]
                           /\ way_pos[accessed[1]][w] = 0
      BY <1>1, <1>3, <3>1, <3>2 DEF AccessKept
    <3>5. accessed[1] # s \/ w # repl
      <4>1. way_pos[s][repl] = assoc - 1  BY <1>6, <3>2 DEF Miss, Replaceable
      <4>2. assoc - 1 # 0  BY <3>1, GeometryAssumption
      <4>3. QED  BY <3>4, <4>1, <4>2
    <3>6. blk'[accessed[1]][w] = blk[accessed[1]][w]
      <4>1. blk \in [Sets -> [Way -> Blk]]  BY <1>1 DEF BlockInv, BlockType
      <4>2. accessed[1] \in Sets  BY <3>3
      <4>3. QED  BY <1>2, <1>6, <3>5, <4>1, <4>2 DEF Miss
    <3>7. QED  BY <1>3, <3>2, <3>3, <3>4, <3>6, Zenon DEF AccessKept
  <2>3. QED  BY <1>4, <2>1, <2>2 DEF CacheInv
<1>7. QED  BY <1>3, <1>5, <1>6

\* Flushing all blocks or one.
LEMMA FlushStep ==
  ASSUME CacheInv, cache_flush \/ \E addr \in Addr : cache_flush_addr(addr)
  PROVE  CacheInv'
<1>1. /\ BlockInv /\ TableInv /\ QueueType /\ prefetch_addr \in Nat
  BY DEF CacheInv
<1>2. /\ UNCHANGED <<configVars, rpt, latest, queueVars>> /\ prefetch_addr' = prefetch_addr
      /\ accessed' = NULL
  BY DEF cache_flush, cache_flush_addr, prefetcherVars
<1>3. TableInv'  BY <1>1, <1>2, TableKept
<1>4. QueueType' /\ prefetch_addr' \in Nat  BY <1>1, <1>2 DEF QueueType, queueVars
<1>5. AccessKept'  BY <1>2 DEF AccessKept
<1>6. BlockInv'
  <2>1. CASE cache_flush  BY <1>1, <2>1, FlushBlock
  <2>2. ASSUME NEW addr \in Addr, cache_flush_addr(addr) PROVE BlockInv'
    <3>1. addr \in Nat
      <4>1. bsize \in Nat /\ ADDR_SPACE \in Nat /\ Addr \subseteq bsize..(ADDR_SPACE - 1)
        BY LayoutAssumption, Zenon
      <4>2. QED  BY <4>1
    <3>2. QED  BY <1>1, <2>2, <3>1, FlushAddrBlock
  <2>3. QED  BY <2>1, <2>2
<1>7. QED  BY <1>3, <1>4, <1>5, <1>6 DEF CacheInv

\* The invariant is inductive.
LEMMA NextInv == CacheInv /\ [Next]_vars => CacheInv'
<1> SUFFICES ASSUME CacheInv, [Next]_vars PROVE CacheInv'
  OBVIOUS
<1>1. ASSUME NEW access \in Program, cache_access(access[1], access[2], access[3]) PROVE CacheInv'
  BY <1>1, AccessStep
<1>2. CASE prefetch  BY <1>2, PrefetchInv
<1>3. CASE cache_flush \/ \E addr \in Addr : cache_flush_addr(addr)  BY <1>3, FlushStep
<1>4. CASE UNCHANGED vars
  <2>1. /\ UNCHANGED <<configVars, rpt, latest>> /\ UNCHANGED queueVars
        /\ blk' = blk /\ way_pos' = way_pos /\ linked' = linked /\ last_tagset' = last_tagset
        /\ last_blk' = last_blk /\ unsaved' = unsaved /\ policy' = policy /\ accessed' = accessed
        /\ prefetch_addr' = prefetch_addr
    BY <1>4 DEF vars, configVars, prefetcherVars, blockVars, historyVars
  <2>2. BlockInv'
    BY <2>1 DEF CacheInv, BlockInv, BlockType, FastHitSound, OneCopy, HashChains, DirtyKept,
                DirtyBlocks, ValidFirst
  <2>3. TableInv'  BY <2>1, TableKept DEF CacheInv
  <2>4. QueueType' /\ AccessKept' /\ prefetch_addr' \in Nat
    BY <2>1 DEF CacheInv, QueueType, queueVars, AccessKept
  <2>5. QED  BY <2>2, <2>3, <2>4 DEF CacheInv
<1>5. QED  BY <1>1, <1>2, <1>3, <1>4 DEF Next

\* The invariant always holds.
LEMMA Invariant == Spec => []CacheInv
BY InitInv, NextInv, PTL DEF Spec

\* Initially no block is in use.
LEMMA OrderInit == Init => OrderInv
<1> SUFFICES ASSUME Init PROVE OrderInv
  OBVIOUS
<1>1. /\ recency = [s \in Sets |-> {}]
      /\ blk = [s \in Sets |-> [w \in Way |-> [tag |-> 0, valid |-> FALSE, dirty |-> FALSE]]]
  BY DEF Init
<1>2. \A s \in Sets, w \in Way : ~blk[s][w].valid  BY <1>1
<1>3. \A s \in Sets : Ordered(recency[s], blk[s], way_pos[s])  BY <1>1, <1>2 DEF Ordered
<1>4. QED  BY <1>1, <1>3 DEF OrderInv

\* Every step keeps the order of use.
LEMMA OrderNext == CacheInv /\ OrderInv /\ [Next]_vars => OrderInv'
<1> SUFFICES ASSUME CacheInv, OrderInv, [Next]_vars PROVE OrderInv'
  OBVIOUS
<1>1. BlockInv /\ prefetch_addr \in Nat  BY DEF CacheInv
<1>2. ASSUME NEW access \in Program, cache_access(access[1], access[2], access[3]) PROVE OrderInv'
  <2> DEFINE cmd == access[2]
             addr == access[3]
             s == CACHE_SET(addr)
             t == CACHE_TAG(addr)
             b == CACHE_TAGSET(addr)
  <2>1. cmd \in {"Read", "Write"} /\ addr \in Nat /\ addr >= bsize
    BY ProgramAccess
  <2>2. /\ s \in Sets /\ t \in Nat /\ b \in Nat /\ b # 0 /\ s = b % nsets /\ t = b \div nsets
    <3> HIDE DEF addr
    <3>1. QED  BY <2>1, AddressParts
  <2>3. /\ \/ FastHit(s, t, b, cmd)
           \/ \E w \in Way : Hit(s, t, b, cmd, w)
           \/ \E w \in Way : Miss(s, t, b, cmd, w)
        /\ UNCHANGED policy
    BY <1>2 DEF cache_access, configVars
  <2> HIDE DEF cmd, addr, s, t, b
  <2>4. CASE FastHit(s, t, b, cmd)  BY <1>1, <2>1, <2>2, <2>3, <2>4, FastHitOrder
  <2>5. ASSUME NEW w \in Way, Hit(s, t, b, cmd, w) PROVE OrderInv'
    BY <1>1, <2>1, <2>2, <2>3, <2>5, HitOrder
  <2>6. ASSUME NEW w \in Way, Miss(s, t, b, cmd, w) PROVE OrderInv'
    BY <1>1, <2>1, <2>2, <2>3, <2>6, MissOrder
  <2>7. QED  BY <2>3, <2>4, <2>5, <2>6
<1>3. CASE prefetch
  <2> DEFINE s == CACHE_SET(prefetch_addr)
             t == CACHE_TAG(prefetch_addr)
             b == CACHE_TAGSET(prefetch_addr)
  <2>1. s \in Sets /\ t \in Nat  BY <1>1, AddressParts
  <2>2. /\ UNCHANGED <<blockVars, unsaved, recency>> \/ \E w \in Way : Miss(s, t, b, "Read", w)
        /\ UNCHANGED policy
    BY <1>3 DEF prefetch, configVars
  <2> HIDE DEF s, t, b
  <2>3. CASE UNCHANGED <<blockVars, unsaved, recency>>
    BY <2>2, <2>3 DEF OrderInv, blockVars
  <2>4. ASSUME NEW w \in Way, Miss(s, t, b, "Read", w) PROVE OrderInv'
    BY <1>1, <2>1, <2>2, <2>4, MissOrder
  <2>5. QED  BY <2>2, <2>3, <2>4
<1>4. CASE cache_flush  BY <1>1, <1>4, FlushOrder
<1>5. ASSUME NEW addr \in Addr, cache_flush_addr(addr) PROVE OrderInv'
  <2>1. addr \in Nat
    <3>1. bsize \in Nat /\ ADDR_SPACE \in Nat /\ Addr \subseteq bsize..(ADDR_SPACE - 1)
      BY LayoutAssumption, Zenon
    <3>2. QED  BY <3>1
  <2>2. QED  BY <1>1, <1>5, <2>1, FlushAddrOrder
<1>6. CASE UNCHANGED vars
  BY <1>6 DEF OrderInv, vars, blockVars, historyVars, configVars
<1>7. QED  BY <1>2, <1>3, <1>4, <1>5, <1>6 DEF Next

\* What the invariant says of the state.
LEMMA InvariantImplies ==
  ASSUME CacheInv
  PROVE  /\ TypeOK /\ FastHitSound /\ OneCopy /\ HashChains /\ DirtyKept /\ ValidFirst
         /\ AccessSurvives /\ StrideIsLast
<1>1. /\ FastHitSound /\ OneCopy /\ HashChains /\ DirtyKept /\ ValidFirst /\ StrideIsLast
  BY DEF CacheInv, BlockInv, TableInv
<1>2. TypeOK
  <2>1. BlockType /\ TableType /\ QueueType /\ prefetch_addr \in Nat
    BY DEF CacheInv, BlockInv, TableInv
  <2>2. \A s \in Sets, v, w \in Way : way_pos[s][v] = way_pos[s][w] => v = w
    BY <2>1 DEF BlockType, WayList
  <2>3. QED  BY <2>1, <2>2, Zenon DEF TypeOK, BlockType, TableType, QueueType, Blk
<1>3. AccessSurvives
  <2>1. SUFFICES ASSUME policy = "LRU", assoc > 1, accessed # NULL
                 PROVE  Lookup(accessed[1], accessed[2]) # {}
    BY DEF AccessSurvives
  <2>2. accessed \in Sets \X Nat  BY <2>1 DEF CacheInv, AccessKept
  <2>3. PICK w \in Way : blk[accessed[1]][w].valid /\ blk[accessed[1]][w].tag = accessed[2]
    BY <2>1 DEF CacheInv, AccessKept
  <2>4. accessed[1] \in Sets  BY <2>2
  <2>5. w \in Lookup(accessed[1], accessed[2])
    BY <1>1, <2>3, <2>4, LookupExact
  <2>6. QED  BY <2>5
<1>4. QED  BY <1>1, <1>2, <1>3

\* Every variable of the cache and its prefetchers keeps its type, and no way
\* list loses or repeats a block, for every geometry and every configuration.
THEOREM CacheTypeCorrect == Spec => []TypeOK
BY Invariant, InvariantImplies, PTL

\* last_blk always holds the block of last_tagset, at the head of its set's
\* way list under LRU: the fast path of cache_access is right.
THEOREM FastHitCorrect == Spec => []FastHitSound
BY Invariant, InvariantImplies, PTL

\* No set ever holds two valid copies of a block, prefetches included.
THEOREM SingleCopy == Spec => []OneCopy
BY Invariant, InvariantImplies, PTL

\* Every block is in the hash chain of its tag, for every hash function.
THEOREM ChainsCorrect == Spec => []HashChains
BY Invariant, InvariantImplies, PTL

\* The blocks with stores that memory lacks are the valid dirty blocks: no
\* replacement, prefetch or flush loses a store.
THEOREM StoresKept == Spec => []DirtyKept
BY Invariant, InvariantImplies, PTL

\* LRU and FIFO replace free blocks before valid ones.
THEOREM FreeFirst == Spec => []ValidFirst
BY Invariant, InvariantImplies, PTL

\* Under LRU the way list of every set is the order of use, whatever was hit
\* by search, hit by the fast path without reordering, prefetched or flushed:
\* the block at its tail is the least recently used.
THEOREM UseOrderCorrect == Spec => []LRUOrder
<1>1. OrderInv => LRUOrder  BY OrderPoint DEF OrderInv
<1>2. QED  BY <1>1, Invariant, OrderInit, OrderNext, PTL DEF Spec

\* Under LRU the block that cache_access reads after generate_prefetch is
\* still the one it accessed, in every cache of at least two ways.
THEOREM AccessedStays == Spec => []AccessSurvives
BY Invariant, InvariantImplies, PTL

\* Every entry of the prediction table describes the last accesses of its
\* present owner, for every table size.
THEOREM StridesCorrect == Spec => []StrideIsLast
BY Invariant, InvariantImplies, PTL
=============================================================================
