------------------------------- MODULE Cache --------------------------------
(***************************************************************************)
(* The cache of src/lab5/cache.c with its prefetchers: sets of blocks kept *)
(* in a replacement order, the shortcut to the last block hit, hash chains *)
(* and write-back of dirty blocks.                                         *)
(*                                                                         *)
(* cache_access is one sequential call: the access, and then the prefetch  *)
(* it causes, if any, which is a second call of cache_access.  The call is *)
(* split there: prefetch_addr is the address about to be prefetched, and   *)
(* nothing else happens until it is.  Times, statistics and the contents   *)
(* of blocks decide nothing and are left out.                              *)
(***************************************************************************)
EXTENDS Prefetcher

CONSTANTS
  nsets, assoc,
  CACHE_HASH(_),       \* the chain of a tag in its set's hash table
  NULL

Sets == 0..(nsets - 1)
Way  == 0..(assoc - 1)

ASSUME GeometryAssumption ==
  /\ nsets \in Nat \ {0} /\ assoc \in Nat \ {0}
  /\ NULL \notin Sets \X Way

VARIABLES
  blk,                 \* blk[s][w]: tag and status of the block in way w of set s
  way_pos,             \* way_pos[s][w]: position in the set's way list, 0 is the head
  linked,              \* linked[s][w]: the tag whose hash chain the block is linked in
  last_tagset, last_blk,
  unsaved,             \* history: blocks with a store that memory does not have
  recency,             \* history: for each set, the pairs <<t, u>> of its tags with
                       \* t = u or t used later than u
  accessed             \* history: the block of the latest access or flush

blockVars == <<blk, way_pos, linked, last_tagset, last_blk>>
historyVars == <<unsaved, recency, accessed>>
vars == <<configVars, prefetcherVars, blockVars, prefetch_addr, historyVars>>

-----------------------------------------------------------------------------
CACHE_TAGSET(addr) == addr \div bsize
CACHE_SET(addr) == CACHE_TAGSET(addr) % nsets
CACHE_TAG(addr) == CACHE_TAGSET(addr) \div nsets

\* Mutant of Lookup: only the head of the way list is compared.
Lookup_Head(s, t) ==
  {w \in Way : blk[s][w].valid /\ blk[s][w].tag = t /\ way_pos[s][w] = 0}

\* The blocks that the search for a tag can find.  Without a hash table all
\* blocks of a set are searched, as with a single chain.
Lookup(s, t) ==
  {w \in Way : blk[s][w].valid /\ blk[s][w].tag = t /\ CACHE_HASH(linked[s][w]) = CACHE_HASH(t)}

cache_probe(addr) == Lookup(CACHE_SET(addr), CACHE_TAG(addr)) # {}

\* Mutant of update_way_list: the others keep their positions.
update_way_list_NoShift(pos, w, where) ==
  [pos EXCEPT ![w] = IF where = "Head" THEN 0 ELSE assoc - 1]

\* The way list of a set after a block moved to one of its ends.
update_way_list(pos, w, where) ==
  [v \in Way |->
     IF where = "Head"
     THEN IF v = w THEN 0 ELSE IF pos[v] < pos[w] THEN pos[v] + 1 ELSE pos[v]
     ELSE IF v = w THEN assoc - 1 ELSE IF pos[v] > pos[w] THEN pos[v] - 1 ELSE pos[v]]

\* Mutant of link_htab_ent: the block stays in its old chain.
link_htab_ent_OldTag(s, w, t) == UNCHANGED linked

\* Links a block in the chain of its new tag, unlinked from that of the old.
link_htab_ent(s, w, t) == linked' = [linked EXCEPT ![s][w] = t]

\* Mutant of ForgetLast: the last block stays recorded.
ForgetLast_Kept == UNCHANGED <<last_tagset, last_blk>>

\* "blow away the last block to hit"
ForgetLast == last_tagset' = 0 /\ last_blk' = NULL

\* History: the stores memory lacks after an access to block t of set s.
Stored(s, t, cmd) == IF cmd = "Write" THEN {<<s, t>>} ELSE {}

\* History: the order of use of a set, as pairs <<later, earlier>>, without
\* block t, and after a use of block t.
Without(r, t) == {p \in r : t \notin {p[1], p[2]}}
Used(s, t) ==
  [recency EXCEPT ![s] = Without(@, t) \cup {<<t, u>> : u \in {t} \cup {p[1] : p \in @}}]
Dropped(r, s, t) == [r EXCEPT ![s] = Without(@, t)]

\* The blocks among the ways W of set s whose contents memory lacks.
DirtyBlocks(s, W) == {<<s, blk[s][w].tag>> : w \in {w \in W : blk[s][w].valid /\ blk[s][w].dirty}}

-----------------------------------------------------------------------------
(* cache_access, up to generate_prefetch.                                  *)

\* Mutant of Hit: the last block is recorded and the order is not touched.
Hit_NoReorder(s, t, tagset, cmd, w) ==
  /\ tagset # last_tagset
  /\ w \in Lookup(s, t)
  /\ blk' = [blk EXCEPT ![s][w].dirty = @ \/ cmd = "Write"]
  /\ last_tagset' = tagset /\ last_blk' = <<s, w>>
  /\ unsaved' = unsaved \cup Stored(s, t, cmd)
  /\ recency' = Used(s, t)
  /\ UNCHANGED <<way_pos, linked>>

\* A search of the set finds the block.
Hit(s, t, tagset, cmd, w) ==
  /\ tagset # last_tagset
  /\ w \in Lookup(s, t)
  /\ blk' = [blk EXCEPT ![s][w].dirty = @ \/ cmd = "Write"]
  /\ way_pos' = IF policy = "LRU" THEN [way_pos EXCEPT ![s] = update_way_list(@, w, "Head")]
                                  ELSE way_pos
  /\ last_tagset' = tagset /\ last_blk' = <<s, w>>
  /\ unsaved' = unsaved \cup Stored(s, t, cmd)
  /\ recency' = Used(s, t)
  /\ UNCHANGED linked

\* Mutant of FastHit: a store does not mark the block.
FastHit_NotDirty(s, t, tagset, cmd) ==
  /\ tagset = last_tagset
  /\ unsaved' = unsaved \cup Stored(s, t, cmd)
  /\ recency' = Used(s, t)
  /\ UNCHANGED blockVars

\* The block is the last one that was hit: no search, no reordering.
FastHit(s, t, tagset, cmd) ==
  /\ tagset = last_tagset
  /\ blk' = [blk EXCEPT ![last_blk[1]][last_blk[2]].dirty = @ \/ cmd = "Write"]
  /\ unsaved' = unsaved \cup Stored(s, t, cmd)
  /\ recency' = Used(s, t)
  /\ UNCHANGED <<way_pos, linked, last_tagset, last_blk>>

\* Mutant of Replaceable: the wrong end of the list.
Replaceable_Head(s) == {w \in Way : policy = "Random" \/ way_pos[s][w] = 0}

\* The block to replace: the tail of the way list, or any.
Replaceable(s) == {w \in Way : policy = "Random" \/ way_pos[s][w] = assoc - 1}

\* The block in way repl is replaced; it is written back if it is dirty.
Miss(s, t, tagset, cmd, repl) ==
  /\ tagset # last_tagset
  /\ Lookup(s, t) = {}
  /\ repl \in Replaceable(s)
  /\ blk' = [blk EXCEPT ![s][repl] = [tag |-> t, valid |-> TRUE, dirty |-> cmd = "Write"]]
  /\ way_pos' = IF policy = "Random" THEN way_pos
                ELSE [way_pos EXCEPT ![s] = update_way_list(@, repl, "Head")]
  /\ link_htab_ent(s, repl, t)
  /\ ForgetLast
  /\ unsaved' = (unsaved \ DirtyBlocks(s, {repl})) \cup Stored(s, t, cmd)
  /\ recency' = IF blk[s][repl].valid THEN Dropped(Used(s, t), s, blk[s][repl].tag)
                                      ELSE Used(s, t)

\* An access of the program, up to the prefetch it causes.
cache_access(pc, cmd, addr) ==
  LET s == CACHE_SET(addr)  t == CACHE_TAG(addr)  b == CACHE_TAGSET(addr)
  IN  /\ prefetch_addr = 0
      /\ \/ /\ FastHit(s, t, b, cmd) \/ \E w \in Way : Hit(s, t, b, cmd, w)
            /\ UNCHANGED queueVars
         \/ /\ \E w \in Way : Miss(s, t, b, cmd, w)
            /\ IF prefetch_type = 2 THEN miss_queue_insert(addr)
               ELSE UNCHANGED queueVars
      /\ generate_prefetch(pc, addr)
      /\ accessed' = <<s, t>>
      /\ UNCHANGED configVars

\* Brings in the block of prefetch_addr unless it is there.  A prefetch is
\* not recorded as a miss and causes no prefetch.
prefetch ==
  LET s == CACHE_SET(prefetch_addr)  t == CACHE_TAG(prefetch_addr)
      b == CACHE_TAGSET(prefetch_addr)
  IN  /\ prefetch_addr # 0
      /\ \/ cache_probe(prefetch_addr) /\ UNCHANGED <<blockVars, unsaved, recency>>
         \/ /\ ~cache_probe(prefetch_addr)
            /\ \E w \in Way : Miss(s, t, b, "Read", w)
      /\ prefetch_addr' = 0
      /\ UNCHANGED <<configVars, prefetcherVars, accessed>>

-----------------------------------------------------------------------------
(* Flushing.                                                               *)

\* All blocks become invalid; dirty ones are written back.
cache_flush ==
  /\ prefetch_addr = 0
  /\ ForgetLast
  /\ blk' = [s \in Sets |-> [w \in Way |-> [blk[s][w] EXCEPT !.valid = FALSE]]]
  /\ unsaved' = unsaved \ UNION {DirtyBlocks(s, Way) : s \in Sets}
  /\ recency' = [s \in Sets |-> {}]
  /\ accessed' = NULL
  /\ UNCHANGED <<configVars, prefetcherVars, way_pos, linked, prefetch_addr>>

\* Mutant of cache_flush_addr: the block keeps its place.
cache_flush_addr_InPlace(addr) ==
  LET s == CACHE_SET(addr)  t == CACHE_TAG(addr)
  IN  /\ prefetch_addr = 0
      /\ \E w \in Lookup(s, t) :
           /\ blk' = [blk EXCEPT ![s][w].valid = FALSE]
           /\ ForgetLast
           /\ unsaved' = unsaved \ DirtyBlocks(s, {w})
           /\ recency' = Dropped(recency, s, t)
      /\ accessed' = NULL
      /\ UNCHANGED <<configVars, prefetcherVars, way_pos, linked, prefetch_addr>>

\* The block of addr becomes invalid and the first to be replaced.
cache_flush_addr(addr) ==
  LET s == CACHE_SET(addr)  t == CACHE_TAG(addr)
  IN  /\ prefetch_addr = 0
      /\ \E w \in Lookup(s, t) :
           /\ blk' = [blk EXCEPT ![s][w].valid = FALSE]
           /\ ForgetLast
           /\ unsaved' = unsaved \ DirtyBlocks(s, {w})
           /\ way_pos' = [way_pos EXCEPT ![s] = update_way_list(@, w, "Tail")]
           /\ recency' = Dropped(recency, s, t)
      /\ accessed' = NULL
      /\ UNCHANGED <<configVars, prefetcherVars, linked, prefetch_addr>>

-----------------------------------------------------------------------------
\* cache_create: all blocks invalid with tag 0, the last way at the head.
Init ==
  /\ PrefetcherInit
  /\ blk = [s \in Sets |-> [w \in Way |-> [tag |-> 0, valid |-> FALSE, dirty |-> FALSE]]]
  /\ way_pos = [s \in Sets |-> [w \in Way |-> assoc - 1 - w]]
  /\ linked = [s \in Sets |-> [w \in Way |-> 0]]
  /\ last_tagset = 0 /\ last_blk = NULL
  /\ unsaved = {}
  /\ recency = [s \in Sets |-> {}]
  /\ accessed = NULL

Next ==
  \/ \E access \in Program : cache_access(access[1], access[2], access[3])
  \/ prefetch
  \/ cache_flush
  \/ \E addr \in Addr : cache_flush_addr(addr)

Spec == Init /\ [][Next]_vars

-----------------------------------------------------------------------------
(* Properties.                                                             *)

\* Every variable has its type, and each way list is a permutation of the
\* ways: update_way_list loses no block.
TypeOK ==
  /\ <<prefetch_type, policy>> \in Configurations
  /\ rpt \in [RptIndex -> RptEntry]
  /\ miss_queue \in [QueueSlots -> Nat]
  /\ miss_queue_head \in QueueSlots
  /\ miss_queue_size \in 0..MISS_QUEUE_MAX_SIZE
  /\ blk \in [Sets -> [Way -> [tag : Nat, valid : BOOLEAN, dirty : BOOLEAN]]]
  /\ way_pos \in [Sets -> [Way -> Way]]
  /\ \A s \in Sets, v, w \in Way : way_pos[s][v] = way_pos[s][w] => v = w
  /\ linked \in [Sets -> [Way -> Nat]]
  /\ last_tagset \in Nat
  /\ last_blk \in (Sets \X Way) \cup {NULL}
  /\ prefetch_addr \in Nat

\* The shortcut to the last block is safe: whatever was replaced by an access
\* or by a prefetch, or flushed, since that block was hit, last_blk still holds
\* the block of last_tagset.  Under LRU it is still the most recently used, so
\* that skipping the reordering is right.
FastHitSound ==
  /\ last_blk = NULL <=> last_tagset = 0
  /\ \A s \in Sets, w \in Way : last_blk = <<s, w>> =>
       /\ blk[s][w].valid
       /\ s = last_tagset % nsets /\ blk[s][w].tag = last_tagset \div nsets
       /\ policy = "LRU" => way_pos[s][w] = 0

\* No set holds two valid copies of a block: a demand access and a prefetch of
\* the same block never both bring it in.
OneCopy ==
  \A s \in Sets, v, w \in Way :
    blk[s][v].valid /\ blk[s][w].valid /\ blk[s][v].tag = blk[s][w].tag => v = w

\* Each block is linked in the hash chain of its present tag, valid or not:
\* otherwise unlink_htab_ent fails its assertion, or a search misses the block.
HashChains ==
  \A s \in Sets, w \in Way : CACHE_HASH(linked[s][w]) = CACHE_HASH(blk[s][w].tag)

\* No store is lost: the blocks whose stores have not reached memory are
\* exactly the valid dirty blocks, whoever replaces or flushes blocks and
\* although a flushed block keeps its dirty bit.
DirtyKept == unsaved = UNION {DirtyBlocks(s, Way) : s \in Sets}

\* LRU and FIFO replace no valid block while a block of the set is invalid:
\* in the way list the valid blocks come first.
ValidFirst ==
  policy # "Random" =>
    \A s \in Sets, v, w \in Way :
      blk[s][v].valid /\ ~blk[s][w].valid => way_pos[s][v] < way_pos[s][w]

\* Under LRU the way list is the order of use, fast hits and prefetches
\* included: an earlier position is a later use.
LRUOrder ==
  policy = "LRU" =>
    \A s \in Sets :
      recency[s] = {<<blk[s][x[1]].tag, blk[s][x[2]].tag>> : x \in
                      {x \in Way \X Way : /\ blk[s][x[1]].valid /\ blk[s][x[2]].valid
                                         /\ way_pos[s][x[1]] <= way_pos[s][x[2]]}}

\* Under LRU, unless the cache is direct-mapped, an access does not lose its
\* own block to the prefetch it causes: cache_access still reads blk->ready
\* after generate_prefetch.
AccessSurvives ==
  policy = "LRU" /\ assoc > 1 /\ accessed # NULL => Lookup(accessed[1], accessed[2]) # {}

\* The stride of an entry as a signed number.
SignedStride(e) == IF e.is_negative THEN -e.stride ELSE e.stride

\* Every entry of the prediction table describes its present owner: prev_addr
\* is the owner's last address, and in every state but Initial the stride is
\* the distance of the last two, both accessed by the owner.  An entry that
\* changes hands passes no stride on.
StrideIsLast ==
  \A i \in RptIndex :
    /\ rpt[i].tag # 0 => tag(latest[i][1].pc) = rpt[i].tag /\ rpt[i].prev_addr = latest[i][1].addr
    /\ rpt[i].state # "Initial" =>
         /\ latest[i][1].pc = latest[i][2].pc
         /\ SignedStride(rpt[i]) = latest[i][1].addr - latest[i][2].addr

\* "circular miss queue": the queue holds the latest misses, as many as it has
\* slots.
KeepsLatestMisses ==
  \A k \in 1..MISS_QUEUE_MAX_SIZE :
    misses[k] # 0 => \E i \in QueueSlots : miss_queue[i] = misses[k]

=============================================================================
