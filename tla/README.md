# Verification of the ECE552 labs

The repository holds the labs of a computer-architecture course: extensions of
the SimpleScalar simulators (`lab2` to `lab5`) and, in `lab6`, an MSI directory
coherence protocol written in SLICC for the Ruby memory system of gem5. This
directory holds TLA+ models of the parts the repository adds, TLC runs that
check them on small instances and TLAPS proofs that hold for every instance.

Three parts are modelled: the coherence protocol of `lab6`, the only concurrent
part of the repository and the one whose errors a test finds least; the
out-of-order pipeline of `lab4`; and the cache with prefetchers of `lab5`. They
are independent programs, so each has modules, runs and proofs of its own.

## 1. Inventory

| Component | State | Operations | Modelled in |
|---|---|---|---|
| L1 cache controller, `lab6/gem5/src/mem/protocol/MSI-cache.sm` | per line: state (3 stable, 8 transient), entry block, TBE block, pending acks | ports `mandatoryQueue_in`, `forwardRequestNetwork_in`, `responseNetwork_in`; a transition per state and event | `MSICache` |
| Directory controller, `MSI-dir.sm` | per line: state (3 stable, 5 transient), owner, sharers, memory block | ports `requestQueue_in`, `responseQueue_in`, `memQueue_in` | `MSIDirectory` |
| Sequencer, `mem/ruby/system/Sequencer.cc` | read and write request tables, mandatory queue | `makeRequest`, `readCallback`, `writeCallback` | `MSISequencer` |
| Network and buffers, `MessageBuffer.cc`, `PerfectSwitch.cc` | messages in flight, the stalled head of a buffer | enqueue, multicast, pop, stall | `MSINetwork` |
| Memory controller, `MemoryControl.cc` | requests in progress | accept a read or a write-back, hand it back | `MSIDirectory` |
| Cache memory, `CacheMemory.cc` | resident lines | `cacheAvail`, `cacheProbe`, allocate, deallocate | `MSICache` |
| Random tester, `cpu/testers/rubytest` | expected contents of each line | issue accesses, check loads, watch for deadlock | the properties and workloads of `MSI`, `MCMSI` |
| Tomasulo pipeline, `lab4/tomasulo.c` | instruction queue, reservation stations, tags, map table, functional units, common data bus, time stamps | one function per stage, called once per cycle in reverse pipeline order; the end test | `Instructions`, `Tomasulo` |
| Cache, `lab5/cache.c` | blocks, way lists, hash chains, the shortcut to the last block hit | `cache_access`, `cache_probe`, `cache_flush`, `cache_flush_addr` | `Cache` |
| Prefetchers, `lab5/cache.c` | reference prediction table, miss queue | `generate_prefetch`: next-line, stride, open-ended | `Prefetcher` |
| Branch predictors, `lab2/sim-safe.c` | counters, history tables | predict and update per branch | not modelled |
| Branch predictors (`lab3`), SimpleScalar, the rest of gem5, SLICC, benchmarks, traces | | | third party, or no state of its own |

**Interaction in `lab6`.** A processor's access enters its sequencer, which queues it for
the cache controller. The controller completes it at once (hit) or sends a
request (vnet 2) to the line's directory. The directory answers with data
(vnet 4), after a read of memory if need be, or forwards the request to the
owner, or invalidates the sharers (vnet 3). Owners and sharers answer the
requestor directly (vnet 4), the owner that loses M to S also the directory.
Evictions are requests too (PUTS, PUTM), acknowledged on vnet 3. A controller
processes one message at a time; everything else is concurrent.

**Interaction in `lab4`.** `runTomasulo` is one loop. In each cycle the result on
the bus is broadcast to stations and map table, a finished instruction takes the
bus, ready instructions take units, the head of the queue takes a station, and
the next instruction of the trace is fetched. All stages work on the same
instruction records, so what a stage does depends on what the stages before it
in the same cycle have left.

**Interaction in `lab5`.** `cache_access` finds or replaces a block and calls
`generate_prefetch`, which learns from the access and may call `cache_access`
again for the prefetched block, before the first call has finished. Both calls
share the way lists, the hash chains and the pointer to the last block hit.

**What is hard.** Three networks with independent delays, so that data, acks,
forwards and write-backs of one line arrive in many orders; controllers that
answer for a line they are giving up; requests held at the head of a buffer
with others behind them; a directory that decides by owner and sharers whether
a PUT is current or late. In the pipeline: a result on the bus in the cycle its
consumer is issued, several writers of one register in flight, several results
for one bus, full stations and a circular queue. In the cache: a pointer that
outlives the access that recorded it, and a second access inside the first.
`PROJECT.json` lists each hazard at its line.

**What makes them correct.** The protocol: at most one writer and then no reader (`SWMR`); a
readable copy is the latest (`ReadsLatest`); the directory can reach every copy
(`TrackedCopies`); a miss is carried by one message at a time and answered once
(`OneAnswer`); no ack is lost or counted twice (`AckConservation`); each answer
and ack finds its line waiting (`ResponsesExpected`); every eviction is answered
(`EvictionAnswered`); the directory entry fits its state
(`DirectoryEntries`, the assertions of `setState`); memory's answers are awaited
(`MemoryAwaited`); sequencer and controller agree on what is outstanding
(`RequestTracked`); no message meets a state without a transition (`NoFault`);
the controllers never all wait for each other (`Responsive`); every access
completes (`RequestCompletes`); altogether, the system is one atomic memory
(`ImplementsCoherentMemory`).

The pipeline: waiting instructions and the map table know exactly the pending
producers (`TagsExact`, `MapExact`); nothing executes before its operands have
been on the bus (`RAWResolved`); the bus serves the oldest (`OldestFirst`); no
instruction is dropped or leaves its place early (`StationsHold`,
`QueueInOrder`) or enters a stage twice (`EntersOnce`); the simulation ends
(`Terminates`); altogether, instructions run in an order that respects the flow
of values (`ImplementsDataflow`).

The cache: the shortcut to the last block is right (`FastHitSound`); a block is
there once and can be found (`OneCopy`, `HashChains`); no store is lost
(`DirtyKept`); the replacement order is the order of use, with free blocks last
(`LRUOrder`, `ValidFirst`); a prefetch does not remove the block whose access
caused it (`AccessSurvives`); a learned stride belongs to the entry's present
owner (`StrideIsLast`).

## 2. Modules

| Module | Contents |
|---|---|
| `MSINetwork` | messages, channels, the held head of an input buffer |
| `MSISequencer` | accesses and callbacks; EXTENDS `MSINetwork` |
| `MSICache` | the cache controller; EXTENDS `MSISequencer` |
| `MSIDirectory` | directory and memory controller; EXTENDS `MSINetwork` |
| `MSI` | the composition, fairness, all properties; EXTENDS `MSICache`, `MSIDirectory` |
| `CoherentMemory` | abstract specification: one memory, atomic accesses that complete |
| `MCMSI` | instances and access patterns for TLC |
| `MSIRefinement` | `MSI` with a history variable implements `CoherentMemory` |
| `MCMSIRefinement` | `MSIRefinement` with the instances of `MCMSI` |
| `MSI_proofs` | theorems about `MSI`: types, the directory, memory, the sequencer |
| `MSIMisses_proofs` | theorems about `MSI`: misses and acks; EXTENDS `MSI_proofs` |
| `MSIEvictions_proofs` | theorems about `MSI`: tracked copies, answered evictions; EXTENDS `MSIMisses_proofs` |
| `MSICoherence_proofs` | theorems about `MSI`: coherence without evictions of written lines, no faults without evictions; EXTENDS `MSIEvictions_proofs` |
| `MSIRefinement_proofs` | theorems about `MSIRefinement`; EXTENDS `MSICoherence_proofs` |
| `Instructions` | the trace: kinds, operands, outputs, who produces which operand |
| `Tomasulo` | the pipeline, fairness, its properties; EXTENDS `Instructions` |
| `Dataflow` | abstract specification: instructions start when their operands are available |
| `MCTomasulo` | traces for TLC |
| `Tomasulo_proofs` | theorems about `Tomasulo` |
| `Prefetcher` | prediction table, miss queue, what an access prefetches |
| `Cache` | the cache and its properties; EXTENDS `Prefetcher` |
| `MCCache` | programs, configurations and a hash function for TLC |
| `Cache_proofs` | theorems about `Cache` |

Definitions keep the names of the source; a comment gives the transition
(`state, event -> next state`). Operators described as *mutants* and named
`Definition_Change` are not part of the specification: each is a plausible
mistake in the definition next to it, and `PROJECT.json` says which property
notices when it takes that definition's place.

### How the models correspond to the code

**The protocol.**

* **Controllers.** One action per transition, or per group of transitions with
  the same SLICC actions. A transition runs its SLICC actions in order and then
  sets the state, atomically, as the generated code does. The action of a
  group keeps what depends on the state.
* **Stalls.** `z_stall` leaves the message at the head of its buffer: the
  messages behind it wait although they may be for other lines. Messages from
  one source arrive in order, those of different sources in any order, so a
  buffer is a queue per source, together with `requestHead` or `forwardHead`:
  the source whose message has been seen at the head and stalled. Until it is
  popped no other source is served. A stall in the mandatory queue needs no
  action: what is stalled there blocks nothing that others wait for, so that
  queue is a set of lines.
* **No transition.** An event without a transition calls
  `fatal("Invalid transition")` (`slicc/symbols/StateMachine.py:1275`); a failed
  assertion of the directory's `setState` also stops the simulator. Both set
  `fault`, and nothing happens afterwards.
* **Entries and TBEs** exist exactly in the states that need them, so the state
  stands for their presence. A null TBE followed by the response port is the
  event `NullTBE`, which has no transition.
* **Data.** A store replaces part of a block, so its result depends on the
  block it is merged into: `Merge`. TLC's instances count the stores modulo the
  number of values; a lost or repeated store shows as a different count.
  `lastWritten` is a history variable with all completed stores.
* **Memory** holds each request until it hands it back, in any order. The
  contents persist as with `use_map = False`, the tester's setting.
* **Replacement.** All lines of an instance fall into one set of `Assoc`
  entries; the victim is any resident line, whatever the policy.

**The pipeline.**

* **Stages.** Each stage function is one action and `stage` is the function
  `runTomasulo` calls next, so a cycle is five steps in the code's order. The
  last action contains `fetch`, the dispatch stamp, the increment of `cycle` and
  the end test, which follow each other without a choice in between.
* **Arrays.** An instruction is its index in the trace. Reservation stations and
  units are sets with a capacity: the code searches every slot and picks by age,
  never by slot. The instruction queue stays a circular array, because its
  indices are what can go wrong.
* **Instructions.** What the opcode flags tell apart: computations and loads on
  integer units, stores, floating-point computations, branches (which include
  calls and jumps) and traps. Register numbers and the operand arrays keep their
  lengths.
* **Undefined behaviour.** `instr_queue_peek_tail` on an empty queue with its head
  at 0 reads the word before the array: `PeekedTail` allows any instruction or
  NULL.
* `fetch_index` grows past the end of the trace in every later call, as in the
  code. `print_all_instr` and the statistics are left out.

**The cache.**

* **One call, two steps.** A call of `cache_access` is split where
  `generate_prefetch` calls it again: `prefetch_addr` is the address about to be
  prefetched, and only `prefetch` can follow while it is not 0.
* **Lists.** The doubly linked way list is `way_pos`, each way's position;
  `update_way_list` gives the positions after a move to head or tail. `linked` is
  the tag under which a block was put into its hash chain; a search finds only
  blocks in the chain it looks at, which is what a wrong unlinking would break.
  Initially the last way is at the head, as `cache_create` leaves it.
* **Addresses.** The code's TAGSET is tag and set number in place; the model uses
  the block number, which determines both. Additions wrap at the width of
  `md_addr_t` (`ADDR_SPACE`).
* **Prediction table.** Stride and sign are kept apart, and compared apart, as in
  the code. The head of the miss queue is kept modulo the queue's size: the code
  never reduces it, but uses it only under `%`.
* **History.** `unsaved`, `recency`, `accessed`, `latest` and `misses` record what
  the properties compare with and influence nothing. `recency` is the order of
  use of a set's tags, as a relation.
* Latencies, bus and ready times, statistics, block contents and the access
  function of the next level decide nothing about these states and are left out.

### Bounds

| Constant | Bounds | Why it is enough |
|---|---|---|
| `Cache`, `Dir`, `Addr` | 2-3 caches, 1 directory, 1-3 lines | a race of the protocol is about one line and at most a requestor, an owner and a sharer; further lines serve to evict it |
| `Workload` | who issues which access | an access pattern per question keeps the runs small |
| `MaxOutstanding` | 1 or 2 accesses per processor | lines also overlap through the directory's messages, which outlive the access that caused them |
| `Assoc` | 1 or 2 entries | 1 makes every access to another line evict; 2 with two lines rules evictions out |
| `Value` | 1-2 contents of a block | 1 for control only, 2 to tell a stale block from the latest |
| `MaxDATA` | DATA messages from one cache to one directory (1) | an owner that loses M repeatedly may run ahead of the directory, which drops the extra messages |
| `MaxWBAcks` | acknowledgements on their way to one cache while a PUTS is not popped (1) | that transition repeats for as long as the state lasts, one more acknowledgement each time |
| `Traces` | all traces of 1-4 instructions from 7, and of 5 from 4 | a hazard is about a producer, a rewrite of its register, a consumer and a competitor for unit or bus; the fifth is a second competitor |
| sizes and latencies of `Tomasulo` | queue 2, stations 3 and 1, units 2 and 1, latencies 1 and 3 | small enough to fill up and to wrap around; results of different ages meet at the bus. `peek` and `early_end` use the sizes of the code |
| `MaxCycle` | 40 (200 with the sizes of the code) | more than any of the traces takes: `Terminates` would fail if it were reached |
| geometry of `Cache` | 2 sets of 2 ways, blocks of 2 | accesses and prefetches meet in one set and in different ones |
| `Program` | 2 instructions with 2 addresses each | they share a table entry, change hands, repeat strides of both signs and of zero, and fall on the same blocks |
| `ADDR_SPACE`, `RPT_DEFAULT_SIZE`, `MISS_QUEUE_MAX_SIZE` | 48, 2, 2-3 | no extrapolated address reaches the first block (`LayoutAssumption`); the queue fills up |

`sharing` declares the caches symmetric: its workload, and every property it
checks, treats them alike.

The cache has no bound on the number of accesses: its states are finite. The
theorems hold for all values of the constants, these bounds included.

`LayoutAssumption` and `ProgramAssumption` say where programs lie: the code takes
address 0, block 0 and tag 0 for "none", so no access and no extrapolated stride
falls into the first block, and no instruction has tag 0 in the table. Programs
of SimpleScalar are linked far above these addresses.

### Fairness

A controller is woken for every message that arrives and serves its ports until
none can move, so each port makes progress (`WF`). Where several sources
compete for one port, or several lines for the mandatory queue, messages are
ordered by arrival time: none is passed over for ever even if it must wait
meanwhile (`SF` on `CacheMandatory`, `CacheForward`, `DirRequest`). Processors
need not issue anything.

`Tomasulo` has `WF` on `Next`: `runTomasulo` is one sequential loop that does not
block. `Cache` is a library called by the simulator, without obligations, and
has no fairness.

## 3. Runs

Runs that pass:

| Run | Instance | Shows |
|---|---|---|
| `sharing` | 3 caches, 2 lines, room for both, so no evictions | upgrades race with upgrades, acks overtake the ack count, forwards stall: `SWMR`, `ReadsLatest`, `AckConservation`, `NoFault`; stalled heads close no cycle: `Responsive` |
| `evictions` | 2 caches, 3 lines, both share, write and evict a line | what holds even where evictions go wrong (below): `TypeOK`, `OneAnswer`, `AckConservation`, `ResponsesExpected`, `TrackedCopies`, `RequestTracked`, `DirectoryEntries`, `MemoryAwaited` |
| `refinement` | 2 caches, a writer that keeps the line and a reader that evicts it, fair | clean evictions that race with invalidations and forwards are answered and harmless, every access completes, and the system implements `CoherentMemory` |
| `hazards` | 3824 traces (above), fair | all properties of `Tomasulo`, the refinement of `Dataflow` and termination |
| `replacement` | all three policies with no, next-line and stride prefetching, LRU with the open-ended one, and flushes | all properties of `Cache`, for access sequences of any length |

Runs that find what the code does against what its comments, assertions or
tests say; each finding in `PROJECT.json` quotes the line:

| Run | What happens |
|---|---|
| `lost_ack` | a PUTM that finds its line in MS_M is popped and never acknowledged; the cache waits for ever |
| `stale_memory` | a PUTM of a cache that is no longer the owner overwrites newer data in the directory |
| `stale_owner` | a late PUTM in MS_D is taken for the present owner's block: the directory hands out shared copies while that owner is still in M |
| `late_put` | a PUTM finds the line in a directory state with no transition for it |
| `early_end` | branches keep dispatch busy while the last station empties: the simulation ends with an instruction in the queue |
| `peek` | a trace whose length is a multiple of the queue's size leaves the queue empty with its head at 0: peeking at its tail reads index -1 |
| `miss_queue` | the head of the full queue moves before the index is computed: the new miss overwrites the second oldest |

`CHECK_DEADLOCK FALSE` is set where the simulation can stop: in a fault
(`evictions` and the violation runs of the protocol) and at the end of
`runTomasulo` (the runs of `Tomasulo`).

**Other races of the protocol.** They need three lines or a second directory,
and the model has them as well; they are not runs of their own:

* A PUTS that finds its line in MS_D or MS_M is acknowledged and not popped, so
  it is processed again until the state changes. Each time adds a WB_ACK, and a
  spare one meets a cache state with no transition for it. (`MaxWBAcks` bounds
  the repetition.)
* A PUTS counts as the last when fewer than two sharers are recorded, even if
  the one recorded is another cache. The line then enters I with a sharer left,
  and the assertion of `setState` fails. `DirectoryEntries` is stated up to this
  failure, and the directory's model records it in `fault`. It takes three caches;
  with two, `NoFault` of `refinement` checks the comparison at its boundary.
* With two directories, a forward held at the head of one cache's buffer and
  another at a second cache's hold back the messages that would release them:
  `Responsive` is claimed for one directory only, the configuration of the lab.

**Replaced under its own access.** `cache_access` reads `blk->ready` after
`generate_prefetch`. In a direct-mapped cache, and under FIFO and Random, the
prefetch can replace that very block, and the time read is the one of the
prefetched block. `AccessSurvives` is therefore stated for LRU with two ways or more.

## 4. Proofs

Seven modules hold theorems. `MSI_proofs` proves for every set of caches
(finite), directories, lines and values, every workload and every bound:

| Theorem | Statement | Inductive invariant |
|---|---|---|
| `TypeCorrect` | `Spec => []TypeOK` | `TypeOK` |
| `EntriesCorrect` | `Spec => []DirectoryEntries` | `TypeOK /\ DirectoryEntries /\ NoAssertM` |
| `MemoryCorrect` | `Spec => []MemoryAwaited` | `TypeOK /\ MemoryAwaited` |
| `RequestsTracked` | `Spec => []RequestTracked` | `TypeOK /\ RequestTracked` |

`MSIMisses_proofs` proves for the same instances, evictions, races and faults
included, from one inductive invariant `MissInv`:

| Theorem | Statement |
|---|---|
| `MissesCorrect` | `Spec => []MissInv` |
| `MissesAnsweredOnce` | `Spec => []OneAnswer` |
| `AcksConserved` | `Spec => []AckConservation` |
| `ResponsesHandled` | `Spec => []ResponsesExpected` |

`MSIEvictions_proofs` proves, for the same instances, what write-backs leave
intact when they come too late:

| Theorem | Statement | Inductive invariant |
|---|---|---|
| `CopiesTracked` | `Spec => []TrackedCopies` | `AllCovered` (`PartsKnown`), with `MissInv` and `DirectoryEntries` |
| `EvictionsAnswered` | `Spec /\ [][~ForgetsPut]_vars => []EvictionAnswered` | `AllAnswered`, with `MissInv` and `MemoryAwaited` |

`ForgetsPut` is the transition MS_M, PUTM_NotOwner, which pops a write-back and
answers nothing. `EvictionAnswered` fails with it (run `lost_ack`); the theorem says
that it fails with nothing else.

`MSICoherence_proofs` and `MSIRefinement_proofs` prove what evictions break
(section 3). `DirtyEviction` is a Replacement in state M: behaviours without one
evict clean lines in any way, as those of the run `refinement` do, where a reader
evicts a line that a writer keeps. `Fitting` is `Cardinality(Addr) <= Assoc`: all
lines have room in a cache, so nothing is evicted (`NoneEvicted`). The run
`sharing` is an instance of it.

| Theorem | Statement |
|---|---|
| `CoherenceCorrect` | `Spec /\ [][~DirtyEviction]_vars => []CoherenceInv` |
| `SingleWriter` | `Spec /\ [][~DirtyEviction]_vars => []SWMR` |
| `LoadsReadLatest` | `Spec /\ [][~DirtyEviction]_vars => []ReadsLatest` |
| `NeverStops` | `Fitting => (Spec => []NoFault)` |
| `CoherentIfReadsLatest` | `ReplySpec /\ []ReadsLatest => AnswersAsOneMemory` |
| `ImplementsOneMemory` | `ReplySpec /\ [][~DirtyEviction]_vars => AnswersAsOneMemory` |
| `FittingImplementsOneMemory` | `Fitting => (ReplySpec => AnswersAsOneMemory)` |

The runs `stale_owner` and `stale_memory` show that coherence fails where written
lines are evicted; `SingleWriter` and `LoadsReadLatest` say that nothing else
breaks it, a controller that has stopped included.

`AnswersAsOneMemory` is the safety part of `CoherentMemory` under the refinement
mapping; `CoherentIfReadsLatest` covers every eviction, as far as it leaves the
copies correct.

`Tomasulo_proofs` proves for every set of traces, every register set and all
sizes and latencies (positive), from one inductive invariant `Inv`:

| Theorem | Statement |
|---|---|
| `PipelineTypeCorrect` | `Spec => []TypeOK` |
| `QueueCorrect` | `Spec => []QueueInOrder` |
| `StationsCorrect` | `Spec => []StationsHold` |
| `TagsCorrect`, `MapCorrect` | `Spec => []TagsExact`, `Spec => []MapExact` |
| `DependencesResolved` | `Spec => []RAWResolved` |
| `BusInOrder` | `Spec => []OldestFirst` |
| `StampedOnce` | `Spec => EntersOnce` |
| `DataflowImplemented` | `Spec => ImplementsDataflow` |

`Cache_proofs` proves for every geometry, hash function, configuration and
program that `LayoutAssumption`, `TableAssumption`, `ProgramAssumption` and
`GeometryAssumption` allow, from one inductive invariant `CacheInv`:

| Theorem | Statement |
|---|---|
| `CacheTypeCorrect` | `Spec => []TypeOK` |
| `FastHitCorrect` | `Spec => []FastHitSound` |
| `SingleCopy`, `ChainsCorrect` | `Spec => []OneCopy`, `Spec => []HashChains` |
| `StoresKept` | `Spec => []DirtyKept` |
| `FreeFirst` | `Spec => []ValidFirst` |
| `UseOrderCorrect` | `Spec => []LRUOrder` |
| `AccessedStays` | `Spec => []AccessSurvives` |
| `StridesCorrect` | `Spec => []StrideIsLast` |

Assumptions of the protocol: the named `ASSUME`s of the modules (caches and
directories are disjoint, `None` is neither a node nor a value, there are
finitely many caches and lines, `DirOf`, `Merge` and `InitialBlk` are functions
of the right type, the bounds are positive). Assumptions of the pipeline: `DNA`
is not a register, traces are nonempty sequences of instructions in which no
store has an output, sizes are positive.

*Type correctness* of the protocol is proved port by port. A few lemmas say what sending,
multicasting and popping do to a channel, and what each update the transitions
share does to its variable; each transition is then a choice of updates.

*The directory.* `EntryOnRequest` lists what the transitions of
`requestQueue_in` and its stall do to an entry and the memory queue, without
the messages; `RequestEntry` proves the list complete. The invariants on
entries and on the memory queue follow from the list. That the assertion on M
(`NoAssertM`) does not fail is not inductive alone: M is entered from IM_M when memory answers, so the transient states
must already have one owner and no sharer, which is what `DirectoryEntries`
adds. The assertion on I does fail (section 3); `DirectoryEntries` excludes
only the state after that failure, from which no step follows.

*Requests.* A step concerns one line of one cache (`TrackedLine`): it keeps the
line's wait as it is, starts it when a request leaves the mandatory queue, or
ends it with a callback. A load that would hit in SM_AD or SM_A cannot occur,
because the table already holds the line's store.

*Misses and acks.* `MissInv` is `ChannelInv`, which says what the channels may
hold (a request, a forward or an answer is in its channel once; forwards name
their requestor; acks count one each), and for each cache and line `PlaceInv` and
`DueInv`. `PlaceInv` says that the miss is in one place, as one message: request,
memory read, forward or data. `DueInv` says that the acks expected, from the TBE
and from the count under way with the data, are as many as there are sharers with
an invalidation or an ack under way. None of the three properties is inductive
alone. Acks are only conserved because invalidations go out with the one answer
to a miss, when nothing else is due (`PlaceInv`), and responses meet a waiting
line because data is the miss itself and an ack is one of those due: with the
count still under way it cannot be the last. Every step is reduced to what it
puts into and takes from each network (`ReqPut`, `FwdTake`, ...), so that the
argument about a line is made once per kind of move and not once per transition.
Set cardinalities change by one member at a time, or from none to all sharers at
once.

*Copies with evictions.* `TrackedCopies` is not inductive: what the directory
forgets when it takes a write-back must not matter. `PutInv` says why it does not.
The write-back of a cache precedes its next request for the line in the same
channel, so while it has not been taken that request has not been taken either,
and the cache has no copy. Every other cache plays a part that the directory knows
of: one that shares, or has been granted a copy, is `Noted` (a sharer, an owner, or
sent an INV or a GETM); one that owns, or has been made the owner, is `Charged`. An
owner that the directory has asked to share the line is a sharer from then on,
and the directory may invalidate it before it has shared: `LentAndLost` says that
the INV is then behind the GETS in its channel, so it finds the copy. What a cache
has been granted is told from what it has asked for by `MissInv`: its request is
still a request, or it is not.

*Answered evictions.* A write-back is followed from the request channel to the
acknowledgement, or first to memory; `MemoryAwaited` gives that the one answer
memory owes a line in MI_M is the one that this write-back waits for.

*Coherence.* `CoherenceInv` is `NoDirty` (no written block is on its way back
from an eviction), `BacksInv`, `CoherentLines` for each line, and `NoEviction`
under `Fitting`. The directory sends for the block of an owner before that owner
has received it, so the owners of a line form a queue, as long as the number of
caches: each waits for the block of the one before it, the first holds the block
or has it under way (`Token`), the last is the owner that the directory has
recorded (`LastOwner`). `QueueOf` says so with a rank for each owner; `Token` is
what makes M unique, and its holder leaves the queue only by handing the block
on. Copies and a token exclude each other except for those copies that an
invalidation on behalf of the new owner is about to reach (`TokenInv`), and the
owner cannot enter M before these are acknowledged, which is where `MissInv` comes
in: the acks due are the sharers that still owe one. A cache that evicts a clean
copy stays a sharer until the directory takes its PUTS, and it acknowledges an
invalidation in the meantime; `PutInv` of `MSIEvictions_proofs` says that the PUTS
is then ahead of whatever the cache asks for next. So while a line has no owner the
copies are among the sharers (`CopyInv`), and under `Fitting` they are exactly the
sharers, which the absence of faults needs and coherence does not. `ValueInv` follows the latest
contents from memory through the directory and the queue. `BacksInv` says that the
directories are sent nothing but blocks that owners return after a GETS, each
once, and `BackInv` that there is at most one per line, and only while the
directory waits for it in MS_D. The absence of faults is read off the same
invariant where nothing is evicted: that a forward meets an owner, an invalidation a sharer and a block
from an owner a waiting directory is read off the same invariant.

*The refinement.* A step changes the abstract memory only through the sequencer:
`makeRequest` issues, `readCallback` loads and `writeCallback` stores, and
`RequestTracked` says that the callback is for the access in the table. Every
`readCallback` leaves a readable entry behind, so `ReadsLatest` gives what the
load returns.

*The pipeline.* `Inv` joins the properties with what they need of each other.
`QueueInv` says that the queue is the interval of program order between what is
issued and what is fetched: hence issue is in program order, and the map table,
which is overwritten at each issue, names the last writer. `Clock` says at which
stages a result on the bus can be of the current cycle; it turns "the tag has
been cleared" into "the producer was on the bus in an earlier cycle", which
`RAWResolved` needs. `Places` says that an instruction that is issued and not
broadcast is in a station, so that a broadcast reaches every waiting consumer,
and that one that is not issued has no tags or stamps. `MapExact` and `TagsExact`
need each other: a tag is a copy of the map table at issue, and both are cleared
by the same broadcast. `StampedOnce` and `DataflowImplemented` are proved about
steps from `Inv`: of all the stages only `issue_To_execute` starts instructions
and only `CDB_To_retire` makes a result visible.

*The cache.* Every path of `cache_access` and both flushes are reduced to three
changes of a set: a block is marked dirty, a block is replaced and moved to an
end of the list, or a block becomes invalid. Lemmas say what these do to each
conjunct of `BlockInv`. `FastHitSound` is inductive only with `OneCopy` and
`HashChains`: a block that is hit must be the only one of its tag, and the search
must see it. `AccessSurvives` needs `AccessKept`: while the prefetch is pending,
the accessed block is at the head of its list, so with two ways or more the tail
is another block. `StrideIsLast` needs that an entry without owner is in its
initial state and that an owner's index is that of its entry (`Owned`): two
instructions of the same entry are then told apart by their tags.

`LRUOrder` compares positions in the way list with `recency`, a relation on tags
of which each access makes the used tag first; the theorem needs `OneCopy`, so
that a tag stands for one way.

Only model-checked:

* `SWMR` and `ReadsLatest` with evictions of written lines, and `NoFault` with
  evictions of any kind: they hold on the workloads of their runs and fail under
  the eviction races above. That is why their theorems exclude these evictions. Clean ones
  are enough to stop a directory once there are three caches: a PUTS that comes
  after its cache was struck from the sharers looks like the last one, and
  `setState(I)` fails on the sharer that is left;
* `Responsive` (`ENABLED`), `RequestCompletes`, `Terminates` and the liveness part
  of the refinement of `CoherentMemory`, which include fairness: out of the
  prover's reach.

## 5. Not modelled

* Sequencer: LL/SC, locked read-modify-write and flush accesses, statistics.
* Network: finite buffers, link bandwidth, the stall-and-wait buffers (this
  protocol does not use them).
* Memory: banks and timing; the sparse memory (`use_map = True`), where
  `directory.invalidateBlock` loses contents.
* Caches: the order of the replacement policy, several sets.
* DMA: the protocol has no DMA controller.
* Pipeline: the printed table and cycle counts per instruction as output.
* Cache: latencies and bus contention, statistics, block contents (`balloc`),
  the chain of caches that `sim-cache.c` builds. A lower level sees the demand
  misses and the write-backs of the upper as accesses, as in `Program`; it sees
  the upper's prefetches as accesses with the prefetch flag, which may come at any
  time, may hit there and cause no prefetch of its own: these are not modelled. An
  access to block 0, or a stride that leads there, which the code's assertions rule out.
* Branch predictors of `lab2/sim-safe.c`: tables looked up and updated once per
  branch, without interaction of components or of events; the counts they print
  are compared directly.
* Everything of SimpleScalar and gem5 that the labs only use: the bulk of the
  repository is this third-party code.

## 6. Plan

Done: the protocol, the pipeline and the cache with their runs; all properties of
the pipeline and the cache that the prover can state; types, entries, memory,
requests, misses, acks, tracked copies and answered evictions of the protocol
with every eviction; its coherence and the refinement of one memory with evictions
of clean lines; the absence of faults without evictions. Next: the predictors of
`lab2`, against the automata of their assignment.
