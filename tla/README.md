# TLA+ models of the SSD cache simulator

The repository is a trace-driven simulator of a fast flash cache in front of a
cold flash drive. `cache_sim` reads a block trace, cuts every request into cache
blocks and hands them to one cache, chosen by name in `createCache`
(`icache.cpp`); the cache writes back to a cold tier, a simulated page-mapping
drive. The numbers of interest are write amplification factors, and they are
right only if the bookkeeping underneath is: which copy of a block is the newest,
which segment or flash block is free, which one may be emptied next. Beside the
simulator there are programs that work on traces and results: a miss ratio curve,
a working-set scan, an optimizer of cache sizes.

This directory holds TLA+ models of that bookkeeping, TLC configurations that
check them on small instances, and theorems that TLAPS proves for every size.

## 1. Inventory

Nothing is persisted, and but for two places the code is sequential. Its hard
behaviour is *loops inside calls*: inserting one block may start garbage
collection, which picks a victim, evicts or copies its blocks one at a time,
allocates while it does so, and returns into the middle of the insertion.
Containers of raw pointers (pool, active tables, policies, queues, mapping) must
agree at each of these points. The two places with threads are the modelling
thread of MiDAS and the readers of the working-set scan.

| component | state | operations | correct when |
|---|---|---|---|
| `PageMappingFTL` (`ftl.cpp`) | page bitmap, counters, write pointer of each block; forward and reverse page map; free stack; active block per stream; GC block; greedy heap | `Write`, `Trim`, and inside them `AllocateNewActiveBlock`, `RunGC`, `AllocateNewGCActiveBlock`, `InvalidatePpn` | no page is lost or resurrected, heap = full blocks under current counts, free blocks are erased, GC always has a destination, a write ends |
| `LogCache` (`log_cache.cpp`) | segments; `mapping`; `free_pool`; `active_seg`, `gc_active_seg`; evictor and compactor; valid counters | `batch_insert`, `invalidate`, `alloc_segment`, `check_and_evict_if_needed`, `evict_and_compaction`, `evict_segment`, `evict`, `reset_segment` | a block is mapped to the one place that holds it, a segment is in one container, counters are exact, a victim and a destination exist when needed, an insertion ends |
| victim policies (`evict_policy_*.cpp`) | heaps, queues, sets, multisets with handles | `add`, `remove`, `update`, `choose_segment` | they hold every sealed segment once, and choose by current counts |
| stream policies (`sepbit.cpp`, `fifo.h`, `metadata.h`, `hot_cold*.cpp`, `multi_hot_cold.cpp`) | average lifespan, recency ring and its index, creation times, cycle counter | `Classify`, `Append`, `CollectSegment`, `GetVictimStreamId` | ring and index tell how long ago a block was written; classes follow the history |
| `ICache` (`icache.cpp`) | the cold drive, byte counters | `_evict_one_block`, `_invalidate_cold_block`, statistics, `createCache` | a written block has one newest copy |
| `LogFIFOCache` | one ring, mapping | `batch_insert`, `evict_one_block` | the ring is in the order of the last writes |
| `LRUCache`, `DummyAllocator` | recency list, map, address allocator, an FTL of its own | `batch_insert`, `evict_one_block`, `alloc`, `free` | addresses pair up with cached blocks, reused ones bring nothing back |
| `FairyWrenCache` | log, hot and cold regions: free lists, queues of closed segments, active segments, valid counts; mapping | `batch_insert`, `ensure_active_segment`, `reclaim_from_*`, `force_reclaim`, `migrate_block`, `drop_segment`, `maybe_run_gc` | index and segments agree through nested reclaims, regions keep their sizes and counts |
| `MidasCache`, `RemapTable` | key-to-slot table with a lazy free list; the engine | `batch_insert`, `maybe_run_gc_policy`, `evict_one_segment`, `get_or_assign`, `checking_ginfo`, `checking_err_time` | one slot per key, table = engine |
| MiDAS engine (`MiDAS/ssdsimul.cpp`, `algorithm.cpp`, `hf.cpp`) | pages and their out-of-band areas, group of each segment, queue and count of each group, hot filter, configuration | `write`, `do_gc`, `merge_group`, `hot_merge`, `group_split`, `move_margin_seg`, `change_config_2`, `mida_on_off`, `err_handling` | pages, queues, labels and counts agree; the engine never trips over its own checks |
| MiDAS model (`MiDAS/model.cpp`) | interval counts, time stamps, window, `ginfo`, `model_mutex`; the thread | `check_time_window`, `update_count`, `check_first_interval`, `model_initialize`, `making_group_configuration3` | the thread's input holds still, an answer fits the drive, counting goes on |
| `mrc_calculator.cpp` | links, Fenwick tree, distances, buckets | `compute_distances`, `build_mrc_from_distances`, `calculate_mrc_intervals` | the curve is the one an LRU cache of each size would show |
| `dp_optimizer.cpp` | grid of costs, table, parents | the recurrence and the way back | the schedule is allowed and cheapest |
| `parallel_util.cpp` | parts of a file, one per thread; ranges | align, read, sort, merge | every byte counted once, wherever the file is cut |
| `GhostCache`, `FIFOCache`, `NoCache`, `cache_sim`, trace parsers, statistics, other tools, scripts | see section 7 | | |

Interaction: `cache_sim` calls `batch_insert(0, blocks, op)` of the cache
(`cache_sim.cpp:62`); the cache calls its victim policies on every seal, reset and
invalidation of a full segment, its stream policy on every placement, and
`_evict_one_block` / `_invalidate_cold_block` of `ICache`, which call `Write` and
`Trim` of the cold `PageMappingFTL` on stream 0; the drive calls its own
`GreedyEvictPolicy`. `MidasCache` drives the engine, which calls back nothing but
leaves a list of copied lbas behind, and shares `ginfo`, the group counts and the
interval counts with the modelling thread.

The hazards this code is exposed to are listed, each at its line, in
`PROJECT.json` ("hazards"), with the properties aimed at them.

## 2. Modules

| module | what it is |
|---|---|
| `LogicalDisk` | abstract: what a drive promises. The pages that hold data, and whether a write is in progress |
| `TieredStore` | abstract: what a write-back cache in front of a cold drive promises. Where the newest copy of each block is |
| `FTL`, `FTLProofs` | `PageMappingFTL` with its greedy heap, one action per loop turn; its inductive invariant and theorems. Implements `LogicalDisk` |
| `EvictPolicy` | what LogCache may expect of a victim policy: three kinds |
| `LogCache`, `LogCacheProofs` | LogCache, its garbage collection and compaction; its inductive invariant and theorems. Implements `TieredStore` |
| `LRUCache`, `LRUCacheProofs` | LRUCache and DummyAllocator on the drive of `FTL`; theorems, on top of those of `FTLProofs`. Implements `TieredStore` |
| `LogFIFOCache` | LogFIFOCache. Implements `TieredStore` |
| `FairyWren`, `FairyWrenProofs` | FairyWrenCache; its inductive invariant and theorems |
| `MidasEngine` | the MiDAS engine, as operators on its state |
| `MidasCache`, `MidasProofs` | MidasCache and RemapTable on the engine; its inductive invariant and theorems |
| `MiniModel` | the interval counts of `model.cpp`, the modelling thread and its mutex |
| `Containers` | lemmas about stacks, queues, tables and counts that several proofs cite |
| `GroupSearch` | the search for group sizes which that thread runs |
| `MiniModelProofs` | the inductive invariants of `MiniModel` and `GroupSearch`, and theorems |
| `VictimPolicies` | five victim policies as containers, with the calls LogCache makes to them |
| `SepBIT` | SepBIT, its recency ring and its creation times |
| `PartsProofs` | the theorems about smaller modules: `LogFIFOCache`, `SepBIT`, `VictimPolicies`, `TieredStore` |
| `DPOptimizer`, `MrcCalculator`, `ParallelScan` | the three offline programs |
| `MC*` + `MC*.cfg` | instances. `MCModel` holds the two halves of `model.cpp`; `MCParts` holds the parts that share no state |

`MCModel` and `MCParts` put modules side by side: the first state chooses one
(`half`, `part`), and a behaviour is of that one only while the others stay where
they begin. The states are the sum of those of the parts, not the product, and a
property of one part holds for the others because they are in their first state.

Definitions named `Slip...` are plausible slips of the definition that follows.
No specification uses them; they are put in its place to show that a property
would notice.

### FTL and the code

A physical page is a pair `<<block, page>>` (`id * PAGES_PER_BLOCK + page` in the
code). `valid[b]` is the bitmap as a set; `valid_cnt`, `write_ptr`, `lpnToPpn`,
`ppnToLpn`, `freePool`, `activeBlk`, `gcActiveBlk` are the members of those names;
`heap[b]` is the count under which the Boost heap has filed block `b` (`NotTracked`
when it has no handle), which may differ from `valid_cnt[b]` if the code forgets to
call `update`. `pc` is where the single call in progress is:

    idle --BeginWrite--> program --FinishWrite--> idle
              |             ^
              v             | AllocateActive (enough blocks free)
            alloc ----------+
            |   ^  \-- RunGCFails (nothing to reclaim: the loop spins)
            |   | EraseVictim
            v   |
           migrate: SkipPage, AllocateGCActive, MigratePage, per page of the victim

`BeginWrite` is `Write` up to the lookup of an open block, including the
invalidation of the old page, which the code does *before* it looks for space.
`InvalidatePpn` and `ProgramPage` are shared by the actions as they are by the
functions. `RunGCFails` changes nothing: `RunGC` returns false and its caller's
loop ignores that.

### LogCache and the code

The members keep their names. `blocks[s][i]` is the key whose valid bit is set at
offset `i`, or `None`; a key whose bit is clear is never read by the code. One call
of `batch_insert` for one block is the sequence

    Insert        seal a full active segment (evict_policy_add), or find the open one
    alloc:        alloc_segment's GC loop (Choose..., EvictBlock / MoveBlock, ResetVictim)
    AllocActive   take the front of the pool
    Place         invalidate the old copy, append, count; is a proactive turn due?
    proactive / burst: check_and_evict_if_needed(1), with the same actions

`check_and_evict_if_needed` is split by the branches of its body: `ChooseToEvict`
(no compaction), `ChooseToCompact`, `ChooseTooFull` (the compactor's victim is more
than 95 % valid, put back, and the evictor's victim is evicted instead).
`evict_and_compaction` is `OpenTarget`, `MoveBlock` and `EvictBlock`;
`evict_segment` is `EvictBlock` until nothing is left; `ResetVictim` is
`reset_segment` and the loop's condition. After a proactive turn the loop goes on
while at most `FreeLow` segments are free (`caller = "burst"`).

Abstracted to a choice, because it depends on ages and floating-point weights: the
segment an "ordered" policy prefers; whether `evict_and_compaction` copies a block
or evicts it; the stream `Classify` answers; the compaction target, any member of
`CompactTargets` on every turn (`periodic` varies the rate; below 0.1 compaction is
off). Every behaviour of the code is among the choices.

`EvictPolicy` distinguishes what the implementations do differently to the *set* of
segments: `"ordered"` (`FifoEvictPolicy`, `CbEvictPolicy`), `"greedy"`
(`choose_segment` leaves its answer in the heap, `add` of a tracked segment pushes a
second node and forgets the first handle) and `"kth"` (`KthCbEvictPolicy`,
`MiDASGreedyEvictPolicy`: `update` adds an unknown segment).

### LRUCache and the code

`cacheMap`, `cacheList`, `freeList` and `allocated` are the members of those names;
the logical pages of the drive are the addresses the allocator hands out (a cache
block is one page of the drive; in the code it is a run of them, which one call
trims or writes together). `batch_insert` handles its blocks one after the other:
`Hit`, or `EvictFor` while the cache is full (`missing` is the block it makes room
for) and then `Insert`. `Hit` and `Insert` end in `cache_ftl.Write` when the host
writes; `DriveStep` is the rest of that call, with the actions of `FTL`, and the
host waits for it (`pc`). A block that is only read in gets an address but nothing
is written to the drive. `dirty` is a history variable: the cached blocks that were
written since they came in. `AddressesExact` says that addresses pair up with blocks
and that what the drive stores is exactly the addresses of the dirty ones.

The cache writes every evicted block to the cold drive, dirty or not, and never
trims a cold copy when a block is written again. So its `cold` is larger than
`TieredStore` allows; the refinement discounts the copies of cached blocks.

### LogFIFOCache, FairyWren and the code

`LogFIFOCache` is the ring: `InsertBegins` invalidates the older copy (in the ring
or on the cold drive), `EvictOldest` writes back what is still valid in the slot at
`write_ptr`, `AppendBlock` takes the slot. `before` is a history variable, the order
of the last writes as a relation between cached blocks, against which the ring is
checked.

In `FairyWren` the cache is one record `c`, and every procedure an operator from
the record to the record it leaves, `c.ok` being its answer; the procedures call
each other exactly as in the code, so a forced reclaim happens in the middle of the
call that needs it. Two actions remain, `AppendHost` and `RunGC`, and `Throw`, the
exception "no free FWLOG segment". The reclaims from the three regions share one
operator, `ReclaimFrom`: they differ in the region the valid blocks go to, in what
is done with a wholly valid victim, and in what a copy may force. In the code the
procedures call each other in circles (`ensure_active_segment`, `force_reclaim`,
`reclaim_from_*`, `copy_valid_blocks`, `migrate_block`); but `migrate_block` passes
`allow_force` only for a region behind its own (`fairywren_cache.cpp:325`), so cold
forces nothing, hot forces cold, and the log forces both. So `EnsureActive` takes the
state that the forced reclaim would leave and `ReclaimFrom` the one its copy would,
and `CopyFromCold`, `ReclaimFromCold`, `CopyFromHot`, `ReclaimFromHot`, `ForceHot`,
`CopyFromFwlog`, `ReclaimFromFwlog`, `ForceFwlog` are defined in this order without
recursion; `EachValid` is the loop of `copy_valid_blocks` itself. Ages, histograms and the statistics file are left out. The assumption
`TotalSegments >= 3` gives each region a segment; with one or two the constructor
leaves a region empty.

### MidasCache, MidasEngine and the code

`MidasEngine` is written in the same way: the engine is the record `e` (`page` and
`where` are the out-of-band area and `mtable`, `gnum` is `gnum_info`, `queue`,
`size` and `total` are `fill_queue`, `group->size` and `TOTAL_GNUM`, `active` the
active segment of a group and its offset, `naive` is `naive_start`, `hf` the
counters of the hot filter), and where the code calls `abort()`, takes an element of
an empty queue or writes to a segment that is not there, `e.stop` says where. A
queue is a set: which of its segments is oldest is a choice.

`MidasCache` has three phases per key: turns of eviction or collection
(`EvictTurn`, `GCTurn`) and the write with its slot (`WriteKey`), where the key is
chosen, as no turn looks at it; the model's answer, at any time one of the
configurations in `Configs` or a refusal (`CheckModel`); and the check for errors
(`CheckError`). `compacted` is `compacted_at_`, resolved from
lbas to keys after the collection, as the code does it.

### MiniModel, GroupSearch and the code

`MiniModel` has two processes. The writing thread alternates between a write, which
it counts (`Write`), `checking_ginfo` (`CheckGinfo`) and, when there is an answer,
`model_initialize` (`Reset`), which needs `model_mutex`. The modelling thread takes
the mutex (`ThreadStart`), answers through `ginfo` or not (`ThreadAnswers`), or
calls `model_initialize` itself while it holds the mutex (`ThreadGivesUp`: it never
returns, `tpc = "stuck"`). Time stamps are doubled as in the code, the low bit saying
"written once". `again` is a history variable that counts what should be counted.

`GroupSearch` is the control of `making_group_configuration3`: first the hot group,
then a group more per level, then rounds in which single groups change size. A
prediction is a choice of rank (no answer, one of three below 100, one above, the
initial 10000), except where the sizes alone decide it.

### The remaining modules

`VictimPolicies`: one of five policies (`pkind`), its list, lists or heap with
versions, and LogCache's calls: fill, overwrite, seal, choose, consult (asking one
policy while another's victim is taken), reset. `padded` is a history variable, the
order in which the segments were added.

`SepBIT`: `Appends` and `Collects`; `Lifespan`, `HostClass` and `GCClass` are what
the calls answer in a state. The recency ring keeps its two positions and its index
with the code's arithmetic. The average is kept as a sum, so that no division is
needed. `written` is a history variable.

`DPOptimizer`, `MrcCalculator`, `ParallelScan`: each program reads its input one
step at a time as a choice, runs its algorithm one loop turn at a time, and is then
compared with what the result means, said without the algorithm: all schedules, an
LRU cache of each size run over the trace, the union of all byte ranges.

## 3. Runs

| run | instance | what it shows |
|---|---|---|
| `ftl` | 3 blocks x 3 pages, trigger 2, 4 lpns | type correctness, `MappedPagesReadable`, `ValidPagesOwned`, `HeapExact`, `PoolSafe`, `GCAllocationSucceeds`, `ImplementsLogicalDisk` (837 000 states) |
| `ftl_live` | 5 x 2, trigger 4, 3 lpns | `WriteCompletes` under weak fairness |
| `ftl_full` | the same with 4 lpns | **violated**: the write never ends, see 5 |
| `lc_compact` | 5 segments x 4, 5 keys, one stream, compactor | `MappingExact`, `CountsExact`, and the three asserts of garbage collection together (`AssertionsHold`), with eviction, compaction and too-full victims |
| `lc_groups` | 5 x 2, keys 0..2 written back in pairs | `ImplementsTieredStore` when one eviction reaches into other segments; `InsertCompletes` under weak fairness |
| `lc_streams` | 7 x 4, two host and two GC streams, 3 keys | a victim is spread over several destinations: `GCAllocationSucceeds`, `SegmentInOnePlace` (0.8 million states) |
| `lc_kth` | 5 x 2, `KthCbEvictPolicy` as compactor | **violated**: see 5 |
| `lru` | 5 x 2, trigger 4, 3 addresses, 4 keys | `AddressesExact` and `LRUImplementsTieredStore`, through evictions, address reuse and the drive's garbage collection (625 000 states) |
| `midas` | 6 segments x 2 pages, 3 lbas, 4 keys, configurations of 3 and 4 groups, one with a group of one segment | `PagesExact`, `GroupsExact`, `HotExact`, `KeysStored`, `RoomKept`, `ChecksHold` (1.5 million states) |
| `midas_hot` | the same | **violated**: see 5 |
| `model` | window of 4 units of 2 writes, up to 8; a drive of 7 segments | `CountsExact`, `ModelAlone`, `ModelGoesOn`; `AnswerFits`, `SearchIsOver` (614 000 states) |
| `parts` | see below | LogFIFOCache: `RingInOrder`, `LogFIFOImplementsTieredStore`. FairyWren: `IndexExact`, `SegmentsShared`, `RegionCountsExact`, `NothingDropped`. Policies: `VictimsTracked`, `ChosenInOrder`. SepBIT: `HistoryKept`. Programs: `DPOptimal`, `MrcExact`, `UsedExact` (0.4 million states) |

### Bounds

**Drive.** The trigger is 2 and not the code's 4 in `ftl`: two more blocks and a
trigger of 4 give the same number of states, because the blocks at the bottom of
the free stack never leave it, and 2 leaves the collector no slack. 4 pages on 3
blocks are one more than there are blocks, so every full block can hold live data
and a destination is really needed; 3 pages per block let a victim straddle two
destinations. `ftl_live` and `ftl_full` keep the trigger of 4.

**LogCache.** The code's 3 and 10 free segments are `FreeLow` and `FreeHigh`, shrunk
to 1 and 2. 5 segments are the active one, a GC destination, a victim, and the pool on
both sides of its limits. 2 blocks per segment make a segment fill, half-empty and
empty; 4 make the phase counter (`segment_size_blocks / 2`) and the 95 % limit matter.
`CompactTargets = {0, 9}` is compaction off and on. 3 keys (of which one is being
inserted) allow a victim with several valid blocks while others are overwritten.

`lc_compact` has 5 keys: a victim of 4 blocks is too full only when all 4 are valid,
which takes 4 keys that are not being written again. TLC reaches `ChooseTooFull` there,
and would not with fewer. `lc_streams` has to keep a reserve: with two
GC streams one open destination may leave 3 of its 4 slots unused while the other needs
room, so `FreeLow` is 2, the least `EnoughReserve` (section 6) asks for; so is `FreeHigh`, as
the proactive turn must not hide the allocation loop (with one host stream that loop
never has to collect). 7 segments are two host and two GC destinations, the two kept
free and the victim. The cases the run is about are reached: the allocation loop
collects, and a victim with two or three valid blocks is compacted while both
destinations are full and the pool is down to `FreeLow`. A victim with 4 valid blocks
is `lc_compact`'s.

These two runs use a VIEW, `Renamed`: a segment is known by what it holds and where
it is (pool, active tables, policies, victim), not by its number. The pool is a queue
but its segments are empty and alike, and a policy of the kind "ordered" may prefer any
segment it tracks, so states that differ by a renaming of the segments have the same
future.

**LRU.** One key more than there are addresses forces evictions, and 3 pages are the
most a drive of 5 x 2 has room for (`ftl_full`). That a write to the LRU cache ends
is the drive's own liveness (`ftl_live`): it rests on the 7 % that
`EffectiveCapacity` keeps back covering the drive's trigger and open blocks.

**MiDAS.** The naive chain has 2 groups instead of 4, the filter counts to 2 instead
of 3, one turn precedes a write instead of 25. `LowWater = 7` is above the number of
segments, as in `createCache`, so every write does its turn. The four keys have the
same home slot, so the remap table's free list is used and can run out. One group's count may be
taken below zero by one (`MaxDrift`); further evictions of that kind are not
followed. Configurations of 3 and of 4 groups (`MaxNaive = 3`)
make merge, split and `move_margin_seg` all happen; in the third one group 1 has a
single segment, and `move_margin_seg` can run out (section 5). `FreeNum = 3` is what
one turn before a write needs to leave it a segment: with one less `RoomKept` fails.
The run uses a VIEW, `Renamed`: segments are known by
what they hold and where they are, and keys with the same home by their slot and
flags. No definition compares segment numbers except that the lowest free one is
taken, and free segments are alike; so states that differ by a renaming have the
same future and satisfy the same properties.

**Model.** 2 lbas of which one is sampled, units of 2 writes, 2 units looked at lba
by lba; the window may double once. The search has 2 levels and 2 rounds instead of
8 and 4, and hot groups up to 2 instead of 29: every path through its loops is taken
at least twice. The drive is roomy (`RoomyDrive`: 7 segments for a hot group of 2, an
overshoot of 1 and a margin of 1); section 5 says what happens on a smaller one.

**Parts.** FairyWren: 5 segments of 2 blocks (the log gets 1, the other regions 2
each) and 4 blocks, in which segments are copied, exchanged and dropped, forced
reclaims nest, and the log runs out: every expression of the module is evaluated. Its
blocks are interchangeable: the VIEW
`PartsView` keeps, of a state in which `IndexExact` holds, which slots are occupied
and how many blocks are on the drive; a state in which it does not hold is kept as
it is. Ring: 3 slots, 4 keys. Policies: 3 segments of 2 blocks, 2 lists; 4 entries
in the heap of versions (`PMaxGen`). SepBIT: a ring of 4 for segments of 2, 6 writes
(`SLog`), so the ring wraps; averages of 2 segments instead of 16; 10000 for
UINT32_MAX (`SUnknown`). Optimizer: 2 runs,
3 bins, 3 steps, a change allowed every 1 or 2 steps. Curve: all traces of 6 accesses
to 3 blocks (`MLen`), three shapes of buckets. Scan: all files of 6 characters with
at most 2 newlines (`ULines`), 2 threads.

**Symmetry** is used where no definition orders the values (keys, lpns, streams,
segments of `VictimPolicies`), and never in a run that checks liveness.

**Deadlock** is checked in the runs of the drive, LogCache and LRU: the program can
always take another call, and a call in progress that cannot go on is an error. In
particular a compaction that finds no free segment, and a destination that is the
victim, would deadlock. It is not checked in `midas` (the engine stops for lack of
a slot or a victim, on the count of hot segments, or in `move_margin_seg`), `model` (a search ends, a thread may get
stuck) and `parts` (`Throw`, and programs that end).

## 4. Fairness

`FTL`, `LogCache`: `WF_vars(Internal)` only: the thread that made a call executes it.
Whether the host makes another call is never assumed. `MiniModel`: each action of
the writing thread and the modelling thread's next step, weakly: the host goes on
writing and the operating system schedules both threads. `model_mutex` is never
contended repeatedly, so weak fairness is enough for it. `GroupSearch`: the thread
executes its loop.

## 5. Where the code and its own words disagree

* `ftl_full`. `ftl.cpp:225` says "No reclaimable space (all valid). Avoid spinning
  forever." and returns false; `AllocateNewActiveBlock` ignores the result and loops.
  The trigger of 4 and the open blocks are the spare space the drive really needs:
  `ftl_live` (3 pages of 10) passes, `ftl_full` (4 of 10) does not.
* `lc_kth`. `KthCbEvictPolicy::update` adds an untracked segment, here a full GC
  destination that is not sealed. It is emptied while `gc_active_seg` names it,
  and later `assert(victim->full())` (line 95 of that file) fails. The model reaches
  it with `KthCbEvictPolicy` as the compactor.
* `midas_hot`. With a single group, hot segments are queued with group 1.
  `evict_one_segment` passes the queue's number to `initialize_segment`
  (`midas_cache.cpp:242-243`), so the eviction of a hot segment is taken off
  `TOTAL_GNUM[1]`, and the next configuration aborts on the count of hot segments
  (`algorithm.cpp:687-689`).

Seen while modelling, each reproducible by changing an instance, and without a run
of its own:

* `MCLogCache_Kth.cfg` with `CompactorKind = "greedy"` and the invariant
  `TargetIsNotVictim`: putting a too-full victim back (`log_cache.cpp:579`) gives a
  greedy compactor a second node for it (`evict_policy_greedy.cpp:5-10`), and
  `assert(target_seg != s)` (`log_cache.cpp:737`) can fail.
* The same configuration with "ordered", 11 segments, `FreeLow = 3`, `FreeHigh = 10`
  and `VictimExists`: a cache of 11 segments is accepted by the constructor, the
  first proactive turn has no victim, and `assert (victim != nullptr)` (line 558)
  fails. A cache needs more than 10 segments beyond its host and GC streams.
* `RunGC` (`ftl.cpp:263`) does not clear the tables that name the block it frees, so
  with two streams a block may become active for one while the other still lists it,
  although `ftl.h:64` promises a block per stream. No cache passes a second stream;
  the demo `main` of `ftl.cpp` does. The theorems of `FTLProofs` assume one stream.
* With more GC streams than segments the loop keeps free (SepBIT has 4, MultiHotCold
  5, the loop keeps more than 3), one victim can need more fresh destinations than
  the pool holds, and `alloc_segment` throws. TLC shows it with `FreeLow = 1`, two GC
  streams, 6 segments of 4 blocks and 3 keys.
* A group of one segment. The search for groups tries sizes from 1 on
  (`model.cpp:546`, `:642`) and may answer one for group 1. `change_config_2` takes two
  off it (`algorithm.cpp:499-500`), the size is -1, and `move_margin_seg` is asked for
  one segment more than the group has: it pops an empty queue. `midas` reaches it with the
  configuration `<<2, 1, 3>>`; `ChecksHold` says that it is the only way there, and
  `RoomyConfigsMove` (section 6) that larger groups exclude it.
* A small MiDAS cache. `createCache` builds it with segments of 6 GB
  (`icache.cpp:587`), and the search keeps a margin of 50 segments beside a hot group
  of up to 29. With fewer segments `opt_config[0][0] - 50` (`model.cpp:534`) wraps, the
  loop over the sizes of a level has no limit left, and it stops at the `abort()` of
  `model.cpp:550`. TLC shows it in `MCModel` with `GSegs = 4` and `GMargin = 2` and the
  invariant `gat # "abort"`: four steps.
* `CountsExact` fails when write-back groups have more than one block: `evict` does
  not update the other segments' counts.
* `ModelGoesOn` has to allow for a thread that is stuck: where the search gives up it
  calls `model_initialize` (`model.cpp:397, 404, 410, 463, 468`), which locks the
  mutex the thread holds (`:335`, `:144`). It also allows for a silent one: with two
  groups or fewer no answer is published, and counting is never switched on again.
* FairyWren: a partly valid cold segment at the front of its queue with no free cold
  segment to copy it to ends in the exception (`Throw`), even when a wholly invalid
  one is behind it.
* MidasCache: the address written back is `lba`, the slot, and not the key
  (`midas_cache.cpp:385`); `merge_group` with the naive chain on writes
  `gnum_info[-1]` (`algorithm.cpp:411`) when an active segment is missing; the hot counters belong to slots,
  and pass from one key to the next; the remap table's free list grows by duplicates.
* SepBIT: `log_cache.cpp:375` passes the valid blocks of the active segment, so the
  recency window is never longer than about a segment; an unknown block answers
  UINT32_MAX, which is hot until the first average exists; a block's creation time
  may be one ahead of the clock, and its unsigned age is then the largest there is.
* `cache_sim`: `no_fill` is always true, so the prefill is unreachable.

## 6. Theorems

Checked by `tlapm`, all leaves by Z3, Zenon and (temporal steps) LS4.

`FTLProofs`, for every number of blocks, pages per block, set of logical pages and
trigger >= 2 (`GeometryAssumption`, `NamesAssumption`), and one stream
(`SingleStream`, the only way the simulator uses the drive):

* `Invariance`: `Spec => []IInv`. The safety properties are not inductive. What is
  added is: bits are set only below the write pointer (`BlockInv`); a page is being
  written exactly while a call is in progress (`CallInv`); the active block is out
  of the pool when it is used (`ActiveInv`); how far the pool may shrink
  (`SizeInv`); the one situation in which the collector's destination is a free
  block (`GCActiveInv`); the victim is full (`VictimInv`); what was copied no longer
  belongs to the victim (`MovedInv`).
  One lemma per action shows preservation.
* `TypeCorrectness`, `NoPageLost`, `ValidPagesAreLive`, `GreedyHeapIsExact`,
  `PoolIsSafe`: the safety properties of the run `ftl`.
* `GCNeverStarves`: the same for the collector's own allocation. A call finds at least
  `GCTrigger - 1` blocks; `RunGC` takes at most one before it returns one,
  because a fresh destination has room for the rest of a victim that is not all
  valid. This is what the assumption `GCTrigger >= 2` is for.
* `DriveImplementsLogicalDisk`: initial states map to initial states, every action
  to a step of `LogicalDisk` or to a stutter.

`LogCacheProofs`, for every number and size of segments, every finite set of streams,
every set of blocks and write-back groups, and every choice of the policies, the
classifier and the target. Each theorem names the hypotheses it needs:

* `SoundPolicies`: the compactor is absent or "ordered", and a greedy evictor has no
  compactor next to it. `createCache` builds most of its caches so (`LOG_FIFO`,
  `LOG_GREEDY`, `LOG_COST_BENEFIT`, their stream variants, and the
  `LOG_GREEDY_COST_BENEFIT_3` to `_11` family, where both policies are
  `CbEvictPolicy`). The theorems say nothing of those with a `KthCbEvictPolicy` (see
  `lc_kth`), of `LOG_GREEDY_COST_BENEFIT` and its `_2` (a greedy compactor, section 5),
  or of the policies of `VictimPolicies`.
* `EnoughSegments`: more segments than `FreeHigh` and the streams take. The
  constructor does not check it (section 5).
* `EnoughReserve`: what the open GC segments can leave unused is less than what the
  loop keeps free. With the code's limit of 3 that covers one to three GC streams;
  SepBIT's 4 and MultiHotCold's 5 are outside it, and section 5 says what happens.
* `SingleBlocks`: `evicted_blk_size = 1`.

`Invariance` (`SoundPolicies`) is `Spec => []IInv`. To the properties of the runs it
adds: the policies hold no forgotten node (`PolicyInv`); valid blocks are below the
write pointer, and the valid count is between the number of valid blocks and the
write pointer (`FillInv`); a free segment is empty, a sealed one and the victim full
(`StageInv`); what a call relies on between its steps (`CallInv`); no cached block is
on the cold drive (`CacheInv`). From it `TypeCorrectness`, `MappingStaysExact`,
`SegmentsInOnePlace`. `CodeAssertionsHold` (`EnoughSegments`) counts: pool, open
segments and victim are fewer than all segments, so one is sealed and the policies
track it. `CountsStayExact` (`SingleBlocks`) needs one more conjunct: with groups an
eviction changes other segments' contents and not their counts.
`CompactionFindsRoom` (`EnoughSegments`, `EnoughReserve`) needs the count
`ReserveInv`: the free slots, in the pool and in open destinations, are always more
than the rest of the victim needs; if the pool were empty when a destination is full,
the other destinations could not hold that many. `CacheImplementsTieredStore` maps
every action to a write, a write-back of a group, or a stutter.

`LRUCacheProofs`, for every capacity, set of blocks and geometry of the drive, with no
hypothesis but the modules' assumptions. `CacheUsesDriveAsDrive` shows that a step of
the cache is at most one step of the drive, so `FTLProofs` carries over. `LRUInv`
adds to the drive's invariant: list and free list have no repetitions (`ListInv`),
map, list, free list and `allocated` describe one bijection (`PairInv`), and the drive
has mapped what was written (`DirtyInv`). From it `AddressesStayExact`,
`AllocatorNeverFails` (the asserts of `allocator.cpp`) and `LRUImplementsStore`.

`PartsProofs`, `LogFIFOCache`, for every ring and set of blocks. `FInv` adds to `RingInOrder` that
the block being written has no older copy left and that no block is both cached and
on the cold drive; the step to prove is that moving `write_ptr` turns every distance
ahead of it by one, and the slot it leaves becomes the last. From it
`RingStaysInOrder` and `LogFIFOImplementsStore`.

`MiniModelProofs`, `MiniModel`, for every window, unit, number of lbas and sampling ratio.
`ModelStaysAlone` is a property of the control alone. `CountsStayExact` needs that no
stamp is later than the last write and that the time stays in the window (`TimeInv`),
so that every interval has a counter. `CountsStayFrozen` is an action property: from
the creation of the thread until it answers, the writing thread leaves alone what
the thread reads without a mutex.

`MiniModelProofs`, `GroupSearch`, for every margin, number of levels and rounds, largest
hot group and overshoot of the predictor (`GroupSearchAssumption`: the overshoot is at
most the margin), every drive larger than margin, hot group and overshoot together, and
whatever the predictors answer. That bound, `RoomyDrive`, is a hypothesis of the two
theorems: no code checks it, and section 5 says what becomes of a smaller drive.
`LimitInv` is what needs it: the hot group leaves more than the margin, so no limit of a
level wraps. `GSInv` says what each place of the search relies on:
  * `LevelsSound`: the best of a level has that many groups, fits, and is empty where
    there is none;
  * `SplitSound`: within a level the two groups that share a size keep their sum, and
    the second one keeps more than the sizes still to be tried can take: the limit, the
    margin, less what the predictor took off it (`Short`). A level above one without an
    answer begins with an empty hot group, which is why it finds none either;
  * `FinalSound`: the configuration chosen fits with the hot group that was asked for
    as well as with the one the predictor reached, which can differ;
  * `RehotSound`, `ResizeSound`: what the last group has taken back while the hot group,
    or a group, is tried again, and which groups may be empty meanwhile.

Totals are sums over a function, so each lemma first says what a change of one or two
groups does to the total (`TotalChanges`, `ChangedTwice`). From it
`AnswersFitTheDrive`.

`PartsProofs`, `SepBIT`, for every ring and segment size, every set of
blocks and every table of creation times. `SepBITInv` says that the ring, read backwards from `tail`, is the
end of the history (`WindowInv`), and that a creation time is never older than the
last write of the block (`CreatedInv`). Two facts carry the step: a write makes every
other block's last write one step older (`SinceSteps`), and the block that leaves the
window is in the map under the oldest place exactly if it was not written again
(`ForgetOldestKeepsWindow`); `SSegment \in 1 .. SRing - 2` keeps the window from
overrunning the ring. From it `RecencyStaysExact`, and `ClassesStayTrue`, for which an
average must not exceed what `Query` says of an unknown block: `SepBITAssumption`
bounds the ages of collected segments by `SUnknown`, UINT32_MAX in the code, that is,
a segment is collected before 2^32 further blocks are written. Together they are
`HistoryKept`, the property of the run (`HistoryStaysKept`).

`PartsProofs`, `VictimPolicies`, for each of the five policies, every finite set of
segments, every segment size and number of lists. `PInv` says that a segment is in one
list once (`OnceInv`); that what is sealed is listed, and what is listed is sealed or a
victim (`ListedInv`); which list it is in (`PlaceInv`); that the lists which promise an
order have that of the additions (`OrderInv`); and of the heap of versions that a
generation is given once (`GenInv`), that a live entry has the present count and
stream, and that every sealed segment has one (`HeapInv`). Lists are reasoned about
through two notions only, what they hold and what is in front of what, for which
`ListAppend`, `ListErase` and `ListFront` say what the calls do. From it
`VictimsStayTracked` and the action property `ChoicesStayInOrder`.

`FairyWrenProofs`, for every number of segments of at least three, every segment size
and every set of blocks (`FairyWrenAssumption`, which also keeps `Nil` apart from
blocks, segments and places). A step is one call, in the middle of which segments are
out of every list: the victims of the copies under way. The invariant `Sound(d, F)` is
therefore about a state `d` of the cache and the set `F` of segments in flight, and it
holds at rest with `F` empty. Its parts:
  * `Homes`: a segment is in one place of its own region, once, or in flight;
  * `Room`: above the fill of a segment and in a free segment every slot is empty;
  * `Indexed`: the mapping and the slots agree, and a cached block is not below;
  * `Counted`: the counts of segments and regions are those of the slots;
  * `Labelled`: a region has as many segments as it was given.

The copy asks for room block by block, and the request may force whole reclaims, which
close, exchange, empty and drop segments of any region that is not in front. The copy
goes on afterwards with its own victim as if nothing had happened, so what has to be
shown is what a forced reclaim never does (`stale_state` in the hazards): with the
victim in `F`, it leaves the victim's slots and region alone and loses no block
(`Keeps`), and it makes no region active that had asked for a segment and had none
(`Steady`). A request for room is proved for whatever a forced reclaim with these
promises may leave (`EnsureIsSound`), a reclaim for whatever its copy may leave
(`ReclaimIsSound`), the copy loop by induction over its turns (`CopyLoop`), and then
the cases cold, hot and log follow in the order in which one forces the other. A cold
victim is copied within cold, so a reclaim of cold could make cold active behind the
back of the hot copy that forced it; but it is forced only where cold has neither an
active nor a free segment (`Dry`), and then the copy stops at its first block
(`CopyColdIsSound`). `ShareFacts` and `SegmentsAreSharedOut` say that
`initialize_regions` gives every region at least one segment and every segment to one
region. From `FairyWrenInvariance` follow `IndexStaysExact`, `CountsStayExact`,
`SegmentsStayShared`, and the action property `NothingIsDropped`.

`MidasProofs`, for every number and size of segments, every number of slots, every
set of keys, every naive chain of two groups or more, every filter threshold of two or
more, and every set of configurations of three groups or more (`MidasAssumption`,
`NilAssumption`). A step of `MidasCache` runs whole procedures of the engine, loops
included, so the proof is laid out as the code is: each operator of `MidasEngine` has
a lemma that says what it keeps of a sound engine state, and each loop is an induction
over its turns (`ByInduction` on the recursive function that is the loop). `MidasInv`
is the invariant `EngineInv` of the engine, which is
  * `Placed`: no segment is in two places and each is in one (`Apart`); what is free or
    behind the append point is blank (`Blank`); every label is that of the group, or of
    one of the groups, that the place is for (`Labelled`);
  * `Agree`: a page holds an lba exactly if `where` names that page;
  * `HotIn`: the filter's counters, their total, and the labels of group 0 agree;
  * `Balanced`: the segment counts. A group in front of the chain has a queue of its
    own and exactly its count; the groups of the chain share the queue `naive`, and
    their counts add up to what is in it; there is no count beyond the last group;
  * the engine's page count is the number of stored lbas,

together with the cache's table (slots are used once, and are the stored lbas). The
difficulty is in what holds *during* a procedure: while a victim is emptied its segment
is in no place, the pages copied so far are stored twice, and in `merge_group` the
segments that joined still carry their old labels. `Placed`, `Agree` and `HotIn`
therefore take the segment being emptied, how far the copy is, and the segments with
stale labels as parameters; `Nil`, 0 and the empty set give the invariant at rest. From
it `PagesStayExact`, `KeysStayStored` and `HotStaysExact`.

The counts need more than their own group: an eviction in the naive chain takes a
segment of the shared queue and charges it to the chain's first group, whichever
group wrote it, so a single count of the chain may drift while the sum
stays right. `Counts` therefore speaks of a sum over an interval of groups, with the
first group of the chain, the group whose victim is out of its queue but still counted
(`over`) and the group `merge_group` has taken the queue from (`lost`) as parameters.
Merges, splits and renumbering move counts between groups and shift whole intervals;
what that does to the sums is stated once in `Containers` (`SumChangesAt`, `SumShifts`) by
way of partial sums. The abort in `merge_group` on counts that disagree is what the
exact count of a group in front of the chain rules out. `TotalsStayExact`,
`SegmentsStayInOnePlace` and `LabelsStayFitting` are the three parts of `GroupsExact`,
which is `GroupsStayExact`.

`EngineChecksHold` is about what the engine checks of itself, and needs one thing more
(`StaffInv`): a group with segments or a count, and every group users write to, has an
active segment (`Staffed`), so that a write, a merge or a split always finds the one it
asks for. Each procedure is shown to keep it or to stop for one of five reasons
(`Goes`, `Halted`): no slot, no free segment, no victim, the count of hot segments, and
no segment to move, the last only with a group of negative size. `RoomyConfigsMove` says
that this last one does not happen when every configuration leaves a group a segment
besides those `change_config_2` holds back.

`PartsProofs`, `TieredStore`, has two small ones about the abstract store itself: `OneNewestCopy` and
`StoredStaysStored`, for any set of blocks and any groups. Through the three
refinements, which are theorems, they hold of LogCache, LRUCache and LogFIFOCache.

`Containers` has the lemmas about popping a stack, appending, taking an element out,
sums and counts. `ByInduction` there is induction over a set of numbers: as it takes
a set and not a predicate, the provers can use it, and the sums of `MiniModel`
(`FoldSet` over a function) are unfolded with it.

Only model-checked: liveness (`WriteCompletes`, `InsertCompletes`, `ModelGoesOn`,
`SearchIsOver`: fairness and ENABLED are beyond the prover); `RoomKept` of
`MidasCache`, which needs a bound on the turns of the collection loops against the
space that is left; `DPOptimizer` and `MrcCalculator`, where the property is what a
recursion computes; and `ParallelScan`.

## 7. Not modelled, and why

* Byte counters, WAF, histograms, moving averages and dumps, everywhere: they are
  written and printed, and no modelled decision reads them. Where a decision does
  read an age or a score it is a choice.
* A MultiHotCold cycle wrap (`log_cache.cpp:440-452`, `:637-648`) with its dummy
  fill: whether it wraps depends on creation times against a configured granularity,
  and as a free choice it would wrap more often than the code can. `HotCold` and
  `HotColdFineGrain` only appear as the choice of a stream.
* `GhostCache` and the target rate: they only steer the compaction target, which is a
  choice. `NoCache` has no state. `FIFOCache` drops what it evicts without a write to
  the cold drive and reads an uninitialised flag, so none of the contracts here is
  its own.
* MiDAS: `trim` and the trace mode of `ssdsimul.cpp`, `do_gc_for_split`,
  `active_split`, `gsize_check`, `infinite_gc_handling` and the filter's reset, which
  `MidasCache` does not reach; the GREEDY_VS variant; the floating-point predictors
  and the measured queues of hot traffic. Widths: time stamps against UINT_MAX
  (`model.cpp:128`, `:268`) and `write_size` for drives of 512 GB and more are
  excluded by the assumptions.
* The reverse branch of `SelectiveFifo`'s `choose_segment`
  (`evict_policy_selective_fifo.cpp:45-87`). As the first policy of a configuration it
  is only built with the order `{3, 2, 1, 0}` (`icache.cpp`), which takes the lists as
  the other branch does; as a second policy its victims are a choice in LogCache.
* `evict_policy_greedy_first`, and `remove` of `FifoZero`, which erases one iterator
  from two lists but is called only where a second policy exists.
* `cache_sim` and the trace parsers: one call per request, no state that a later
  request depends on. The remaining tools read a trace and print numbers in one
  pass; `trace_replayer` and the scripts drive devices and programs.
* `ParallelScan`: more threads than characters (the code reads before its buffer)
  and the final cap at the size of the device. `DPOptimizer`: reading and smoothing
  its inputs. `MrcCalculator`: the last bucket also counts the hits of larger caches,
  which `CurveExact` leaves out.
* Nothing is persisted, so there is no crash or restart to model; there are no
  messages; a request of several pages or blocks is the sequence of its single-block
  calls.
