------------------------------ MODULE LogCache ------------------------------
(***************************************************************************)
(* The log-structured write-back cache (log_cache.cpp, class LogCache).    *)
(*                                                                         *)
(* Host blocks are appended to the active segment of a stream.  A full     *)
(* segment is sealed (handed to the victim policies) when the next block   *)
(* arrives.  When few segments are free, garbage collection empties        *)
(* victims: it evicts their blocks to the cold drive or, when a compactor  *)
(* is configured and the cache holds less data than its target, copies the *)
(* younger blocks to the active segment of a garbage-collection stream.    *)
(*                                                                         *)
(* The insertion of one block is a call; each turn of a loop in it is an   *)
(* action, and pc says where the call is.  A batch of blocks repeats the   *)
(* call and keeps nothing else.  Block ages, which decide what a policy    *)
(* prefers, what compaction evicts and which stream a block is put in, are *)
(* abstracted: each of these is a choice.  The cold drive is the set of    *)
(* its mapped blocks, LogicalDisk, which FTL implements.                   *)
(*                                                                         *)
(* A definition named Slip... is a plausible slip in the definition that   *)
(* follows it, and is used by no specification.                            *)
(***************************************************************************)
EXTENDS EvictPolicy, Sequences, FiniteSets, Functions

CONSTANTS
  SegmentSize,     \* segment_size_blocks
  FreeLow,         \* GC until more segments than this are free (3 in the code)
  FreeHigh,        \* proactive GC up to this many free segments (10 in the code)
  Keys,            \* the blocks the host writes
  Group,           \* [Keys -> SUBSET Keys]: the aligned evicted_blk_size blocks
  HostStreams,     \* the streams of active_seg
  HostChoice,      \* [Keys -> SUBSET HostStreams]: what Classify may answer
  GCStreams,       \* the streams of gc_active_seg
  StreamPolicy,    \* is there a stream_policy?
  EvictorKind,     \* the evictor (see EvictPolicy)
  CompactorKind,   \* the compactor, or "none"
  CompactTargets,  \* the values of target_valid_blk_rate * total_cache_block_count
  None             \* no block, no segment, no location

ASSUME SizesAssumption ==
  /\ NumSegments \in Nat /\ SegmentSize \in Nat /\ FreeLow \in Nat /\ FreeHigh \in Nat
  /\ SegmentSize >= 2
  /\ FreeLow >= 1 /\ FreeHigh >= FreeLow
  /\ CompactTargets \subseteq Nat /\ CompactTargets # {}

ASSUME StreamsAssumption ==
  /\ IsFiniteSet(HostStreams) /\ IsFiniteSet(GCStreams)
  /\ HostChoice \in [Keys -> (SUBSET HostStreams) \ {{}}]
  /\ Group \in [Keys -> SUBSET Keys]
  /\ ~StreamPolicy => Cardinality(HostStreams) = 1 /\ Cardinality(GCStreams) = 1
  /\ \A k \in Keys : k \in Group[k] /\ \A j \in Group[k] : Group[j] = Group[k]
  /\ None \notin Keys \cup Segs \cup (Segs \X (0 .. SegmentSize - 1))

Offsets   == 0 .. SegmentSize - 1
Locations == Segs \X Offsets

VARIABLES
  blocks,         \* LogCacheSegment::blocks: the key at each offset, None if not valid
  write_ptr,      \* Segment::write_ptr
  valid_cnt,      \* Segment::valid_cnt
  mapping,        \* mapping: where the newest copy of a block is
  free_pool,      \* free_pool: pop_front, push_back
  active_seg,     \* active_seg: a segment per host stream
  gc_active_seg,  \* gc_active_seg: a segment per garbage-collection stream
  evictor,        \* evictor
  compactor,      \* compactor
  global_valid_blocks,
  phase,          \* log_cache_timestamp modulo segment_size_blocks / 2
  cold,           \* the blocks mapped on the cold drive
  pc,             \* where the call in progress is, "idle" between two calls
  key,            \* the block being inserted
  stream,         \* its host stream
  caller,         \* what GC returns to: "alloc", or "burst" after a proactive turn
  victim          \* the segment being emptied

segVars    == <<blocks, write_ptr, valid_cnt>>
tableVars  == <<free_pool, active_seg, gc_active_seg>>
policyVars == <<evictor, compactor>>
dataVars   == <<mapping, global_valid_blocks, cold>>
callVars   == <<pc, key, stream, caller, victim>>
vars       == <<segVars, tableVars, policyVars, dataVars, phase, callVars>>

Cached == {k \in Keys : mapping[k] # None}

Full(s) == write_ptr[s] >= SegmentSize

(* The types of the members.                                               *)
TypeOK ==
  /\ blocks \in [Segs -> [Offsets -> Keys \cup {None}]]
  /\ write_ptr \in [Segs -> 0 .. SegmentSize]
  /\ valid_cnt \in [Segs -> 0 .. SegmentSize]
  /\ mapping \in [Keys -> Locations \cup {None}]
  /\ free_pool \in Seq(Segs)
  /\ active_seg \in [HostStreams -> Segs \cup {None}]
  /\ gc_active_seg \in [GCStreams -> Segs \cup {None}]
  /\ {evictor, compactor} \subseteq
       [tracked : SUBSET Segs, orphans : SUBSET (Segs \X (0 .. SegmentSize))]
  /\ global_valid_blocks \in Nat
  /\ phase \in 0 .. (SegmentSize \div 2) - 1
  /\ cold \subseteq Keys
  /\ pc \in {"idle", "alloc", "place", "proactive", "burst", "target", "compact", "evict"}
  /\ key \in Keys \cup {None}
  /\ stream \in HostStreams
  /\ caller \in {"alloc", "burst"}
  /\ victim \in Segs \cup {None}

-----------------------------------------------------------------------------
(* Helpers of the class.                                                   *)

(* evict_policy_add, evict_policy_remove.                                  *)
PolicyAdd(s) ==
  /\ evictor' = Add(EvictorKind, evictor, s, valid_cnt[s])
  /\ compactor' = IF CompactorKind = "none" THEN compactor
                  ELSE Add(CompactorKind, compactor, s, valid_cnt[s])

PolicyRemove(s) ==
  /\ evictor' = Remove(evictor, s)
  /\ compactor' = Remove(compactor, s)

(* evict_policy_update.                                                    *)
PolicyUpdate(s) ==
  /\ evictor' = Update(EvictorKind, evictor, s)
  /\ compactor' = IF CompactorKind = "none" THEN compactor
                  ELSE Update(CompactorKind, compactor, s)

(* LogCacheSegment::reset, for the blocks.                                 *)
ResetBlocks == [i \in Offsets |-> None]

(* The end of alloc_segment: the front of the pool, reset.                 *)
AllocSegment ==
  LET s == Head(free_pool)
  IN /\ free_pool' = Tail(free_pool)
     /\ blocks' = [blocks EXCEPT ![s] = ResetBlocks]
     /\ write_ptr' = [write_ptr EXCEPT ![s] = 0]
     /\ valid_cnt' = [valid_cnt EXCEPT ![s] = 0]

(* Slip: garbage collection waits until the pool is empty.                 *)
SlipPoolLow(pool) == pool = <<>>

(* The condition of the loop of check_and_evict_if_needed.                 *)
PoolLow(pool) == Len(pool) <= FreeLow

(* invalidate: a block that was not cached is trimmed on the cold drive.   *)
TrimCold(k) == IF mapping[k] = None THEN cold \ {k} ELSE cold

(* The blocks of the victim that are still to be handled, lowest first.    *)
ValidOffsets(s) == {i \in Offsets : blocks[s][i] # None}
FirstValid(s)   == CHOOSE i \in ValidOffsets(s) : \A j \in ValidOffsets(s) : i <= j

(* Slip: the group is written back but its mapping entries stay.           *)
SlipEvict(s, i) ==
  /\ blocks' = [blocks EXCEPT ![s][i] = None]
  /\ global_valid_blocks' = global_valid_blocks - 1
  /\ cold' = cold \cup Group[blocks[s][i]]
  /\ UNCHANGED mapping

(* evict: the aligned group of a block is written to the cold drive and    *)
(* every cached block of the group leaves the cache.  The valid counts of  *)
(* the segments that lose a block stay as they are.                        *)
Evict(s, i) ==
  LET k == blocks[s][i]
      others == (Group[k] \ {k}) \cap Cached
      dropped == {<<s, i>>} \cup {mapping[o] : o \in others}
  IN /\ blocks' = [t \in Segs |-> [j \in Offsets |->
                     IF <<t, j>> \in dropped THEN None ELSE blocks[t][j]]]
     /\ mapping' = [j \in Keys |-> IF j = k \/ j \in others THEN None ELSE mapping[j]]
     /\ global_valid_blocks' = global_valid_blocks - 1 - Cardinality(others)
     /\ cold' = cold \cup Group[k]

-----------------------------------------------------------------------------
(* The constructor.                                                        *)
Init ==
  /\ blocks = [s \in Segs |-> [i \in Offsets |-> None]]
  /\ write_ptr = [s \in Segs |-> 0]
  /\ valid_cnt = [s \in Segs |-> 0]
  /\ mapping = [k \in Keys |-> None]
  /\ free_pool = [i \in 1 .. NumSegments |-> i - 1]
  /\ active_seg = [h \in HostStreams |-> None]
  /\ gc_active_seg = [g \in GCStreams |-> None]
  /\ evictor = NoSegments
  /\ compactor = NoSegments
  /\ global_valid_blocks = 0
  /\ phase = 0
  /\ cold = {}
  /\ pc = "idle"
  /\ key = None
  /\ stream \in HostStreams
  /\ caller = "alloc"
  /\ victim = None

(* batch_insert, for one block: find the stream's active segment; a full   *)
(* one is sealed and a new one is needed.                                  *)
Insert(k, h) ==
  /\ pc = "idle"
  /\ h \in HostChoice[k]
  /\ key' = k
  /\ stream' = h
  /\ LET s == active_seg[h]
     IN IF s # None /\ Full(s)
        THEN /\ PolicyAdd(s)
             /\ active_seg' = [active_seg EXCEPT ![h] = None]
             /\ pc' = "alloc"
        ELSE /\ pc' = IF s = None THEN "alloc" ELSE "place"
             /\ UNCHANGED <<policyVars, active_seg>>
  /\ UNCHANGED <<segVars, dataVars, free_pool, gc_active_seg, phase, caller, victim>>

(* alloc_segment, once its GC loop is left.                                *)
AllocActive ==
  /\ pc = "alloc"
  /\ ~PoolLow(free_pool)
  /\ AllocSegment
  /\ active_seg' = [active_seg EXCEPT ![stream] = Head(free_pool)]
  /\ pc' = "place"
  /\ UNCHANGED <<policyVars, dataVars, gc_active_seg, phase, key, stream, caller, victim>>

(* batch_insert: invalidate the old copy, in the cache or on the cold      *)
(* drive, append the new one, and see if proactive GC is due.              *)
Place ==
  /\ pc = "place"
  /\ LET s == active_seg[stream]
         old == mapping[key]
         hit == old # None
         cleared == IF hit THEN [blocks EXCEPT ![old[1]][old[2]] = None] ELSE blocks
         counted == IF hit THEN [valid_cnt EXCEPT ![old[1]] = @ - 1] ELSE valid_cnt
     IN /\ IF hit /\ Full(old[1]) THEN PolicyUpdate(old[1]) ELSE UNCHANGED policyVars
        /\ cold' = TrimCold(key)
        /\ blocks' = [cleared EXCEPT ![s][write_ptr[s]] = key]
        /\ valid_cnt' = [counted EXCEPT ![s] = @ + 1]
        /\ write_ptr' = [write_ptr EXCEPT ![s] = @ + 1]
        /\ mapping' = [mapping EXCEPT ![key] = <<s, write_ptr[s]>>]
        /\ global_valid_blocks' = IF hit THEN global_valid_blocks
                                  ELSE global_valid_blocks + 1
  /\ phase' = (phase + 1) % (SegmentSize \div 2)
  /\ pc' = IF phase' = 0 /\ Len(free_pool) <= FreeHigh THEN "proactive" ELSE "idle"
  /\ key' = None
  /\ UNCHANGED <<tableVars, stream, caller, victim>>

-----------------------------------------------------------------------------
(* check_and_evict_if_needed: its loop runs while few segments are free; a *)
(* proactive call always takes one turn.                                   *)

GCNeeded ==
  \/ pc = "proactive"
  \/ pc \in {"alloc", "burst"} /\ PoolLow(free_pool)

Compacting(target) == CompactorKind # "none" /\ target > global_valid_blocks

TooFull(s) == 100 * valid_cnt[s] > 95 * SegmentSize

(* The evictor's answer only dates the age threshold and goes back.        *)
Consulted(e) ==
  Add(EvictorKind, Chosen(EvictorKind, evictor, e), e, valid_cnt[e])

(* Without compaction the evictor's victim is evicted or, if nothing in it *)
(* is valid, just reset.                                                   *)
ChooseToEvict ==
  /\ GCNeeded
  /\ \E target \in CompactTargets : ~Compacting(target)
  /\ \E v \in Candidates(EvictorKind, evictor, valid_cnt) :
       /\ victim' = v
       /\ evictor' = Chosen(EvictorKind, evictor, v)
  /\ pc' = "evict"
  /\ caller' = IF pc = "alloc" THEN "alloc" ELSE "burst"
  /\ UNCHANGED <<segVars, tableVars, dataVars, phase, compactor, key, stream>>

(* With compaction the compactor's victim is emptied.  Without a stream    *)
(* policy the destination is looked up before the first block.             *)
ChooseToCompact ==
  /\ GCNeeded
  /\ \E target \in CompactTargets : Compacting(target)
  /\ \E e \in Candidates(EvictorKind, evictor, valid_cnt) : evictor' = Consulted(e)
  /\ \E v \in Candidates(CompactorKind, compactor, valid_cnt) :
       /\ ~TooFull(v)
       /\ victim' = v
       /\ compactor' = Chosen(CompactorKind, compactor, v)
       /\ pc' = IF valid_cnt[v] = 0 THEN "evict"
                ELSE IF ~StreamPolicy /\ \E g \in GCStreams : gc_active_seg[g] = None
                THEN "target" ELSE "compact"
  /\ caller' = IF pc = "alloc" THEN "alloc" ELSE "burst"
  /\ UNCHANGED <<segVars, tableVars, dataVars, phase, key, stream>>

(* The compactor's victim is too full to be worth it: it goes back, and    *)
(* the evictor's victim is evicted instead.                                *)
ChooseTooFull ==
  /\ GCNeeded
  /\ \E target \in CompactTargets : Compacting(target)
  /\ \E v \in Candidates(CompactorKind, compactor, valid_cnt) :
       /\ TooFull(v)
       /\ compactor' = Add(CompactorKind, Chosen(CompactorKind, compactor, v), v, valid_cnt[v])
  /\ \E e \in Candidates(EvictorKind, evictor, valid_cnt) :
       \E v \in Candidates(EvictorKind, Consulted(e), valid_cnt) :
         /\ victim' = v
         /\ evictor' = Chosen(EvictorKind, Consulted(e), v)
  /\ pc' = "evict"
  /\ caller' = IF pc = "alloc" THEN "alloc" ELSE "burst"
  /\ UNCHANGED <<segVars, tableVars, dataVars, phase, key, stream>>

(* evict_segment: the next valid block goes to the cold drive.  In         *)
(* evict_and_compaction the same happens to a block over the age limit.    *)
EvictBlock ==
  /\ pc \in {"evict", "compact"}
  /\ ValidOffsets(victim) # {}
  /\ Evict(victim, FirstValid(victim))
  /\ UNCHANGED <<write_ptr, valid_cnt, tableVars, policyVars, phase, callVars>>

(* evict_and_compaction without a stream policy opens its destination.     *)
OpenTarget ==
  /\ pc = "target"
  /\ free_pool # <<>>
  /\ AllocSegment
  /\ gc_active_seg' = [g \in GCStreams |-> Head(free_pool)]
  /\ pc' = "compact"
  /\ UNCHANGED <<policyVars, dataVars, phase, active_seg, key, stream, caller, victim>>

NeedsFresh(g) == gc_active_seg[g] = None \/ Full(gc_active_seg[g])

(* Where a block of stream g is copied to.                                 *)
Destination(g) == IF NeedsFresh(g) THEN Head(free_pool) ELSE gc_active_seg[g]

(* evict_and_compaction: the next valid block is copied to stream g.  A    *)
(* full destination is sealed and, as when there is none, the next free    *)
(* segment takes its place, with no garbage collection of its own.  The    *)
(* code asserts that the destination is not the victim.                    *)
MoveBlock(g) ==
  /\ pc = "compact"
  /\ ValidOffsets(victim) # {}
  /\ LET i == FirstValid(victim)
         k == blocks[victim][i]
         cur == gc_active_seg[g]
         fresh == NeedsFresh(g)
         t == Destination(g)
         at == IF fresh THEN 0 ELSE write_ptr[t]
         cleared == IF fresh THEN [blocks EXCEPT ![t] = ResetBlocks] ELSE blocks
     IN /\ fresh => free_pool # <<>>
        /\ t # victim
        /\ IF fresh /\ cur # None THEN PolicyAdd(cur) ELSE UNCHANGED policyVars
        /\ free_pool' = IF fresh THEN Tail(free_pool) ELSE free_pool
        /\ gc_active_seg' = [gc_active_seg EXCEPT ![g] = t]
        /\ blocks' = [cleared EXCEPT ![victim][i] = None, ![t][at] = k]
        /\ write_ptr' = [write_ptr EXCEPT ![t] = at + 1]
        /\ valid_cnt' = [valid_cnt EXCEPT ![t] = IF fresh THEN 1 ELSE @ + 1]
        /\ mapping' = [mapping EXCEPT ![k] = <<t, at>>]
  /\ UNCHANGED <<global_valid_blocks, cold, active_seg, phase, callVars>>

(* Slip: the victim goes back to the policies instead of to the pool.      *)
SlipResetVictim ==
  /\ pc \in {"evict", "compact"}
  /\ ValidOffsets(victim) = {}
  /\ valid_cnt' = [valid_cnt EXCEPT ![victim] = 0]
  /\ write_ptr' = [write_ptr EXCEPT ![victim] = 0]
  /\ PolicyAdd(victim)
  /\ victim' = None
  /\ pc' = IF caller = "burst" /\ ~PoolLow(free_pool) THEN "idle" ELSE caller
  /\ UNCHANGED <<blocks, dataVars, tableVars, phase, key, stream, caller>>

(* reset_segment: the emptied victim goes to the back of the pool and out  *)
(* of the policies; the loop of check_and_evict_if_needed looks again.     *)
ResetVictim ==
  /\ pc \in {"evict", "compact"}
  /\ ValidOffsets(victim) = {}
  /\ valid_cnt' = [valid_cnt EXCEPT ![victim] = 0]
  /\ write_ptr' = [write_ptr EXCEPT ![victim] = 0]
  /\ free_pool' = Append(free_pool, victim)
  /\ PolicyRemove(victim)
  /\ victim' = None
  /\ pc' = IF caller = "burst" /\ ~PoolLow(free_pool') THEN "idle" ELSE caller
  /\ UNCHANGED <<blocks, dataVars, active_seg, gc_active_seg, phase, key, stream, caller>>

(* What the cache does by itself to finish the insertion of a block.       *)
Internal ==
  \/ AllocActive \/ Place
  \/ ChooseToEvict \/ ChooseToCompact \/ ChooseTooFull
  \/ EvictBlock \/ OpenTarget \/ ResetVictim
  \/ \E g \in GCStreams : MoveBlock(g)

Next ==
  \/ \E k \in Keys, h \in HostStreams : Insert(k, h)
  \/ Internal

Spec == Init /\ [][Next]_vars

(* An insertion that was begun runs on: nothing interrupts its thread.     *)
FairSpec == Spec /\ WF_vars(Internal)

-----------------------------------------------------------------------------
(* Properties.                                                             *)

HostActive == {active_seg[h] : h \in HostStreams} \ {None}
GCActive   == {gc_active_seg[g] : g \in GCStreams} \ {None}
Pool       == Range(free_pool)

(* A block is mapped to the one place that holds it: garbage collection,   *)
(* eviction and overwriting leave neither a dangling entry nor a second    *)
(* valid copy.                                                             *)
MappingExact ==
  \A s \in Segs, i \in Offsets :
    /\ blocks[s][i] # None => mapping[blocks[s][i]] = <<s, i>>
    /\ \A k \in Keys : mapping[k] = <<s, i>> => blocks[s][i] = k

(* A segment is in one place at a time: free, active for one stream, the   *)
(* victim, or sealed and known to the policies.  The tables, the pool and  *)
(* the policies are separate containers of pointers.                       *)
SegmentInOnePlace ==
  /\ \A i, j \in DOMAIN free_pool : free_pool[i] = free_pool[j] => i = j
  /\ \A h, j \in HostStreams : active_seg[h] = active_seg[j] /\ active_seg[h] # None => h = j
  /\ \A g, j \in GCStreams : gc_active_seg[g] = gc_active_seg[j] /\ gc_active_seg[g] # None => g = j
  /\ Pool \cap (HostActive \cup GCActive) = {}
  /\ HostActive \cap GCActive = {}
  /\ {victim} \cap (Pool \cup HostActive \cup GCActive) = {}
  /\ LET sealed == Segs \ (Pool \cup HostActive \cup GCActive \cup {victim})
     IN /\ evictor.tracked \ {victim} = sealed
        /\ CompactorKind # "none" => compactor.tracked \ {victim} = sealed

(* The counters the policies and the compaction decision are based on are  *)
(* exact.  The victim's own count is settled when it is reset.             *)
CountsExact ==
  /\ global_valid_blocks = Cardinality(Cached)
  /\ \A s \in Segs \ {victim} : valid_cnt[s] = Cardinality(ValidOffsets(s))

(* Compaction finds a free segment whenever it needs one, so the exception *)
(* "LogCache: no free segment" (log_cache.cpp:411) is never thrown.        *)
GCAllocationSucceeds ==
  /\ pc = "target" => free_pool # <<>>
  /\ pc = "compact" /\ ValidOffsets(victim) # {} =>
       \A g \in GCStreams : NeedsFresh(g) => free_pool # <<>>

(* assert(victim != nullptr) (log_cache.cpp:558): when garbage collection  *)
(* is due, the policies have a victim to offer.                            *)
VictimExists ==
  GCNeeded => /\ Candidates(EvictorKind, evictor, valid_cnt) # {}
              /\ (\E target \in CompactTargets : Compacting(target)) =>
                   Candidates(CompactorKind, compactor, valid_cnt) # {}

(* assert(target_seg != s) (log_cache.cpp:737): compaction never copies a  *)
(* segment onto itself.                                                    *)
TargetIsNotVictim ==
  pc = "compact" /\ ValidOffsets(victim) # {} =>
    \A g \in GCStreams :
      (NeedsFresh(g) /\ free_pool = <<>>) \/ Destination(g) # victim

(* assert(victim->full()) (evict_policy_k_cost_benefit.cpp:95): whatever   *)
(* the compactor hands out is a full segment.                              *)
VictimIsFull ==
  GCNeeded /\ (\E target \in CompactTargets : Compacting(target)) =>
    \A v \in Candidates(CompactorKind, compactor, valid_cnt) : Full(v)

(* The three asserts above, together: through every mix of eviction,       *)
(* compaction and the too-full fallback the code's own checks hold.        *)
AssertionsHold == VictimExists /\ TargetIsNotVictim /\ VictimIsFull

(* Inserting a block comes to an end, whatever garbage collection it       *)
(* triggers.                                                               *)
InsertCompletes == pc # "idle" ~> pc = "idle"

Store == INSTANCE TieredStore WITH cached <- Cached

(* Seen from outside, the cache only takes writes and writes groups back:  *)
(* no block is ever lost, and none is both cached and mapped on the cold   *)
(* drive.                                                                  *)
ImplementsTieredStore == Store!TieredSpec
=============================================================================
