--------------------------- MODULE LogCacheProofs ---------------------------
(***************************************************************************)
(* The safety properties of LogCache, for every number and size of         *)
(* segments, every set of blocks, streams and write-back groups, and every *)
(* choice of the policies, the classifier and the compaction target.       *)
(***************************************************************************)
EXTENDS LogCache, Containers, FiniteSetTheorems, SequenceTheorems, TLAPS

(* The policies the theorems are about.  A compactor that adds what it     *)
(* does not track (kth) may hand out an active segment, and a greedy       *)
(* policy next to a compactor keeps nodes that no handle points to; the    *)
(* run lc_kth shows the first.                                             *)
SoundPolicies ==
  /\ CompactorKind \in {"ordered", "none"}
  /\ EvictorKind = "ordered" \/ (EvictorKind = "greedy" /\ CompactorKind = "none")

(* There are more segments than the proactive calls keep free and the      *)
(* streams keep open.                                                      *)
EnoughSegments ==
  NumSegments > FreeHigh + Cardinality(HostStreams) + Cardinality(GCStreams)

(* What the streams of garbage collection can leave unused in their open   *)
(* segments is less than what the loop keeps free.                         *)
EnoughReserve ==
  (Cardinality(GCStreams) - 1) * (SegmentSize - 1) <= (FreeLow - 1) * SegmentSize + 1

(* A write-back is of one block (evicted_blk_size = 1).                    *)
SingleBlocks == \A k \in Keys : Group[k] = {k}

-----------------------------------------------------------------------------
(* The inductive invariant.                                                *)

(* The heaps hold no node without a handle; an absent compactor nothing.   *)
PolicyInv ==
  /\ evictor.orphans = {} /\ compactor.orphans = {}
  /\ CompactorKind = "none" => compactor.tracked = {}

(* Valid blocks are below the write pointer, and the valid count, which an *)
(* eviction of a group leaves too high, is between the two.                *)
FillInv ==
  \A s \in Segs :
    /\ \A i \in ValidOffsets(s) : i < write_ptr[s]
    /\ Cardinality(ValidOffsets(s)) <= valid_cnt[s]
    /\ valid_cnt[s] <= write_ptr[s]

(* A free segment is empty; a sealed one, and the victim, are full.        *)
StageInv ==
  /\ \A s \in Pool : write_ptr[s] = 0
  /\ \A s \in Segs \ (Pool \cup HostActive \cup GCActive) : Full(s)

(* What the call in progress relies on from one step to the next.          *)
CallInv ==
  /\ victim # None <=> pc \in {"target", "compact", "evict"}
  /\ pc \in {"alloc", "place"} \/ (victim # None /\ caller = "alloc") => key \in Keys
  /\ pc = "alloc" \/ (victim # None /\ caller = "alloc") => active_seg[stream] = None
  /\ pc = "place" => active_seg[stream] # None /\ ~Full(active_seg[stream])
  /\ pc = "target" => ~StreamPolicy /\ \A g \in GCStreams : gc_active_seg[g] = None
  /\ pc = "proactive" => Len(free_pool) <= FreeHigh

(* The cached blocks are counted, and none is mapped on the cold drive.    *)
CacheInv ==
  /\ IsFiniteSet(Cached)
  /\ global_valid_blocks = Cardinality(Cached)
  /\ Cached \cap cold = {}

IInv ==
  /\ TypeOK /\ PolicyInv /\ FillInv /\ StageInv /\ CallInv /\ CacheInv
  /\ MappingExact /\ SegmentInOnePlace

(* With write-backs of single blocks the valid counts are exact.           *)
CountInv == \A s \in Segs \ {victim} : valid_cnt[s] = Cardinality(ValidOffsets(s))

(* The room compaction has: free segments, and what is left of the open    *)
(* segments of garbage collection.  While a victim is compacted there is   *)
(* always room for the rest of it.                                         *)
FreeSlots ==
  {l \in Locations : l[1] \in Pool \/ (l[1] \in GCActive /\ l[2] >= write_ptr[l[1]])}

ReserveInv ==
  /\ IF pc \in {"target", "compact"}
     THEN Cardinality(FreeSlots) >
            FreeLow * SegmentSize - SegmentSize + Cardinality(ValidOffsets(victim))
     ELSE Cardinality(FreeSlots) >= FreeLow * SegmentSize
  /\ StreamPolicy => \A s \in GCActive : write_ptr[s] >= 1

-----------------------------------------------------------------------------
(* Sets of offsets and of blocks.                                          *)

(* The valid count of a segment is in range, and follows single additions  *)
(* and removals.                                                           *)
LEMMA OffsetSetCount ==
  ASSUME NEW V \in SUBSET Offsets
  PROVE  /\ IsFiniteSet(V)
         /\ Cardinality(V) \in 0 .. SegmentSize
         /\ Cardinality(V) = 0 <=> V = {}
         /\ \A i \in Offsets \ V : Cardinality(V \cup {i}) = Cardinality(V) + 1
         /\ \A i \in V : Cardinality(V \ {i}) = Cardinality(V) - 1
<1>1. IsFiniteSet(Offsets) /\ Cardinality(Offsets) = SegmentSize
  BY FS_Interval, SizesAssumption DEF Offsets
<1>2. IsFiniteSet(V) /\ Cardinality(V) <= SegmentSize
  BY <1>1, FS_Subset
<1>3. Cardinality(V) \in Nat
  BY <1>2, FS_CardinalityType
<1>4. \A i : Cardinality(V \cup {i}) = IF i \in V THEN Cardinality(V) ELSE Cardinality(V) + 1
  BY <1>2, FS_AddElement
<1>5. \A i : Cardinality(V \ {i}) = IF i \in V THEN Cardinality(V) - 1 ELSE Cardinality(V)
  BY <1>2, FS_RemoveElement
<1>6. Cardinality(V) = 0 <=> V = {}
  BY <1>2, FS_EmptySet
<1> QED BY <1>2, <1>3, <1>4, <1>5, <1>6, SizesAssumption

(* The valid offsets of a segment, whose number the types bound.           *)
LEMMA ValidOffsetsCount ==
  ASSUME NEW s \in Segs
  PROVE  /\ ValidOffsets(s) \subseteq Offsets
         /\ Cardinality(ValidOffsets(s)) \in 0 .. SegmentSize
         /\ Cardinality(ValidOffsets(s)) = 0 <=> ValidOffsets(s) = {}
<1>1. ValidOffsets(s) \in SUBSET Offsets
  BY DEF ValidOffsets
<1> HIDE DEF ValidOffsets
<1> QED BY <1>1, OffsetSetCount

(* A segment that has a valid block has a first one.                       *)
LEMMA FirstValidExists ==
  ASSUME NEW s \in Segs, ValidOffsets(s) # {}
  PROVE  FirstValid(s) \in Offsets /\ blocks[s][FirstValid(s)] # None
<1>1. ValidOffsets(s) \in SUBSET Nat
  BY SizesAssumption DEF ValidOffsets, Offsets
<1>2. \E i \in ValidOffsets(s) : \A j \in ValidOffsets(s) : i <= j
  BY <1>1, LeastElement
<1>3. FirstValid(s) \in ValidOffsets(s)
  BY <1>2 DEF FirstValid
<1> QED BY <1>3 DEF ValidOffsets

-----------------------------------------------------------------------------
(* The policies.                                                           *)

PolicyType ==
  [tracked : SUBSET Segs, orphans : SUBSET (Segs \X (0 .. SegmentSize))]

(* What the operations do to a policy whose heap has no lost nodes.        *)
LEMMA PolicyOperations ==
  ASSUME NEW kind \in {"ordered", "greedy"}, NEW p \in PolicyType, p.orphans = {},
         NEW s \in Segs, NEW cnt
  PROVE  /\ s \notin p.tracked \/ kind = "ordered" =>
              /\ Add(kind, p, s, cnt) \in PolicyType
              /\ Add(kind, p, s, cnt).tracked = p.tracked \cup {s}
              /\ Add(kind, p, s, cnt).orphans = {}
         /\ Remove(p, s) \in PolicyType
         /\ Remove(p, s).tracked = p.tracked \ {s}
         /\ Remove(p, s).orphans = {}
         /\ Chosen(kind, p, s) \in PolicyType
         /\ Chosen(kind, p, s).tracked \ {s} = p.tracked \ {s}
         /\ kind = "ordered" => Chosen(kind, p, s).tracked = p.tracked \ {s}
         /\ Chosen(kind, p, s).orphans = {}
         /\ Update(kind, p, s) = p
BY DEF PolicyType, Add, Remove, Chosen, Update

(* A policy hands out what it tracks, and something if it tracks anything. *)
LEMMA CandidatesTracked ==
  ASSUME NEW kind \in {"ordered", "greedy"}, NEW p \in PolicyType, p.orphans = {},
         NEW cnt \in [Segs -> Nat]
  PROVE  /\ Candidates(kind, p, cnt) \subseteq p.tracked
         /\ p.tracked # {} => Candidates(kind, p, cnt) # {}
<1> DEFINE T == p.tracked
           nodes == {<<s, cnt[s]>> : s \in T}
           lowest(m) == \A o \in nodes : m[2] < o[2] \/ (m[2] = o[2] /\ m[1] <= o[1])
<1>1. T \subseteq Segs /\ Segs \subseteq Nat
  BY SizesAssumption DEF PolicyType, Segs
<1>2. CASE kind = "ordered"
  BY <1>2 DEF Candidates
<1>3. CASE kind = "greedy"
  <2>1. nodes = {<<s, cnt[s]>> : s \in p.tracked} \cup p.orphans
    OBVIOUS
  <2>2. Candidates(kind, p, cnt) = {n[1] : n \in {m \in nodes : lowest(m)}}
    BY <1>3, <2>1 DEF Candidates
  <2>3. Candidates(kind, p, cnt) \subseteq T
    BY <2>2
  <2>4. ASSUME T # {} PROVE Candidates(kind, p, cnt) # {}
    <3>1. {cnt[s] : s \in T} \in SUBSET Nat /\ {cnt[s] : s \in T} # {}
      BY <1>1, <2>4
    <3>2. PICK c \in {cnt[s] : s \in T} : \A d \in {cnt[s] : s \in T} : c <= d
      BY <3>1, LeastElement
    <3>3. {s \in T : cnt[s] = c} \in SUBSET Nat /\ {s \in T : cnt[s] = c} # {}
      BY <1>1, <3>2
    <3>4. PICK a \in {s \in T : cnt[s] = c} : \A b \in {s \in T : cnt[s] = c} : a <= b
      BY <3>3, LeastElement
    <3>5. a \in T /\ cnt[a] = c
      BY <3>4
    <3>6. ASSUME NEW s \in T
          PROVE  cnt[a] < cnt[s] \/ (cnt[a] = cnt[s] /\ a <= s)
      <4>1. c <= cnt[s]
        BY <3>2
      <4>2. cnt[s] \in Nat /\ c \in Nat
        BY <1>1, <3>5
      <4>3. c = cnt[s] => a <= s
        BY <3>4
      <4> QED BY <3>5, <4>1, <4>2, <4>3
    <3>7. <<a, cnt[a]>> \in nodes /\ lowest(<<a, cnt[a]>>)
      BY <3>5, <3>6
    <3>8. <<a, cnt[a]>> \in {m \in nodes : lowest(m)}
      BY <3>7
    <3> HIDE DEF nodes, lowest
    <3>9. <<a, cnt[a]>>[1] \in Candidates(kind, p, cnt)
      BY <2>2, <3>8
    <3> QED BY <3>9
  <2> QED BY <2>3, <2>4
<1> QED BY <1>2, <1>3

-----------------------------------------------------------------------------
(* Pieces that several actions share.                                      *)

(* The policies of a state of the invariant are of the kinds above.        *)
LEMMA PoliciesSound ==
  ASSUME SoundPolicies, IInv
  PROVE  /\ EvictorKind \in {"ordered", "greedy"}
         /\ evictor \in PolicyType /\ evictor.orphans = {}
         /\ compactor \in PolicyType /\ compactor.orphans = {}
         /\ CompactorKind # "none" => CompactorKind = "ordered" /\ EvictorKind = "ordered"
         /\ CompactorKind = "none" => compactor.tracked = {}
BY DEF SoundPolicies, IInv, TypeOK, PolicyInv, PolicyType

(* A free segment is in no table, holds nothing and has been reset.        *)
LEMMA FreeIsEmpty ==
  ASSUME IInv, NEW s \in Pool
  PROVE  /\ s \in Segs /\ s # victim /\ s \notin HostActive \cup GCActive
         /\ blocks[s] = ResetBlocks
         /\ write_ptr[s] = 0 /\ valid_cnt[s] = 0
<1>1. s \in Segs
  BY RangeOfSeq DEF IInv, TypeOK, Pool
<1>2. write_ptr[s] = 0
  BY DEF IInv, StageInv
<1>3. \A i \in Offsets : ~(i < 0)
  BY SizesAssumption DEF Offsets
<1>4. ValidOffsets(s) = {} /\ valid_cnt[s] = 0
  <2>1. ValidOffsets(s) \subseteq Offsets
    BY DEF ValidOffsets
  <2>2. \A i \in ValidOffsets(s) : i < 0
    BY <1>1, <1>2 DEF IInv, FillInv
  <2>3. valid_cnt[s] <= 0 /\ valid_cnt[s] \in 0 .. SegmentSize
    BY <1>1, <1>2 DEF IInv, FillInv, TypeOK
  <2> QED BY <2>1, <2>2, <2>3, <1>3, SizesAssumption
<1>5. blocks[s] = ResetBlocks
  BY <1>1, <1>4 DEF IInv, TypeOK, ValidOffsets, ResetBlocks
<1>6. s # victim /\ s \notin HostActive \cup GCActive
  BY DEF IInv, SegmentInOnePlace
<1> QED BY <1>1, <1>2, <1>4, <1>5, <1>6

(* Taking a segment from the pool changes the pool only: the reset finds   *)
(* the segment as the previous one left it.                                *)
LEMMA AllocTakesFront ==
  ASSUME IInv, free_pool # <<>>
  PROVE  LET s == Head(free_pool)
         IN /\ s \in Pool /\ s \in Segs
            /\ Len(free_pool) >= 1
            /\ Tail(free_pool) \in Seq(Segs)
            /\ Len(Tail(free_pool)) = Len(free_pool) - 1
            /\ Range(Tail(free_pool)) = Pool \ {s}
            /\ \A i, j \in DOMAIN Tail(free_pool) :
                 Tail(free_pool)[i] = Tail(free_pool)[j] => i = j
            /\ [blocks EXCEPT ![s] = ResetBlocks] = blocks
            /\ [write_ptr EXCEPT ![s] = 0] = write_ptr
            /\ [valid_cnt EXCEPT ![s] = 0] = valid_cnt
<1> DEFINE s == Head(free_pool)
<1>1. /\ free_pool \in Seq(Segs)
      /\ \A i, j \in DOMAIN free_pool : free_pool[i] = free_pool[j] => i = j
  BY DEF IInv, TypeOK, SegmentInOnePlace
<1>2. /\ s \in Pool /\ s \in Segs
      /\ Len(free_pool) >= 1
      /\ Tail(free_pool) \in Seq(Segs)
      /\ Len(Tail(free_pool)) = Len(free_pool) - 1
      /\ Range(Tail(free_pool)) = Pool \ {s}
      /\ \A i, j \in DOMAIN Tail(free_pool) :
           Tail(free_pool)[i] = Tail(free_pool)[j] => i = j
  BY <1>1, PopFront DEF Pool
<1> HIDE DEF s
<1>3. blocks[s] = ResetBlocks /\ write_ptr[s] = 0 /\ valid_cnt[s] = 0
  BY <1>2, FreeIsEmpty
<1>4. /\ [blocks EXCEPT ![s] = ResetBlocks] = blocks
      /\ [write_ptr EXCEPT ![s] = 0] = write_ptr
      /\ [valid_cnt EXCEPT ![s] = 0] = valid_cnt
  BY <1>2, <1>3 DEF IInv, TypeOK
<1> QED BY <1>2, <1>4 DEF s

(* A step that moves no block keeps what is said about blocks.             *)
LEMMA NoBlockMoves ==
  ASSUME IInv, UNCHANGED <<blocks, write_ptr, valid_cnt, mapping, global_valid_blocks, cold>>
  PROVE  FillInv' /\ CacheInv' /\ MappingExact'
BY DEF IInv, FillInv, CacheInv, MappingExact, ValidOffsets, Cached

(* Sealing a segment, full and so far active, makes it known to the        *)
(* policies.                                                               *)
LEMMA SealTracks ==
  ASSUME SoundPolicies, IInv,
         NEW s \in Segs \ {victim}, s \in HostActive \cup GCActive, PolicyAdd(s)
  PROVE  /\ {evictor', compactor'} \subseteq PolicyType
         /\ PolicyInv'
         /\ evictor'.tracked = evictor.tracked \cup {s}
         /\ CompactorKind # "none" => compactor'.tracked = compactor.tracked \cup {s}
<1>1. s \notin evictor.tracked
  BY DEF IInv, SegmentInOnePlace
<1>2. /\ evictor' \in PolicyType
      /\ evictor'.tracked = evictor.tracked \cup {s}
      /\ evictor'.orphans = {}
  BY <1>1, PoliciesSound, PolicyOperations DEF PolicyAdd
<1>3. CASE CompactorKind = "none"
  BY <1>2, <1>3, PoliciesSound DEF PolicyAdd, PolicyInv
<1>4. CASE CompactorKind # "none"
  <2>1. /\ compactor' \in PolicyType
        /\ compactor'.tracked = compactor.tracked \cup {s}
        /\ compactor'.orphans = {}
    BY <1>4, PoliciesSound, PolicyOperations DEF PolicyAdd
  <2> QED BY <2>1, <1>2, <1>4 DEF PolicyInv
<1> QED BY <1>3, <1>4

(* The policies and the sealed segments.                                   *)
Sealed == Segs \ (Pool \cup HostActive \cup GCActive \cup {victim})

(* The tables and the pool never name nothing's segment twice: what is in  *)
(* the tables are segments.                                                *)
LEMMA ActiveAreSegments ==
  ASSUME IInv
  PROVE  /\ Pool \subseteq Segs /\ HostActive \subseteq Segs /\ GCActive \subseteq Segs
         /\ None \notin Segs /\ None \notin Keys /\ None \notin Locations
<1>1. Pool \subseteq Segs
  BY RangeOfSeq DEF IInv, TypeOK, Pool
<1>2. HostActive \subseteq Segs /\ GCActive \subseteq Segs
  BY DEF IInv, TypeOK, HostActive, GCActive
<1> QED BY <1>1, <1>2, StreamsAssumption DEF Locations, Offsets

(* Setting a slot of active_seg to a new segment, or to none.              *)
LEMMA SetActive ==
  ASSUME IInv, NEW a \in HostStreams, NEW x \in Segs \cup {None}, x \notin HostActive,
         active_seg' = [active_seg EXCEPT ![a] = x]
  PROVE  /\ active_seg' \in [HostStreams -> Segs \cup {None}]
         /\ \A h, j \in HostStreams :
              active_seg'[h] = active_seg'[j] /\ active_seg'[h] # None => h = j
         /\ HostActive' = (HostActive \ {active_seg[a]}) \cup ({x} \ {None})
<1>1. /\ active_seg \in [HostStreams -> Segs \cup {None}]
      /\ \A g, h \in HostStreams :
           active_seg[g] = active_seg[h] /\ active_seg[g] # None => g = h
  BY DEF IInv, TypeOK, SegmentInOnePlace
<1>2. x # None => \A h \in HostStreams : active_seg[h] # x
  BY DEF HostActive
<1> QED BY <1>1, <1>2, SetSlot DEF HostActive

(* The same for gc_active_seg.                                             *)
LEMMA SetGCActive ==
  ASSUME IInv, NEW a \in GCStreams, NEW x \in Segs \cup {None}, x \notin GCActive,
         gc_active_seg' = [gc_active_seg EXCEPT ![a] = x]
  PROVE  /\ gc_active_seg' \in [GCStreams -> Segs \cup {None}]
         /\ \A h, j \in GCStreams :
              gc_active_seg'[h] = gc_active_seg'[j] /\ gc_active_seg'[h] # None => h = j
         /\ GCActive' = (GCActive \ {gc_active_seg[a]}) \cup ({x} \ {None})
<1>1. /\ gc_active_seg \in [GCStreams -> Segs \cup {None}]
      /\ \A g, h \in GCStreams :
           gc_active_seg[g] = gc_active_seg[h] /\ gc_active_seg[g] # None => g = h
  BY DEF IInv, TypeOK, SegmentInOnePlace
<1>2. x # None => \A h \in GCStreams : gc_active_seg[h] # x
  BY DEF GCActive
<1> QED BY <1>1, <1>2, SetSlot DEF GCActive

-----------------------------------------------------------------------------
(* Every action keeps the invariant.                                       *)

LEMMA InitHasIInv == Init => IInv /\ Pool = Segs
<1> SUFFICES ASSUME Init PROVE IInv /\ Pool = Segs
  OBVIOUS
<1> USE DEF Init
<1>1. NumSegments \in Nat /\ SegmentSize \in Nat /\ SegmentSize >= 2
  BY SizesAssumption
<1>2. /\ free_pool \in Seq(Segs)
      /\ DOMAIN free_pool = 1 .. NumSegments
      /\ \A i, j \in DOMAIN free_pool : free_pool[i] = free_pool[j] => i = j
  BY <1>1, IsASeq DEF Segs
<1>3. Pool = Segs
  <2>1. \A s \in Segs : s + 1 \in 1 .. NumSegments /\ free_pool[s + 1] = s
    BY <1>1 DEF Segs
  <2>2. \A i \in 1 .. NumSegments : free_pool[i] \in Segs
    BY <1>1 DEF Segs
  <2>3. Pool = {free_pool[i] : i \in 1 .. NumSegments}
    BY <1>2 DEF Pool, Range
  <2> QED BY <2>1, <2>2, <2>3
<1>4. HostActive = {} /\ GCActive = {}
  BY DEF HostActive, GCActive
<1>5. None \notin Segs /\ None \notin Keys /\ None \notin Segs \X (0 .. SegmentSize - 1)
  BY StreamsAssumption
<1>6. TypeOK
  <2>1. 0 \in 0 .. (SegmentSize \div 2) - 1 /\ 0 \in 0 .. SegmentSize
    BY <1>1
  <2> QED BY <1>2, <2>1 DEF TypeOK, NoSegments
<1>7. PolicyInv
  BY DEF PolicyInv, NoSegments
<1>8. \A s \in Segs : ValidOffsets(s) = {}
  BY DEF ValidOffsets
<1>9. FillInv
  <2>1. \A s \in Segs : write_ptr[s] = 0 /\ valid_cnt[s] = 0
    OBVIOUS
  <2>2. \A s \in Segs : Cardinality(ValidOffsets(s)) = 0
    BY <1>8, FS_EmptySet
  <2> QED BY <1>8, <2>1, <2>2 DEF FillInv
<1>10. StageInv
  BY <1>3 DEF StageInv
<1>11. CallInv
  BY DEF CallInv
<1>12. CacheInv
  <2>1. Cached = {}
    BY DEF Cached
  <2> QED BY <2>1, FS_EmptySet DEF CacheInv
<1>13. MappingExact
  BY <1>5 DEF MappingExact, Offsets
<1>14. SegmentInOnePlace
  BY <1>2, <1>3, <1>4, <1>5 DEF SegmentInOnePlace, NoSegments
<1> QED BY <1>3, <1>6, <1>7, <1>9, <1>10, <1>11, <1>12, <1>13, <1>14 DEF IInv

LEMMA InsertKeepsIInv ==
  ASSUME SoundPolicies, IInv, NEW k \in Keys, NEW h \in HostStreams, Insert(k, h)
  PROVE  IInv'
<1> DEFINE s == active_seg[h]
<1>1. /\ pc = "idle" /\ victim = None /\ victim' = None
      /\ key' = k /\ stream' = h /\ caller' = caller
      /\ UNCHANGED <<blocks, write_ptr, valid_cnt, mapping, global_valid_blocks, cold,
                     free_pool, gc_active_seg, phase>>
  BY DEF Insert, IInv, CallInv, segVars, dataVars
<1>2. FillInv' /\ CacheInv' /\ MappingExact'
  BY <1>1, NoBlockMoves
<1>3. Pool' = Pool /\ GCActive' = GCActive
  BY <1>1 DEF Pool, GCActive
<1>4. CASE s # None /\ Full(s)
  <2>1. /\ PolicyAdd(s) /\ pc' = "alloc"
        /\ active_seg' = [active_seg EXCEPT ![h] = None]
    BY <1>4 DEF Insert
  <2>2. s \in HostActive /\ s \in Segs \ {victim}
    BY <1>1, <1>4, ActiveAreSegments DEF HostActive
  <2>3. /\ {evictor', compactor'} \subseteq PolicyType /\ PolicyInv'
        /\ evictor'.tracked = evictor.tracked \cup {s}
        /\ CompactorKind # "none" => compactor'.tracked = compactor.tracked \cup {s}
    BY <2>1, <2>2, SealTracks
  <2>4. /\ active_seg' \in [HostStreams -> Segs \cup {None}]
        /\ \A g, j \in HostStreams :
             active_seg'[g] = active_seg'[j] /\ active_seg'[g] # None => g = j
        /\ HostActive' = HostActive \ {s}
    BY <2>1, SetActive, ActiveAreSegments
  <2>5. TypeOK'
    BY <1>1, <2>1, <2>3, <2>4 DEF IInv, TypeOK, PolicyType
  <2>6. StageInv'
    BY <1>1, <1>3, <1>4, <2>4 DEF IInv, StageInv, Full
  <2>7. CallInv'
    BY <1>1, <2>1, <2>4 DEF CallInv, IInv, TypeOK
  <2>8. SegmentInOnePlace'
    BY <1>1, <1>3, <2>2, <2>3, <2>4 DEF IInv, SegmentInOnePlace
  <2> QED BY <1>2, <2>3, <2>5, <2>6, <2>7, <2>8 DEF IInv
<1>5. CASE ~(s # None /\ Full(s))
  <2>1. /\ pc' = IF s = None THEN "alloc" ELSE "place"
        /\ UNCHANGED <<evictor, compactor, active_seg>>
    BY <1>5 DEF Insert, policyVars
  <2>2. HostActive' = HostActive
    BY <2>1 DEF HostActive
  <2>3. TypeOK'
    BY <1>1, <2>1 DEF IInv, TypeOK
  <2>4. StageInv' /\ PolicyInv'
    BY <1>1, <1>3, <2>1, <2>2 DEF IInv, StageInv, PolicyInv, Full
  <2>5. CallInv'
    BY <1>1, <1>5, <2>1 DEF CallInv, Full
  <2>6. SegmentInOnePlace'
    BY <1>1, <1>3, <2>1, <2>2 DEF IInv, SegmentInOnePlace
  <2> QED BY <1>2, <2>3, <2>4, <2>5, <2>6 DEF IInv
<1> QED BY <1>4, <1>5

LEMMA AllocActiveKeepsIInv ==
  ASSUME SoundPolicies, IInv, AllocActive
  PROVE  IInv'
<1> DEFINE s == Head(free_pool)
<1>1. free_pool # <<>>
  BY SizesAssumption DEF AllocActive, PoolLow
<1>2. /\ s \in Pool /\ s \in Segs
      /\ Tail(free_pool) \in Seq(Segs)
      /\ Range(Tail(free_pool)) = Pool \ {s}
      /\ \A i, j \in DOMAIN Tail(free_pool) :
           Tail(free_pool)[i] = Tail(free_pool)[j] => i = j
  BY <1>1, AllocTakesFront
<1>3. blocks' = blocks /\ write_ptr' = write_ptr /\ valid_cnt' = valid_cnt
  BY <1>1, AllocTakesFront DEF AllocActive, AllocSegment
<1>4. /\ pc = "alloc" /\ pc' = "place" /\ victim = None /\ victim' = None
      /\ free_pool' = Tail(free_pool)
      /\ active_seg' = [active_seg EXCEPT ![stream] = s]
      /\ active_seg[stream] = None
      /\ UNCHANGED <<evictor, compactor, mapping, global_valid_blocks, cold,
                     gc_active_seg, phase, key, stream, caller>>
  BY DEF AllocActive, AllocSegment, IInv, CallInv, policyVars, dataVars
<1>5. write_ptr[s] = 0 /\ s \notin HostActive \cup GCActive /\ s # None
  BY <1>2, FreeIsEmpty, ActiveAreSegments
<1> HIDE DEF s
<1>6. stream \in HostStreams
  BY DEF IInv, TypeOK
<1>7. /\ active_seg' \in [HostStreams -> Segs \cup {None}]
      /\ \A g, j \in HostStreams :
           active_seg'[g] = active_seg'[j] /\ active_seg'[g] # None => g = j
      /\ HostActive' = HostActive \cup {s}
  <2>1. /\ active_seg' \in [HostStreams -> Segs \cup {None}]
        /\ \A g, j \in HostStreams :
             active_seg'[g] = active_seg'[j] /\ active_seg'[g] # None => g = j
        /\ HostActive' = (HostActive \ {active_seg[stream]}) \cup ({s} \ {None})
    BY <1>2, <1>4, <1>5, <1>6, SetActive
  <2>2. None \notin HostActive
    BY DEF HostActive
  <2> QED BY <2>1, <2>2, <1>4, <1>5
<1>8. Pool' = Pool \ {s} /\ GCActive' = GCActive
  BY <1>2, <1>4 DEF Pool, GCActive
<1>9. FillInv' /\ CacheInv' /\ MappingExact'
  BY <1>3, <1>4, NoBlockMoves
<1>10. TypeOK'
  BY <1>2, <1>3, <1>4, <1>7 DEF IInv, TypeOK
<1>11. PolicyInv'
  BY <1>4 DEF IInv, PolicyInv
<1>12. StageInv'
  BY <1>2, <1>3, <1>7, <1>8 DEF IInv, StageInv, Full
<1>13. CallInv'
  <2>1. active_seg'[stream'] = s /\ ~(write_ptr'[s] >= SegmentSize)
    BY <1>3, <1>4, <1>5, <1>6, SizesAssumption DEF IInv, TypeOK
  <2>2. key' \in Keys
    BY <1>4 DEF IInv, CallInv
  <2> QED BY <2>1, <2>2, <1>4, <1>5 DEF CallInv, Full
<1>14. SegmentInOnePlace'
  BY <1>2, <1>4, <1>5, <1>7, <1>8 DEF IInv, SegmentInOnePlace
<1> QED BY <1>9, <1>10, <1>11, <1>12, <1>13, <1>14 DEF IInv

(* When no victim is being emptied the policies track the sealed segments. *)
LEMMA TrackedAreSealed ==
  ASSUME SoundPolicies, IInv, GCNeeded
  PROVE  /\ victim = None /\ Sealed \subseteq Segs
         /\ evictor.tracked = Sealed
         /\ CompactorKind # "none" => compactor.tracked = Sealed
         /\ valid_cnt \in [Segs -> Nat]
<1>1. victim = None
  BY DEF GCNeeded, IInv, CallInv
<1>2. evictor.tracked \subseteq Segs /\ compactor.tracked \subseteq Segs /\ None \notin Segs
  BY PoliciesSound, ActiveAreSegments DEF PolicyType
<1>3. valid_cnt \in [Segs -> Nat]
  BY SizesAssumption DEF IInv, TypeOK
<1> QED BY <1>1, <1>2, <1>3 DEF IInv, SegmentInOnePlace, Sealed

(* What the three ways to choose a victim have in common.                  *)
LEMMA ChosenVictimKeepsIInv ==
  ASSUME SoundPolicies, IInv, GCNeeded,
         NEW v \in Sealed, victim' = v,
         pc' \in {"target", "compact", "evict"},
         caller' = IF pc = "alloc" THEN "alloc" ELSE "burst",
         pc' = "target" => ~StreamPolicy /\ \E g \in GCStreams : gc_active_seg[g] = None,
         {evictor', compactor'} \subseteq PolicyType, PolicyInv',
         evictor'.tracked \ {v} = evictor.tracked \ {v},
         CompactorKind # "none" => compactor'.tracked \ {v} = compactor.tracked \ {v},
         UNCHANGED <<segVars, tableVars, dataVars, phase, key, stream>>
  PROVE  IInv'
<1>1. /\ v \in Segs /\ v # None
      /\ v \notin Pool /\ v \notin HostActive /\ v \notin GCActive
  BY ActiveAreSegments DEF Sealed
<1>2. UNCHANGED <<blocks, write_ptr, valid_cnt, mapping, global_valid_blocks, cold, free_pool,
                  active_seg, gc_active_seg, phase, key, stream>>
  BY DEF segVars, tableVars, dataVars
<1>3. victim = None
  BY DEF GCNeeded, IInv, CallInv
<1>4. Pool' = Pool /\ HostActive' = HostActive /\ GCActive' = GCActive
  BY <1>2 DEF Pool, HostActive, GCActive
<1>5. FillInv' /\ CacheInv' /\ MappingExact'
  BY <1>2, NoBlockMoves
<1>6. TypeOK'
  BY <1>1, <1>2 DEF IInv, TypeOK, PolicyType
<1>7. StageInv'
  BY <1>2, <1>4 DEF IInv, StageInv, Full
<1>8. CallInv'
  <2>1. pc' = "target" => ~StreamPolicy /\ \A g \in GCStreams : gc_active_seg'[g] = None
    <3> SUFFICES ASSUME pc' = "target"
                 PROVE  ~StreamPolicy /\ \A g \in GCStreams : gc_active_seg'[g] = None
      OBVIOUS
    <3>1. ~StreamPolicy /\ \E g \in GCStreams : gc_active_seg[g] = None
      OBVIOUS
    <3>2. \E g : GCStreams = {g}
      BY <3>1, StreamsAssumption, FS_Singleton
    <3> QED BY <3>1, <3>2, <1>2
  <2>2. caller' = "alloc" => key' \in Keys /\ active_seg'[stream'] = None
    BY <1>2 DEF IInv, CallInv
  <2> QED BY <1>1, <2>1, <2>2 DEF CallInv
<1>9. SegmentInOnePlace'
  <2>1. /\ evictor'.tracked \ {v} = Sealed \ {v}
        /\ CompactorKind # "none" => compactor'.tracked \ {v} = Sealed \ {v}
    BY TrackedAreSealed
  <2>2. Sealed \ {v} = Segs \ (Pool \cup HostActive \cup GCActive \cup {v})
    BY <1>3, ActiveAreSegments DEF Sealed
  <2> QED BY <1>1, <1>2, <1>4, <2>1, <2>2 DEF IInv, SegmentInOnePlace
<1> QED BY <1>5, <1>6, <1>7, <1>8, <1>9 DEF IInv

(* Dating the age threshold takes the evictor's answer out and puts it     *)
(* back.                                                                   *)
LEMMA ConsultedIsSame ==
  ASSUME SoundPolicies, IInv, GCNeeded, CompactorKind # "none",
         NEW e \in Candidates(EvictorKind, evictor, valid_cnt)
  PROVE  /\ Consulted(e) \in PolicyType
         /\ Consulted(e).tracked = evictor.tracked
         /\ Consulted(e).orphans = {}
<1>1. EvictorKind = "ordered" /\ evictor \in PolicyType /\ evictor.orphans = {}
  BY PoliciesSound
<1>2. e \in evictor.tracked /\ e \in Segs
  BY <1>1, TrackedAreSealed, CandidatesTracked
<1> DEFINE p == Chosen(EvictorKind, evictor, e)
<1>3. p \in PolicyType /\ p.tracked = evictor.tracked \ {e} /\ p.orphans = {}
  <2>1. p = Remove(evictor, e)
    BY <1>1 DEF Chosen
  <2> HIDE DEF p
  <2>2. /\ Remove(evictor, e) \in PolicyType
        /\ Remove(evictor, e).tracked = evictor.tracked \ {e}
        /\ Remove(evictor, e).orphans = {}
    BY <1>1, <1>2, PolicyOperations
  <2> QED BY <2>1, <2>2
<1> HIDE DEF p
<1>4. /\ Add(EvictorKind, p, e, valid_cnt[e]) \in PolicyType
      /\ Add(EvictorKind, p, e, valid_cnt[e]).tracked = p.tracked \cup {e}
      /\ Add(EvictorKind, p, e, valid_cnt[e]).orphans = {}
  BY <1>1, <1>2, <1>3, PolicyOperations
<1> QED BY <1>2, <1>3, <1>4 DEF Consulted, p

LEMMA ChooseToEvictKeepsIInv ==
  ASSUME SoundPolicies, IInv, ChooseToEvict
  PROVE  IInv'
<1>1. GCNeeded
  BY DEF ChooseToEvict
<1>2. PICK v \in Candidates(EvictorKind, evictor, valid_cnt) :
        victim' = v /\ evictor' = Chosen(EvictorKind, evictor, v)
  BY DEF ChooseToEvict
<1>3. v \in Sealed /\ v \in Segs
  BY <1>1, PoliciesSound, TrackedAreSealed, CandidatesTracked
<1>4. /\ evictor' \in PolicyType
      /\ evictor'.tracked \ {v} = evictor.tracked \ {v}
      /\ evictor'.orphans = {}
  BY <1>2, <1>3, PoliciesSound, PolicyOperations
<1>5. compactor' = compactor /\ compactor \in PolicyType
  BY PoliciesSound DEF ChooseToEvict
<1>6. PolicyInv'
  BY <1>4, <1>5 DEF IInv, PolicyInv
<1>7. /\ pc' = "evict"
      /\ caller' = IF pc = "alloc" THEN "alloc" ELSE "burst"
      /\ UNCHANGED <<segVars, tableVars, dataVars, phase, key, stream>>
  BY DEF ChooseToEvict
<1> QED BY <1>1, <1>2, <1>3, <1>4, <1>5, <1>6, <1>7, ChosenVictimKeepsIInv

LEMMA ChooseToCompactKeepsIInv ==
  ASSUME SoundPolicies, IInv, ChooseToCompact
  PROVE  IInv'
<1>1. GCNeeded /\ CompactorKind # "none"
  BY DEF ChooseToCompact, Compacting
<1>2. PICK e \in Candidates(EvictorKind, evictor, valid_cnt) : evictor' = Consulted(e)
  BY DEF ChooseToCompact
<1>3. PICK v \in Candidates(CompactorKind, compactor, valid_cnt) :
        /\ victim' = v
        /\ compactor' = Chosen(CompactorKind, compactor, v)
        /\ pc' = IF valid_cnt[v] = 0 THEN "evict"
                 ELSE IF ~StreamPolicy /\ \E g \in GCStreams : gc_active_seg[g] = None
                 THEN "target" ELSE "compact"
  BY DEF ChooseToCompact
<1>4. /\ CompactorKind \in {"ordered", "greedy"}
      /\ compactor \in PolicyType /\ compactor.orphans = {}
  BY <1>1, PoliciesSound
<1>5. v \in Sealed /\ v \in Segs
  BY <1>1, <1>4, TrackedAreSealed, CandidatesTracked
<1>6. evictor' \in PolicyType /\ evictor'.tracked = evictor.tracked /\ evictor'.orphans = {}
  BY <1>1, <1>2, ConsultedIsSame
<1>7. /\ compactor' \in PolicyType
      /\ compactor'.tracked \ {v} = compactor.tracked \ {v}
      /\ compactor'.orphans = {}
  BY <1>3, <1>4, <1>5, PolicyOperations
<1>8. PolicyInv'
  BY <1>1, <1>6, <1>7 DEF PolicyInv
<1>9. /\ pc' \in {"target", "compact", "evict"}
      /\ pc' = "target" => ~StreamPolicy /\ \E g \in GCStreams : gc_active_seg[g] = None
  BY <1>3
<1>10. /\ caller' = IF pc = "alloc" THEN "alloc" ELSE "burst"
       /\ UNCHANGED <<segVars, tableVars, dataVars, phase, key, stream>>
  BY DEF ChooseToCompact
<1> QED BY <1>1, <1>3, <1>5, <1>6, <1>7, <1>8, <1>9, <1>10, ChosenVictimKeepsIInv

LEMMA ChooseTooFullKeepsIInv ==
  ASSUME SoundPolicies, IInv, ChooseTooFull
  PROVE  IInv'
<1>1. GCNeeded /\ CompactorKind # "none"
  BY DEF ChooseTooFull, Compacting
<1>2. PICK c \in Candidates(CompactorKind, compactor, valid_cnt) :
        compactor' = Add(CompactorKind, Chosen(CompactorKind, compactor, c), c, valid_cnt[c])
  BY DEF ChooseTooFull
<1>3. PICK e \in Candidates(EvictorKind, evictor, valid_cnt) :
        \E v \in Candidates(EvictorKind, Consulted(e), valid_cnt) :
          victim' = v /\ evictor' = Chosen(EvictorKind, Consulted(e), v)
  BY DEF ChooseTooFull
<1>4. PICK v \in Candidates(EvictorKind, Consulted(e), valid_cnt) :
        victim' = v /\ evictor' = Chosen(EvictorKind, Consulted(e), v)
  BY <1>3
<1>5. /\ CompactorKind = "ordered" /\ EvictorKind = "ordered"
      /\ compactor \in PolicyType /\ compactor.orphans = {}
  BY <1>1, PoliciesSound
<1>6. /\ Consulted(e) \in PolicyType
      /\ Consulted(e).tracked = evictor.tracked
      /\ Consulted(e).orphans = {}
  BY <1>1, ConsultedIsSame
<1>7. v \in Sealed /\ v \in Segs
  BY <1>1, <1>5, <1>6, TrackedAreSealed, CandidatesTracked
<1>8. /\ evictor' \in PolicyType
      /\ evictor'.tracked \ {v} = evictor.tracked \ {v}
      /\ evictor'.orphans = {}
  BY <1>4, <1>5, <1>6, <1>7, PolicyOperations
<1>9. c \in compactor.tracked /\ c \in Segs
  BY <1>1, <1>5, TrackedAreSealed, CandidatesTracked
<1>10. /\ compactor' \in PolicyType
       /\ compactor'.tracked = compactor.tracked
       /\ compactor'.orphans = {}
  <2> DEFINE p == Chosen(CompactorKind, compactor, c)
  <2>1. p \in PolicyType /\ p.tracked = compactor.tracked \ {c} /\ p.orphans = {}
    BY <1>5, <1>9, PolicyOperations
  <2>2. compactor' = Add(CompactorKind, p, c, valid_cnt[c])
    BY <1>2
  <2> HIDE DEF p
  <2>3. /\ compactor' \in PolicyType
        /\ compactor'.tracked = p.tracked \cup {c}
        /\ compactor'.orphans = {}
    BY <2>1, <2>2, <1>5, <1>9, PolicyOperations
  <2> QED BY <2>1, <2>3, <1>9
<1>11. PolicyInv'
  BY <1>1, <1>8, <1>10 DEF PolicyInv
<1>12. /\ pc' = "evict"
       /\ caller' = IF pc = "alloc" THEN "alloc" ELSE "burst"
       /\ UNCHANGED <<segVars, tableVars, dataVars, phase, key, stream>>
  BY DEF ChooseTooFull
<1> QED BY <1>1, <1>4, <1>7, <1>8, <1>10, <1>11, <1>12, ChosenVictimKeepsIInv

(* The segments without the cached copy of a block.                        *)
WithoutOld(k) ==
  IF mapping[k] # None THEN [blocks EXCEPT ![mapping[k][1]][mapping[k][2]] = None] ELSE blocks

(* Appending block k to segment s, and taking its older copy out: what a   *)
(* write and a copy by compaction have in common.                          *)
LEMMA AppendBlock ==
  ASSUME IInv, NEW k \in Keys, NEW s \in Segs, ~Full(s),
         blocks' = [WithoutOld(k) EXCEPT ![s][write_ptr[s]] = k],
         write_ptr' = [write_ptr EXCEPT ![s] = write_ptr[s] + 1],
         mapping' = [mapping EXCEPT ![k] = <<s, write_ptr[s]>>]
  PROVE  /\ blocks' \in [Segs -> [Offsets -> Keys \cup {None}]]
         /\ write_ptr' \in [Segs -> 0 .. SegmentSize]
         /\ mapping' \in [Keys -> Locations \cup {None}]
         /\ MappingExact'
         /\ Cached' = Cached \cup {k}
         /\ mapping[k] # None =>
              /\ mapping[k][1] \in Segs
              /\ mapping[k][2] \in ValidOffsets(mapping[k][1])
         /\ \A t \in Segs :
              /\ \A i \in ValidOffsets(t)' : i < write_ptr'[t]
              /\ Cardinality(ValidOffsets(t)') =
                   Cardinality(ValidOffsets(t))
                   + (IF t = s THEN 1 ELSE 0)
                   - (IF mapping[k] # None /\ t = mapping[k][1] THEN 1 ELSE 0)
<1> DEFINE w == write_ptr[s]
           hit == mapping[k] # None
           os == mapping[k][1]
           oi == mapping[k][2]
           cleared == WithoutOld(k)
<1>1. /\ blocks \in [Segs -> [Offsets -> Keys \cup {None}]]
      /\ write_ptr \in [Segs -> 0 .. SegmentSize]
      /\ mapping \in [Keys -> Locations \cup {None}]
      /\ None \notin Keys /\ None \notin Locations
  BY ActiveAreSegments DEF IInv, TypeOK
<1>2. w \in Offsets /\ w + 1 \in 0 .. SegmentSize /\ w \notin ValidOffsets(s)
  <2>1. w \in 0 .. SegmentSize /\ ~(w >= SegmentSize)
    BY <1>1 DEF Full
  <2>2. w \in ValidOffsets(s) => w < w
    BY DEF IInv, FillInv
  <2> QED BY <2>1, <2>2, SizesAssumption DEF Offsets
<1>3. <<s, w>> \in Locations /\ <<s, w>> # None
  BY <1>1, <1>2 DEF Locations
<1>4. ASSUME hit
      PROVE  /\ mapping[k] = <<os, oi>> /\ os \in Segs /\ oi \in Offsets
             /\ blocks[os][oi] = k /\ ~(os = s /\ oi = w)
             /\ oi \in ValidOffsets(os)
  <2>1. mapping[k] \in Segs \X Offsets
    BY <1>1, <1>4 DEF Locations
  <2>2. mapping[k] = <<os, oi>> /\ os \in Segs /\ oi \in Offsets
    BY <2>1
  <2>3. blocks[os][oi] = k
    BY <2>2 DEF IInv, MappingExact
  <2>4. oi \in ValidOffsets(os)
    BY <1>1, <2>2, <2>3 DEF ValidOffsets
  <2> QED BY <2>2, <2>3, <2>4, <1>2
<1> HIDE DEF w, hit, os, oi
<1>5. /\ blocks' = [cleared EXCEPT ![s][w] = k]
      /\ write_ptr' = [write_ptr EXCEPT ![s] = w + 1]
      /\ mapping' = [mapping EXCEPT ![k] = <<s, w>>]
      /\ cleared = IF hit THEN [blocks EXCEPT ![os][oi] = None] ELSE blocks
  BY DEF w, hit, os, oi, WithoutOld
<1> HIDE DEF cleared
<1>6. /\ blocks' \in [Segs -> [Offsets -> Keys \cup {None}]]
      /\ \A t \in Segs, i \in Offsets :
           blocks'[t][i] = IF t = s /\ i = w THEN k
                           ELSE IF hit /\ t = os /\ i = oi THEN None ELSE blocks[t][i]
  <2>1. /\ cleared \in [Segs -> [Offsets -> Keys \cup {None}]]
        /\ \A t \in Segs, i \in Offsets :
             cleared[t][i] = IF hit /\ t = os /\ i = oi THEN None ELSE blocks[t][i]
    <3>1. CASE hit
      BY <1>1, <1>4, <1>5, <3>1
    <3>2. CASE ~hit
      BY <1>1, <1>5, <3>2
    <3> QED BY <3>1, <3>2
  <2>2. [cleared[s] EXCEPT ![w] = k] \in [Offsets -> Keys \cup {None}]
    BY <2>1
  <2>3. blocks' = [cleared EXCEPT ![s] = [cleared[s] EXCEPT ![w] = k]]
    BY <1>5
  <2>4. blocks' \in [Segs -> [Offsets -> Keys \cup {None}]]
    BY <2>1, <2>2, <2>3
  <2>5. ASSUME NEW t \in Segs, NEW i \in Offsets
        PROVE  blocks'[t][i] = IF t = s /\ i = w THEN k ELSE cleared[t][i]
    BY <2>1, <2>3
  <2> QED BY <2>1, <2>4, <2>5
<1>7. /\ write_ptr' \in [Segs -> 0 .. SegmentSize]
      /\ write_ptr'[s] = w + 1 /\ \A t \in Segs \ {s} : write_ptr'[t] = write_ptr[t]
      /\ mapping' \in [Keys -> Locations \cup {None}]
      /\ mapping'[k] = <<s, w>> /\ \A j \in Keys \ {k} : mapping'[j] = mapping[j]
  <2>1. /\ write_ptr' \in [Segs -> 0 .. SegmentSize]
        /\ write_ptr'[s] = w + 1 /\ \A t \in Segs \ {s} : write_ptr'[t] = write_ptr[t]
    <3> DEFINE n == w + 1
    <3>1. write_ptr \in [Segs -> 0 .. SegmentSize] /\ n \in 0 .. SegmentSize
      BY <1>1, <1>2
    <3>2. write_ptr' = [write_ptr EXCEPT ![s] = n]
      BY <1>5
    <3> HIDE DEF n
    <3>3. /\ write_ptr' \in [Segs -> 0 .. SegmentSize]
          /\ write_ptr'[s] = n /\ \A t \in Segs \ {s} : write_ptr'[t] = write_ptr[t]
      BY <3>1, <3>2
    <3> QED BY <3>3 DEF n
  <2>2. /\ mapping' \in [Keys -> Locations \cup {None}]
        /\ mapping'[k] = <<s, w>> /\ \A j \in Keys \ {k} : mapping'[j] = mapping[j]
    <3> DEFINE l == <<s, w>>
    <3>1. mapping \in [Keys -> Locations \cup {None}] /\ l \in Locations
      BY <1>1, <1>3
    <3>2. mapping' = [mapping EXCEPT ![k] = l]
      BY <1>5
    <3> HIDE DEF l
    <3>3. /\ mapping' \in [Keys -> Locations \cup {None}]
          /\ mapping'[k] = l /\ \A j \in Keys \ {k} : mapping'[j] = mapping[j]
      BY <3>1, <3>2
    <3> QED BY <3>3 DEF l
  <2> QED BY <2>1, <2>2
<1>8. MappingExact'
  <2> SUFFICES ASSUME NEW t \in Segs, NEW i \in Offsets
               PROVE  /\ blocks'[t][i] # None => mapping'[blocks'[t][i]] = <<t, i>>
                      /\ \A j \in Keys : mapping'[j] = <<t, i>> => blocks'[t][i] = j
    BY DEF MappingExact
  <2>1. /\ blocks[t][i] # None => blocks[t][i] \in Keys /\ mapping[blocks[t][i]] = <<t, i>>
        /\ \A j \in Keys : mapping[j] = <<t, i>> => blocks[t][i] = j
    BY <1>1 DEF IInv, MappingExact
  <2>2. CASE t = s /\ i = w
    <3>1. \A j \in Keys \ {k} : mapping[j] # <<s, w>>
      BY <2>1, <2>2, <1>1, <1>2 DEF ValidOffsets
    <3> QED BY <2>2, <3>1, <1>6, <1>7
  <2>3. CASE ~(t = s /\ i = w)
    <3>1. <<t, i>> # <<s, w>>
      BY <2>3
    <3>2. CASE hit /\ t = os /\ i = oi
      <4>1. blocks'[t][i] = None /\ blocks[t][i] = k
        BY <2>3, <3>2, <1>4, <1>6
      <4>2. \A j \in Keys : mapping'[j] # <<t, i>>
        BY <2>1, <3>1, <4>1, <1>7
      <4> QED BY <4>1, <4>2
    <3>3. CASE ~(hit /\ t = os /\ i = oi)
      <4>1. blocks'[t][i] = blocks[t][i]
        BY <2>3, <3>3, <1>6
      <4>2. mapping[k] # <<t, i>>
        BY <3>3, <1>1, <1>4 DEF hit, Locations
      <4> QED BY <2>1, <3>1, <4>1, <4>2, <1>7
    <3> QED BY <3>2, <3>3
  <2> QED BY <2>2, <2>3
<1>9. Cached' = Cached \cup {k}
  BY <1>3, <1>7 DEF Cached
<1>10. ASSUME NEW t \in Segs
       PROVE  /\ \A i \in ValidOffsets(t)' : i < write_ptr'[t]
              /\ Cardinality(ValidOffsets(t)') =
                   Cardinality(ValidOffsets(t))
                   + (IF t = s THEN 1 ELSE 0) - (IF hit /\ t = os THEN 1 ELSE 0)
  <2> DEFINE V == ValidOffsets(t)
             U == IF hit /\ t = os THEN V \ {oi} ELSE V
  <2>1. V \in SUBSET Offsets /\ U \in SUBSET Offsets /\ U \subseteq V
    BY DEF ValidOffsets
  <2>2. ValidOffsets(t)' = IF t = s THEN U \cup {w} ELSE U
    <3>1. ValidOffsets(t)' = {i \in Offsets : blocks'[t][i] # None}
      BY DEF ValidOffsets
    <3>2. \A i \in Offsets : i \in V <=> blocks[t][i] # None
      BY DEF ValidOffsets
    <3> HIDE DEF V
    <3>3. \A i : i \in U <=> i \in V /\ ~(hit /\ t = os /\ i = oi)
      OBVIOUS
    <3> HIDE DEF U
    <3>4. \A i \in Offsets : blocks'[t][i] # None <=> (t = s /\ i = w) \/ i \in U
      BY <3>2, <3>3, <1>1, <1>6
    <3> QED BY <3>1, <3>4, <2>1, <1>2
  <2>3. \A i \in V : i < write_ptr[t]
    BY DEF IInv, FillInv
  <2>4. hit /\ t = os => oi \in V
    BY <1>4
  <2>5. t = s => w \notin U
    BY <1>2
  <2> HIDE DEF V
  <2>6. Cardinality(U) = Cardinality(V) - (IF hit /\ t = os THEN 1 ELSE 0)
        /\ Cardinality(V) \in Nat
    BY <2>1, <2>4, OffsetSetCount
  <2> HIDE DEF U
  <2>7. Cardinality(ValidOffsets(t)') = Cardinality(U) + (IF t = s THEN 1 ELSE 0)
    BY <2>1, <2>2, <2>5, <2>6, <1>2, OffsetSetCount
  <2>8. \A i \in ValidOffsets(t)' : i < write_ptr'[t]
    <3>1. \A i \in U : i < write_ptr[t] /\ i \in Int
      BY <2>1, <2>3 DEF Offsets
    <3>2. w \in Int
      BY <1>2 DEF Offsets
    <3> QED BY <3>1, <3>2, <2>2, <1>1, <1>7 DEF w
  <2> QED BY <2>6, <2>7, <2>8 DEF V
<1> QED BY <1>4, <1>6, <1>7, <1>8, <1>9, <1>10 DEF hit, os, oi

(* Placing a block keeps the invariant and the counts exact; to the store  *)
(* it is a write.                                                          *)
LEMMA PlaceKeepsIInv ==
  ASSUME SoundPolicies, IInv, Place
  PROVE  /\ IInv'
         /\ CountInv => CountInv'
         /\ key \in Keys /\ Cached' = Cached \cup {key} /\ cold' = cold \ {key}
<1> DEFINE s == active_seg[stream]
           hit == mapping[key] # None
           os == mapping[key][1]
           counted == IF hit THEN [valid_cnt EXCEPT ![os] = valid_cnt[os] - 1] ELSE valid_cnt
<1>1. /\ pc = "place" /\ victim = None /\ victim' = None /\ key' = None
      /\ key \in Keys /\ s # None /\ ~Full(s)
      /\ UNCHANGED <<free_pool, active_seg, gc_active_seg, stream, caller>>
  BY DEF Place, IInv, CallInv, tableVars
<1>2. /\ blocks' = [WithoutOld(key) EXCEPT ![s][write_ptr[s]] = key]
      /\ write_ptr' = [write_ptr EXCEPT ![s] = write_ptr[s] + 1]
      /\ mapping' = [mapping EXCEPT ![key] = <<s, write_ptr[s]>>]
      /\ valid_cnt' = [counted EXCEPT ![s] = counted[s] + 1]
      /\ cold' = IF hit THEN cold ELSE cold \ {key}
      /\ global_valid_blocks' = IF hit THEN global_valid_blocks ELSE global_valid_blocks + 1
  BY DEF Place, TrimCold, WithoutOld
<1>3. s \in Segs /\ s \in HostActive /\ s \notin Pool
  <2>1. stream \in HostStreams
    BY DEF IInv, TypeOK
  <2>2. s \in HostActive
    BY <1>1, <2>1 DEF HostActive
  <2> QED BY <2>2, ActiveAreSegments DEF IInv, SegmentInOnePlace
<1> HIDE DEF s
<1>4. /\ blocks' \in [Segs -> [Offsets -> Keys \cup {None}]]
      /\ write_ptr' \in [Segs -> 0 .. SegmentSize]
      /\ mapping' \in [Keys -> Locations \cup {None}]
      /\ MappingExact'
      /\ Cached' = Cached \cup {key}
      /\ hit => os \in Segs /\ mapping[key][2] \in ValidOffsets(os)
      /\ \A t \in Segs :
           /\ \A i \in ValidOffsets(t)' : i < write_ptr'[t]
           /\ Cardinality(ValidOffsets(t)') =
                Cardinality(ValidOffsets(t))
                + (IF t = s THEN 1 ELSE 0) - (IF hit /\ t = os THEN 1 ELSE 0)
  <2>1. /\ key \in Keys /\ s \in Segs /\ ~Full(s)
        /\ blocks' = [WithoutOld(key) EXCEPT ![s][write_ptr[s]] = key]
        /\ write_ptr' = [write_ptr EXCEPT ![s] = write_ptr[s] + 1]
        /\ mapping' = [mapping EXCEPT ![key] = <<s, write_ptr[s]>>]
    BY <1>1, <1>2, <1>3
  <2> HIDE DEF hit, os
  <2>2. /\ blocks' \in [Segs -> [Offsets -> Keys \cup {None}]]
        /\ write_ptr' \in [Segs -> 0 .. SegmentSize]
        /\ mapping' \in [Keys -> Locations \cup {None}]
        /\ MappingExact'
        /\ Cached' = Cached \cup {key}
        /\ mapping[key] # None =>
             /\ mapping[key][1] \in Segs
             /\ mapping[key][2] \in ValidOffsets(mapping[key][1])
        /\ \A t \in Segs :
             /\ \A i \in ValidOffsets(t)' : i < write_ptr'[t]
             /\ Cardinality(ValidOffsets(t)') =
                  Cardinality(ValidOffsets(t))
                  + (IF t = s THEN 1 ELSE 0)
                  - (IF mapping[key] # None /\ t = mapping[key][1] THEN 1 ELSE 0)
    BY <2>1, AppendBlock
  <2> QED BY <2>2 DEF hit, os
<1>5. evictor' = evictor /\ compactor' = compactor
  <2>1. ASSUME NEW t PROVE PolicyUpdate(t) => evictor' = evictor /\ compactor' = compactor
    BY DEF PolicyUpdate, Update, SoundPolicies
  <2> QED BY <2>1 DEF Place, policyVars
<1>6. Pool' = Pool /\ HostActive' = HostActive /\ GCActive' = GCActive
  BY <1>1 DEF Pool, HostActive, GCActive
<1> HIDE DEF hit, os
<1>7. ASSUME NEW t \in Segs
      PROVE  /\ valid_cnt'[t] = valid_cnt[t] + (IF t = s THEN 1 ELSE 0)
                                             - (IF hit /\ t = os THEN 1 ELSE 0)
             /\ valid_cnt'[t] \in 0 .. SegmentSize
             /\ Cardinality(ValidOffsets(t)') <= valid_cnt'[t]
             /\ valid_cnt'[t] <= write_ptr'[t]
  <2>1. /\ valid_cnt[t] \in Int /\ write_ptr[t] \in Int /\ SegmentSize \in Int
        /\ 0 <= Cardinality(ValidOffsets(t)) /\ Cardinality(ValidOffsets(t)) \in Int
        /\ Cardinality(ValidOffsets(t)) <= valid_cnt[t]
        /\ valid_cnt[t] <= write_ptr[t]
    BY ValidOffsetsCount, SizesAssumption DEF IInv, TypeOK, FillInv
  <2>2. valid_cnt'[t] = valid_cnt[t] + (IF t = s THEN 1 ELSE 0)
                                     - (IF hit /\ t = os THEN 1 ELSE 0)
    <3>1. /\ counted \in [Segs -> Int]
          /\ \A u \in Segs : counted[u] = valid_cnt[u] - (IF hit /\ u = os THEN 1 ELSE 0)
      <4>1. valid_cnt \in [Segs -> Int]
        BY SizesAssumption DEF IInv, TypeOK
      <4>2. CASE hit
        BY <1>4, <4>1, <4>2
      <4>3. CASE ~hit
        BY <4>1, <4>3
      <4> QED BY <4>2, <4>3
    <3> HIDE DEF counted
    <3>2. valid_cnt'[t] = IF t = s THEN counted[t] + 1 ELSE counted[t]
      BY <1>2, <1>3, <3>1
    <3>3. counted[t] \in Int /\ valid_cnt[t] \in Int
      BY <2>1, <3>1
    <3> QED BY <3>1, <3>2, <3>3
  <2>3. write_ptr'[t] = write_ptr[t] + (IF t = s THEN 1 ELSE 0)
    BY <1>2, <1>3, <2>1 DEF IInv, TypeOK
  <2>4. write_ptr'[t] <= SegmentSize
    BY <1>4, SizesAssumption
  <2>5. /\ Cardinality(ValidOffsets(t)') =
              Cardinality(ValidOffsets(t))
              + (IF t = s THEN 1 ELSE 0) - (IF hit /\ t = os THEN 1 ELSE 0)
        /\ hit /\ t = os => Cardinality(ValidOffsets(t)) # 0
    BY <1>4, ValidOffsetsCount
  <2> QED BY <2>1, <2>2, <2>3, <2>4, <2>5
<1>8. FillInv'
  BY <1>4, <1>7 DEF FillInv
<1>9. CacheInv'
  <2>1. hit <=> key \in Cached
    BY <1>1 DEF hit, Cached
  <2>2. Cardinality(Cached \cup {key}) =
          IF hit THEN Cardinality(Cached) ELSE Cardinality(Cached) + 1
    BY <2>1, FS_AddElement DEF IInv, CacheInv
  <2>3. IsFiniteSet(Cached \cup {key})
    BY FS_AddElement DEF IInv, CacheInv
  <2> QED BY <2>1, <2>2, <2>3, <1>2, <1>4 DEF IInv, CacheInv
<1>10. TypeOK'
  <2>1. DOMAIN valid_cnt' = Segs /\ valid_cnt' = [t \in Segs |-> valid_cnt'[t]]
    BY <1>2 DEF IInv, TypeOK
  <2>2. valid_cnt' \in [Segs -> 0 .. SegmentSize]
    BY <2>1, <1>7
  <2>3. phase' \in 0 .. (SegmentSize \div 2) - 1
    <3>1. SegmentSize \div 2 \in Nat /\ SegmentSize \div 2 >= 1
      BY SizesAssumption
    <3>2. phase + 1 \in Nat
      BY <3>1 DEF IInv, TypeOK
    <3>3. phase' = (phase + 1) % (SegmentSize \div 2)
      BY DEF Place
    <3> QED BY <3>1, <3>2, <3>3
  <2>4. global_valid_blocks' \in Nat /\ cold' \subseteq Keys
    BY <1>2 DEF IInv, TypeOK
  <2>5. pc' \in {"idle", "proactive"}
    BY DEF Place
  <2> QED BY <1>1, <1>4, <1>5, <2>2, <2>3, <2>4, <2>5 DEF IInv, TypeOK
<1>11. PolicyInv'
  BY <1>5 DEF IInv, PolicyInv
<1>12. StageInv'
  <2>1. \A t \in Segs \ {s} : write_ptr'[t] = write_ptr[t]
    BY <1>2, <1>3 DEF IInv, TypeOK
  <2> QED BY <1>3, <1>6, <2>1, ActiveAreSegments DEF IInv, StageInv, Full
<1>13. CallInv'
  <2>1. pc' \in {"idle", "proactive"} /\ (pc' = "proactive" => Len(free_pool') <= FreeHigh)
    BY <1>1 DEF Place
  <2> QED BY <1>1, <2>1 DEF CallInv
<1>14. SegmentInOnePlace'
  BY <1>1, <1>5, <1>6 DEF IInv, SegmentInOnePlace
<1>15. CountInv => CountInv'
  <2> SUFFICES ASSUME CountInv, NEW t \in Segs
               PROVE  valid_cnt'[t] = Cardinality(ValidOffsets(t)')
    BY DEF CountInv
  <2>1. t \in Segs \ {victim}
    BY <1>1, ActiveAreSegments
  <2>2. valid_cnt[t] = Cardinality(ValidOffsets(t))
    BY <2>1 DEF CountInv
  <2> QED BY <2>2, <1>4, <1>7
<1>16. cold' = cold \ {key}
  BY <1>1, <1>2 DEF hit, IInv, CacheInv, Cached
<1>17. IInv'
  BY <1>4, <1>8, <1>9, <1>10, <1>11, <1>12, <1>13, <1>14 DEF IInv
<1> QED BY <1>1, <1>4, <1>15, <1>16, <1>17

(* The compaction destination is opened when there is none.                *)
LEMMA OpenTargetKeepsIInv ==
  ASSUME SoundPolicies, IInv, OpenTarget
  PROVE  IInv'
<1> DEFINE s == Head(free_pool)
<1>1. /\ s \in Pool /\ s \in Segs
      /\ Tail(free_pool) \in Seq(Segs)
      /\ Range(Tail(free_pool)) = Pool \ {s}
      /\ \A i, j \in DOMAIN Tail(free_pool) :
           Tail(free_pool)[i] = Tail(free_pool)[j] => i = j
  BY AllocTakesFront DEF OpenTarget
<1>2. blocks' = blocks /\ write_ptr' = write_ptr /\ valid_cnt' = valid_cnt
  BY AllocTakesFront DEF OpenTarget, AllocSegment
<1>3. /\ pc = "target" /\ pc' = "compact" /\ victim # None /\ ~StreamPolicy
      /\ free_pool' = Tail(free_pool)
      /\ gc_active_seg' = [g \in GCStreams |-> s]
      /\ \A g \in GCStreams : gc_active_seg[g] = None
      /\ UNCHANGED <<evictor, compactor, mapping, global_valid_blocks, cold,
                     active_seg, phase, key, stream, caller, victim>>
  BY DEF OpenTarget, AllocSegment, IInv, CallInv, policyVars, dataVars
<1>4. s # victim /\ s \notin HostActive \cup GCActive /\ s # None
  BY <1>1, FreeIsEmpty, ActiveAreSegments
<1> HIDE DEF s
<1>5. \E g : GCStreams = {g}
  BY <1>3, StreamsAssumption, FS_Singleton
<1>6. GCActive = {} /\ GCActive' = {s}
  BY <1>3, <1>4, <1>5 DEF GCActive
<1>7. /\ gc_active_seg' \in [GCStreams -> Segs \cup {None}]
      /\ \A g, j \in GCStreams : gc_active_seg'[g] = gc_active_seg'[j] => g = j
  BY <1>1, <1>3, <1>5
<1>8. Pool' = Pool \ {s} /\ HostActive' = HostActive
  BY <1>1, <1>3 DEF Pool, HostActive
<1>9. FillInv' /\ CacheInv' /\ MappingExact'
  BY <1>2, <1>3, NoBlockMoves
<1>10. TypeOK'
  BY <1>1, <1>2, <1>3, <1>7 DEF IInv, TypeOK
<1>11. PolicyInv'
  BY <1>3 DEF IInv, PolicyInv
<1>12. StageInv'
  BY <1>2, <1>6, <1>8 DEF IInv, StageInv, Full
<1>13. CallInv'
  BY <1>3 DEF IInv, CallInv
<1>14. SegmentInOnePlace'
  BY <1>1, <1>3, <1>4, <1>6, <1>7, <1>8 DEF IInv, SegmentInOnePlace
<1> QED BY <1>9, <1>10, <1>11, <1>12, <1>13, <1>14 DEF IInv

LEMMA ResetVictimKeepsIInv ==
  ASSUME SoundPolicies, IInv, ResetVictim
  PROVE  IInv'
<1> DEFINE v == victim
<1>1. /\ pc \in {"evict", "compact"} /\ v # None /\ v \in Segs
      /\ v \notin Pool /\ v \notin HostActive /\ v \notin GCActive
  BY DEF ResetVictim, IInv, CallInv, TypeOK, SegmentInOnePlace
<1>2. /\ ValidOffsets(v) = {}
      /\ valid_cnt' = [valid_cnt EXCEPT ![v] = 0]
      /\ write_ptr' = [write_ptr EXCEPT ![v] = 0]
      /\ free_pool' = Append(free_pool, v)
      /\ evictor' = Remove(evictor, v) /\ compactor' = Remove(compactor, v)
      /\ victim' = None
      /\ pc' = IF caller = "burst" /\ ~PoolLow(free_pool') THEN "idle" ELSE caller
      /\ UNCHANGED <<blocks, mapping, global_valid_blocks, cold, active_seg, gc_active_seg,
                     phase, key, stream, caller>>
  BY DEF ResetVictim, PolicyRemove, dataVars
<1> HIDE DEF v
<1>3. /\ free_pool' \in Seq(Segs)
      /\ \A i, j \in DOMAIN free_pool' : free_pool'[i] = free_pool'[j] => i = j
      /\ Pool' = Pool \cup {v}
  <2>1. /\ free_pool \in Seq(Segs)
        /\ \A i, j \in DOMAIN free_pool : free_pool[i] = free_pool[j] => i = j
    BY DEF IInv, TypeOK, SegmentInOnePlace
  <2> QED BY <1>1, <1>2, <2>1, PushBack DEF Pool
<1>4. HostActive' = HostActive /\ GCActive' = GCActive
  BY <1>2 DEF HostActive, GCActive
<1>5. /\ {evictor', compactor'} \subseteq PolicyType
      /\ evictor'.orphans = {} /\ compactor'.orphans = {}
      /\ evictor'.tracked = evictor.tracked \ {v}
      /\ compactor'.tracked = compactor.tracked \ {v}
      /\ evictor.tracked \subseteq Segs /\ compactor.tracked \subseteq Segs
  <2>1. /\ EvictorKind \in {"ordered", "greedy"}
        /\ evictor \in PolicyType /\ evictor.orphans = {}
        /\ compactor \in PolicyType /\ compactor.orphans = {}
    BY PoliciesSound
  <2>2. /\ evictor' \in PolicyType /\ evictor'.orphans = {}
        /\ evictor'.tracked = evictor.tracked \ {v}
    BY <1>1, <1>2, <2>1, PolicyOperations
  <2>3. /\ compactor' \in PolicyType /\ compactor'.orphans = {}
        /\ compactor'.tracked = compactor.tracked \ {v}
    BY <1>1, <1>2, <2>1, PolicyOperations
  <2>4. evictor.tracked \subseteq Segs /\ compactor.tracked \subseteq Segs
    BY <2>1 DEF PolicyType
  <2> QED BY <2>2, <2>3, <2>4
<1>6. PolicyInv'
  BY <1>5 DEF IInv, PolicyInv
<1>7. /\ write_ptr' \in [Segs -> 0 .. SegmentSize]
      /\ valid_cnt' \in [Segs -> 0 .. SegmentSize]
      /\ write_ptr'[v] = 0 /\ valid_cnt'[v] = 0
      /\ \A t \in Segs \ {v} : write_ptr'[t] = write_ptr[t] /\ valid_cnt'[t] = valid_cnt[t]
  BY <1>1, <1>2, SizesAssumption DEF IInv, TypeOK
<1>8. FillInv'
  <2>1. \A t \in Segs : ValidOffsets(t)' = ValidOffsets(t)
    BY <1>2 DEF ValidOffsets
  <2>2. Cardinality(ValidOffsets(v)) = 0
    BY <1>2, FS_EmptySet
  <2>3. ASSUME NEW t \in Segs
        PROVE  /\ \A i \in ValidOffsets(t) : i < write_ptr'[t]
               /\ Cardinality(ValidOffsets(t)) <= valid_cnt'[t]
               /\ valid_cnt'[t] <= write_ptr'[t]
    <3>1. CASE t = v
      BY <3>1, <1>2, <1>7, <2>2
    <3>2. CASE t # v
      BY <3>2, <1>7 DEF IInv, FillInv
    <3> QED BY <3>1, <3>2
  <2> QED BY <2>1, <2>3 DEF FillInv
<1>9. CacheInv' /\ MappingExact'
  BY <1>2 DEF IInv, CacheInv, MappingExact, Cached
<1>10. TypeOK'
  BY <1>2, <1>3, <1>5, <1>7 DEF IInv, TypeOK, PolicyType
<1>11. StageInv'
  BY <1>1, <1>3, <1>4, <1>7, ActiveAreSegments DEF IInv, StageInv, Full
<1>12. CallInv'
  <2>1. caller \in {"alloc", "burst"}
    BY DEF IInv, TypeOK
  <2>2. caller = "alloc" => key \in Keys /\ active_seg[stream] = None
    BY <1>1 DEF IInv, CallInv, v
  <2> QED BY <1>2, <2>1, <2>2 DEF CallInv
<1>13. SegmentInOnePlace'
  <2>1. None \notin Segs
    BY ActiveAreSegments
  <2>2. /\ evictor'.tracked = Sealed
        /\ CompactorKind # "none" => compactor'.tracked = Sealed
    BY <1>5 DEF IInv, SegmentInOnePlace, Sealed, v
  <2>3. Sealed = Segs \ (Pool' \cup HostActive' \cup GCActive' \cup {None})
    BY <2>1, <1>3, <1>4 DEF Sealed, v
  <2>4. None \notin HostActive \cup GCActive \cup Pool /\ None \notin Sealed
    BY <2>1, ActiveAreSegments DEF Sealed
  <2> QED BY <1>1, <1>2, <1>3, <1>4, <2>1, <2>2, <2>3, <2>4 DEF IInv, SegmentInOnePlace
<1> QED BY <1>6, <1>8, <1>9, <1>10, <1>11, <1>12, <1>13 DEF IInv

(* What leaves the cache when the block at an offset is evicted: it and    *)
(* the cached blocks of its group.                                         *)
Leaving(s, i) == Group[blocks[s][i]] \cap Cached

(* The same state, written in terms of the blocks that leave.              *)
LEMMA EvictInWords ==
  ASSUME IInv, NEW s \in Segs, NEW i \in Offsets, blocks[s][i] # None, Evict(s, i)
  PROVE  /\ blocks[s][i] \in Keys /\ mapping[blocks[s][i]] = <<s, i>>
         /\ blocks[s][i] \in Leaving(s, i) /\ Leaving(s, i) \subseteq Cached
         /\ blocks' = [t \in Segs |-> [j \in Offsets |->
              IF \E o \in Leaving(s, i) : mapping[o] = <<t, j>> THEN None ELSE blocks[t][j]]]
         /\ mapping' = [j \in Keys |-> IF j \in Leaving(s, i) THEN None ELSE mapping[j]]
         /\ cold' = cold \cup Group[blocks[s][i]]
         /\ global_valid_blocks' =
              global_valid_blocks - 1 - Cardinality(Leaving(s, i) \ {blocks[s][i]})
<1> DEFINE k == blocks[s][i]
           others == (Group[k] \ {k}) \cap Cached
           dropped == {<<s, i>>} \cup {mapping[o] : o \in others}
<1>1. k \in Keys /\ mapping[k] = <<s, i>>
  BY DEF IInv, TypeOK, MappingExact
<1>2. k \in Cached
  BY SMTT(20), <1>1, ActiveAreSegments DEF Cached, Locations
<1>3. k \in Group[k] /\ Group[k] \subseteq Keys
  BY <1>1, StreamsAssumption
<1>4. others = Leaving(s, i) \ {k} /\ k \in Leaving(s, i)
  BY <1>2, <1>3 DEF Leaving
<1>5. /\ blocks' = [t \in Segs |-> [j \in Offsets |->
                      IF <<t, j>> \in dropped THEN None ELSE blocks[t][j]]]
      /\ mapping' = [j \in Keys |-> IF j = k \/ j \in others THEN None ELSE mapping[j]]
      /\ global_valid_blocks' = global_valid_blocks - 1 - Cardinality(others)
      /\ cold' = cold \cup Group[k]
  BY DEF Evict
<1> HIDE DEF k, others
<1>6. \A t, j : <<t, j>> \in dropped <=> \E o \in Leaving(s, i) : mapping[o] = <<t, j>>
  BY <1>1, <1>4
<1> HIDE DEF dropped
<1>7. blocks' = [t \in Segs |-> [j \in Offsets |->
        IF \E o \in Leaving(s, i) : mapping[o] = <<t, j>> THEN None ELSE blocks[t][j]]]
  BY <1>5, <1>6
<1>8. mapping' = [j \in Keys |-> IF j \in Leaving(s, i) THEN None ELSE mapping[j]]
  BY <1>4, <1>5
<1>9. Leaving(s, i) \subseteq Cached
  BY DEF Leaving
<1> QED BY <1>1, <1>4, <1>5, <1>7, <1>8, <1>9 DEF k

(* Evicting a group keeps the invariant and leaves no more valid blocks in *)
(* any segment; with groups of one block it keeps the counts exact.  To    *)
(* the store it is a write-back.                                           *)
LEMMA EvictBlockKeepsIInv ==
  ASSUME SoundPolicies, IInv, EvictBlock
  PROVE  /\ IInv'
         /\ SingleBlocks /\ CountInv => CountInv'
         /\ \A t \in Segs : Cardinality(ValidOffsets(t)') <= Cardinality(ValidOffsets(t))
         /\ \E k \in Cached : Cached' = Cached \ Group[k] /\ cold' = cold \cup Group[k]
<1> DEFINE i == FirstValid(victim)
           k == blocks[victim][i]
           L == Leaving(victim, i)
<1>1. /\ victim \in Segs
      /\ UNCHANGED <<write_ptr, valid_cnt, free_pool, active_seg, gc_active_seg, evictor,
                     compactor, phase, pc, key, stream, caller, victim>>
  BY DEF EvictBlock, IInv, CallInv, TypeOK, tableVars, policyVars, callVars
<1>2. i \in Offsets /\ k # None /\ Evict(victim, i)
  BY <1>1, FirstValidExists DEF EvictBlock
<1> HIDE DEF i
<1>3. /\ k \in Keys /\ mapping[k] = <<victim, i>>
      /\ k \in L /\ L \subseteq Cached
      /\ blocks' = [t \in Segs |-> [j \in Offsets |->
           IF \E o \in L : mapping[o] = <<t, j>> THEN None ELSE blocks[t][j]]]
      /\ mapping' = [j \in Keys |-> IF j \in L THEN None ELSE mapping[j]]
      /\ cold' = cold \cup Group[k]
      /\ global_valid_blocks' = global_valid_blocks - 1 - Cardinality(L \ {k})
  BY <1>1, <1>2, EvictInWords
<1>4. Group[k] \subseteq Keys /\ L = Group[k] \cap Cached
  BY <1>3, StreamsAssumption DEF Leaving
<1> HIDE DEF k, L
<1>5. /\ blocks \in [Segs -> [Offsets -> Keys \cup {None}]]
      /\ mapping \in [Keys -> Locations \cup {None}]
      /\ None \notin Keys /\ None \notin Locations
  BY ActiveAreSegments DEF IInv, TypeOK
<1>6. /\ blocks' \in [Segs -> [Offsets -> Keys \cup {None}]]
      /\ mapping' \in [Keys -> Locations \cup {None}]
  BY <1>3, <1>5
<1>7. Cached' = Cached \ L
  BY <1>3 DEF Cached
<1>8. MappingExact'
  <2> SUFFICES ASSUME NEW t \in Segs, NEW j \in Offsets
               PROVE  /\ blocks'[t][j] # None => mapping'[blocks'[t][j]] = <<t, j>>
                      /\ \A m \in Keys : mapping'[m] = <<t, j>> => blocks'[t][j] = m
    BY DEF MappingExact
  <2>1. /\ blocks[t][j] # None => blocks[t][j] \in Keys /\ mapping[blocks[t][j]] = <<t, j>>
        /\ \A m \in Keys : mapping[m] = <<t, j>> => blocks[t][j] = m
    BY <1>5 DEF IInv, MappingExact
  <2>2. blocks'[t][j] = IF \E o \in L : mapping[o] = <<t, j>> THEN None ELSE blocks[t][j]
    BY <1>3
  <2>3. \A m \in Keys : mapping'[m] = IF m \in L THEN None ELSE mapping[m]
    BY <1>3
  <2>4. <<t, j>> # None
    BY <1>5 DEF Locations
  <2>5. L \subseteq Keys
    BY <1>3 DEF Cached
  <2>6. ASSUME blocks'[t][j] # None PROVE mapping'[blocks'[t][j]] = <<t, j>>
    <3>1. blocks'[t][j] = blocks[t][j] /\ \A o \in L : mapping[o] # <<t, j>>
      BY <2>2, <2>6
    <3> QED BY <3>1, <2>1, <2>3, <2>6
  <2>7. ASSUME NEW m \in Keys, mapping'[m] = <<t, j>> PROVE blocks'[t][j] = m
    <3>1. m \notin L /\ mapping[m] = <<t, j>>
      BY <2>3, <2>4, <2>7
    <3>2. \A o \in L : mapping[o] # <<t, j>>
      BY <3>1, <2>1, <2>5
    <3> QED BY <3>1, <3>2, <2>1, <2>2
  <2> QED BY <2>6, <2>7
<1>9. FillInv' /\ \A t \in Segs : Cardinality(ValidOffsets(t)') <= Cardinality(ValidOffsets(t))
  <2>1. \A t \in Segs : ValidOffsets(t)' \subseteq ValidOffsets(t)
    BY <1>3 DEF ValidOffsets
  <2>2. ASSUME NEW t \in Segs
        PROVE  /\ \A j \in ValidOffsets(t)' : j < write_ptr'[t]
               /\ Cardinality(ValidOffsets(t)') <= valid_cnt'[t]
               /\ valid_cnt'[t] <= write_ptr'[t]
               /\ Cardinality(ValidOffsets(t)') <= Cardinality(ValidOffsets(t))
    <3>1. /\ \A j \in ValidOffsets(t) : j < write_ptr[t]
          /\ Cardinality(ValidOffsets(t)) <= valid_cnt[t]
          /\ valid_cnt[t] <= write_ptr[t]
      BY DEF IInv, FillInv
    <3>2. ValidOffsets(t) \in SUBSET Offsets /\ ValidOffsets(t)' \in SUBSET Offsets
      BY <2>1 DEF ValidOffsets
    <3>3. IsFiniteSet(ValidOffsets(t))
      BY <3>2, OffsetSetCount
    <3>4. Cardinality(ValidOffsets(t)') <= Cardinality(ValidOffsets(t))
      BY <2>1, <3>3, FS_Subset
    <3>5. /\ Cardinality(ValidOffsets(t)') \in Int /\ Cardinality(ValidOffsets(t)) \in Int
          /\ valid_cnt[t] \in Int
      BY <3>2, OffsetSetCount, SizesAssumption DEF IInv, TypeOK
    <3> QED BY <1>1, <2>1, <3>1, <3>4, <3>5
  <2> QED BY <2>2 DEF FillInv
<1>10. CacheInv' /\ global_valid_blocks' \in Nat
  <2>1. IsFiniteSet(Cached) /\ global_valid_blocks = Cardinality(Cached)
    BY DEF IInv, CacheInv
  <2>2. IsFiniteSet(L) /\ IsFiniteSet(L \ {k}) /\ Cardinality(L \ {k}) = Cardinality(L) - 1
    BY <1>3, <2>1, FS_Subset, FS_RemoveElement
  <2>3. IsFiniteSet(Cached \ L) /\ Cardinality(Cached \ L) = Cardinality(Cached) - Cardinality(L)
    <3>1. Cached \cap L = L
      BY <1>3
    <3> QED BY <2>1, <3>1, FS_Difference
  <2>4. Cardinality(Cached) \in Nat /\ Cardinality(L) \in Nat /\ Cardinality(Cached \ L) \in Nat
    BY <2>1, <2>2, <2>3, FS_CardinalityType
  <2>5. global_valid_blocks' = Cardinality(Cached')
    BY <1>3, <1>7, <2>1, <2>2, <2>3, <2>4
  <2>6. Cached' \cap cold' = {}
    BY <1>3, <1>4, <1>7 DEF IInv, CacheInv
  <2> QED BY <1>7, <2>3, <2>4, <2>5, <2>6 DEF CacheInv
<1>11. Pool' = Pool /\ HostActive' = HostActive /\ GCActive' = GCActive
  BY <1>1 DEF Pool, HostActive, GCActive
<1>12. TypeOK'
  <2>1. cold' \subseteq Keys
    BY <1>3, <1>4 DEF IInv, TypeOK
  <2> QED BY <1>1, <1>6, <1>10, <2>1 DEF IInv, TypeOK
<1>13. PolicyInv' /\ StageInv' /\ CallInv'
  BY <1>1, <1>11 DEF IInv, PolicyInv, StageInv, CallInv, Full
<1>14. SegmentInOnePlace'
  BY <1>1, <1>11 DEF IInv, SegmentInOnePlace
<1>15. SingleBlocks /\ CountInv => CountInv'
  <2> SUFFICES ASSUME SingleBlocks, CountInv, NEW t \in Segs \ {victim}
               PROVE  valid_cnt'[t] = Cardinality(ValidOffsets(t)')
    BY <1>1 DEF CountInv
  <2>1. \A o \in L : o = k
    BY <1>3, <1>4 DEF SingleBlocks
  <2>2. \A j \in Offsets : blocks'[t][j] = blocks[t][j]
    BY <1>3, <2>1
  <2>3. ValidOffsets(t)' = ValidOffsets(t)
    BY <2>2 DEF ValidOffsets
  <2> QED BY <1>1, <2>3 DEF CountInv
<1>16. k \in Cached /\ Cached' = Cached \ Group[k]
  BY <1>3, <1>4, <1>7
<1>17. IInv'
  BY <1>8, <1>9, <1>10, <1>12, <1>13, <1>14 DEF IInv
<1> QED BY <1>3, <1>9, <1>15, <1>16, <1>17

(* The copy of a block, written as what an append does.                    *)
LEMMA MoveInWords ==
  ASSUME IInv, NEW g \in GCStreams, MoveBlock(g)
  PROVE  LET i == FirstValid(victim)
             k == blocks[victim][i]
             t == Destination(g)
         IN /\ victim \in Segs /\ i \in Offsets /\ k \in Keys /\ mapping[k] = <<victim, i>>
            /\ t \in Segs /\ t # victim /\ ~Full(t) /\ t \notin HostActive
            /\ NeedsFresh(g) => t = Head(free_pool) /\ free_pool # <<>> /\ t \notin GCActive
            /\ ~NeedsFresh(g) => t = gc_active_seg[g]
            /\ blocks' = [WithoutOld(k) EXCEPT ![t][write_ptr[t]] = k]
            /\ write_ptr' = [write_ptr EXCEPT ![t] = write_ptr[t] + 1]
            /\ valid_cnt' = [valid_cnt EXCEPT ![t] = valid_cnt[t] + 1]
            /\ mapping' = [mapping EXCEPT ![k] = <<t, write_ptr[t]>>]
<1> DEFINE i == FirstValid(victim)
           k == blocks[victim][i]
           t == Destination(g)
<1>1. victim \in Segs /\ t # victim
  BY DEF MoveBlock, IInv, CallInv, TypeOK
<1>2. i \in Offsets /\ k # None
  BY <1>1, FirstValidExists DEF MoveBlock
<1>3. k \in Keys /\ mapping[k] = <<victim, i>>
  BY <1>1, <1>2 DEF IInv, TypeOK, MappingExact
<1>4. /\ mapping[k][1] = victim /\ mapping[k][2] = i /\ mapping[k] # None
  BY <1>1, <1>2, <1>3, ActiveAreSegments DEF Locations
<1>5. WithoutOld(k) = [blocks EXCEPT ![victim][i] = None]
  BY <1>4 DEF WithoutOld
<1>6. CASE NeedsFresh(g)
  <2>1. t = Head(free_pool) /\ free_pool # <<>>
    BY <1>6 DEF MoveBlock, Destination
  <2>2. /\ t \in Pool /\ t \in Segs
        /\ [blocks EXCEPT ![t] = ResetBlocks] = blocks
    BY <2>1, AllocTakesFront
  <2>3. write_ptr[t] = 0 /\ valid_cnt[t] = 0 /\ t \notin HostActive \cup GCActive
    BY <2>2, FreeIsEmpty
  <2>4. ~Full(t)
    BY <2>3, SizesAssumption DEF Full
  <2>5. /\ blocks' = [blocks EXCEPT ![victim][i] = None, ![t][0] = k]
        /\ write_ptr' = [write_ptr EXCEPT ![t] = 0 + 1]
        /\ valid_cnt' = [valid_cnt EXCEPT ![t] = 1]
        /\ mapping' = [mapping EXCEPT ![k] = <<t, 0>>]
    BY <1>6, <2>2 DEF MoveBlock
  <2> HIDE DEF i, k, t
  <2>6. valid_cnt[t] + 1 = 1
    BY <2>3
  <2> QED BY <1>1, <1>2, <1>3, <1>5, <1>6, <2>1, <2>2, <2>3, <2>4, <2>5, <2>6 DEF i, k, t
<1>7. CASE ~NeedsFresh(g)
  <2>1. t = gc_active_seg[g] /\ t # None /\ ~Full(t)
    BY <1>7 DEF Destination, NeedsFresh
  <2>2. t \in GCActive /\ t \in Segs /\ t \notin HostActive
    BY <2>1, ActiveAreSegments DEF GCActive, IInv, SegmentInOnePlace
  <2>3. /\ blocks' = [blocks EXCEPT ![victim][i] = None, ![t][write_ptr[t]] = k]
        /\ write_ptr' = [write_ptr EXCEPT ![t] = write_ptr[t] + 1]
        /\ valid_cnt' = [valid_cnt EXCEPT ![t] = valid_cnt[t] + 1]
        /\ mapping' = [mapping EXCEPT ![k] = <<t, write_ptr[t]>>]
    BY <1>7 DEF MoveBlock
  <2> HIDE DEF i, k, t
  <2> QED BY <1>1, <1>2, <1>3, <1>5, <1>7, <2>1, <2>2, <2>3 DEF i, k, t
<1> QED BY <1>6, <1>7

(* The tables after the copy of a block: when a fresh destination is       *)
(* needed, the full one is sealed and the front of the pool takes its      *)
(* place.                                                                  *)
LEMMA MoveTables ==
  ASSUME SoundPolicies, IInv, NEW g \in GCStreams, MoveBlock(g)
  PROVE  LET t == Destination(g)
             sealing == {gc_active_seg[g]} \ {None, t}
         IN /\ free_pool' \in Seq(Segs)
            /\ \A i, j \in DOMAIN free_pool' : free_pool'[i] = free_pool'[j] => i = j
            /\ Pool' = Pool \ {t}
            /\ gc_active_seg' \in [GCStreams -> Segs \cup {None}]
            /\ \A h, j \in GCStreams :
                 gc_active_seg'[h] = gc_active_seg'[j] /\ gc_active_seg'[h] # None => h = j
            /\ GCActive' = (GCActive \ sealing) \cup {t}
            /\ sealing \subseteq GCActive
            /\ \A s \in sealing : Full(s)
            /\ {evictor', compactor'} \subseteq PolicyType
            /\ PolicyInv'
            /\ evictor'.tracked = evictor.tracked \cup sealing
            /\ CompactorKind # "none" => compactor'.tracked = compactor.tracked \cup sealing
<1> DEFINE t == Destination(g)
           cur == gc_active_seg[g]
           sealing == {cur} \ {None, t}
<1>1. /\ t \in Segs /\ t # victim /\ t \notin HostActive
      /\ NeedsFresh(g) => t = Head(free_pool) /\ free_pool # <<>> /\ t \notin GCActive
      /\ ~NeedsFresh(g) => t = cur
  BY MoveInWords
<1>2. /\ IF NeedsFresh(g) /\ cur # None
         THEN PolicyAdd(cur) ELSE evictor' = evictor /\ compactor' = compactor
      /\ free_pool' = IF NeedsFresh(g) THEN Tail(free_pool) ELSE free_pool
      /\ gc_active_seg' = [gc_active_seg EXCEPT ![g] = t]
  BY DEF MoveBlock, policyVars
<1> HIDE DEF t
<1>3. /\ free_pool \in Seq(Segs)
      /\ \A i, j \in DOMAIN free_pool : free_pool[i] = free_pool[j] => i = j
      /\ gc_active_seg \in [GCStreams -> Segs \cup {None}]
      /\ \A h, j \in GCStreams :
           gc_active_seg[h] = gc_active_seg[j] /\ gc_active_seg[h] # None => h = j
      /\ Pool \cap GCActive = {} /\ {victim} \cap GCActive = {}
  BY DEF IInv, TypeOK, SegmentInOnePlace
<1>4. None \notin Segs /\ GCActive \subseteq Segs /\ None \notin GCActive
  BY ActiveAreSegments
<1>5. cur # None => cur \in GCActive
  BY DEF GCActive
<1>6. /\ evictor \in PolicyType /\ compactor \in PolicyType /\ PolicyInv
  BY PoliciesSound DEF IInv
<1> HIDE DEF cur
<1>7. CASE NeedsFresh(g)
  <2>1. /\ t = Head(free_pool) /\ t \in Pool
        /\ free_pool' = Tail(free_pool)
        /\ Tail(free_pool) \in Seq(Segs)
        /\ Range(Tail(free_pool)) = Pool \ {t}
        /\ \A i, j \in DOMAIN Tail(free_pool) :
             Tail(free_pool)[i] = Tail(free_pool)[j] => i = j
    BY <1>1, <1>2, <1>7, AllocTakesFront
  <2>2. Pool' = Pool \ {t}
    BY <2>1 DEF Pool
  <2>3. t # cur /\ sealing = {cur} \ {None}
    BY <1>1, <1>4, <1>5, <1>7
  <2>4. /\ gc_active_seg' \in [GCStreams -> Segs \cup {None}]
        /\ \A h, j \in GCStreams :
             gc_active_seg'[h] = gc_active_seg'[j] /\ gc_active_seg'[h] # None => h = j
        /\ GCActive' = (GCActive \ {cur}) \cup ({t} \ {None})
    BY <1>1, <1>2, <1>7, SetGCActive DEF cur
  <2>5. GCActive' = (GCActive \ sealing) \cup {t}
    BY <1>1, <1>4, <2>3, <2>4
  <2>6. cur # None => Full(cur)
    BY <1>7 DEF NeedsFresh, cur
  <2>7. CASE cur = None
    <3>1. sealing = {} /\ evictor' = evictor /\ compactor' = compactor
      BY <1>2, <2>3, <2>7
    <3>2. PolicyInv'
      BY <1>6, <3>1 DEF PolicyInv
    <3>3. \A s \in sealing : Full(s)
      BY <3>1
    <3>4. sealing \subseteq GCActive
      BY <3>1
    <3>5. evictor'.tracked = evictor.tracked \cup sealing
      BY <3>1
    <3>6. compactor'.tracked = compactor.tracked \cup sealing
      BY <3>1
    <3> HIDE DEF sealing
    <3>7. {evictor', compactor'} \subseteq PolicyType
      BY <1>6, <3>1
    <3> QED BY <2>1, <2>2, <2>4, <2>5, <3>2, <3>3, <3>4, <3>5, <3>6, <3>7 DEF cur, t, sealing
  <2>8. CASE cur # None
    <3>1. cur \in Segs \ {victim} /\ cur \in HostActive \cup GCActive /\ PolicyAdd(cur)
      BY <1>2, <1>3, <1>4, <1>5, <1>7, <2>8
    <3>2. /\ {evictor', compactor'} \subseteq PolicyType /\ PolicyInv'
          /\ evictor'.tracked = evictor.tracked \cup {cur}
          /\ CompactorKind # "none" => compactor'.tracked = compactor.tracked \cup {cur}
      BY <3>1, SealTracks
    <3>3. sealing = {cur}
      BY <2>3, <2>8
    <3> QED BY <1>5, <2>1, <2>2, <2>4, <2>5, <2>6, <2>8, <3>2, <3>3 DEF cur, t
  <2> QED BY <2>7, <2>8 DEF cur, t
<1>8. CASE ~NeedsFresh(g)
  <2>1. t = cur /\ sealing = {} /\ t \in GCActive
    BY <1>1, <1>4, <1>5, <1>8
  <2>2. gc_active_seg' = gc_active_seg /\ free_pool' = free_pool
    BY <1>2, <1>3, <1>8, <2>1 DEF cur
  <2>3. Pool' = Pool /\ GCActive' = GCActive
    BY <2>2 DEF Pool, GCActive
  <2>4. Pool' = Pool \ {t}
    BY <1>3, <2>1, <2>3
  <2>5. evictor' = evictor /\ compactor' = compactor
    BY <1>2, <1>8
  <2>6. PolicyInv'
    BY <1>6, <2>5 DEF PolicyInv
  <2> QED BY <1>3, <1>6, <2>1, <2>2, <2>3, <2>4, <2>5, <2>6 DEF cur, t
<1> QED BY <1>7, <1>8

(* Copying a block keeps the invariant and the counts exact; one valid     *)
(* block less is left in the victim, and the store sees nothing.           *)
LEMMA MoveBlockKeepsIInv ==
  ASSUME SoundPolicies, IInv, NEW g \in GCStreams, MoveBlock(g)
  PROVE  /\ IInv'
         /\ CountInv => CountInv'
         /\ Cardinality(ValidOffsets(victim)') = Cardinality(ValidOffsets(victim)) - 1
         /\ Cached' = Cached /\ cold' = cold
<1> DEFINE i == FirstValid(victim)
           k == blocks[victim][i]
           t == Destination(g)
           sealing == {gc_active_seg[g]} \ {None, t}
<1>1. /\ pc = "compact"
      /\ UNCHANGED <<global_valid_blocks, cold, active_seg, phase, pc, key, stream, caller,
                     victim>>
  BY DEF MoveBlock, callVars
<1>2. /\ victim \in Segs /\ i \in Offsets /\ k \in Keys /\ mapping[k] = <<victim, i>>
      /\ t \in Segs /\ t # victim /\ ~Full(t) /\ t \notin HostActive
      /\ blocks' = [WithoutOld(k) EXCEPT ![t][write_ptr[t]] = k]
      /\ write_ptr' = [write_ptr EXCEPT ![t] = write_ptr[t] + 1]
      /\ valid_cnt' = [valid_cnt EXCEPT ![t] = valid_cnt[t] + 1]
      /\ mapping' = [mapping EXCEPT ![k] = <<t, write_ptr[t]>>]
  BY MoveInWords
<1>3. /\ free_pool' \in Seq(Segs)
      /\ \A a, b \in DOMAIN free_pool' : free_pool'[a] = free_pool'[b] => a = b
      /\ Pool' = Pool \ {t}
      /\ gc_active_seg' \in [GCStreams -> Segs \cup {None}]
      /\ \A h, j \in GCStreams :
           gc_active_seg'[h] = gc_active_seg'[j] /\ gc_active_seg'[h] # None => h = j
      /\ GCActive' = (GCActive \ sealing) \cup {t}
      /\ sealing \subseteq GCActive
      /\ \A s \in sealing : Full(s)
      /\ {evictor', compactor'} \subseteq PolicyType
      /\ PolicyInv'
      /\ evictor'.tracked = evictor.tracked \cup sealing
      /\ CompactorKind # "none" => compactor'.tracked = compactor.tracked \cup sealing
  BY MoveTables
<1>4. mapping[k] # None /\ mapping[k][1] = victim
  BY <1>2, ActiveAreSegments DEF Locations
<1>5. t \notin sealing
  OBVIOUS
<1> HIDE DEF i, k, t, sealing
<1>6. /\ blocks' \in [Segs -> [Offsets -> Keys \cup {None}]]
      /\ write_ptr' \in [Segs -> 0 .. SegmentSize]
      /\ mapping' \in [Keys -> Locations \cup {None}]
      /\ MappingExact'
      /\ Cached' = Cached \cup {k}
      /\ \A u \in Segs :
           /\ \A j \in ValidOffsets(u)' : j < write_ptr'[u]
           /\ Cardinality(ValidOffsets(u)') =
                Cardinality(ValidOffsets(u))
                + (IF u = t THEN 1 ELSE 0)
                - (IF mapping[k] # None /\ u = mapping[k][1] THEN 1 ELSE 0)
  BY <1>2, AppendBlock
<1>7. ASSUME NEW u \in Segs
      PROVE  /\ Cardinality(ValidOffsets(u)') <= valid_cnt'[u]
             /\ valid_cnt'[u] <= write_ptr'[u]
             /\ valid_cnt'[u] \in 0 .. SegmentSize
             /\ valid_cnt'[u] = valid_cnt[u] + (IF u = t THEN 1 ELSE 0)
             /\ u # t => write_ptr'[u] = write_ptr[u]
  <2>1. /\ valid_cnt[u] \in Nat /\ write_ptr[u] \in Nat /\ SegmentSize \in Nat
        /\ Cardinality(ValidOffsets(u)) \in Nat
        /\ Cardinality(ValidOffsets(u)) <= valid_cnt[u]
        /\ valid_cnt[u] <= write_ptr[u]
    BY ValidOffsetsCount, SizesAssumption DEF IInv, TypeOK, FillInv
  <2>2. valid_cnt'[u] = valid_cnt[u] + (IF u = t THEN 1 ELSE 0)
    BY SMTT(20), <1>2, <2>1 DEF IInv, TypeOK
  <2>3. write_ptr'[u] = write_ptr[u] + (IF u = t THEN 1 ELSE 0)
    BY SMTT(20), <1>2, <2>1 DEF IInv, TypeOK
  <2>4. write_ptr'[u] <= SegmentSize
    BY <1>6, <2>1
  <2>5. Cardinality(ValidOffsets(u)') <= Cardinality(ValidOffsets(u)) + (IF u = t THEN 1 ELSE 0)
    BY <1>6, <2>1
  <2>6. Cardinality(ValidOffsets(u)') \in Int
    BY <1>6, <2>1
  <2> QED BY <2>1, <2>2, <2>3, <2>4, <2>5, <2>6
<1>8. FillInv'
  BY <1>6, <1>7 DEF FillInv
<1>9. CacheInv' /\ Cached' = Cached
  <2>1. Cached' = Cached
    BY <1>2, <1>4, <1>6 DEF Cached
  <2> QED BY <1>1, <2>1 DEF IInv, CacheInv
<1>10. TypeOK'
  <2>1. DOMAIN valid_cnt' = Segs /\ valid_cnt' = [u \in Segs |-> valid_cnt'[u]]
    BY <1>2 DEF IInv, TypeOK
  <2>2. valid_cnt' \in [Segs -> 0 .. SegmentSize]
    BY <2>1, <1>7
  <2> QED BY <1>1, <1>3, <1>6, <2>2 DEF IInv, TypeOK, PolicyType
<1>11. HostActive' = HostActive
  BY <1>1 DEF HostActive
<1>12. StageInv'
  <2>1. \A s \in Pool' : write_ptr'[s] = 0
    BY <1>3, <1>7, ActiveAreSegments DEF IInv, StageInv
  <2>2. ASSUME NEW s \in Segs \ (Pool' \cup HostActive' \cup GCActive')
        PROVE  write_ptr'[s] >= SegmentSize
    <3>1. s # t /\ (s \in sealing \/ s \notin Pool \cup HostActive \cup GCActive)
      BY <1>3, <1>11
    <3>2. Full(s)
      BY <1>3, <3>1 DEF IInv, StageInv
    <3> QED BY <1>7, <3>1, <3>2 DEF Full
  <2> QED BY <2>1, <2>2 DEF StageInv, Full
<1>13. CallInv'
  BY <1>1 DEF IInv, CallInv, Full
<1>14. SegmentInOnePlace'
  <2>1. /\ Pool \cap (HostActive \cup GCActive) = {} /\ HostActive \cap GCActive = {}
        /\ {victim} \cap (Pool \cup HostActive \cup GCActive) = {}
        /\ evictor.tracked \ {victim} = Sealed
        /\ CompactorKind # "none" => compactor.tracked \ {victim} = Sealed
        /\ \A h, j \in HostStreams : active_seg[h] = active_seg[j] /\ active_seg[h] # None => h = j
    BY DEF IInv, SegmentInOnePlace, Sealed
  <2>2. t \in Pool \/ t \in GCActive
    BY MoveInWords, AllocTakesFront, <1>2 DEF t, NeedsFresh, GCActive
  <2>3. Segs \ (Pool' \cup HostActive' \cup GCActive' \cup {victim}) = Sealed \cup sealing
    BY <1>3, <1>5, <1>11, <2>1, <2>2, ActiveAreSegments DEF Sealed
  <2>4. /\ evictor'.tracked \ {victim} = Sealed \cup sealing
        /\ CompactorKind # "none" => compactor'.tracked \ {victim} = Sealed \cup sealing
    BY <1>3, <2>1
  <2>5. /\ Pool' \cap (HostActive' \cup GCActive') = {} /\ HostActive' \cap GCActive' = {}
        /\ {victim} \cap (Pool' \cup HostActive' \cup GCActive') = {}
    BY <1>2, <1>3, <1>11, <2>1
  <2> QED BY <1>1, <1>3, <2>1, <2>3, <2>4, <2>5 DEF SegmentInOnePlace
<1>15. CountInv => CountInv'
  <2> SUFFICES ASSUME CountInv, NEW u \in Segs \ {victim}
               PROVE  valid_cnt'[u] = Cardinality(ValidOffsets(u)')
    BY <1>1 DEF CountInv
  <2>1. valid_cnt[u] = Cardinality(ValidOffsets(u)) /\ valid_cnt[u] \in Int
    BY ValidOffsetsCount DEF CountInv
  <2>2. Cardinality(ValidOffsets(u)') =
          Cardinality(ValidOffsets(u)) + (IF u = t THEN 1 ELSE 0) - 0
    BY <1>4, <1>6
  <2> QED BY <2>1, <2>2, <1>7
<1>16. \A u \in Segs : u = victim =>
         Cardinality(ValidOffsets(u)') = Cardinality(ValidOffsets(u)) - 1
  <2> SUFFICES ASSUME NEW u \in Segs, u = victim
               PROVE  Cardinality(ValidOffsets(u)') = Cardinality(ValidOffsets(u)) - 1
    OBVIOUS
  <2>1. Cardinality(ValidOffsets(u)) \in Int
    BY ValidOffsetsCount
  <2>2. Cardinality(ValidOffsets(u)') = Cardinality(ValidOffsets(u)) + 0 - 1
    BY <1>2, <1>4, <1>6
  <2> QED BY <2>1, <2>2
<1>17. Cardinality(ValidOffsets(victim)') = Cardinality(ValidOffsets(victim)) - 1
  <2>1. ValidOffsets(victim)' = {j \in Offsets : blocks'[victim][j] # None}
    BY <1>1 DEF ValidOffsets
  <2>2. \A u : ValidOffsets(u)' = {j \in Offsets : blocks'[u][j] # None}
    BY DEF ValidOffsets
  <2> QED BY <1>2, <1>16, <2>1, <2>2
<1>18. IInv'
  BY <1>3, <1>6, <1>8, <1>9, <1>10, <1>12, <1>13, <1>14 DEF IInv
<1> QED BY <1>1, <1>9, <1>15, <1>17, <1>18

-----------------------------------------------------------------------------
(* The theorems.                                                           *)

LEMMA NextKeepsIInv ==
  ASSUME SoundPolicies, IInv, [Next]_vars
  PROVE  IInv'
<1>1. CASE Next
  BY <1>1, InsertKeepsIInv, AllocActiveKeepsIInv, PlaceKeepsIInv, ChooseToEvictKeepsIInv,
     ChooseToCompactKeepsIInv, ChooseTooFullKeepsIInv, EvictBlockKeepsIInv,
     OpenTargetKeepsIInv, ResetVictimKeepsIInv, MoveBlockKeepsIInv DEF Next, Internal
<1>2. CASE UNCHANGED vars
  <2>1. UNCHANGED <<blocks, write_ptr, valid_cnt, mapping, free_pool, active_seg, gc_active_seg,
                    evictor, compactor, global_valid_blocks, phase, cold, pc, key, stream,
                    caller, victim>>
    BY <1>2 DEF vars, segVars, tableVars, policyVars, dataVars, callVars
  <2>2. Pool' = Pool /\ HostActive' = HostActive /\ GCActive' = GCActive
    BY <2>1 DEF Pool, HostActive, GCActive
  <2>3. FillInv' /\ CacheInv' /\ MappingExact'
    BY <2>1, NoBlockMoves
  <2>4. TypeOK'
    BY <2>1 DEF IInv, TypeOK
  <2>5. PolicyInv' /\ StageInv' /\ CallInv'
    BY <2>1, <2>2 DEF IInv, PolicyInv, StageInv, CallInv, Full
  <2>6. SegmentInOnePlace'
    BY <2>1, <2>2 DEF IInv, SegmentInOnePlace
  <2> QED BY <2>3, <2>4, <2>5, <2>6 DEF IInv
<1> QED BY <1>1, <1>2

(* The invariant holds in every reachable state.                           *)
THEOREM Invariance ==
  ASSUME SoundPolicies
  PROVE  Spec => []IInv
<1>1. Init => IInv
  BY InitHasIInv
<1>2. IInv /\ [Next]_vars => IInv'
  BY NextKeepsIInv
<1> QED BY <1>1, <1>2, PTL DEF Spec

(* The members have their types.                                           *)
THEOREM TypeCorrectness ==
  ASSUME SoundPolicies
  PROVE  Spec => []TypeOK
<1>1. IInv => TypeOK
  BY DEF IInv
<1> QED BY <1>1, Invariance, PTL

(* No dangling mapping entry and no second valid copy, in any run of       *)
(* writes, evictions and copies (invalidate, evict_one_block,              *)
(* evict_and_compaction).                                                  *)
THEOREM MappingStaysExact ==
  ASSUME SoundPolicies
  PROVE  Spec => []MappingExact
<1>1. IInv => MappingExact
  BY DEF IInv
<1> QED BY <1>1, Invariance, PTL

(* No segment is in two of the pool, the tables and the policies, and none *)
(* is lost between them.                                                   *)
THEOREM SegmentsInOnePlace ==
  ASSUME SoundPolicies
  PROVE  Spec => []SegmentInOnePlace
<1>1. IInv => SegmentInOnePlace
  BY DEF IInv
<1> QED BY <1>1, Invariance, PTL

-----------------------------------------------------------------------------
(* The asserts of the code.                                                *)

(* When garbage collection is due, some segment is sealed.                 *)
LEMMA SealedExists ==
  ASSUME SoundPolicies, EnoughSegments, IInv, GCNeeded
  PROVE  Sealed # {}
<1>1. victim = None /\ None \notin Segs
  BY TrackedAreSealed, ActiveAreSegments
<1>2. IsFiniteSet(Segs) /\ Cardinality(Segs) = NumSegments
  BY FS_Interval, SizesAssumption DEF Segs
<1>3. IsFiniteSet(Pool) /\ Cardinality(Pool) = Len(free_pool) /\ Len(free_pool) \in Nat
  <2>1. /\ free_pool \in Seq(Segs)
        /\ \A i, j \in DOMAIN free_pool : free_pool[i] = free_pool[j] => i = j
    BY DEF IInv, TypeOK, SegmentInOnePlace
  <2> QED BY <2>1, DistinctCount, LenProperties DEF Pool
<1>4. Len(free_pool) <= FreeHigh
  BY <1>3, SizesAssumption DEF GCNeeded, PoolLow, IInv, CallInv
<1>5. IsFiniteSet(HostActive) /\ Cardinality(HostActive) <= Cardinality(HostStreams)
  <2> DEFINE T == {active_seg[h] : h \in HostStreams}
  <2>1. DOMAIN active_seg = HostStreams
    BY DEF IInv, TypeOK
  <2>2. IsFiniteSet(T) /\ Cardinality(T) <= Cardinality(HostStreams)
    BY <2>1, StreamsAssumption, ImageCount
  <2>3. HostActive \in SUBSET T
    BY DEF HostActive
  <2> HIDE DEF T
  <2>4. IsFiniteSet(HostActive) /\ Cardinality(HostActive) <= Cardinality(T)
    BY <2>2, <2>3, FS_Subset
  <2>5. /\ Cardinality(HostActive) \in Int /\ Cardinality(T) \in Int
        /\ Cardinality(HostStreams) \in Int
    BY <2>2, <2>4, StreamsAssumption, FS_CardinalityType
  <2> QED BY <2>2, <2>4, <2>5
<1>6. IsFiniteSet(GCActive) /\ Cardinality(GCActive) <= Cardinality(GCStreams)
  <2> DEFINE T == {gc_active_seg[g] : g \in GCStreams}
  <2>1. DOMAIN gc_active_seg = GCStreams
    BY DEF IInv, TypeOK
  <2>2. IsFiniteSet(T) /\ Cardinality(T) <= Cardinality(GCStreams)
    BY <2>1, StreamsAssumption, ImageCount
  <2>3. GCActive \in SUBSET T
    BY DEF GCActive
  <2> HIDE DEF T
  <2>4. IsFiniteSet(GCActive) /\ Cardinality(GCActive) <= Cardinality(T)
    BY <2>2, <2>3, FS_Subset
  <2>5. /\ Cardinality(GCActive) \in Int /\ Cardinality(T) \in Int
        /\ Cardinality(GCStreams) \in Int
    BY <2>2, <2>4, StreamsAssumption, FS_CardinalityType
  <2> QED BY <2>2, <2>4, <2>5
<1>7. ASSUME Sealed = {} PROVE FALSE
  <2> DEFINE A == Pool \cup HostActive
             B == A \cup GCActive
  <2>1. Segs \in SUBSET B
    BY <1>1, <1>7 DEF Sealed
  <2>2. IsFiniteSet(A) /\ Cardinality(A) = Cardinality(Pool) + Cardinality(HostActive)
                                           - Cardinality(Pool \cap HostActive)
    BY <1>3, <1>5, FS_Union
  <2>3. IsFiniteSet(Pool \cap HostActive)
    BY <1>3, FS_Intersection
  <2> HIDE DEF A
  <2>4. IsFiniteSet(B) /\ Cardinality(B) = Cardinality(A) + Cardinality(GCActive)
                                           - Cardinality(A \cap GCActive)
    BY <2>2, <1>6, FS_Union
  <2>5. IsFiniteSet(A \cap GCActive)
    BY <2>2, FS_Intersection
  <2> HIDE DEF B
  <2>6. /\ Cardinality(Pool) \in Nat /\ Cardinality(HostActive) \in Nat
        /\ Cardinality(GCActive) \in Nat /\ Cardinality(A) \in Nat
        /\ Cardinality(Pool \cap HostActive) \in Nat
        /\ Cardinality(A \cap GCActive) \in Nat /\ Cardinality(B) \in Nat
        /\ Cardinality(HostStreams) \in Nat /\ Cardinality(GCStreams) \in Nat
    BY <1>3, <1>5, <1>6, <2>2, <2>3, <2>4, <2>5, StreamsAssumption, FS_CardinalityType
  <2>7. Cardinality(Segs) <= Cardinality(B)
    BY <2>1, <2>4, FS_Subset
  <2>8. FreeHigh \in Nat /\ NumSegments \in Nat
    BY SizesAssumption
  <2>9. Cardinality(A) <= FreeHigh + Cardinality(HostStreams)
    BY <1>3, <1>4, <1>5, <2>2, <2>6, <2>8
  <2>10. Cardinality(B) <= FreeHigh + Cardinality(HostStreams) + Cardinality(GCStreams)
    BY <1>6, <2>4, <2>6, <2>8, <2>9
  <2>11. NumSegments <= Cardinality(B)
    BY <1>2, <2>7
  <2> QED BY <2>6, <2>8, <2>10, <2>11 DEF EnoughSegments
<1> QED BY <1>7

(* The invariant implies the asserts.                                      *)
LEMMA AssertsHold ==
  ASSUME SoundPolicies, EnoughSegments, IInv
  PROVE  AssertionsHold
<1>1. VictimExists
  <2> SUFFICES ASSUME GCNeeded
               PROVE  /\ Candidates(EvictorKind, evictor, valid_cnt) # {}
                      /\ CompactorKind # "none" =>
                           Candidates(CompactorKind, compactor, valid_cnt) # {}
    BY DEF VictimExists, Compacting
  <2>1. /\ evictor.tracked # {} /\ valid_cnt \in [Segs -> Nat]
        /\ CompactorKind # "none" => compactor.tracked # {}
    BY SealedExists, TrackedAreSealed
  <2> QED BY <2>1, PoliciesSound, CandidatesTracked
<1>2. TargetIsNotVictim
  <2> SUFFICES ASSUME pc = "compact", NEW g \in GCStreams, ~(NeedsFresh(g) /\ free_pool = <<>>)
               PROVE  Destination(g) # victim
    BY DEF TargetIsNotVictim
  <2>1. CASE NeedsFresh(g)
    <3>1. Head(free_pool) \in Pool
      BY <2>1, AllocTakesFront
    <3> QED BY <2>1, <3>1 DEF Destination, IInv, SegmentInOnePlace
  <2>2. CASE ~NeedsFresh(g)
    <3>1. gc_active_seg[g] \in GCActive
      BY <2>2 DEF NeedsFresh, GCActive
    <3> QED BY <2>2, <3>1 DEF Destination, IInv, SegmentInOnePlace
  <2> QED BY <2>1, <2>2
<1>3. VictimIsFull
  <2> SUFFICES ASSUME GCNeeded, CompactorKind # "none",
                      NEW v \in Candidates(CompactorKind, compactor, valid_cnt)
               PROVE  Full(v)
    BY DEF VictimIsFull, Compacting
  <2>1. v \in Sealed
    BY TrackedAreSealed, PoliciesSound, CandidatesTracked
  <2> QED BY <2>1 DEF Sealed, IInv, StageInv
<1> QED BY <1>1, <1>2, <1>3 DEF AssertionsHold

(* None of the three asserts of garbage collection fails, when there are   *)
(* more segments than are kept free and open.                              *)
THEOREM CodeAssertionsHold ==
  ASSUME SoundPolicies, EnoughSegments
  PROVE  Spec => []AssertionsHold
<1>1. IInv => AssertionsHold
  BY AssertsHold
<1> QED BY <1>1, Invariance, PTL

-----------------------------------------------------------------------------
(* The counters.                                                           *)

(* A step that moves no block keeps the counts exact, if the victim stays  *)
(* the same or is just being chosen.                                       *)
LEMMA NoBlockMovesCounts ==
  ASSUME CountInv, UNCHANGED <<blocks, valid_cnt>>, victim' = victim \/ victim = None,
         None \notin Segs
  PROVE  CountInv'
<1>1. \A t \in Segs : ValidOffsets(t)' = ValidOffsets(t)
  BY DEF ValidOffsets
<1> QED BY <1>1 DEF CountInv

LEMMA NextKeepsCounts ==
  ASSUME SoundPolicies, SingleBlocks, IInv, CountInv, [Next]_vars
  PROVE  CountInv'
<1>1. None \notin Segs
  BY ActiveAreSegments
<1>2. CASE (\E k \in Keys, h \in HostStreams : Insert(k, h)) \/ UNCHANGED vars
  <2>1. UNCHANGED <<blocks, valid_cnt, victim>>
    BY <1>2 DEF Insert, vars, segVars, callVars
  <2> QED BY <1>1, <2>1, NoBlockMovesCounts
<1>3. CASE AllocActive \/ OpenTarget
  <2>1. free_pool # <<>>
    BY <1>3, SizesAssumption DEF AllocActive, OpenTarget, PoolLow
  <2>2. UNCHANGED <<blocks, valid_cnt, victim>>
    BY <1>3, <2>1, AllocTakesFront DEF AllocActive, OpenTarget, AllocSegment
  <2> QED BY <1>1, <2>2, NoBlockMovesCounts
<1>4. CASE ChooseToEvict \/ ChooseToCompact \/ ChooseTooFull
  <2>1. UNCHANGED <<blocks, valid_cnt>> /\ GCNeeded
    BY <1>4 DEF ChooseToEvict, ChooseToCompact, ChooseTooFull, segVars
  <2>2. victim = None
    BY <2>1, TrackedAreSealed
  <2> QED BY <1>1, <2>1, <2>2, NoBlockMovesCounts
<1>5. CASE ResetVictim
  <2>1. /\ UNCHANGED blocks /\ ValidOffsets(victim) = {}
        /\ valid_cnt' = [valid_cnt EXCEPT ![victim] = 0]
    BY <1>5 DEF ResetVictim
  <2>2. \A t \in Segs : ValidOffsets(t)' = ValidOffsets(t)
    BY <2>1 DEF ValidOffsets
  <2>3. Cardinality(ValidOffsets(victim)) = 0
    BY <2>1, FS_EmptySet
  <2> SUFFICES ASSUME NEW t \in Segs
               PROVE  valid_cnt'[t] = Cardinality(ValidOffsets(t))
    BY <2>2 DEF CountInv
  <2>4. CASE t = victim
    BY <2>1, <2>3, <2>4 DEF IInv, TypeOK
  <2>5. CASE t # victim
    BY <2>1, <2>5 DEF IInv, TypeOK, CountInv
  <2> QED BY <2>4, <2>5
<1>6. CASE Place \/ EvictBlock \/ \E g \in GCStreams : MoveBlock(g)
  BY <1>6, PlaceKeepsIInv, EvictBlockKeepsIInv, MoveBlockKeepsIInv
<1> QED BY <1>2, <1>3, <1>4, <1>5, <1>6 DEF Next, Internal

(* With write-backs of single blocks the counters that compaction and the  *)
(* greedy policy go by are exact.                                          *)
THEOREM CountsStayExact ==
  ASSUME SoundPolicies, SingleBlocks
  PROVE  Spec => []CountsExact
<1>1. Init => CountInv
  <2> SUFFICES ASSUME Init, NEW s \in Segs
               PROVE  valid_cnt[s] = Cardinality(ValidOffsets(s))
    BY DEF CountInv
  <2>1. valid_cnt[s] = 0 /\ ValidOffsets(s) = {}
    BY DEF Init, ValidOffsets
  <2> QED BY <2>1, FS_EmptySet
<1>2. IInv /\ CountInv /\ [Next]_vars => CountInv'
  BY NextKeepsCounts
<1>3. IInv /\ CountInv => CountsExact
  BY DEF IInv, CacheInv, CountInv, CountsExact
<1> QED BY <1>1, <1>2, <1>3, Invariance, PTL DEF Spec

-----------------------------------------------------------------------------
(* Refinement.                                                             *)

(* Every step is a write or a write-back of the store, or nothing to it.   *)
LEMMA StepRefines ==
  ASSUME SoundPolicies, IInv, [Next]_vars
  PROVE  [Store!TieredNext]_<<Cached, cold>>
<1>1. CASE Place
  <2>1. key \in Keys /\ Cached' = Cached \cup {key} /\ cold' = cold \ {key}
    BY <1>1, PlaceKeepsIInv
  <2> QED BY <2>1 DEF Store!TieredNext, Store!WriteKey
<1>2. CASE EvictBlock
  <2>1. \E k \in Cached : Cached' = Cached \ Group[k] /\ cold' = cold \cup Group[k]
    BY <1>2, EvictBlockKeepsIInv
  <2>2. Cached \subseteq Keys
    BY DEF Cached
  <2> QED BY <2>1, <2>2 DEF Store!TieredNext, Store!WriteBack
<1>3. CASE \E g \in GCStreams : MoveBlock(g)
  BY <1>3, MoveBlockKeepsIInv
<1>4. CASE \/ \E k \in Keys, h \in HostStreams : Insert(k, h)
           \/ AllocActive \/ ChooseToEvict \/ ChooseToCompact \/ ChooseTooFull
           \/ OpenTarget \/ ResetVictim \/ UNCHANGED vars
  <2>1. mapping' = mapping /\ cold' = cold
    BY <1>4 DEF Insert, AllocActive, ChooseToEvict, ChooseToCompact, ChooseTooFull, OpenTarget,
                ResetVictim, vars, dataVars
  <2> QED BY <2>1 DEF Cached
<1> QED BY <1>1, <1>2, <1>3, <1>4 DEF Next, Internal

(* The cache implements the store: whatever garbage collection does, what  *)
(* can be seen from outside is writes and write-backs of groups.           *)
THEOREM CacheImplementsTieredStore ==
  ASSUME SoundPolicies
  PROVE  Spec => ImplementsTieredStore
<1>1. Init => Store!TieredInit
  BY DEF Init, Store!TieredInit, Cached
<1>2. IInv /\ [Next]_vars => [Store!TieredNext]_<<Cached, cold>>
  BY StepRefines
<1> QED BY <1>1, <1>2, Invariance, PTL DEF Spec, Store!TieredSpec, ImplementsTieredStore

-----------------------------------------------------------------------------
(* The room compaction has.                                                *)

(* More rows of the same length hold more.                                 *)
LEMMA RowsGrow ==
  ASSUME NEW a \in Nat, NEW b \in Nat, NEW c \in Nat, a <= b
  PROVE  a * c \in Nat /\ b * c \in Nat /\ a * c <= b * c
BY SMT

(* Sets of locations can be counted.                                       *)
LEMMA LocationsFinite ==
  ASSUME NEW T \in SUBSET Locations
  PROVE  IsFiniteSet(T) /\ Cardinality(T) \in Nat
<1>1. IsFiniteSet(Segs) /\ IsFiniteSet(Offsets)
  BY FS_Interval, SizesAssumption DEF Segs, Offsets
<1>2. IsFiniteSet(Locations)
  BY <1>1, FS_Product DEF Locations
<1> QED BY <1>2, FS_Subset, FS_CardinalityType

(* The free segments are room as a whole.                                  *)
LEMMA PoolIsRoom ==
  ASSUME IInv
  PROVE  /\ FreeSlots \subseteq Locations
         /\ Len(free_pool) \in Nat
         /\ Cardinality(FreeSlots) >= Len(free_pool) * SegmentSize
<1>1. /\ IsFiniteSet(Pool) /\ Cardinality(Pool) = Len(free_pool)
      /\ Len(free_pool) \in Nat
  <2>1. /\ free_pool \in Seq(Segs)
        /\ \A i, j \in DOMAIN free_pool : free_pool[i] = free_pool[j] => i = j
    BY DEF IInv, TypeOK, SegmentInOnePlace
  <2> QED BY <2>1, DistinctCount, LenProperties DEF Pool
<1>2. IsFiniteSet(Offsets) /\ Cardinality(Offsets) = SegmentSize
  BY FS_Interval, SizesAssumption DEF Offsets
<1>3. Cardinality(Pool \X Offsets) = Len(free_pool) * SegmentSize
  BY <1>1, <1>2, FS_Product
<1>4. FreeSlots \in SUBSET Locations
  BY DEF FreeSlots
<1>5. Pool \X Offsets \in SUBSET FreeSlots
  BY ActiveAreSegments DEF FreeSlots, Locations
<1> HIDE DEF FreeSlots
<1>6. IsFiniteSet(FreeSlots)
  BY <1>4, LocationsFinite
<1>7. Cardinality(Pool \X Offsets) <= Cardinality(FreeSlots)
  BY <1>5, <1>6, FS_Subset
<1>8. Cardinality(Pool \X Offsets) \in Nat /\ Cardinality(FreeSlots) \in Nat
  BY <1>4, <1>5, LocationsFinite
<1> QED BY <1>1, <1>3, <1>4, <1>7, <1>8

(* The numbers the invariant speaks about.                                 *)
LEMMA ReserveNumbers ==
  ASSUME IInv
  PROVE  /\ Cardinality(FreeSlots) \in Nat
         /\ FreeLow * SegmentSize \in Nat /\ SegmentSize \in Nat
         /\ \A s \in Segs : Cardinality(ValidOffsets(s)) \in Nat
<1>1. FreeSlots \in SUBSET Locations
  BY DEF FreeSlots
<1>2. Cardinality(FreeSlots) \in Nat
  BY <1>1, LocationsFinite
<1>3. FreeLow * SegmentSize \in Nat
  BY SizesAssumption, RowsGrow
<1>4. \A s \in Segs : Cardinality(ValidOffsets(s)) \in Nat
  BY ValidOffsetsCount, SizesAssumption
<1> QED BY <1>2, <1>3, <1>4, SizesAssumption

(* A step that leaves the pool and the open segments of garbage collection *)
(* alone leaves their room alone.                                          *)
LEMMA SameRoom ==
  ASSUME Pool' = Pool, GCActive' = GCActive,
         \A s \in GCActive : write_ptr'[s] = write_ptr[s]
  PROVE  FreeSlots' = FreeSlots /\ \A s \in GCActive' : write_ptr'[s] = write_ptr[s]
BY DEF FreeSlots, Locations

(* There is room for all that is kept free when the cache starts.          *)
LEMMA InitHasRoom ==
  ASSUME EnoughSegments, Init
  PROVE  ReserveInv
<1>1. IInv /\ Pool = Segs
  BY InitHasIInv
<1>2. Len(free_pool) = NumSegments
  <2>1. /\ free_pool \in Seq(Segs)
        /\ \A i, j \in DOMAIN free_pool : free_pool[i] = free_pool[j] => i = j
    BY <1>1 DEF IInv, TypeOK, SegmentInOnePlace
  <2>2. Cardinality(Segs) = NumSegments
    BY FS_Interval, SizesAssumption DEF Segs
  <2> QED BY <1>1, <2>1, <2>2, DistinctCount DEF Pool
<1>3. FreeLow <= NumSegments
  <2>1. Cardinality(HostStreams) \in Nat /\ Cardinality(GCStreams) \in Nat
    BY StreamsAssumption, FS_CardinalityType
  <2> QED BY <2>1, SizesAssumption DEF EnoughSegments
<1>4. FreeLow * SegmentSize <= NumSegments * SegmentSize
  BY <1>3, SizesAssumption, RowsGrow
<1>5. Cardinality(FreeSlots) >= NumSegments * SegmentSize /\ NumSegments * SegmentSize \in Nat
  BY <1>1, <1>2, PoolIsRoom, SizesAssumption, RowsGrow
<1>6. Cardinality(FreeSlots) >= FreeLow * SegmentSize
  BY <1>1, <1>4, <1>5, ReserveNumbers
<1>7. pc = "idle" /\ GCActive = {}
  BY DEF Init, GCActive
<1> QED BY <1>6, <1>7 DEF ReserveInv

(* The same, after a step.                                                 *)
PoolRoom ==
  /\ Len(free_pool) \in Nat
  /\ Cardinality(FreeSlots) \in Nat
  /\ Cardinality(FreeSlots) >= Len(free_pool) * SegmentSize

LEMMA PoolStaysRoom == IInv' => PoolRoom'
<1>1. IInv => PoolRoom
  BY PoolIsRoom, ReserveNumbers DEF PoolRoom
<1> QED BY <1>1, PTL

(* Taking a segment for the host leaves what the loop of garbage           *)
(* collection was run for.                                                 *)
LEMMA AllocActiveKeepsRoom ==
  ASSUME IInv, IInv', ReserveInv, AllocActive
  PROVE  ReserveInv'
<1>1. /\ pc' = "place" /\ free_pool' = Tail(free_pool) /\ gc_active_seg' = gc_active_seg
      /\ ~PoolLow(free_pool)
  BY DEF AllocActive, AllocSegment
<1>2. Len(free_pool) \in Nat /\ free_pool \in Seq(Segs)
  BY PoolIsRoom DEF IInv, TypeOK
<1>3. free_pool # <<>> /\ Len(free_pool) >= FreeLow + 1
  BY <1>1, <1>2, SizesAssumption, EmptySeq DEF PoolLow
<1>4. Len(free_pool') >= FreeLow /\ write_ptr' = write_ptr
  BY <1>1, <1>2, <1>3, AllocTakesFront, SizesAssumption DEF AllocActive, AllocSegment
<1>5. /\ Cardinality(FreeSlots)' >= Len(free_pool)' * SegmentSize /\ Len(free_pool)' \in Nat
      /\ Cardinality(FreeSlots)' \in Nat
  BY PoolStaysRoom DEF PoolRoom
<1>6. Cardinality(FreeSlots)' >= FreeLow * SegmentSize
  BY <1>4, <1>5, RowsGrow, SizesAssumption
<1>7. GCActive' = GCActive
  BY <1>1 DEF GCActive
<1> QED BY <1>1, <1>4, <1>6, <1>7 DEF ReserveInv

(* A compaction is only begun on a victim that holds less than a segment.  *)
LEMMA ChooseToCompactKeepsRoom ==
  ASSUME SoundPolicies, IInv, ReserveInv, ChooseToCompact
  PROVE  ReserveInv'
<1>1. PICK v \in Candidates(CompactorKind, compactor, valid_cnt) : victim' = v /\ ~TooFull(v)
  BY DEF ChooseToCompact
<1>2. v \in Segs
  <2>1. GCNeeded /\ CompactorKind # "none"
    BY DEF ChooseToCompact, Compacting
  <2> QED BY <2>1, TrackedAreSealed, PoliciesSound, CandidatesTracked DEF Sealed
<1>3. /\ UNCHANGED <<blocks, write_ptr, free_pool, gc_active_seg>>
      /\ pc \notin {"target", "compact"}
  BY DEF ChooseToCompact, GCNeeded, segVars, tableVars
<1>4. Pool' = Pool /\ GCActive' = GCActive
  BY <1>3 DEF Pool, GCActive
<1>5. FreeSlots' = FreeSlots
  BY <1>3, <1>4, SameRoom
<1>6. Cardinality(ValidOffsets(v)) + 1 <= SegmentSize
  <2>1. valid_cnt[v] \in Nat /\ Cardinality(ValidOffsets(v)) <= valid_cnt[v]
    BY <1>2 DEF IInv, TypeOK, FillInv
  <2>2. 100 * valid_cnt[v] <= 95 * SegmentSize
    BY <1>1, <2>1, SizesAssumption DEF TooFull
  <2>3. valid_cnt[v] + 1 <= SegmentSize
    BY <2>1, <2>2, SizesAssumption
  <2> QED BY <1>2, <2>1, <2>3, ReserveNumbers
<1>7. Cardinality(FreeSlots) >= FreeLow * SegmentSize
  BY <1>3 DEF ReserveInv
<1>8. Cardinality(FreeSlots) > FreeLow * SegmentSize - SegmentSize + Cardinality(ValidOffsets(v))
  BY <1>2, <1>6, <1>7, ReserveNumbers
<1>9. ValidOffsets(victim)' = ValidOffsets(v)
  BY <1>1, <1>3 DEF ValidOffsets
<1> QED BY <1>3, <1>4, <1>5, <1>7, <1>8, <1>9 DEF ReserveInv

(* Eviction only takes blocks from the victim.                             *)
LEMMA EvictBlockKeepsRoom ==
  ASSUME SoundPolicies, IInv, ReserveInv, EvictBlock
  PROVE  ReserveInv'
<1>1. UNCHANGED <<write_ptr, free_pool, gc_active_seg, pc, victim>>
  BY DEF EvictBlock, tableVars, callVars
<1>2. Pool' = Pool /\ GCActive' = GCActive
  BY <1>1 DEF Pool, GCActive
<1>3. FreeSlots' = FreeSlots
  BY <1>1, <1>2, SameRoom
<1>4. victim \in Segs
  BY DEF EvictBlock, IInv, TypeOK, CallInv
<1>5. \A u : ValidOffsets(u)' = {j \in Offsets : blocks'[u][j] # None}
  BY DEF ValidOffsets
<1>6. Cardinality(ValidOffsets(victim)') <= Cardinality(ValidOffsets(victim))
  <2>1. \A u \in Segs : Cardinality(ValidOffsets(u)') <= Cardinality(ValidOffsets(u))
    BY EvictBlockKeepsIInv
  <2>2. ValidOffsets(victim)' = {j \in Offsets : blocks'[victim][j] # None}
    BY <1>1 DEF ValidOffsets
  <2> QED BY <1>4, <1>5, <2>1, <2>2
<1>7. Cardinality(ValidOffsets(victim)') \in Nat
  <2>1. ValidOffsets(victim)' \in SUBSET Offsets
    BY <1>1 DEF ValidOffsets
  <2> QED BY <2>1, OffsetSetCount, SizesAssumption
<1> QED BY <1>1, <1>2, <1>3, <1>4, <1>6, <1>7, ReserveNumbers DEF ReserveInv

(* The first destination of a compaction without streams is a free segment *)
(* that has not been written to.                                           *)
LEMMA OpenTargetKeepsRoom ==
  ASSUME SoundPolicies, IInv, ReserveInv, OpenTarget
  PROVE  ReserveInv'
<1> DEFINE s == Head(free_pool)
<1>1. /\ s \in Pool /\ s \in Segs /\ Range(Tail(free_pool)) = Pool \ {s}
      /\ write_ptr' = write_ptr /\ blocks' = blocks
  BY AllocTakesFront DEF OpenTarget, AllocSegment
<1>2. /\ pc = "target" /\ pc' = "compact" /\ ~StreamPolicy /\ victim' = victim
      /\ free_pool' = Tail(free_pool)
      /\ gc_active_seg' = [g \in GCStreams |-> s]
      /\ \A g \in GCStreams : gc_active_seg[g] = None
  BY DEF OpenTarget, AllocSegment, IInv, CallInv
<1>3. s # None /\ write_ptr[s] = 0
  BY <1>1, ActiveAreSegments, FreeIsEmpty
<1> HIDE DEF s
<1>4. \E g : GCStreams = {g}
  BY <1>2, StreamsAssumption, FS_Singleton
<1>5. GCActive = {} /\ GCActive' = {s} /\ Pool' = Pool \ {s}
  BY <1>1, <1>2, <1>3, <1>4 DEF GCActive, Pool
<1>6. \A i \in Offsets : i >= write_ptr'[s]
  BY <1>1, <1>3, SizesAssumption DEF Offsets
<1>7. FreeSlots' = FreeSlots
  BY <1>1, <1>5, <1>6 DEF FreeSlots, Locations
<1>8. ValidOffsets(victim)' = ValidOffsets(victim)
  BY <1>1, <1>2 DEF ValidOffsets
<1> QED BY <1>2, <1>7, <1>8 DEF ReserveInv

(* An emptied victim is room as a whole.                                   *)
LEMMA ResetVictimKeepsRoom ==
  ASSUME SoundPolicies, IInv, ReserveInv, ResetVictim
  PROVE  ReserveInv'
<1> DEFINE v == victim
<1>1. /\ pc \in {"evict", "compact"} /\ v \in Segs /\ v \notin Pool /\ v \notin GCActive
      /\ ValidOffsets(v) = {}
      /\ write_ptr' = [write_ptr EXCEPT ![v] = 0]
      /\ free_pool' = Append(free_pool, v) /\ gc_active_seg' = gc_active_seg
      /\ pc' \notin {"target", "compact"}
  BY DEF ResetVictim, IInv, CallInv, TypeOK, SegmentInOnePlace
<1> HIDE DEF v
<1>2. Pool' = Pool \cup {v} /\ GCActive' = GCActive
  <2>1. /\ free_pool \in Seq(Segs)
        /\ \A i, j \in DOMAIN free_pool : free_pool[i] = free_pool[j] => i = j
    BY DEF IInv, TypeOK, SegmentInOnePlace
  <2> QED BY <1>1, <2>1, PushBack DEF Pool, GCActive
<1>3. \A s \in GCActive : write_ptr'[s] = write_ptr[s]
  BY <1>1, ActiveAreSegments DEF IInv, TypeOK
<1>4. FreeSlots' = FreeSlots \cup ({v} \X Offsets)
  BY <1>1, <1>2, <1>3 DEF FreeSlots, Locations
<1>5. FreeSlots \cap ({v} \X Offsets) = {}
  BY <1>1 DEF FreeSlots
<1>6. /\ IsFiniteSet({v}) /\ Cardinality({v}) = 1
      /\ IsFiniteSet(Offsets) /\ Cardinality(Offsets) = SegmentSize
  <2>1. IsFiniteSet(Offsets) /\ Cardinality(Offsets) = SegmentSize
    BY FS_Interval, SizesAssumption DEF Offsets
  <2>2. IsFiniteSet({v}) /\ Cardinality({v}) = 1
    BY FS_Singleton
  <2> QED BY <2>1, <2>2
<1>7. IsFiniteSet({v} \X Offsets) /\ Cardinality({v} \X Offsets) = SegmentSize
  <2>1. /\ IsFiniteSet({v} \X Offsets)
        /\ Cardinality({v} \X Offsets) = Cardinality({v}) * Cardinality(Offsets)
    BY <1>6, FS_Product
  <2> QED BY <2>1, <1>6, SizesAssumption
<1>8. IsFiniteSet(FreeSlots)
  <2>1. FreeSlots \in SUBSET Locations
    BY DEF FreeSlots
  <2> QED BY <2>1, LocationsFinite
<1>9. Cardinality(FreeSlots') = Cardinality(FreeSlots) + SegmentSize
  <2>1. Cardinality(FreeSlots \cup ({v} \X Offsets)) = Cardinality(FreeSlots) + SegmentSize - 0
    BY <1>5, <1>7, <1>8, FS_Union, FS_EmptySet
  <2> QED BY <1>4, <2>1, ReserveNumbers
<1>10. Cardinality(FreeSlots') >= FreeLow * SegmentSize
  <2>1. CASE pc = "compact"
    <3>1. Cardinality(ValidOffsets(v)) = 0
      BY <1>1, FS_EmptySet
    <3>2. Cardinality(FreeSlots) > FreeLow * SegmentSize - SegmentSize + 0
      BY <2>1, <3>1 DEF ReserveInv, v
    <3> QED BY <1>9, <3>2, ReserveNumbers
  <2>2. CASE pc = "evict"
    BY <2>2, <1>9, ReserveNumbers DEF ReserveInv
  <2> QED BY <1>1, <2>1, <2>2
<1> QED BY <1>1, <1>2, <1>3, <1>10 DEF ReserveInv

(* A copied block takes one place of the room, and one block less is left  *)
(* in the victim.                                                          *)
LEMMA MoveBlockKeepsRoom ==
  ASSUME SoundPolicies, IInv, ReserveInv, NEW g \in GCStreams, MoveBlock(g)
  PROVE  ReserveInv'
<1> DEFINE t == Destination(g)
           w == write_ptr[t]
           sealing == {gc_active_seg[g]} \ {None, t}
<1>1. /\ t \in Segs /\ ~Full(t) /\ t \in Pool \cup GCActive
      /\ write_ptr' = [write_ptr EXCEPT ![t] = w + 1]
  <2>1. /\ t \in Segs /\ ~Full(t)
        /\ NeedsFresh(g) => t = Head(free_pool) /\ free_pool # <<>>
        /\ ~NeedsFresh(g) => t = gc_active_seg[g]
        /\ write_ptr' = [write_ptr EXCEPT ![t] = w + 1]
    BY MoveInWords
  <2>2. NeedsFresh(g) => t \in Pool
    BY <2>1, AllocTakesFront
  <2>3. ~NeedsFresh(g) => t \in GCActive
    BY <2>1 DEF NeedsFresh, GCActive
  <2> QED BY <2>1, <2>2, <2>3
<1>2. /\ Pool' = Pool \ {t}
      /\ GCActive' = (GCActive \ sealing) \cup {t}
      /\ sealing \subseteq GCActive
      /\ \A s \in sealing : Full(s)
  BY MoveTables
<1>3. pc = "compact" /\ pc' = "compact" /\ victim \in Segs
  BY MoveInWords DEF MoveBlock, callVars
<1>4. Cardinality(ValidOffsets(victim)') = Cardinality(ValidOffsets(victim)) - 1
  BY MoveBlockKeepsIInv
<1> HIDE DEF t, sealing
<1>5. w \in Nat /\ w < SegmentSize /\ <<t, w>> \in Locations
  BY <1>1, SizesAssumption DEF IInv, TypeOK, Full, Locations, Offsets
<1>6. t \in Pool => w = 0
  BY DEF IInv, StageInv
<1> HIDE DEF w
<1>7. /\ write_ptr'[t] = w + 1
      /\ \A s \in Segs \ {t} : write_ptr'[s] = write_ptr[s]
  BY <1>1 DEF IInv, TypeOK
<1>8. Pool \cap GCActive = {} /\ GCActive \subseteq Segs
  BY ActiveAreSegments DEF IInv, SegmentInOnePlace
<1>9. <<t, w>> \in FreeSlots
  BY <1>1, <1>5 DEF FreeSlots, w
<1>10. FreeSlots' = FreeSlots \ {<<t, w>>}
  <2> SUFFICES ASSUME NEW s \in Segs, NEW i \in Offsets
               PROVE  <<s, i>> \in FreeSlots' <=> <<s, i>> \in FreeSlots /\ <<s, i>> # <<t, w>>
    BY DEF FreeSlots, Locations
  <2>1. i \in Nat /\ i < SegmentSize
    BY SizesAssumption DEF Offsets
  <2>2. <<s, i>> \in Locations
    BY DEF Locations
  <2>3. <<s, i>> \in FreeSlots <=> s \in Pool \/ (s \in GCActive /\ i >= write_ptr[s])
    BY <2>2 DEF FreeSlots
  <2>4. <<s, i>> \in FreeSlots' <=> s \in Pool' \/ (s \in GCActive' /\ i >= write_ptr'[s])
    BY <2>2 DEF FreeSlots, Locations
  <2>5. CASE s = t
    <3>1. <<s, i>> \in FreeSlots' <=> i >= w + 1
      BY <2>4, <2>5, <1>2, <1>7
    <3>2. <<s, i>> \in FreeSlots <=> i >= w
      BY <2>1, <2>3, <2>5, <1>1, <1>6, <1>8 DEF w
    <3> QED BY <2>1, <2>5, <3>1, <3>2, <1>5
  <2>6. CASE s # t
    <3>1. s \in sealing => ~(i >= write_ptr[s])
      <4>1. write_ptr[s] \in Nat
        BY DEF IInv, TypeOK
      <4>2. s \in sealing => write_ptr[s] >= SegmentSize
        BY <1>2 DEF Full
      <4> QED BY <2>1, <4>1, <4>2, SizesAssumption
    <3> QED BY <2>3, <2>4, <2>6, <3>1, <1>2, <1>7, <1>8
  <2> QED BY <2>5, <2>6
<1>11. Cardinality(FreeSlots') = Cardinality(FreeSlots) - 1
  <2>1. FreeSlots \in SUBSET Locations
    BY DEF FreeSlots
  <2> QED BY <2>1, <1>9, <1>10, LocationsFinite, FS_RemoveElement
<1>12. StreamPolicy => \A s \in GCActive' : write_ptr'[s] >= 1
  BY <1>2, <1>5, <1>7, <1>8 DEF ReserveInv
<1>13. Cardinality(FreeSlots) >
         FreeLow * SegmentSize - SegmentSize + Cardinality(ValidOffsets(victim))
  BY <1>3 DEF ReserveInv
<1>14. Cardinality(FreeSlots') >
         FreeLow * SegmentSize - SegmentSize + Cardinality(ValidOffsets(victim)')
  BY <1>3, <1>4, <1>11, <1>13, ReserveNumbers
<1> QED BY <1>3, <1>12, <1>14 DEF ReserveInv

(* Every step leaves the room compaction needs.                            *)
LEMMA NextKeepsRoom ==
  ASSUME SoundPolicies, IInv, ReserveInv, [Next]_vars
  PROVE  ReserveInv'
<1>1. CASE \/ \E k \in Keys, h \in HostStreams : Insert(k, h)
           \/ ChooseToEvict \/ ChooseTooFull
  <2>1. /\ UNCHANGED <<write_ptr, free_pool, gc_active_seg>>
        /\ {pc, pc'} \cap {"target", "compact"} = {}
    BY <1>1 DEF Insert, ChooseToEvict, ChooseTooFull, GCNeeded, segVars, tableVars
  <2>2. Pool' = Pool /\ GCActive' = GCActive
    BY <2>1 DEF Pool, GCActive
  <2> QED BY <2>1, <2>2, SameRoom DEF ReserveInv
<1>2. CASE UNCHANGED vars
  <2>1. UNCHANGED <<blocks, write_ptr, free_pool, gc_active_seg, pc, victim>>
    BY <1>2 DEF vars, segVars, tableVars, callVars
  <2>2. Pool' = Pool /\ GCActive' = GCActive /\ ValidOffsets(victim)' = ValidOffsets(victim)
    BY <2>1 DEF Pool, GCActive, ValidOffsets
  <2> QED BY <2>1, <2>2, SameRoom DEF ReserveInv
<1>3. CASE Place
  <2>1. /\ pc = "place" /\ pc' \in {"proactive", "idle"}
        /\ UNCHANGED <<free_pool, gc_active_seg>>
        /\ write_ptr' = [write_ptr EXCEPT ![active_seg[stream]] = @ + 1]
    BY <1>3 DEF Place, tableVars
  <2>2. active_seg[stream] # None /\ active_seg[stream] \in HostActive
    BY <2>1 DEF IInv, TypeOK, CallInv, HostActive
  <2>3. active_seg[stream] \notin GCActive
    BY <2>2 DEF IInv, SegmentInOnePlace
  <2>4. Pool' = Pool /\ GCActive' = GCActive
    BY <2>1 DEF Pool, GCActive
  <2>5. \A s \in GCActive : write_ptr'[s] = write_ptr[s]
    BY <2>1, <2>3, ActiveAreSegments DEF IInv, TypeOK
  <2> QED BY <2>1, <2>4, <2>5, SameRoom DEF ReserveInv
<1>4. CASE AllocActive
  BY <1>4, NextKeepsIInv, AllocActiveKeepsRoom
<1> QED BY <1>1, <1>2, <1>3, <1>4, ChooseToCompactKeepsRoom, EvictBlockKeepsRoom,
        OpenTargetKeepsRoom, ResetVictimKeepsRoom, MoveBlockKeepsRoom DEF Next, Internal

(* What the reserve is good for: room that is not in a free segment is in  *)
(* the other open segments, and there is too little of it to be all.       *)
LEMMA RoomSuffices ==
  ASSUME EnoughReserve, IInv, ReserveInv
  PROVE  GCAllocationSucceeds
<1>1. /\ Cardinality(FreeSlots) \in Nat
      /\ FreeLow * SegmentSize \in Nat /\ SegmentSize \in Nat
      /\ FreeLow * SegmentSize >= SegmentSize
  <2>1. 1 * SegmentSize <= FreeLow * SegmentSize
    BY SizesAssumption, RowsGrow
  <2> QED BY <2>1, ReserveNumbers
<1>2. free_pool = <<>> => Pool = {}
  BY DEF Pool, Range
<1>3. ASSUME pc = "target" PROVE free_pool # <<>>
  <2> SUFFICES ASSUME free_pool = <<>> PROVE FALSE
    OBVIOUS
  <2>1. GCActive = {} /\ Pool = {}
    BY <1>2, <1>3 DEF GCActive, IInv, CallInv
  <2>2. FreeSlots = {}
    BY <2>1 DEF FreeSlots
  <2>3. Cardinality(FreeSlots) = 0
    BY <2>2, FS_EmptySet
  <2>4. victim \in Segs
    BY <1>3 DEF IInv, TypeOK, CallInv
  <2>5. Cardinality(FreeSlots) >
          FreeLow * SegmentSize - SegmentSize + Cardinality(ValidOffsets(victim))
    BY <1>3 DEF ReserveInv
  <2> QED BY <1>1, <2>3, <2>4, <2>5, ReserveNumbers
<1>4. ASSUME pc = "compact", ValidOffsets(victim) # {}, NEW g \in GCStreams, NeedsFresh(g),
             free_pool = <<>>
      PROVE  FALSE
  <2>1. victim \in Segs
    BY <1>4 DEF IInv, TypeOK, CallInv
  <2>2. Cardinality(ValidOffsets(victim)) \in Nat /\ Cardinality(ValidOffsets(victim)) # 0
    BY <1>4, <2>1, ReserveNumbers, ValidOffsetsCount
  <2>3. Cardinality(FreeSlots) >
          FreeLow * SegmentSize - SegmentSize + Cardinality(ValidOffsets(victim))
    BY <1>4 DEF ReserveInv
  <2>4. Cardinality(FreeSlots) > FreeLow * SegmentSize - SegmentSize + 1
    BY <1>1, <2>2, <2>3
  <2> DEFINE others == {gc_active_seg[h] : h \in GCStreams \ {g}}
  <2>5. ASSUME NEW l \in FreeSlots
        PROVE  l \in Locations /\ l[1] \in GCActive /\ l[2] >= write_ptr[l[1]] /\ l[1] \in others
    <3>1. l \in Locations /\ l[1] \in GCActive /\ l[2] >= write_ptr[l[1]]
      BY <1>2, <1>4 DEF FreeSlots
    <3>2. PICK h \in GCStreams : l[1] = gc_active_seg[h] /\ l[1] # None
      BY <3>1 DEF GCActive
    <3>3. ~Full(l[1])
      <4>1. l[2] \in Nat /\ l[2] < SegmentSize /\ write_ptr[l[1]] \in Nat
        BY <3>1, SizesAssumption DEF Locations, Offsets, IInv, TypeOK
      <4> QED BY <3>1, <4>1, SizesAssumption DEF Full
    <3>4. h # g
      BY <1>4, <3>2, <3>3 DEF NeedsFresh
    <3> QED BY <3>1, <3>2, <3>4
  <2>6. IsFiniteSet(GCStreams \ {g}) /\ Cardinality(GCStreams \ {g}) = Cardinality(GCStreams) - 1
    BY StreamsAssumption, FS_RemoveElement
  <2>7. Cardinality(GCStreams) \in Nat /\ Cardinality(GCStreams \ {g}) \in Nat
    BY <2>6, StreamsAssumption, FS_CardinalityType
  <2>8. CASE ~StreamPolicy
    <3>1. GCStreams \ {g} = {}
      BY <2>6, <2>8, StreamsAssumption, FS_EmptySet
    <3>2. others = {}
      BY <3>1
    <3>3. FreeSlots = {}
      BY <2>5, <3>2
    <3>4. Cardinality(FreeSlots) = 0
      BY <3>3, FS_EmptySet
    <3> QED BY <1>1, <2>4, <3>4
  <2>9. CASE StreamPolicy
    <3>1. FreeSlots \subseteq others \X (1 .. SegmentSize - 1)
      <4> SUFFICES ASSUME NEW l \in FreeSlots PROVE l \in others \X (1 .. SegmentSize - 1)
        OBVIOUS
      <4>1. /\ l \in Segs \X Offsets /\ l[1] \in GCActive /\ l[1] \in others
            /\ l[2] >= write_ptr[l[1]]
        BY <2>5 DEF Locations
      <4>2. write_ptr[l[1]] >= 1 /\ write_ptr[l[1]] \in Nat
        BY <2>9, <4>1 DEF ReserveInv, IInv, TypeOK
      <4>3. l[2] \in 1 .. SegmentSize - 1
        BY <4>1, <4>2, SizesAssumption DEF Offsets
      <4> QED BY <4>1, <4>3
    <3>2. IsFiniteSet(others) /\ Cardinality(others) <= Cardinality(GCStreams) - 1
      <4> DEFINE f == [h \in GCStreams \ {g} |-> gc_active_seg[h]]
      <4>1. others = {f[h] : h \in GCStreams \ {g}}
        OBVIOUS
      <4>2. DOMAIN f = GCStreams \ {g}
        OBVIOUS
      <4> HIDE DEF f, others
      <4> QED BY <4>1, <4>2, <2>6, ImageCount
    <3>3. IsFiniteSet(1 .. SegmentSize - 1) /\ Cardinality(1 .. SegmentSize - 1) = SegmentSize - 1
      BY FS_Interval, SizesAssumption
    <3> DEFINE grid == others \X (1 .. SegmentSize - 1)
    <3> HIDE DEF others
    <3>4. /\ IsFiniteSet(grid)
          /\ Cardinality(grid) = Cardinality(others) * (SegmentSize - 1)
      BY <3>2, <3>3, FS_Product
    <3>5. Cardinality(FreeSlots) <= Cardinality(grid) /\ Cardinality(grid) \in Nat
      BY <3>1, <3>4, FS_Subset, FS_CardinalityType
    <3>6. Cardinality(others) * (SegmentSize - 1) <=
            (Cardinality(GCStreams) - 1) * (SegmentSize - 1)
      <4>1. /\ Cardinality(others) \in Nat /\ SegmentSize - 1 \in Nat
            /\ Cardinality(GCStreams) - 1 \in Nat
        BY <2>6, <2>7, <3>2, FS_CardinalityType, SizesAssumption
      <4> QED BY <3>2, <4>1, RowsGrow
    <3>7. (FreeLow - 1) * SegmentSize = FreeLow * SegmentSize - SegmentSize
      BY SizesAssumption
    <3>8. (Cardinality(GCStreams) - 1) * (SegmentSize - 1) <= FreeLow * SegmentSize - SegmentSize + 1
      BY <3>7 DEF EnoughReserve
    <3>9. (Cardinality(GCStreams) - 1) * (SegmentSize - 1) \in Int
      BY <2>7, <1>1
    <3>10. Cardinality(FreeSlots) <= (Cardinality(GCStreams) - 1) * (SegmentSize - 1)
      BY <1>1, <3>4, <3>5, <3>6, <3>9
    <3> QED BY <1>1, <2>4, <3>8, <3>9, <3>10
  <2> QED BY <2>8, <2>9
<1> QED BY <1>3, <1>4 DEF GCAllocationSucceeds

(* Compaction never runs out of free segments (the exception thrown at     *)
(* log_cache.cpp:411), when what the garbage-collection streams can leave  *)
(* unused is less than what the loop keeps free.                           *)
THEOREM CompactionFindsRoom ==
  ASSUME SoundPolicies, EnoughSegments, EnoughReserve
  PROVE  Spec => []GCAllocationSucceeds
<1>1. Init => ReserveInv
  BY InitHasRoom
<1>2. IInv /\ ReserveInv /\ [Next]_vars => ReserveInv'
  BY NextKeepsRoom
<1>3. IInv /\ ReserveInv => GCAllocationSucceeds
  BY RoomSuffices
<1> QED BY <1>1, <1>2, <1>3, Invariance, PTL DEF Spec

=============================================================================
