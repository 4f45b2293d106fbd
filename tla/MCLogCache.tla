----------------------------- MODULE MCLogCache -----------------------------
(* Model-checking instances of LogCache. *)
EXTENDS LogCache, TLC

(* Every block is a write-back unit of its own (evicted_blk_size = 1).     *)
SingleBlocks == [k \in Keys |-> {k}]

(* Pairs of neighbours are written back together (evicted_blk_size > 1).   *)
PairGroups == [k \in Keys |-> {j \in Keys : j \div 2 = k \div 2}]

(* Classify may answer any stream (SepBIT, MultiHotCold).                  *)
AnyStream == [k \in Keys |-> HostStreams]

(* Blocks, and the streams of each kind, are interchangeable.              *)
KeySymmetry == Permutations(Keys)
AllSymmetry == KeySymmetry \cup Permutations(HostStreams) \cup Permutations(GCStreams)
(* Segments are alike, whatever their numbers: a policy of the kind        *)
(* "ordered" may prefer any of them.  Two states that differ by a renaming *)
(* of the segments are one; what a segment is, wherever it is named:       *)
Content(s) ==
  <<blocks[s], write_ptr[s], valid_cnt[s],
    {<<k, mapping[k][2]>> : k \in {j \in Cached : mapping[j][1] = s}},
    {i \in DOMAIN free_pool : free_pool[i] = s},
    {h \in HostStreams : active_seg[h] = s}, {g \in GCStreams : gc_active_seg[g] = s},
    s \in evictor.tracked, s \in compactor.tracked,
    {o[2] : o \in {p \in evictor.orphans : p[1] = s}},
    {o[2] : o \in {p \in compactor.orphans : p[1] = s}}, victim = s>>

Renamed ==
  LET segments == {<<s, Content(s)>> : s \in Segs}
  IN <<[c \in {x[2] : x \in segments} |-> Cardinality({x \in segments : x[2] = c})],
       global_valid_blocks, cold, phase, pc, key, stream, caller>>
=============================================================================
