------------------------------ MODULE FairyWren ------------------------------
(***************************************************************************)
(* The hot/cold segmented cache (fairywren_cache.cpp, FairyWrenCache).     *)
(*                                                                         *)
(* The segments are shared out between a log, a hot and a cold region.     *)
(* Host blocks are appended to the log; garbage collection moves what is   *)
(* still valid from the log to the hot region, from hot to cold, and from  *)
(* cold to cold; a wholly valid segment changes region in exchange for a   *)
(* free one, and a wholly valid cold segment is written back and dropped.  *)
(* A region with no free segment for a block first reclaims one by force,  *)
(* in the middle of whatever asked for it.                                 *)
(*                                                                         *)
(* The procedures call each other and nothing interrupts them, so each is  *)
(* an operator from the state of the cache, a record c, to the state it    *)
(* leaves; c.ok is the answer of the last call.  They call each other in   *)
(* circles, but a copy may force a reclaim only of a region behind its own *)
(* (allow_force), so that cold never forces, hot forces cold, and the log  *)
(* forces all: in this order the definitions need no recursion, and what   *)
(* is done alike for every region takes the state that a forced reclaim,   *)
(* or a copy, would leave.                                                 *)
(* batch_insert repeats two steps per block: append_host_block             *)
(* (AppendHost) and maybe_run_gc (RunGC).                                  *)
(***************************************************************************)
EXTENDS Integers, Sequences, SequencesExt, FiniteSets, FiniteSetsExt

CONSTANTS
  TotalSegments,  \* total_segments_
  SegBlocks,      \* segment_size_blocks_
  Blocks,         \* the blocks the host writes
  Nil

ASSUME FairyWrenAssumption ==
  /\ TotalSegments \in Nat /\ TotalSegments >= 3 /\ SegBlocks \in Nat \ {0}
  /\ Nil \notin Blocks \cup (1 .. TotalSegments) \cup ((1 .. TotalSegments) \X (1 .. SegBlocks))

VARIABLES c, step

fwVars == <<c, step>>

Regions == {"fwlog", "hot", "cold"}
Segments == 1 .. TotalSegments
Slots == 1 .. SegBlocks

(* std::round(n * percent / 100)                                           *)
RoundPercent(n, percent) == (2 * n * percent + 100) \div 200
AtLeastOne(n) == IF n < 1 THEN 1 ELSE n

(* initialize_regions: 5 % of the segments are the log's, half of the      *)
(* others hot; cold gets one in any case.                                  *)
Share ==
  LET fwlog == AtLeastOne(RoundPercent(TotalSegments, 5))
      rest == TotalSegments - fwlog
      hot == AtLeastOne(RoundPercent(rest, 50))
      taken == IF hot = rest THEN 1 ELSE 0
  IN [fwlog |-> fwlog, hot |-> hot - taken, cold |-> rest - hot + taken]

FirstOf == [fwlog |-> 1, hot |-> 1 + Share.fwlog, cold |-> 1 + Share.fwlog + Share.hot]
SegmentsOf(r) == FirstOf[r] .. FirstOf[r] + Share[r] - 1

FWInit ==
  /\ c = [slot   |-> [s \in Segments |-> [i \in Slots |-> Nil]],
          fill   |-> [s \in Segments |-> 0],
          valid  |-> [s \in Segments |-> 0],
          where  |-> [b \in Blocks |-> Nil],
          free   |-> [r \in Regions |-> [i \in 1 .. Share[r] |-> FirstOf[r] + i - 1]],
          fifo   |-> [r \in Regions |-> <<>>],
          active |-> [r \in Regions |-> Nil],
          region |-> [s \in Segments |-> CHOOSE r \in Regions : s \in SegmentsOf(r)],
          count  |-> [r \in Regions |-> 0],
          drive  |-> {},
          ok     |-> TRUE]
  /\ step = "insert"

-----------------------------------------------------------------------------
(* Helpers of the class.                                                   *)

Answer(d, answer) == [d EXCEPT !.ok = answer]

ResetSegment(d, s) ==
  [d EXCEPT !.slot[s] = [i \in Slots |-> Nil], !.fill[s] = 0, !.valid[s] = 0]

(* Slip: the counts stay behind.                                           *)
SlipMoveSegment(d, s, r) == [d EXCEPT !.region[s] = r]

(* move_segment_region: the region's count of valid blocks goes along.     *)
MoveSegment(d, s, r) ==
  LET old == d.region[s]
      left == [d EXCEPT !.count[old] = @ - d.valid[s]]
  IN [left EXCEPT !.count[r] = @ + d.valid[s], !.region[s] = r]

(* release_segment_to_free                                                 *)
Release(d, r, s) == MoveSegment([ResetSegment(d, s) EXCEPT !.free[r] = Append(@, s)], s, r)

(* push_to_fifo: a segment with nothing valid in it is free at once.       *)
PushToFifo(d, r, s) ==
  IF d.valid[s] = 0 THEN Release(d, r, s) ELSE [d EXCEPT !.fifo[r] = Append(@, s)]

(* close_active_segment                                                    *)
CloseActive(d, r) == PushToFifo([d EXCEPT !.active[r] = Nil], r, d.active[r])

(* The first half of pop_victim: with no closed segment the active one is  *)
(* closed early.                                                           *)
WithVictim(d, r) ==
  IF d.fifo[r] = <<>> /\ d.active[r] # Nil /\ d.valid[d.active[r]] > 0
  THEN CloseActive(d, r) ELSE d

PopVictim(d, r) == [d EXCEPT !.fifo[r] = Tail(@)]

(* Slip: the stolen segment is still taken for the donor's.                *)
SlipSteal(d, from, to) ==
  [d EXCEPT !.free[from] = Tail(@), !.free[to] = Append(@, Head(d.free[from]))]

(* steal_free_segment, when there is one to steal.                         *)
Steal(d, from, to) ==
  LET s == Head(d.free[from])
  IN MoveSegment([ResetSegment(d, s) EXCEPT !.free[from] = Tail(@), !.free[to] = Append(@, s)], s, to)

(* ensure_active_segment; c.ok is whether there is an active segment with  *)
(* room.  A full one is closed first; the new one is the first free one,   *)
(* for which a reclaim may be forced of the sealed state.                  *)
SealFull(d, r) ==
  IF d.active[r] # Nil /\ d.fill[d.active[r]] = SegBlocks THEN CloseActive(d, r) ELSE d

OpenFree(d, r) ==
  IF ~d.ok \/ d.free[r] = <<>> THEN Answer(d, FALSE)
  ELSE LET s == Head(d.free[r])
       IN MoveSegment([ResetSegment(d, s) EXCEPT !.free[r] = Tail(@), !.active[r] = s, !.ok = TRUE], s, r)

EnsureActive(d, r, forced) ==
  LET sealed == SealFull(d, r)
  IN IF sealed.active[r] # Nil THEN Answer(sealed, TRUE)
     ELSE IF sealed.free[r] = <<>> THEN OpenFree(forced, r)
     ELSE OpenFree(Answer(sealed, TRUE), r)

(* Without allow_force.                                                    *)
NoForce(d) == Answer(d, FALSE)

(* A block leaves its slot: what invalidate and migrate_block do to it.    *)
Vacate(d, s, i) ==
  [d EXCEPT !.slot[s][i] = Nil, !.valid[s] = @ - 1, !.count[d.region[s]] = @ - 1]

(* append_block, and the same lines of migrate_block.                      *)
PlaceBlock(d, s, b) ==
  LET i == d.fill[s] + 1
  IN [d EXCEPT !.slot[s][i] = b, !.where[b] = <<s, i>>, !.fill[s] = i,
               !.valid[s] = @ + 1, !.count[d.region[s]] = @ + 1]

(* migrate_block, of a valid block that the mapping knows.                 *)
MoveBlock(d, s, i, to) ==
  IF d.ok THEN Vacate(PlaceBlock(d, d.active[to], d.slot[s][i]), s, i) ELSE d

Migrate(d, s, i, to, forced) == MoveBlock(EnsureActive(d, to, forced), s, i, to)

(* The loop of copy_valid_blocks, which stops at the first block that      *)
(* finds no room: Migrated is what migrate_block does to slot i.           *)
EachValid(d, s, Migrated(_, _)) ==
  LET Turn(e, i) == IF e.ok /\ e.slot[s][i] # Nil THEN Migrated(e, i) ELSE e
      Copied[i \in 0 .. SegBlocks] == IF i = 0 THEN Answer(d, TRUE) ELSE Turn(Copied[i - 1], i)
  IN Copied[SegBlocks]

(* Slip: the blocks are dropped without a write to the cold drive.         *)
SlipDropSegment(d, s) ==
  LET gone == {d.slot[s][i] : i \in Slots} \ {Nil}
  IN [ResetSegment(d, s) EXCEPT !.where = [b \in Blocks |-> IF b \in gone THEN Nil ELSE @[b]],
                         !.count[d.region[s]] = @ - d.valid[s]]

(* drop_segment: all its blocks go to the cold drive.                      *)
DropSegment(d, s) ==
  LET gone == {d.slot[s][i] : i \in Slots} \ {Nil}
  IN [ResetSegment(d, s) EXCEPT !.where = [b \in Blocks |-> IF b \in gone THEN Nil ELSE @[b]],
                         !.count[d.region[s]] = @ - d.valid[s],
                         !.drive = @ \cup gone]

-----------------------------------------------------------------------------
(* Garbage collection: one victim of a region.                             *)

NextRegion == [fwlog |-> "hot", hot |-> "cold", cold |-> "cold"]

DropWhole(d, s) == Answer(Release(DropSegment(d, s), "cold", s), TRUE)

(* The victim joins the next region, which gives a free segment for it.    *)
Exchange(d, s, from, to) ==
  IF d.free[to] = <<>> THEN Answer(d, FALSE)
  ELSE Answer([MoveSegment(Steal(d, to, from), s, to) EXCEPT !.fifo[to] = Append(@, s)], TRUE)

(* Copied to the end, the victim is free; if not, it is the next victim.   *)
Settle(d, v, r) ==
  IF d.ok /\ d.valid[v] = 0 THEN Answer(Release(d, r, v), TRUE)
  ELSE Answer([d EXCEPT !.fifo[r] = <<v>> \o @], FALSE)

(* pop_victim of a region.                                                 *)
Victim(d, r) == Head(WithVictim(d, r).fifo[r])
Popped(d, r) == PopVictim(WithVictim(d, r), r)

(* A wholly valid victim is dropped or exchanged, if that can be done.     *)
MoveWhole(d, v, r) ==
  IF d.valid[v] # SegBlocks THEN Answer(d, FALSE)
  ELSE IF r = "cold" THEN DropWhole(d, v)
  ELSE Exchange(d, v, r, NextRegion[r])

OrCopied(whole, copied, v, r) == IF whole.ok THEN whole ELSE Settle(copied, v, r)

(* reclaim_from_fwlog, reclaim_from_hot, reclaim_from_cold, of the state   *)
(* with the victim popped, and from the beginning.                         *)
ReclaimVictim(d, copied, v, r) ==
  IF d.valid[v] = 0 THEN Answer(Release(d, r, v), TRUE)
  ELSE OrCopied(MoveWhole(d, v, r), copied, v, r)

ReclaimFrom(d, r, copied) ==
  IF WithVictim(d, r).fifo[r] = <<>> THEN Answer(WithVictim(d, r), FALSE)
  ELSE ReclaimVictim(Popped(d, r), copied, Victim(d, r), r)

(* Each region's copy_valid_blocks, with what its migrate_block may force, *)
(* and its reclaim; force_reclaim tries the region, then those behind it.  *)
CopyFromCold(d, s) ==
  LET Migrated(e, i) == Migrate(e, s, i, "cold", NoForce(SealFull(e, "cold")))
  IN EachValid(d, s, Migrated)

ReclaimFromCold(d) == ReclaimFrom(d, "cold", CopyFromCold(Popped(d, "cold"), Victim(d, "cold")))
OrCold(d) == IF d.ok THEN d ELSE ReclaimFromCold(d)

CopyFromHot(d, s) ==
  LET Migrated(e, i) == Migrate(e, s, i, "cold", ReclaimFromCold(SealFull(e, "cold")))
  IN EachValid(d, s, Migrated)

ReclaimFromHot(d) == ReclaimFrom(d, "hot", CopyFromHot(Popped(d, "hot"), Victim(d, "hot")))
ForceHot(d) == OrCold(ReclaimFromHot(d))

CopyFromFwlog(d, s) ==
  LET Migrated(e, i) == Migrate(e, s, i, "hot", ForceHot(SealFull(e, "hot")))
  IN EachValid(d, s, Migrated)

ReclaimFromFwlog(d) ==
  ReclaimFrom(d, "fwlog", CopyFromFwlog(Popped(d, "fwlog"), Victim(d, "fwlog")))
ForceFwlog(d) ==
  LET e == ReclaimFromFwlog(d) IN IF e.ok THEN e ELSE ForceHot(e)

(* needs_gc; with the ratios of the code, in tenths of a percent.          *)
NeedsGC(d, r, permille) ==
  Len(d.free[r]) <= AtLeastOne((Share[r] * permille + 999) \div 1000)

(* maybe_run_gc: at most one successful reclaim, hot before cold before    *)
(* the log; then hot once more, earlier than it must.                      *)
MaybeRunGC(d) ==
  LET Due(e, r, permille) == ~e.ok /\ NeedsGC(e, r, permille)
      hot == IF NeedsGC(d, "hot", 15) THEN ReclaimFromHot(d) ELSE Answer(d, FALSE)
      cold == IF Due(hot, "cold", 15) THEN ReclaimFromCold(hot) ELSE hot
      fwlog == IF Due(cold, "fwlog", 150) THEN ReclaimFromFwlog(cold) ELSE cold
  IN Answer(IF Due(fwlog, "hot", 50) THEN ReclaimFromHot(fwlog) ELSE fwlog, TRUE)

-----------------------------------------------------------------------------
(* Slip: the slot of the old copy stays valid.                             *)
SlipForget(d, b) == [d EXCEPT !.where[b] = Nil, !.drive = @ \ {b}]

(* invalidate: the cached copy, or the one on the cold drive.              *)
Invalidate(d, b) ==
  IF d.where[b] = Nil THEN [d EXCEPT !.drive = @ \ {b}]
  ELSE [Vacate(d, d.where[b][1], d.where[b][2]) EXCEPT !.where[b] = Nil]

(* ensure_active_segment of the log, which may force every region.         *)
OpenLog(d) == EnsureActive(d, "fwlog", ForceFwlog(SealFull(d, "fwlog")))

(* append_host_block, once there is a segment of the log for it.           *)
AppendHost(b) ==
  /\ step = "insert"
  /\ LET opened == OpenLog(c)
     IN /\ opened.ok
        /\ c' = PlaceBlock(Invalidate(opened, b), opened.active["fwlog"], b)
  /\ step' = "gc"

(* "FairyWrenCache: no free FWLOG segment"                                 *)
Throw ==
  /\ step = "insert"
  /\ LET opened == OpenLog(c)
     IN ~opened.ok /\ c' = opened
  /\ step' = "thrown"

RunGC == step = "gc" /\ step' = "insert" /\ c' = MaybeRunGC(c)

FWNext == (\E b \in Blocks : AppendHost(b)) \/ Throw \/ RunGC

FWSpec == FWInit /\ [][FWNext]_fwVars

-----------------------------------------------------------------------------
(* Properties.                                                             *)

InCache == {b \in Blocks : c.where[b] # Nil}

(* The index agrees with the segments through every forced and nested      *)
(* reclaim: no block is lost from it, no slot it names was reset, and a    *)
(* block in it is not mapped on the cold drive as well.                    *)
IndexExact ==
  /\ \A b \in InCache : b \notin c.drive /\ c.slot[c.where[b][1]][c.where[b][2]] = b
  /\ \A s \in Segments, i \in Slots : c.slot[s][i] # Nil => c.where[c.slot[s][i]] = <<s, i>>

(* A segment is free, closed or active in exactly one region, the one it   *)
(* is counted for, and the exchanges leave every region its size.          *)
SegmentsShared ==
  /\ \A s \in Segments :
       LET r == c.region[s]
           places == {q \in Regions : s \in ToSet(c.free[q])} \cup
                     {q \in Regions : s \in ToSet(c.fifo[q])} \cup
                     {q \in Regions : s = c.active[q]}
       IN places = {r}
  /\ \A r \in Regions :
       /\ Cardinality({s \in Segments : c.region[s] = r}) = Share[r]
       /\ Len(c.free[r]) + Len(c.fifo[r]) + (IF c.active[r] = Nil THEN 0 ELSE 1) = Share[r]

(* The count of a region, adjusted wherever a block or a segment moves, is *)
(* the number of valid blocks in its segments: "region valid block count   *)
(* underflow" (fairywren_cache.cpp:276) is never reached.                  *)
RegionCountsExact ==
  \A r \in Regions : c.count[r] =
    Cardinality({p \in Segments \X Slots : c.region[p[1]] = r /\ c.slot[p[1]][p[2]] # Nil})

(* Dropping a cold segment writes back what it drops, moving a block       *)
(* between regions keeps it, and a write trims the copy it supersedes.     *)
NothingDropped == [][InCache \cup c.drive \subseteq InCache' \cup c'.drive]_fwVars
=============================================================================
