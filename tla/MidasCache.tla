------------------------------ MODULE MidasCache ------------------------------
(***************************************************************************)
(* MidasCache (midas_cache.cpp): keys are given slots by a RemapTable, the *)
(* slots are the lbas of the MiDAS engine, and before each write a bounded *)
(* number of turns evicts or collects segments.                            *)
(*                                                                         *)
(* The write of one key goes through three phases, in pc: "turns" (the     *)
(* loop of maybe_run_gc_policy, which does not depend on the key), "model" *)
(* (checking_ginfo, where the answer of the model thread, if one is there, *)
(* is applied) and "error" (the check that the configuration kept its      *)
(* promise).                                                               *)
(***************************************************************************)
EXTENDS MidasEngine

CONSTANTS
  Keys,       \* block numbers of the host
  LowWater,   \* low_water; under createCache it is above SegNum
  TargetVp,   \* valid pages at the target valid rate
  ILoop,      \* turns per write (25)
  MaxDrift    \* bound: how far below zero a group's count may be taken

ASSUME MidasCacheAssumption ==
  /\ Keys \subseteq Nat /\ LowWater \in Nat /\ TargetVp \in Nat
  /\ ILoop \in Nat \ {0} /\ MaxDrift \in Nat

VARIABLES
  e,          \* the engine
  slotOf,     \* remap_.mapping: key -> slot, or Nil
  compacted,  \* compacted_at_: keys whose copy GC wrote
  pc, turn

vars == <<e, slotOf, compacted, pc, turn>>

Mapped == {k \in Keys : slotOf[k] # Nil}
UsedSlots == {slotOf[k] : k \in Mapped}
KeysOf(slots) == {k \in Mapped : slotOf[k] \in slots}

(* initialize_midas                                                        *)
Init ==
  /\ e = EngineInit
  /\ slotOf = [k \in Keys |-> Nil]
  /\ compacted = {}
  /\ pc = "turns" /\ turn = 0

Running == ~Stopped(e) /\ ~e.refused

InLoop == pc = "turns" /\ turn < ILoop /\ Cardinality(e.free) < LowWater

NextTurn == turn' = turn + 1 /\ UNCHANGED pc

(* Slip: the segment goes back to the free list as it is.                  *)
SlipPurge(d, s) == d

(* purge_segment_valids: what the engine keeps of the segment s.           *)
Purge(d, s) ==
  LET lbas == {d.page[s][i] : i \in ValidOf(d, s)}
  IN [d EXCEPT !.page[s] = [i \in PageNos |-> Nil],
               !.where = [l \in Lbas |-> IF l \in lbas THEN Nil ELSE @[l]],
               !.vp = @ - Cardinality(lbas)]

(* evict_one_segment: a segment of the last queue that holds one goes; its *)
(* blocks are written back and lose their slots.  The count of the queue's *)
(* group goes down, whichever group of the naive chain the segment is of.  *)
EvictTurn ==
  /\ InLoop
  /\ e.vp > TargetVp
  /\ IF EvictGroups(e) = {} THEN UNCHANGED <<e, slotOf, compacted>>
     ELSE LET q == Max(EvictGroups(e))
          IN /\ e.total[q] > -MaxDrift
             /\ \E s \in e.queue[q] :
                  LET gone == KeysOf({e.page[s][i] : i \in ValidOf(e, s)})
                  IN /\ slotOf' = [k \in Keys |-> IF k \in gone THEN Nil ELSE slotOf[k]]
                     /\ compacted' = compacted \ gone
                     /\ e' = Erase(Purge([e EXCEPT !.queue[q] = @ \ {s}], s), s, q)
  /\ NextTurn

(* GC, then consume_gc_compacted_lbas: a slot is resolved to the key that  *)
(* holds it now.                                                           *)
GCTurn ==
  /\ InLoop
  /\ e.vp <= TargetVp
  /\ \E d \in GCResults(e) :
       /\ e' = IF Stopped(d) THEN d ELSE [d EXCEPT !.moved = {}]
       /\ compacted' = compacted \cup KeysOf(d.moved)
  /\ UNCHANGED slotOf
  /\ NextTurn

(* Slip: the used flag of a slot is not looked at.                         *)
SlipSlotsFor(k) == IF slotOf[k] # Nil THEN {slotOf[k]} ELSE Lbas

(* RemapTable::get_or_assign: key % LBANUM if that slot is not used, else  *)
(* one of the free list.                                                   *)
SlotsFor(k) ==
  LET unused == Lbas \ UsedSlots
      home == k % LbaNum
  IN IF slotOf[k] # Nil THEN {slotOf[k]}
     ELSE IF home \in unused THEN {home} ELSE unused

(* The rest of batch_insert: the key gets its slot, and the engine writes  *)
(* it.  With no slot left the assertion of get_or_assign fails.            *)
WriteKey(k) ==
  /\ pc = "turns" /\ ~InLoop
  /\ compacted' = compacted \ {k}
  /\ \/ /\ SlotsFor(k) = {}
        /\ e' = Stop(e, "no slot")
        /\ UNCHANGED slotOf
     \/ \E slot \in SlotsFor(k), young \in BOOLEAN :
          /\ slotOf' = [slotOf EXCEPT ![k] = slot]
          /\ e' = Write(e, slot, young)
  /\ pc' = "model"
  /\ UNCHANGED turn

(* modeling_check, checking_ginfo: the model has no answer, one that is no *)
(* better, or a configuration to be applied.                               *)
CheckModel ==
  /\ pc = "model"
  /\ \/ UNCHANGED e
     \/ e' = Decline(e)
     \/ \E cfg \in Configs : e' \in ApplyResults(e, cfg)
  /\ pc' = "error"
  /\ UNCHANGED <<slotOf, compacted, turn>>

(* modeling_check, checking_err_time: while the flag is up, err_handling   *)
(* may find a group with more valid pages than the model promised.         *)
CheckError ==
  /\ pc = "error"
  /\ \/ UNCHANGED e
     \/ /\ e.err
        /\ \E g \in 1 .. IF e.mida THEN e.naive - 1 ELSE e.naive : e' = HandleError(e, g)
  /\ pc' = "turns" /\ turn' = 0
  /\ UNCHANGED <<slotOf, compacted>>

Next ==
  /\ Running
  /\ \/ EvictTurn
     \/ GCTurn
     \/ \E k \in Keys : WriteKey(k)
     \/ CheckModel
     \/ CheckError

Spec == Init /\ [][Next]_vars

-----------------------------------------------------------------------------
(* mtable and the out-of-band areas agree through every copy, merge, split *)
(* and eviction, and stats->vp is the number of valid pages, on which the  *)
(* choice between eviction and GC rests.                                   *)
PagesExact ==
  Running =>
    /\ \A s \in SegIds, i \in PageNos :
         e.page[s][i] # Nil => e.where[e.page[s][i]] = <<s, i>>
    /\ \A l \in Lbas :
         e.where[l] # Nil => e.page[e.where[l][1]][e.where[l][2]] = l
    /\ e.vp = Cardinality({l \in Lbas : e.where[l] # Nil})

(* Every segment is free, or the active one of one group, or in one queue: *)
(* the changes of the configuration neither lose one nor use one twice.    *)
SegmentInOnePlace ==
  LET opened == {g \in Groups : e.active[g].seg # Nil}
      queued == UNION {{q} \X e.queue[q] : q \in Groups}
  IN Running =>
       /\ e.free \cup {x[2] : x \in queued} \cup {e.active[g].seg : g \in opened} = SegIds
       /\ Cardinality(e.free) + Cardinality(queued) + Cardinality(opened) = SegNum

(* The group a segment is labelled with is the group of the queue it is    *)
(* in: the segments behind naive_start share one queue, and with a single  *)
(* group the hot ones share it too.  group_split aborts otherwise.         *)
LabelsFitQueues ==
  LET shared == (IF e.naive = 1 /\ e.mida THEN 0 ELSE e.naive) .. GroupNum(e) - 1
  IN Running =>
       \A q \in Groups : \A s \in e.queue[q] :
         IF q < e.naive THEN e.gnum[s] = q ELSE q = e.naive /\ e.gnum[s] \in shared

(* TOTAL_GNUM adds up.  An eviction charges a segment of the naive chain   *)
(* to its first group, so single counts drift; but the groups that share a *)
(* queue have, together, counts for exactly what is in it, and the groups  *)
(* with a queue of their own have the right ones, or merge_group aborts.   *)
TotalsAddUp ==
  LET shared == (IF e.naive = 1 /\ e.mida THEN 0 ELSE e.naive) .. GroupNum(e) - 1
  IN Running =>
       /\ TotalOf(e, shared) = Cardinality(e.queue[e.naive])
       /\ \A g \in 0 .. e.naive - 1 : g \notin shared => e.total[g] = Cardinality(e.queue[g])

(* A segment has one place, the right one, and is counted there.           *)
GroupsExact == SegmentInOnePlace /\ LabelsFitQueues /\ TotalsAddUp

(* The hot filter's counters stay in their range, in spite of the untested *)
(* second decrement, and it knows how many lbas are hot.                   *)
HotFilterExact ==
  Running =>
    /\ \A l \in Lbas : e.hf[l] \in 0 .. HotVal
    /\ e.hotLbas = Cardinality({l \in Lbas : e.hf[l] = HotVal})

(* The hot group holds hot pages only: no change of the configuration and  *)
(* no collection leaves a page there whose counter has come down.          *)
HotPagesAreHot ==
  Running =>
    \A s \in SegIds : \A i \in ValidOf(e, s) :
      e.gnum[s] = 0 => e.hf[e.page[s][i]] = HotVal

(* What the hot filter says of an lba and the group its page is in agree.  *)
HotExact == HotFilterExact /\ HotPagesAreHot

(* A key that has a slot has its page on the engine, and every page is of  *)
(* a key: an eviction takes both or neither.                               *)
KeysHavePages ==
  Running => UsedSlots = {l \in Lbas : e.where[l] # Nil}

(* Two keys never share a slot, and a key remembered as compacted is still *)
(* cached, although copies are reported later than they are made.          *)
SlotsApart ==
  Running =>
    /\ \A j, k \in Mapped : slotOf[j] = slotOf[k] => j = k
    /\ compacted \subseteq Mapped

(* The cache's table, its slots and the engine's pages are one mapping.    *)
KeysStored == KeysHavePages /\ SlotsApart

(* The one or few turns before a write keep a segment free for it: no      *)
(* write returns the -1 that batch_insert does not look at, and neither a  *)
(* collection nor a change of the configuration pops the empty free queue. *)
RoomKept == ~e.refused /\ e.stop # "no free segment"

(* If the engine stops, it is not one of its consistency checks: the       *)
(* counts merge_group and do_gc compare, the labels of group_split, the    *)
(* range hf_check tests and the active segment of a write are right in     *)
(* every order of evictions, collections and configurations.  It stops for *)
(* want of a slot, a free segment or a victim; on the count of hot         *)
(* segments (HotSegmentsCounted); or in move_margin_seg, which pops an     *)
(* empty queue only when a configuration gave the group fewer segments     *)
(* than change_config_2 holds back, so that its size is negative.          *)
ChecksHold ==
  /\ e.stop \in {Nil, "no slot", "no free segment", "no victim", "hot count", "no segment to move"}
  /\ e.stop = "no segment to move" => \E g \in 0 .. e.naive - 1 : e.size[g] < 0

(* mida_on_off asserts that TOTAL_GNUM[0] is the number of hot segments it *)
(* finds in the queue of group 1, and aborts (algorithm.cpp:687).          *)
HotSegmentsCounted == e.stop # "hot count"
=============================================================================
