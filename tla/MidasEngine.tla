----------------------------- MODULE MidasEngine -----------------------------
(***************************************************************************)
(* The MiDAS engine under MidasCache (MiDAS/ssdsimul.cpp, algorithm.cpp,   *)
(* hf.cpp, ssd_config.cpp): segments in a chain of groups, garbage         *)
(* collection that moves what is still valid one group on, a filter of hot *)
(* pages, and the changes of the group configuration.                      *)
(*                                                                         *)
(* Everything here runs to its end in one thread, and the procedures call  *)
(* each other; so each is an operator from the state of the engine, a      *)
(* record e, to the state it leaves.  Where the code calls abort(), takes  *)
(* an element of an empty queue or writes to a segment that is not there,  *)
(* e.stop says where, and nothing happens any more.                        *)
(*                                                                         *)
(* A fill_queue is a set: which of its segments is the oldest is a choice, *)
(* and so are the ages the hot filter and the cost-benefit policy compare. *)
(* Free segments are alike and the lowest is taken.                        *)
(*                                                                         *)
(* A write that finds no free segment returns -1 with the full segment     *)
(* queued and still active; from there the queue holds it twice.  The      *)
(* model records that in e.refused and stops there.                        *)
(***************************************************************************)
EXTENDS Integers, Sequences, FiniteSets, FiniteSetsExt

CONSTANTS
  SegNum,     \* ssd_spec->SEGNUM
  PPS,        \* ssd_spec->PPS, pages per segment
  LbaNum,     \* ssd_spec->LBANUM
  NaiveN,     \* ssd_spec->NAIVE_N, groups of the naive chain (4 in the code)
  FreeNum,    \* ssd_spec->FREENUM, free segments below which GC works (4)
  HotVal,     \* hotf->hot_val and max_val (3)
  ColdTw,     \* hotf->cold_tw: accesses before the filter starts to count
  Configs,    \* what the model may ask for: group sizes, a sequence from group 0 on
  MaxNaive,   \* the largest naive_start they ask for
  Nil

SegIds == 1 .. SegNum
PageNos == 1 .. PPS
Lbas == 0 .. LbaNum - 1
Groups == 0 .. MaxNaive + NaiveN

ASSUME MidasAssumption ==
  /\ PPS \in Nat \ {0} /\ LbaNum \in Nat \ {0} /\ FreeNum \in Nat
  /\ NaiveN \in Nat /\ NaiveN >= 2 /\ HotVal \in Nat /\ HotVal >= 2 /\ ColdTw \in Int
  /\ SegNum \in Nat /\ SegNum > NaiveN    \* each first group gets a segment
  /\ MaxNaive \in Nat \ {0}
  /\ \A cfg \in Configs : cfg \in Seq(Nat) /\ Len(cfg) \in 3 .. MaxNaive + 1

(* What the engine may stop for.                                           *)
Reasons ==
  {"no free segment", "no victim", "no slot", "no active segment", "no segment to move",
   "group in use", "filter range", "hot count", "merge", "split"}

ASSUME NilAssumption ==
  Nil \notin SegIds \cup Lbas \cup Groups \cup (SegIds \X PageNos) \cup Reasons

-----------------------------------------------------------------------------
(* Helpers.                                                                *)

NotActive == [seg |-> Nil, off |-> 0]

(* ssd_spec->GROUPNUM                                                      *)
GroupNum(e) == e.naive + (IF e.mida THEN NaiveN ELSE 1)

Stop(e, why) == [e EXCEPT !.stop = why]
Stopped(e) == e.stop # Nil

ValidOf(e, s) == {i \in PageNos : e.page[s][i] # Nil}

(* TOTAL_GNUM of several groups.                                           *)
TotalOf(e, groups) == FoldSet(LAMBDA g, sum : sum + e.total[g], 0, groups)

(* The queue a segment of group g is put in when it is full: from          *)
(* naive_start on all groups share one, and a single one takes all.        *)
QueueOf(e, g) == IF g >= e.naive \/ e.naive = 1 THEN e.naive ELSE g

(* A full active segment becomes a sealed one.                             *)
Seal(e, g, q) ==
  [e EXCEPT !.queue[q] = @ \cup {e.active[g].seg}, !.total[g] = @ + 1]

(* The next free segment becomes the active one of group g.                *)
OpenActive(e, g) ==
  LET s == Min(e.free)
  IN IF e.free = {} THEN Stop(e, "no free segment")
     ELSE [e EXCEPT !.free = @ \ {s}, !.gnum[s] = g, !.active[g] = [seg |-> s, off |-> 0]]

(* What precedes an append, in write and in the copy loops of do_gc and    *)
(* active_merge.                                                           *)
MakeRoom(e, g) ==
  IF e.active[g].off < PPS THEN e ELSE OpenActive(Seal(e, g, QueueOf(e, g)), g)

(* A page is appended to the active segment of group g.                    *)
AppendPage(e, g, lba) ==
  LET s == e.active[g].seg
      i == e.active[g].off + 1
  IN [e EXCEPT !.page[s][i] = lba, !.where[lba] = <<s, i>>, !.active[g].off = i]

(* Slip: the segment stays in its group's count.                           *)
SlipErase(e, s, g) ==
  [e EXCEPT !.page[s] = [i \in PageNos |-> Nil], !.inv[s] = 0, !.gnum[s] = Nil,
            !.free = @ \cup {s}]

(* initialize_segment of the segment s, for group g, and its return.       *)
Erase(e, s, g) ==
  [e EXCEPT !.page[s] = [i \in PageNos |-> Nil], !.inv[s] = 0, !.gnum[s] = Nil,
            !.total[g] = @ - 1, !.free = @ \cup {s}]

-----------------------------------------------------------------------------
(* The hot filter: a counter per lba (hf.cpp).                             *)

CountUp(e, lba) ==
  IF e.hf[lba] >= HotVal THEN e
  ELSE [e EXCEPT !.hf[lba] = @ + 1,
                 !.hotLbas = IF e.hf[lba] + 1 = HotVal THEN @ + 1 ELSE @]

CountDown(e, lba) ==
  [e EXCEPT !.hf[lba] = @ - 1, !.hotLbas = IF e.hf[lba] = HotVal THEN @ - 1 ELSE @]

(* hf_generate for an overwritten page of group g: young says whether its  *)
(* segment is younger than the average age of group 0.                     *)
HfOverwrite(e, lba, g, young) ==
  IF e.coldTw > 0 THEN [e EXCEPT !.coldTw = @ - 1]
  ELSE IF g = 0 \/ (g = 1 /\ young) THEN CountUp(e, lba)
  ELSE IF g = 1 /\ e.hf[lba] > 0 THEN CountDown(e, lba)
  ELSE e

(* Slip: the counter is taken down, whatever it has left.                  *)
SlipHfCopied(e, lba, g) ==
  IF e.coldTw > 0 THEN [e EXCEPT !.coldTw = @ - 1] ELSE CountDown(e, lba)

(* hf_generate for a page that survived in a victim of group g: one down,  *)
(* and in group 0 a second time, the hot penalty, with no test.            *)
HfCopied(e, lba, g) ==
  IF e.coldTw > 0 THEN [e EXCEPT !.coldTw = @ - 1]
  ELSE IF e.hf[lba] = 0 THEN e
  ELSE LET down == CountDown(e, lba)
       IN IF g = 0 THEN [down EXCEPT !.hf[lba] = @ - 1] ELSE down

(* hf_check, whose two range tests abort.                                  *)
UserGroup(e, lba) == IF e.hf[lba] >= HotVal THEN 0 ELSE 1

-----------------------------------------------------------------------------
(* ssd_init and group_init: groups 0 and 1 exist, the naive chain is on,   *)
(* and each of its groups has an active segment.                           *)
EngineInit ==
  LET n == 1 + NaiveN
  IN [page    |-> [s \in SegIds |-> [i \in PageNos |-> Nil]],
      inv     |-> [s \in SegIds |-> 0],
      where   |-> [l \in Lbas |-> Nil],
      gnum    |-> [s \in SegIds |-> IF s <= n THEN s - 1 ELSE Nil],
      active  |-> [g \in Groups |-> IF g < n THEN [seg |-> g + 1, off |-> 0] ELSE NotActive],
      queue   |-> [g \in Groups |-> {}],
      total   |-> [g \in Groups |-> 0],
      size    |-> [g \in Groups |-> IF g = 0 THEN 1 ELSE SegNum - FreeNum - 2 - NaiveN],
      free    |-> SegIds \ (1 .. n),
      naive   |-> 1,
      mida    |-> TRUE,
      vp      |-> 0,
      hf      |-> [l \in Lbas |-> 0],
      hotLbas |-> 0,
      coldTw  |-> ColdTw,
      commit  |-> {},
      watch   |-> FALSE,
      err     |-> FALSE,
      moved   |-> {},
      refused |-> FALSE,
      stop    |-> Nil]

(* write, up to modeling_check.                                            *)
Write(e, lba, young) ==
  LET old == e.where[lba]
      passed == IF old = Nil THEN e
                ELSE HfOverwrite([e EXCEPT !.page[old[1]][old[2]] = Nil, !.inv[old[1]] = @ + 1],
                                 lba, e.gnum[old[1]], young)
      g == UserGroup(passed, lba)
      full == passed.active[g].off = PPS
      added == AppendPage(MakeRoom(passed, g), g, lba)
  IN IF passed.hf[lba] \notin 0 .. HotVal THEN Stop(passed, "filter range")
     ELSE IF passed.active[g].seg = Nil THEN Stop(passed, "no active segment")
     ELSE IF full /\ passed.free = {}
     THEN [Seal(passed, g, QueueOf(passed, g)) EXCEPT !.refused = TRUE]
     ELSE IF old = Nil THEN [added EXCEPT !.vp = @ + 1] ELSE added

-----------------------------------------------------------------------------
(* Garbage collection.                                                     *)

(* gc_victim_group: the first group above its size, else the naive chain.  *)
GCGroup(e) ==
  IF e.naive = 1 THEN 1
  ELSE Min({e.naive} \cup {g \in 0 .. e.naive - 1 : e.size[g] < e.total[g]})

(* victim_selection, cost-benefit: of a group of its own the oldest; of the *)
(* naive chain a segment without a valid page first, then one with some    *)
(* garbage.  A count above PPS, which mida_off can leave behind, makes the *)
(* benefit negative: such a segment is never chosen.                       *)
Victims(e, q) ==
  LET Garbage(lo, hi) == {s \in e.queue[q] : e.inv[s] \in lo .. hi}
  IN IF q < e.naive THEN e.queue[q]
     ELSE IF Garbage(PPS, PPS) # {} THEN Garbage(PPS, PPS)
     ELSE IF Garbage(1, PPS - 1) # {} THEN Garbage(1, PPS - 1)
     ELSE Garbage(0, 0)

(* One turn of the copy loop of do_gc, for page i of the victim v of       *)
(* group g.                                                                *)
CopyPage(e, v, g, to, i) ==
  LET room == MakeRoom(e, to)
      lba == e.page[v][i]
      counted == IF g \in {0, 1} THEN HfCopied(room, lba, g) ELSE room
  IN IF Stopped(e) THEN e
     ELSE IF lba = Nil \/ Stopped(room) THEN room
     ELSE [AppendPage(counted, to, lba) EXCEPT !.moved = @ \cup {lba}]

(* do_gc of the victim v of queue q: every valid page moves to the next    *)
(* group, where one with no active segment, and no other, gets one.        *)
DoGC(e, q, v) ==
  LET g == e.gnum[v]
      to == IF g < GroupNum(e) - 1 THEN g + 1 ELSE g
      taken == [e EXCEPT !.queue[q] = @ \ {v}, !.commit = @ \cup {q}]
      ready == IF taken.active[to].seg # Nil THEN taken
               ELSE IF taken.total[to] # 0 THEN Stop(taken, "group in use")
               ELSE OpenActive(taken, to)
      Copied[i \in 0 .. PPS] ==
        IF i = 0 THEN ready ELSE CopyPage(Copied[i - 1], v, g, to, i)
  IN IF Stopped(Copied[PPS]) THEN Copied[PPS] ELSE Erase(Copied[PPS], v, g)

(* Slip: a victim is taken a segment too late.                             *)
SlipGCResults(e) ==
  LET q == GCGroup(e)
  IN IF Cardinality(e.free) < FreeNum - 1
     THEN IF Victims(e, q) = {} THEN {Stop(e, "no victim")} ELSE {DoGC(e, q, v) : v \in Victims(e, q)}
     ELSE IF e.watch /\ e.commit = 0 .. e.naive
     THEN {[e EXCEPT !.err = TRUE, !.watch = FALSE]}
     ELSE {e}

(* GC: one victim while fewer than FREENUM segments are free; otherwise    *)
(* checking_config_apply, which starts to watch for errors once every      *)
(* group of a fresh configuration has been collected.                      *)
GCResults(e) ==
  LET q == GCGroup(e)
  IN IF Cardinality(e.free) < FreeNum
     THEN IF Victims(e, q) = {} THEN {Stop(e, "no victim")} ELSE {DoGC(e, q, v) : v \in Victims(e, q)}
     ELSE IF e.watch /\ e.commit = 0 .. e.naive
     THEN {[e EXCEPT !.err = TRUE, !.watch = FALSE]}
     ELSE {e}

-----------------------------------------------------------------------------
(* Changes of the configuration.                                           *)

(* mida_off and mida_on_off(OFF): what the naive chain holds, its active   *)
(* segments included, is now of group naive_start, except the hot segments *)
(* that shared its queue, which the code counts before it goes on.         *)
MidaOff(e) ==
  LET n == e.naive
      chain == {g \in n + 1 .. n + NaiveN - 1 : e.active[g].seg # Nil}
      opened == {e.active[g].seg : g \in chain}
      inQueue == e.queue[n] \cup opened
      hot == IF n = 1 THEN {s \in e.queue[1] : e.gnum[s] = 0} ELSE {}
      off == [e EXCEPT
        !.mida = FALSE,
        !.active = [g \in Groups |-> IF g \in chain THEN NotActive ELSE @[g]],
        !.gnum = [s \in SegIds |-> IF s \in inQueue /\ @[s] > n THEN n ELSE @[s]],
        !.inv = [s \in SegIds |-> IF s \in opened THEN PPS \div 2 ELSE @[s]],
        !.total = [g \in Groups |->
          IF g = n THEN Cardinality(opened) + TotalOf(e, n .. n + NaiveN - 1)
          ELSE IF g \in n + 1 .. n + NaiveN - 1 THEN 0 ELSE @[g]],
        !.queue = [g \in Groups |->
          IF g = n THEN inQueue \ hot ELSE IF g = 0 THEN @[0] \cup hot ELSE @[g]]]
  IN IF n = 1 /\ e.total[0] # Cardinality(hot) THEN Stop(off, "hot count") ELSE off

(* Slip: the queue is renamed, the count of the old group stays.           *)
SlipGroupSplit(e, last) ==
  LET old == e.naive
      renamed == [e EXCEPT
        !.naive = last,
        !.queue = [g \in Groups |-> IF g = last THEN @[old]
                                    ELSE IF g \in old .. last - 1 THEN {} ELSE @[g]],
        !.active = [g \in Groups |-> IF g = last THEN @[old]
                                     ELSE IF g = old THEN NotActive ELSE @[g]],
        !.gnum = [s \in SegIds |-> IF s \in e.queue[old] \cup {e.active[old].seg}
                                   THEN last ELSE @[s]]]
  IN IF old = 1 THEN OpenActive(renamed, 1) ELSE renamed

(* group_split: the last group takes a higher number, and new empty groups *)
(* come in between.                                                        *)
GroupSplit(e, last) ==
  LET old == e.naive
      renamed == [e EXCEPT
        !.naive = last,
        !.queue = [g \in Groups |-> IF g = last THEN @[old]
                                    ELSE IF g \in old .. last - 1 THEN {} ELSE @[g]],
        !.total = [g \in Groups |-> IF g = last THEN Cardinality(e.queue[old])
                                    ELSE IF g \in old .. last - 1 THEN 0 ELSE @[g]],
        !.active = [g \in Groups |-> IF g = last THEN @[old]
                                     ELSE IF g = old THEN NotActive ELSE @[g]],
        !.gnum = [s \in SegIds |-> IF s \in e.queue[old] \cup {e.active[old].seg}
                                   THEN last ELSE @[s]]]
      wrong == \/ e.mida
               \/ e.active[last].seg # Nil
               \/ \E s \in e.queue[old] : e.gnum[s] # old
               \/ \E g \in old + 1 .. last - 1 : e.active[g].seg # Nil
  IN IF wrong THEN Stop(renamed, "split") ELSE IF old = 1 THEN OpenActive(renamed, 1) ELSE renamed

(* One turn of the copy loop of active_merge, for page i of segment s.     *)
MovePage(e, s, to, i) ==
  LET room == MakeRoom(e, to)
      lba == e.page[s][i]
  IN IF Stopped(e) THEN e
     ELSE IF lba = Nil \/ Stopped(room) THEN room
     ELSE [AppendPage(room, to, lba) EXCEPT !.moved = @ \cup {lba}]

MovePages(e, s, to, n) ==
  LET Moved[i \in 0 .. n] == IF i = 0 THEN e ELSE MovePage(Moved[i - 1], s, to, i)
  IN Moved[n]

(* active_merge: the pages of the active segment of group g are appended   *)
(* to that of the next group, and the segment is returned.                 *)
ReturnActive(e, g, s) ==
  [e EXCEPT !.page[s] = [i \in PageNos |-> Nil], !.inv[s] = 0, !.gnum[s] = Nil,
            !.free = @ \cup {s}, !.active[g] = NotActive]

ActiveMerge(e, g) ==
  LET s == e.active[g].seg
      merged == MovePages(e, s, e.naive, e.active[g].off)
  IN IF s = Nil THEN e
     ELSE IF Stopped(merged) THEN merged ELSE ReturnActive(merged, g, s)

(* merge_group: the group before naive_start joins it ...                  *)
Join(e) ==
  LET n == e.naive
      g == n - 1
  IN ActiveMerge([e EXCEPT !.queue[n] = @ \cup e.queue[g], !.queue[g] = {},
                           !.total[n] = @ + e.total[g]], g)

(* ... and it, with what is behind it, moves down by one; the segments in  *)
(* newcomers have the label already.                                       *)
MoveDown(e, newcomers) ==
  LET n == e.naive
      g == n - 1
      top == IF e.mida THEN n + NaiveN ELSE n
      Down(f) == [h \in Groups |-> IF h \in g .. top - 1 THEN f[h + 1] ELSE f[h]]
  IN [e EXCEPT
        !.naive = g,
        !.queue = [h \in Groups |-> IF h = g THEN @[n] ELSE IF h = n THEN {} ELSE @[h]],
        !.gnum = [s \in SegIds |->
          IF s \in e.queue[n] \ newcomers \/ \E h \in n .. top : s = e.active[h].seg
          THEN @[s] - 1 ELSE @[s]],
        !.total = [Down(@) EXCEPT ![top] = 0],
        !.active = [Down(@) EXCEPT ![top] = NotActive],
        !.size[g] = @ + e.size[n] + 1]

(* hot_merge: back at one group, the hot segments share its queue again.   *)
HotMerge(e) ==
  [e EXCEPT !.queue[1] = @ \cup e.queue[0], !.queue[0] = {}, !.size[0] = 0, !.err = FALSE]

MergeGroup(e) ==
  LET g == e.naive - 1
      joined == Join(e)
      down == MoveDown(joined, e.queue[g])
  IN IF g = 0 \/ e.total[g] # Cardinality(e.queue[g]) THEN Stop(e, "merge")
     ELSE IF Stopped(joined) THEN joined ELSE IF g > 1 THEN down ELSE HotMerge(down)

(* As many merges as bring naive_start down to n.                          *)
MergeDownTo(e, n) ==
  LET Merged[i \in 0 .. e.naive - n] ==
        IF i = 0 THEN e
        ELSE IF Stopped(Merged[i - 1]) THEN Merged[i - 1] ELSE MergeGroup(Merged[i - 1])
  IN Merged[e.naive - n]

(* move_margin_seg: the segments group g has too many of go to the last    *)
(* group; which ones is a choice.                                          *)
MarginResults(e, g) ==
  LET n == e.total[g] - e.size[g]
  IN IF n > Cardinality(e.queue[g]) THEN {Stop(e, "no segment to move")}
     ELSE {[e EXCEPT !.queue[g] = @ \ moved, !.queue[e.naive] = @ \cup moved,
                     !.gnum = [s \in SegIds |-> IF s \in moved THEN e.naive ELSE @[s]],
                     !.total[g] = @ - n, !.total[e.naive] = @ + n] :
             moved \in kSubset(n, e.queue[g])}

TrimResults(e, g) ==
  IF Stopped(e) \/ e.size[g] >= e.total[g] THEN {e} ELSE MarginResults(e, g)

TrimAll(e, n) ==
  LET Trimmed[g \in 0 .. n] ==
        IF g = 0 THEN {e} ELSE UNION {TrimResults(d, g - 1) : d \in Trimmed[g - 1]}
  IN Trimmed[n]

(* change_config_2: merge or split to the number of groups asked for, then *)
(* set the sizes and take from every group what it has too much.           *)
Shape(e, last) ==
  IF last < e.naive THEN MergeDownTo(e, last)
  ELSE IF last > e.naive THEN GroupSplit(e, last) ELSE e

Resize(e, cfg) ==
  [e EXCEPT !.size = [g \in Groups |-> IF g > Len(cfg) - 1 THEN @[g]
                                       ELSE IF g = 1 THEN cfg[2] - 2 ELSE cfg[g + 1] - 1]]

ConfigResults(e, cfg) ==
  LET last == Len(cfg) - 1
      shaped == Shape(e, last)
  IN IF Stopped(shaped) THEN {shaped} ELSE TrimAll(Resize(shaped, cfg), last)

(* checking_ginfo, for a model that promises to be better.                 *)
Watching(e) ==
  IF Stopped(e) THEN e ELSE [e EXCEPT !.commit = {}, !.watch = TRUE, !.err = FALSE]

ApplyResults(e, cfg) ==
  LET off == IF e.mida THEN MidaOff(e) ELSE e
  IN {Watching(d) : d \in IF Stopped(off) THEN {off} ELSE ConfigResults(off, cfg)}

(* checking_ginfo, for one that does not: check_applying_config clears the *)
(* error flag all the same.                                                *)
Decline(e) == [e EXCEPT !.err = FALSE]

(* err_handling, when group g turned out to hold more valid pages than the *)
(* model said: the naive chain is turned on and the groups from g merged.  *)
HandleError(e, g) == MergeDownTo([e EXCEPT !.mida = TRUE], g)

-----------------------------------------------------------------------------
(* evict_one_segment: the queue it takes from, the last non-empty one.     *)
EvictGroups(e) == {g \in 0 .. e.naive : e.queue[g] # {}}
=============================================================================
