----------------------------- MODULE GroupSearch -----------------------------
(***************************************************************************)
(* making_group_configuration3 (MiDAS/model.cpp): the search for the sizes *)
(* of MiDAS's groups.  First the hot group, then one more group per level, *)
(* each level splitting the last group of the one below; the best level is *)
(* refined in rounds.                                                      *)
(*                                                                         *)
(* The predictors are floating point: what two_valid_ratio_predictor and   *)
(* two_WAF_predictor find is a choice among few ranks, but for the cases   *)
(* where the sizes alone decide.                                           *)
(***************************************************************************)
EXTENDS Integers, FiniteSets, FiniteSetsExt

CONSTANTS
  GSegs,     \* SEGNUM - FREENUM
  GMargin,   \* segments the last group keeps (50)
  GLevels,   \* 8 in the code
  GRounds,   \* 4 in the code
  GHotMax,   \* a hot group is tried up to this size (29)
  GMaxGap    \* bound: how far the predictor overshoots a hot size

ASSUME GroupSearchAssumption ==
  /\ {GSegs, GMargin, GLevels, GRounds, GHotMax, GMaxGap} \subseteq Nat
  /\ GMaxGap <= GMargin

(* The search reads no bound on the drive.  It has room on a drive that    *)
(* keeps its margin beside the largest hot group; on a smaller one the     *)
(* unsigned sizes and limits of the search wrap.                           *)
RoomyDrive == GSegs > GHotMax + GMaxGap + GMargin

VARIABLES
  gat,      \* where the search is
  gi,       \* the level, or the group a round resizes
  gj,       \* the size it tries
  grnd,     \* the round
  gcfg,     \* group_config
  gmax,     \* <<max_groupsize, tmp_maxsize>>
  gopt,     \* opt_config with opt_waf, by level
  gfin,     \* final_config, final_gnum, final_waf
  ghot,     \* real_flag, g0_desig_size, best_extra_size, calc_size, and whether
            \* calc_unit is 0 (search) and best_extra_unit is not (known)
  gadd      \* group_add_flag

gvars == <<gat, gi, gj, grnd, gcfg, gmax, gopt, gfin, ghot, gadd>>

Slots == 0 .. GLevels + 1
Empty == [s \in Slots |-> 0]
Wafs == 1 .. 3            \* predictions below 100
High == 4                 \* from 100 to 10000
NoWaf == 5                \* 10000, the value of a level without an answer
Total(c) == FoldSet(LAMBDA s, sum : sum + c[s], 0, Slots)

(* The two predictors for the groups 0 .. num - 1 of c: NULL, when the     *)
(* window is too short, a ratio not positive or the last group too small   *)
(* for its pages; nothing but an infinite WAF when the first group is      *)
(* empty.                                                                  *)
Predictions(c, num) ==
  IF c[0] = 0 THEN {NoWaf}
  ELSE IF c[num - 1] <= 0 THEN {0}
  ELSE {0, High} \cup Wafs

(* While the units of the hot group are not known the predictor looks for  *)
(* them, and takes the size they reach beyond the asked one off the last   *)
(* group; the window may also end before that size is reached.             *)
Sized(c, num, h, size) ==
  IF h.real \/ ~h.search \/ c[0] = 0 THEN {<<c, h>>}
  ELSE {<<c, h>>} \cup
       {<<[c EXCEPT ![num - 1] = @ - gap],
          [h EXCEPT !.calc = size + gap, !.search = FALSE]>> : gap \in 0 .. GMaxGap}

(* best_extra_unit is what an earlier search left.                         *)
Hots == [real : BOOLEAN, desig : {0}, extra : {0}, calc : {0}, search : {TRUE}, known : BOOLEAN]

(* The size the predictor reached becomes the best, with its units.        *)
Best(h) == [h EXCEPT !.extra = h.calc, !.known = ~h.search]

NoAnswers == [k \in 0 .. GLevels |-> [c |-> Empty, waf |-> NoWaf]]

GSInit ==
  /\ gat = "hot" /\ gi = 0 /\ gj = 1 /\ grnd = 0
  /\ gcfg = Empty /\ gmax = <<0, 0>> /\ gadd = FALSE
  /\ gopt = [NoAnswers EXCEPT ![0].c = [Empty EXCEPT ![0] = GSegs]]
  /\ gfin = [c |-> Empty, num |-> 1, waf |-> High]
  /\ ghot \in Hots

-----------------------------------------------------------------------------
(* The levels begin with what is left of the drive.                        *)
ToLevels(opt, h) ==
  /\ gat' = "levels" /\ gi' = 0 /\ gj' = 1 /\ gadd' = FALSE
  /\ gmax' = LET m == opt[0].c[0] - GMargin IN <<m, m>>
  /\ gcfg' = [opt[0].c EXCEPT ![1] = opt[0].c[0], ![0] = 1]
  /\ gopt' = opt
  /\ ghot' = [h EXCEPT !.desig = h.extra, !.search = ~h.known]
  /\ UNCHANGED <<grnd, gfin>>

(* The measured hot group: its size is given.                              *)
HotMeasured ==
  /\ gat = "hot" /\ ghot.real
  /\ \E size \in 1 .. GHotMax :
       LET c == [Empty EXCEPT ![0] = GSegs - size]
       IN \E w \in Predictions(c, 1) :
            IF w \in {0, High}
            THEN gat' = "none" /\ UNCHANGED <<gi, gj, grnd, gcfg, gmax, gopt, gfin, ghot, gadd>>
            ELSE ToLevels([gopt EXCEPT ![0] = [c |-> c, waf |-> w]],
                          [ghot EXCEPT !.extra = size])

(* The hot group from the model: sizes are tried while the WAF falls.      *)
HotTried ==
  /\ gat = "hot" /\ ~ghot.real
  /\ IF gj > GHotMax THEN ToLevels(gopt, ghot)
     ELSE IF gj <= ghot.calc
     THEN gj' = gj + 1 /\ UNCHANGED <<gat, gi, grnd, gcfg, gmax, gopt, gfin, ghot, gadd>>
     ELSE \E ch \in Sized([Empty EXCEPT ![0] = GSegs - gj], 1, [ghot EXCEPT !.search = TRUE], gj) :
          \E w \in Predictions(ch[1], 1) :
            IF w # 0 /\ w < gopt[0].waf
            THEN /\ gopt' = [gopt EXCEPT ![0] = [c |-> ch[1], waf |-> w]]
                 /\ ghot' = Best(ch[2])
                 /\ gj' = gj + 1
                 /\ UNCHANGED <<gat, gi, grnd, gcfg, gmax, gfin, gadd>>
            ELSE ToLevels(gopt, ch[2])

-----------------------------------------------------------------------------
(* max_groupsize is unsigned: below zero it is no limit.                   *)
InRange == gj < gmax[1] \/ gmax[1] < 0

(* Level gi: the last group of the level below is split in two, the first  *)
(* of them gj segments.                                                    *)
TrySplit ==
  /\ gat = "levels" /\ gi < GLevels /\ InRange
  /\ LET c == [gcfg EXCEPT ![gi] = gj, ![gi + 1] = @ - 1]
     IN IF c[gi + 1] = 0 THEN gat' = "abort" /\ UNCHANGED <<gi, gj, grnd, gcfg, gmax, gopt, gfin, ghot, gadd>>
        ELSE \E ch \in Sized(c, gi + 2, ghot, ghot.desig) :
             \E w \in Predictions(ch[1], gi + 2) :
               /\ gcfg' = ch[1] /\ ghot' = ch[2] /\ gj' = gj + 1
               /\ UNCHANGED <<gat, gi, grnd, gfin>>
               /\ IF w # 0 /\ w < gopt[gi + 1].waf
                  THEN /\ gopt' = [gopt EXCEPT ![gi + 1] = [c |-> ch[1], waf |-> w]]
                       /\ gadd' = TRUE
                       /\ gmax' = [gmax EXCEPT ![2] = gmax[1] - gj]
                  ELSE UNCHANGED <<gopt, gadd, gmax>>

(* The next level splits the last group of this level's best.              *)
NextLevel ==
  /\ gat = "levels" /\ gi < GLevels /\ ~InRange
  /\ gi' = gi + 1 /\ gj' = 1 /\ gadd' = FALSE
  /\ LET c == gopt[gi + 1].c
     IN gcfg' = IF gi + 1 < GLevels THEN [c EXCEPT ![gi + 2] = c[gi + 1], ![gi + 1] = 1] ELSE c
  /\ gmax' = [gmax EXCEPT ![1] = gmax[2]]
  /\ UNCHANGED <<gat, grnd, gopt, gfin, ghot>>

(* The best level: the first of the lowest WAFs, if it is below 100.  The  *)
(* other levels are not looked at again.                                   *)
PickLevel ==
  /\ gat = "levels" /\ gi = GLevels
  /\ LET low == Min({gopt[k].waf : k \in 0 .. GLevels})
         k == Min({l \in 0 .. GLevels : gopt[l].waf = low})
     IN IF low < High
        THEN /\ gfin' = [c |-> gopt[k].c, num |-> k + 1, waf |-> low]
             /\ gat' = "round"
        ELSE gat' = "answer" /\ UNCHANGED gfin
  /\ gopt' = NoAnswers
  /\ UNCHANGED <<gi, gj, grnd, gcfg, gmax, ghot, gadd>>

-----------------------------------------------------------------------------
(* A round begins.  Without a measured hot group its size is tried again:  *)
(* the last group takes back the size asked for last.                      *)
BeginRound ==
  /\ gat = "round"
  /\ IF grnd = GRounds THEN gat' = "answer" /\ UNCHANGED <<gi, gj, grnd, gcfg, ghot, gadd>>
     ELSE /\ grnd' = grnd + 1 /\ gi' = 0 /\ gj' = 1 /\ gadd' = FALSE
          /\ gat' = IF ghot.real THEN "group" ELSE "rehot"
          /\ gcfg' = IF ghot.real THEN gfin.c
                     ELSE [gfin.c EXCEPT ![gfin.num - 1] = @ + ghot.desig]
          /\ ghot' = [ghot EXCEPT !.calc = 0]
  /\ UNCHANGED <<gmax, gopt, gfin>>

(* From the hot group to the others.                                       *)
ToGroups(h) ==
  /\ gat' = "group" /\ gi' = 0 /\ gj' = 1 /\ gcfg' = gfin.c /\ gadd' = FALSE
  /\ ghot' = [h EXCEPT !.search = ~h.known]

(* One size of the hot group: every size is tried until the predictor      *)
(* gives NULL.                                                             *)
TryHot ==
  /\ gat = "rehot"
  /\ UNCHANGED <<grnd, gmax, gopt>>
  /\ IF gj > GHotMax THEN ToGroups(ghot) /\ UNCHANGED gfin
     ELSE IF gj <= ghot.calc THEN gj' = gj + 1 /\ UNCHANGED <<gat, gi, gcfg, gfin, ghot, gadd>>
     ELSE LET n == gfin.num
          IN \E ch \in Sized([gcfg EXCEPT ![n - 1] = @ - gj], n, [ghot EXCEPT !.search = TRUE], gj) :
             \E w \in Predictions(ch[1], n) :
               IF w = 0 THEN ToGroups(ch[2]) /\ UNCHANGED gfin
               ELSE /\ gj' = gj + 1 /\ UNCHANGED <<gat, gi, gcfg, gadd>>
                    /\ IF w < gfin.waf
                       THEN /\ gfin' = [gfin EXCEPT !.c = ch[1], !.waf = w]
                            /\ ghot' = [Best(ch[2]) EXCEPT !.desig = gj]
                       ELSE UNCHANGED gfin /\ ghot' = ch[2]

(* How many groups a configuration has that resizes group gi.              *)
Num == IF gi < gfin.num - 1 THEN gfin.num ELSE gfin.num + 1

(* Slip: the group resized keeps its segments.                             *)
SlipTakeGroup ==
  /\ gat = "group"
  /\ IF gi = GLevels THEN gat' = "round" /\ UNCHANGED <<gj, gcfg, gmax, gadd>>
     ELSE LET last == gcfg[gi]
          IN /\ gat' = "resize" /\ gj' = 1 /\ gadd' = FALSE
             /\ gcfg' = [gcfg EXCEPT ![Num - 1] = last]
             /\ gmax' = [gmax EXCEPT ![1] = last - GMargin]
  /\ UNCHANGED <<gi, grnd, gopt, gfin, ghot>>

(* The group resized is emptied into the last one; a group beyond the last *)
(* takes its place, and makes one more.                                    *)
TakeGroup ==
  /\ gat = "group"
  /\ IF gi = GLevels THEN gat' = "round" /\ UNCHANGED <<gj, gcfg, gmax, gadd>>
     ELSE LET last == IF gi < gfin.num - 1 THEN gcfg[Num - 1] + gcfg[gi] ELSE gcfg[gi]
          IN /\ gat' = "resize" /\ gj' = 1 /\ gadd' = FALSE
             /\ gcfg' = [gcfg EXCEPT ![Num - 1] = last, ![gi] = 0]
             /\ gmax' = [gmax EXCEPT ![1] = last - GMargin]
  /\ UNCHANGED <<gi, grnd, gopt, gfin, ghot>>

(* Slip: the same group again.                                             *)
SlipLeaveGroup ==
  /\ gcfg' = gfin.c
  /\ gat' = IF ~gadd /\ gi >= gfin.num - 1 THEN "round" ELSE "group"
  /\ UNCHANGED <<gi, gj, gfin, gadd>>

(* After its sizes: the next group, or the next round when this one was    *)
(* the last and none of its sizes was better.                              *)
LeaveGroup ==
  /\ gcfg' = gfin.c
  /\ IF ~gadd /\ gi >= gfin.num - 1 THEN gat' = "round" /\ UNCHANGED gi
                                     ELSE gat' = "group" /\ gi' = gi + 1
  /\ UNCHANGED <<gj, gfin, gadd>>

(* One size of the group resized; without a limit, NULL ends it.           *)
TryGroup ==
  /\ gat = "resize"
  /\ UNCHANGED <<grnd, gmax, gopt>>
  /\ IF ~InRange THEN LeaveGroup /\ UNCHANGED ghot
     ELSE LET c == [gcfg EXCEPT ![gi] = gj, ![Num - 1] = @ - 1]
          IN \E ch \in Sized(c, Num, ghot, ghot.desig) : \E w \in Predictions(ch[1], Num) :
               /\ ghot' = ch[2]
               /\ IF w = 0 THEN LeaveGroup
                  ELSE /\ gcfg' = ch[1] /\ gj' = gj + 1
                       /\ UNCHANGED <<gat, gi>>
                       /\ IF w < gfin.waf
                          THEN gfin' = [c |-> ch[1], num |-> Num, waf |-> w] /\ gadd' = TRUE
                          ELSE UNCHANGED <<gfin, gadd>>

GSNext == \/ HotMeasured \/ HotTried \/ TrySplit \/ NextLevel \/ PickLevel
          \/ BeginRound \/ TryHot \/ TakeGroup \/ TryGroup

GSSpec == GSInit /\ [][GSNext]_gvars /\ WF_gvars(GSNext)

-----------------------------------------------------------------------------
(* The answer, ginfo->gsize: the hot group, and then the others.           *)
Answered == gat = "answer" /\ gfin.num >= 2

(* The groups of an answer fit the drive, though five pieces of the search *)
(* take from and give back to the last group, and no group but the hot one *)
(* is empty.  With a measured hot group they make up the whole drive.      *)
AnswerFits ==
  Answered => /\ ghot.extra + Total(gfin.c) <= GSegs
              /\ ghot.real => ghot.extra + Total(gfin.c) = GSegs
              /\ \A s \in Slots : gfin.c[s] > 0 <=> s < gfin.num

(* The search ends, with an answer or without one: the abort of a level    *)
(* whose last group is used up (model.cpp:550) is not an end.              *)
SearchEnds == <>[](gat \in {"none", "answer"})
=============================================================================
