------------------------------ MODULE MiniModel ------------------------------
(***************************************************************************)
(* The miniature model of MiDAS (MiDAS/model.cpp) and the thread that      *)
(* computes a group configuration from it.                                 *)
(*                                                                         *)
(* The writing thread counts, for every sampled lba, after how many units  *)
(* of time it is written again.  When the time window is over it switches  *)
(* counting off and starts a thread, which holds model_mutex while it      *)
(* works.  The thread's answer is ginfo, published through ginfo->valid    *)
(* without the mutex; the writing thread takes it after a later write,     *)
(* and starts the next window with model_initialize, under the mutex.      *)
(*                                                                         *)
(* The prediction itself is floating point and left out: what the thread   *)
(* finds is a choice.                                                      *)
(***************************************************************************)
EXTENDS Integers, Sequences, FiniteSets, FiniteSetsExt

CONSTANTS
  LbaCount,   \* lbas are 0 .. LbaCount - 1
  Ratio,      \* lba_sampling_ratio (100)
  Unit,       \* interval_unit_size, writes per unit of time
  Window,     \* the first time_window, in units
  MaxWindow,  \* bound: a longer window is not asked for
  FNumber,    \* units looked at lba by lba (10)
  LoadTime,   \* writes before the model's time starts
  Never       \* UINT_MAX, the stamp of an lba not yet written

Lbas == 0 .. LbaCount - 1
Samples == 0 .. (LbaCount \div Ratio) - 1

(* Time stamps are doubled, and must stay below the two marks.             *)
(* LBANUM is taken as a multiple of the ratio: for another one the code has *)
(* no stamp for the last sampled lba.                                      *)
ASSUME MiniModelAssumption ==
  /\ LbaCount % Ratio = 0
  /\ LbaCount \in Nat /\ Ratio \in Nat \ {0} /\ Unit \in Nat \ {0}
  /\ FNumber \in Nat \ {0} /\ LoadTime \in Nat /\ Never \in Nat
  /\ Window \in Nat /\ MaxWindow \in Nat
  /\ FNumber < Window /\ Window <= MaxWindow
  /\ 2 * (MaxWindow * Unit) + 1 < Never - 1

VARIABLES
  on,         \* model_on: the writing thread counts
  tw,         \* time_window = entry_num
  now,        \* mm_time: <<current_time, request_time>>
  load,       \* load_timing
  stamp,      \* time_stamp, by sample
  count,      \* model_count, by interval
  first,      \* first_count
  buf,        \* updated_lbas of the unit looked at, or "none"
  again,      \* history: sampled writes of an lba written before
  pc,         \* where the writing thread is: "write", "ginfo", "reset"
  lock,       \* model_mutex: who holds it, or "free"
  tpc,        \* the thread: "none", "made", "works", "returns", "stuck", "silent"
  valid,      \* ginfo->valid
  errs        \* <<tmp_err_cnt > 0, err_cnt up to 2>>

counting == <<now, load, stamp, count, first, buf, again>>
vars == <<on, tw, counting, pc, lock, tpc, valid, errs>>

Sum(f) == FoldSet(LAMBDA i, sum : sum + f[i], 0, DOMAIN f)
NoCounts(n) == [i \in 0 .. n - 1 |-> 0]

(* model_create                                                            *)
Init ==
  /\ on = TRUE /\ tw = Window /\ now = <<0, 0>> /\ load = 0
  /\ stamp = [s \in Samples |-> Never] /\ count = NoCounts(Window)
  /\ first = 0 /\ buf = {} /\ again = 0
  /\ pc = "write" /\ lock = "free" /\ tpc = "none"
  /\ valid = FALSE /\ errs = <<FALSE, 0>>

(* check_time_window and time_managing for a write, before the window's    *)
(* end: the model's time starts when the load is over.                     *)
Later ==
  IF load < LoadTime THEN now
  ELSE IF now[2] + 1 = Unit THEN <<now[1] + 1, 0>>
  ELSE <<now[1], now[2] + 1>>

(* The units whose writes check_first_interval looks at, spread over the   *)
(* first window; a longer window leaves them where they were.              *)
LookedAt == {(Window \div (FNumber + 1)) * i : i \in 1 .. FNumber}

(* check_first_interval: at the first write of such a unit the list of     *)
(* lbas is made, at the last it is freed.                                  *)
LookAt(t, lba) ==
  LET had == IF t[2] = 0 THEN {} ELSE buf
  IN IF t[1] \notin LookedAt THEN UNCHANGED <<first, buf>>
     ELSE /\ first' = IF lba \in had THEN first + 1 ELSE first
          /\ buf' = IF t[2] = Unit - 1 THEN {} ELSE had \cup {lba}

(* update_count for a write of the sample s at time t: the low bit of a    *)
(* stamp says that the lba has been written only once.                     *)
UpdateCount(t, s) ==
  LET time == t[1] * Unit + t[2]
      gap == (time - (stamp[s] \div 2)) \div Unit
      interval == IF gap >= tw THEN tw - 1 ELSE gap
  IN /\ stamp' = [stamp EXCEPT ![s] = IF @ = Never THEN 2 * time + 1 ELSE 2 * time]
     /\ IF stamp[s] \in {Never, Never - 1}
        THEN UNCHANGED count
        ELSE count' = [count EXCEPT ![interval] = @ + 1]
     /\ again' = IF stamp[s] = Never THEN again ELSE again + 1

(* Slip: the thread is made, and the writing thread goes on counting.      *)
SlipWrite(lba) ==
  /\ pc = "write" /\ pc' = "ginfo"
  /\ UNCHANGED <<on, tw, lock, valid, errs, first, buf>>
  /\ now[1] < tw /\ now' = Later /\ load' = Min({load + 1, LoadTime})
  /\ IF now'[1] >= tw
     THEN tpc' = "made" /\ UNCHANGED <<stamp, count, again>>
     ELSE UNCHANGED tpc /\ UpdateCount(now', 0)

(* The part of modeling_check that counts the write of an lba.             *)
Write(lba) ==
  /\ pc = "write" /\ pc' = "ginfo"
  /\ UNCHANGED <<tw, lock, valid, errs>>
  /\ IF ~on \/ now[1] = tw THEN UNCHANGED <<on, counting, tpc>>
     ELSE LET t == Later
          IN /\ now' = t
             /\ load' = IF load < LoadTime THEN load + 1 ELSE load
             /\ IF t = <<0, 0>> THEN UNCHANGED <<on, stamp, count, first, buf, again, tpc>>
                ELSE IF t[1] >= tw
                THEN /\ on' = FALSE /\ tpc' = "made"
                     /\ UNCHANGED <<stamp, count, first, buf, again>>
                ELSE /\ LookAt(t, lba)
                     /\ UNCHANGED <<on, tpc>>
                     /\ IF lba % Ratio # 0 THEN UNCHANGED <<stamp, count, again>>
                        ELSE UpdateCount(t, lba \div Ratio)

(* err_handling and infinite_gc_handling count an error of the model.      *)
ModelErrs ==
  /\ pc = "write" /\ ~errs[1]
  /\ errs' = <<TRUE, errs[2]>>
  /\ UNCHANGED <<on, tw, counting, pc, lock, tpc, valid>>

(* model_resizing_timewindow to twice the window.                          *)
Longer ==
  /\ 2 * tw <= MaxWindow
  /\ tw' = 2 * tw
  /\ count' = NoCounts(2 * tw)

(* checking_ginfo: with an answer, and if the model errs again and again   *)
(* with a longer window, the next window is about to start.                *)
CheckGinfo ==
  LET seen == IF errs[1] THEN Min({errs[2] + 1, 2}) ELSE 0
  IN /\ pc = "ginfo"
     /\ UNCHANGED <<on, now, load, stamp, first, buf, again, lock, tpc, valid>>
     /\ \/ ~valid /\ pc' = "write" /\ UNCHANGED <<tw, count, errs>>
        \/ /\ valid /\ pc' = "reset"      \* applied
           /\ errs' = <<FALSE, seen>>
           /\ IF seen = 2 THEN Longer ELSE UNCHANGED <<tw, count>>
        \/ /\ valid /\ pc' = "reset"      \* no better
           /\ errs' = <<FALSE, IF errs[1] THEN seen ELSE errs[2]>>
           /\ UNCHANGED <<tw, count>>

(* Slip: the stamps of the last window are kept.                           *)
SlipInitialize ==
  /\ count' = NoCounts(tw) /\ first' = 0 /\ again' = 0
  /\ now' = <<0, 0>> /\ errs' = <<FALSE, errs[2]>>
  /\ on' = TRUE
  /\ UNCHANGED <<stamp, load, buf>>

(* model_initialize, once it has the mutex.                                *)
Initialize ==
  /\ stamp' = [s \in Samples |-> Never]
  /\ count' = NoCounts(tw) /\ first' = 0 /\ again' = 0
  /\ now' = <<0, 0>> /\ errs' = <<FALSE, errs[2]>>
  /\ on' = TRUE
  /\ UNCHANGED <<load, buf>>

(* Slip: the next window is begun with the model off.                      *)
SlipReset ==
  /\ pc = "reset" /\ lock = "free" /\ pc' = "write"
  /\ valid' = FALSE
  /\ UNCHANGED <<on, tw, counting, lock, tpc, errs>>

(* The end of checking_ginfo: model_initialize, and ginfo is taken.        *)
Reset ==
  /\ pc = "reset" /\ lock = "free"
  /\ Initialize
  /\ valid' = FALSE
  /\ pc' = "write"
  /\ UNCHANGED <<tw, lock, tpc>>

-----------------------------------------------------------------------------
(* making_group_configuration3 takes the mutex.                            *)
ThreadStart ==
  /\ tpc = "made" /\ lock = "free"
  /\ tpc' = "works" /\ lock' = "model"
  /\ UNCHANGED <<on, tw, counting, pc, valid, errs>>

(* resizing_model: lbas written once are added to the last interval, and   *)
(* the first interval is what was counted lba by lba.  The growth of the   *)
(* others is left out.                                                     *)
Resized ==
  LET once == Cardinality({s \in Samples : stamp[s] # Never /\ stamp[s] % 2 = 1})
      last == [count EXCEPT ![tw - 1] = @ + once]
  IN IF Ratio = 1 \/ FNumber = 1 THEN last
     ELSE [last EXCEPT ![0] = ((first * tw) \div FNumber) \div Ratio]

(* It has a configuration of at least three groups, or none.               *)
ThreadAnswers ==
  /\ tpc = "works"
  /\ count' = Resized
  /\ \/ valid' = TRUE /\ tpc' = "returns"
     \/ UNCHANGED valid /\ tpc' = "silent"
  /\ UNCHANGED <<on, tw, now, load, stamp, first, buf, again, pc, lock, errs>>

(* It cannot predict: it may ask for a longer window, and calls            *)
(* model_initialize, whose lock_guard waits for the mutex it holds itself. *)
ThreadGivesUp ==
  /\ tpc = "works"
  /\ Longer \/ UNCHANGED <<tw, count>>
  /\ tpc' = "stuck"
  /\ UNCHANGED <<on, now, load, stamp, first, buf, again, pc, lock, valid, errs>>

(* The thread ends, and with it the scope of its lock_guard.               *)
ThreadReturns ==
  /\ tpc \in {"returns", "silent"} /\ lock = "model"
  /\ lock' = "free"
  /\ tpc' = IF tpc = "returns" THEN "none" ELSE tpc
  /\ UNCHANGED <<on, tw, counting, pc, valid, errs>>

MainNext == (\E lba \in Lbas : Write(lba)) \/ ModelErrs \/ CheckGinfo \/ Reset
ThreadNext == ThreadStart \/ ThreadAnswers \/ ThreadGivesUp \/ ThreadReturns

Next == MainNext \/ ThreadNext

(* The host goes on writing, and both threads are scheduled.               *)
Spec ==
  /\ Init /\ [][Next]_vars
  /\ WF_vars(\E lba \in Lbas : Write(lba)) /\ WF_vars(CheckGinfo) /\ WF_vars(Reset)
  /\ WF_vars(ThreadNext)

-----------------------------------------------------------------------------
(* While the model is on, the counts are those of this window: one for     *)
(* every sampled write of an lba that was written before in it.            *)
CountsExact == on => Sum(count) = again

(* What the thread computes from nobody changes under it, though counting  *)
(* takes no mutex and ginfo->valid is read without it: from the creation of *)
(* the thread until its answer is taken the writing thread does not count, *)
(* and it reaches model_initialize only for an answer already published.   *)
ModelAlone ==
  /\ tpc \in {"made", "works"} => ~on /\ ~valid /\ pc # "reset"
  /\ tpc \in {"works", "returns", "stuck"} => lock = "model"
  /\ tpc \in {"none", "made"} => lock = "free"
  /\ valid \/ pc = "reset" => ~on /\ tpc \in {"returns", "none"}

(* Counting starts again after every window, unless the thread gave up or  *)
(* had nothing to say: then it never does.                                 *)
ModelGoesOn == []<>on \/ <>[](tpc \in {"stuck", "silent"})
=============================================================================
