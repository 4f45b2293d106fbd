----------------------------- MODULE DPOptimizer -----------------------------
(***************************************************************************)
(* The offline optimizer (dp_optimizer.cpp).  Several runs of the cache    *)
(* were measured; every reading of a run falls in a bin by the utilization *)
(* it had.  The program finds the cheapest way through the bins, a bin for *)
(* each step, where only at every decision_interval-th step the bin may    *)
(* change, by one, or by two over a bin that has no reading.               *)
(*                                                                         *)
(* A definition named Slip... is a plausible slip in the definition that   *)
(* follows it, and is used by no specification.                            *)
(***************************************************************************)
EXTENDS Integers, Sequences, FiniteSetsExt, SequencesExt

CONSTANTS
  DRuns,       \* the runs: the number each has in its file's name
  DBins,       \* utilizations a reading may have, natural numbers
  DCosts,      \* costs of a step
  DSteps,      \* T
  DIntervals,  \* values of decision_interval
  DInf,        \* INF: larger than the cost of any schedule
  DNo          \* no bin, no state

ASSUME DPAssumption ==
  /\ DRuns \subseteq Nat /\ DBins \subseteq Nat /\ DSteps \in Nat \ {0}
  /\ DIntervals \subseteq Nat \ {0} /\ DNo \notin Nat
  /\ DInf \in Nat /\ \A c \in DCosts : c \in Nat /\ c * DSteps < DInf

VARIABLES
  dinterval,  \* decision_interval
  grid,       \* for every step, the cost of every bin
  dp,         \* DP, by step
  parent,     \* parent, by step
  schedule    \* choice; empty until it is found, <<DNo>> if bestk is -1

dvars == <<dinterval, grid, dp, parent, schedule>>

DPInit == dinterval \in DIntervals /\ grid = <<>> /\ dp = <<>> /\ parent = <<>> /\ schedule = <<>>

(* Of the readings in a bin, the one of the run with the largest number.   *)
MeasureStep ==
  /\ Len(grid) < DSteps
  /\ \E bin \in [DRuns -> DBins \cup {DNo}], cost \in [DRuns -> DCosts] :
       LET In(b) == {r \in DRuns : bin[r] = b}
       IN grid' = Append(grid, [b \in DBins |-> IF In(b) = {} THEN DInf ELSE cost[Max(In(b))]])
  /\ UNCHANGED <<dinterval, dp, parent, schedule>>

(* The bins that have a reading, in order: the states of the search.       *)
Series == SetToSortSeq({b \in DBins : \E t \in 1 .. Len(grid) : grid[t][b] # DInf}, <)
Ratios == 1 .. Len(Series)
Cost(k, t) == grid[t + 1][Series[k]]
Plus(x, y) == IF x + y >= DInf THEN DInf ELSE x + y
Away(j, k) == IF j < k THEN k - j ELSE j - k

(* Slip: whether the bin between has a reading is looked up a step late.   *)
SlipSources(k, t) ==
  IF t % dinterval # 0 THEN {k}
  ELSE {j \in Ratios : Away(j, k) <= 2 /\ (Away(j, k) = 2 => Cost((j + k) \div 2, t) = DInf)}

(* The states that state k of step t may follow.                           *)
Sources(k, t) ==
  IF t % dinterval # 0 THEN {k}
  ELSE {j \in Ratios : Away(j, k) <= 2 /\ (Away(j, k) = 2 => Cost((j + k) \div 2, t - 1) = DInf)}

(* One pass of the loop over t; t is Len(dp).  The first of equals wins.   *)
Advance ==
  /\ Len(grid) = DSteps /\ Len(dp) < DSteps
  /\ LET t == Len(dp)
         By(j, k) == Plus(dp[t][j], Cost(k, t))
         Least(k) == Min({By(j, k) : j \in Sources(k, t)})
         First(k) == Min({j \in Sources(k, t) : By(j, k) = Least(k)})
     IN IF t = 0 THEN /\ dp' = <<[k \in Ratios |-> Cost(k, 0)]>>
                      /\ parent' = <<[k \in Ratios |-> DNo]>>
        ELSE /\ dp' = Append(dp, [k \in Ratios |-> Least(k)])
             /\ parent' = Append(parent, [k \in Ratios |->
                    IF Least(k) = DInf /\ t % dinterval = 0 THEN DNo ELSE First(k)])
  /\ UNCHANGED <<dinterval, grid, schedule>>

(* The best final state and the way back from it.  When no state can be    *)
(* reached the program reads series[-1].                                   *)
Recover ==
  /\ Len(dp) = DSteps /\ schedule = <<>>
  /\ LET least == Min({dp[DSteps][k] : k \in Ratios} \cup {DInf})
         back[t \in 1 .. DSteps] ==
           IF t = DSteps THEN Min({k \in Ratios : dp[t][k] = least}) ELSE parent[t + 1][back[t + 1]]
     IN schedule' = IF least = DInf THEN <<DNo>> ELSE back
  /\ UNCHANGED <<dinterval, grid, dp, parent>>

DPNext == MeasureStep \/ Advance \/ Recover

-----------------------------------------------------------------------------
(* What a schedule may be, and what it costs, said without the table.      *)
Allowed(s) ==
  \A t \in 2 .. DSteps : s[t] # s[t - 1] =>
    /\ (t - 1) % dinterval = 0
    /\ \/ Away(s[t], s[t - 1]) = 1
       \/ Away(s[t], s[t - 1]) = 2 /\ grid[t - 1][Series[(s[t] + s[t - 1]) \div 2]] = DInf

Spent(s) == MapThenSumSet(LAMBDA t : Cost(s[t], t - 1), 1 .. DSteps)

Possible == {s \in [1 .. DSteps -> Ratios] :
              Allowed(s) /\ \A t \in 1 .. DSteps : Cost(s[t], t - 1) # DInf}

(* The schedule printed follows the rule for changing bins, meets a        *)
(* reading in every step, and no schedule that does is cheaper; if none is *)
(* printed then none exists.  That the search looks back one step at a     *)
(* time, and fills the schedule in from the parents, loses nothing.        *)
DPOptimal ==
  schedule # <<>> =>
    IF schedule = <<DNo>> THEN Possible = {}
    ELSE schedule \in Possible /\ \A s \in Possible : Spent(schedule) <= Spent(s)
==============================================================================
