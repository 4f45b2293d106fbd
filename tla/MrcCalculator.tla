---------------------------- MODULE MrcCalculator ----------------------------
(***************************************************************************)
(* The miss ratio curve (mrc_calculator.cpp, mrc_main.cpp): for a trace of *)
(* block writes, the misses a cache of each size would have.  One pass     *)
(* links every access to the last one of its block (LRU) or to the next    *)
(* (OPT); a second counts, with a Fenwick tree that marks one access of    *)
(* every block, the blocks between; a third adds the distances up and      *)
(* prints a curve at every checkpoint.  Accesses and buckets count from 0. *)
(*                                                                         *)
(* A definition named Slip... is a plausible slip in the definition that   *)
(* follows it, and is used by no specification.                            *)
(***************************************************************************)
EXTENDS Integers, Sequences, FiniteSetsExt, SequencesExt

CONSTANTS
  MBlocks,    \* the blocks
  MLen,       \* bound: length of a trace
  MShapes,    \* pairs: total_dataset_size, num_buckets
  MInterval,  \* blocks per interval
  MNever      \* no access; the distance of an access that has no partner

ASSUME MrcAssumption ==
  /\ MLen \in Nat \ {0} /\ MInterval \in Nat \ {0} /\ MNever \notin Nat
  /\ \A s \in MShapes : s[1] \in Nat \ {0} /\ s[2] \in Nat \ {0}

VARIABLES
  trace, type, shape,  \* the arguments
  pass,                \* the loop that runs: "read", "link", "measure", "tally"
  done,                \* accesses this loop has done
  link, last,          \* link, last
  tree, occ,           \* the Fenwick tree, and the access it marks of a block
  distances,
  bins, curves         \* bins, out

mvars == <<trace, type, shape, pass, done, link, last, tree, occ, distances, bins, curves>>

n == Len(trace)

MrcInit ==
  /\ trace = <<>> /\ type \in {"LRU", "OPT"} /\ shape \in MShapes
  /\ pass = "read" /\ done = 0 /\ link = <<>> /\ distances = <<>>
  /\ last = [b \in MBlocks |-> MNever] /\ occ = [b \in MBlocks |-> MNever]
  /\ tree = [j \in 1 .. MLen |-> 0]
  /\ bins = [b \in 0 .. shape[2] - 1 |-> 0] /\ curves = <<>>

(* The next block of the trace, or its end.                                *)
ReadBlock ==
  /\ pass = "read" /\ n < MLen
  /\ \E b \in MBlocks : trace' = Append(trace, b)
  /\ UNCHANGED <<type, shape, pass, done, link, last, tree, occ, distances, bins, curves>>

ReadEnds ==
  /\ pass = "read" /\ n > 0
  /\ pass' = "link"
  /\ link' = [i \in 0 .. n - 1 |-> MNever] /\ distances' = [i \in 0 .. n - 1 |-> MNever]
  /\ UNCHANGED <<trace, type, shape, done, last, tree, occ, bins, curves>>

(* LRU goes through the trace forward, OPT backward.                       *)
At == IF type = "LRU" THEN done ELSE n - 1 - done
Goes(here, next) == IF done + 1 = n THEN pass' = next /\ done' = 0
                    ELSE pass' = here /\ done' = done + 1

LinkAccess ==
  /\ pass = "link"
  /\ link' = [link EXCEPT ![At] = last[trace[At + 1]]]
  /\ last' = [last EXCEPT ![trace[At + 1]] = At]
  /\ Goes("link", "measure")
  /\ UNCHANGED <<trace, type, shape, tree, occ, distances, bins, curves>>

(* FenwickTree: the nodes an update changes and those a query adds up.     *)
LowBit(x) == Max({p \in {1, 2, 4, 8, 16} : x % p = 0})
Upward(i) ==
  LET from[j \in 1 .. 2 * n] == IF j > n THEN {} ELSE {j} \cup from[j + LowBit(j)]
  IN from[i + 1]
Downward(i) ==
  LET from[j \in 0 .. n] == IF j = 0 THEN {} ELSE {j} \cup from[j - LowBit(j)]
  IN from[i + 1]
Update(t, i, delta) == [j \in DOMAIN t |-> IF j \in Upward(i) THEN t[j] + delta ELSE t[j]]
Query(t, i) == MapThenSumSet(LAMBDA j : t[j], Downward(i))

(* Slip: the older access of a block keeps its mark.                       *)
SlipMarked(i) == Update(tree, i, 1)

(* The mark of the block moves to access i.                                *)
Marked(i) ==
  LET before == occ[trace[i + 1]]
  IN Update(IF before = MNever THEN tree ELSE Update(tree, before, -1), i, 1)

MeasureAccess ==
  /\ pass = "measure"
  /\ LET i == At
         p == link[i]
         between == IF type = "LRU" THEN Query(tree, i - 1) - Query(tree, p)
                                    ELSE Query(tree, p - 1) - Query(tree, i)
     IN /\ distances' = [distances EXCEPT ![i] = IF p = MNever THEN MNever ELSE between + 1]
        /\ tree' = Marked(i)
        /\ occ' = [occ EXCEPT ![trace[i + 1]] = i]
  /\ Goes("measure", "tally")
  /\ UNCHANGED <<trace, type, shape, link, last, bins, curves>>

BinSize == (shape[1] + shape[2] - 1) \div shape[2]

(* Slip: a distance d falls in the bin of d instead of d - 1.              *)
SlipBinOf(d) == IF d \div BinSize >= shape[2] THEN shape[2] - 1 ELSE d \div BinSize

BinOf(d) == LET b == (d - 1) \div BinSize IN IF b >= shape[2] THEN shape[2] - 1 ELSE b

(* The misses by cache size: the loop stops at total_dataset_size.         *)
Curve(counts, accesses) ==
  LET Size(b) == IF (b + 1) * BinSize > shape[1] THEN shape[1] ELSE (b + 1) * BinSize
      printed == {b \in DOMAIN counts : b = 0 \/ Size(b - 1) < shape[1]}
      Hits(b) == MapThenSumSet(LAMBDA c : counts[c], 0 .. b)
  IN {[size |-> Size(b), misses |-> accesses - Hits(b)] : b \in printed}

(* Checkpoints are the multiples of the interval and the end.              *)
TallyAccess ==
  /\ pass = "tally"
  /\ LET d == distances[done]
         counts == IF d = MNever THEN bins ELSE [bins EXCEPT ![BinOf(d)] = @ + 1]
     IN /\ bins' = counts
        /\ curves' = IF (done + 1) % MInterval = 0 \/ done + 1 = n
                     THEN Append(curves, [accesses |-> done + 1, mrc |-> Curve(counts, done + 1)])
                     ELSE curves
  /\ Goes("tally", "end")
  /\ UNCHANGED <<trace, type, shape, link, last, tree, occ, distances>>

MrcNext == ReadBlock \/ ReadEnds \/ LinkAccess \/ MeasureAccess \/ TallyAccess

-----------------------------------------------------------------------------
(* Accesses of the block of access i before it, and after it.              *)
Earlier(i) == {j \in 1 .. i : trace[j] = trace[i + 1]}
Later(i) == {j \in i + 2 .. n : trace[j] = trace[i + 1]}

(* The distance of an access is the number of different blocks since the   *)
(* last access of its block (until the next, for OPT), itself included: in *)
(* the tree every block is marked once, at the access that counts, whatever*)
(* the trace and in both directions.                                       *)
DistancesExact ==
  pass \in {"tally", "end"} =>
    \A i \in 0 .. n - 1 :
      distances[i] =
        IF type = "LRU"
        THEN IF Earlier(i) = {} THEN MNever
             ELSE Cardinality({trace[j] : j \in Max(Earlier(i)) .. i})
        ELSE IF Later(i) = {} THEN MNever
             ELSE Cardinality({trace[j] : j \in i + 1 .. Min(Later(i)) - 1})

(* An LRU cache of c blocks, run over the first accesses of the trace.     *)
MissesOf(c, accesses) ==
  FoldLeft(LAMBDA s, b :
      [held |-> LET h == <<b>> \o Remove(s.held, b) IN SubSeq(h, 1, IF Len(h) < c THEN Len(h) ELSE c),
       misses |-> IF Contains(s.held, b) THEN s.misses ELSE s.misses + 1],
    [held |-> <<>>, misses |-> 0], SubSeq(trace, 1, accesses)).misses

(* Every point of every LRU curve, but for the last bucket, is what a      *)
(* cache of that size would have missed by that checkpoint.  The last      *)
(* bucket takes the hits of larger caches too.                             *)
CurveExact ==
  type = "LRU" =>
    \A i \in 1 .. Len(curves) : \A p \in curves[i].mrc :
      p.size % BinSize = 0 /\ p.size < BinSize * shape[2] =>
        p.misses = MissesOf(p.size, curves[i].accesses)

(* The distances and the curves made of them.                              *)
MrcExact == DistancesExact /\ CurveExact
==============================================================================
