----------------------------- MODULE ParallelScan -----------------------------
(***************************************************************************)
(* The parallel measure of a trace's working set (parallel_util.cpp).  The *)
(* file is cut into as many parts as there are threads; each thread moves  *)
(* the ends of its part to line ends and reads its lines; then the ranges  *)
(* of all threads are sorted and merged.  utilization.cpp merges the same  *)
(* way after reading the file in one piece.                                *)
(*                                                                         *)
(* Characters count from 0.  A line is known by its first character; what  *)
(* it parses to is chosen with the file.                                   *)
(*                                                                         *)
(* A definition named Slip... is a plausible slip in the definition that   *)
(* follows it, and is used by no specification.                            *)
(***************************************************************************)
EXTENDS Integers, Sequences, FiniteSets, FiniteSetsExt, SequencesExt

CONSTANTS
  UChars,    \* fsz, the characters of the file
  UThreads,  \* T
  ULines,    \* bound: newlines in the file
  URanges    \* the writes of a trace: pairs, a first and an end byte

(* With more threads than characters the code reads base[-1].              *)
ASSUME ParallelScanAssumption ==
  /\ UThreads \in Nat \ {0} /\ UChars \in Nat /\ UThreads <= UChars /\ ULines \in Nat
  /\ \A r \in URanges : r[1] \in Nat /\ r[2] \in Nat /\ r[1] < r[2]

Chars == 0 .. UChars - 1
Threads == 0 .. UThreads - 1

VARIABLES
  newlines,  \* where the file has newlines
  row,       \* what the line that starts at a character parses to
  from, to,  \* start and stop of each thread
  reading,   \* p of each thread, or -1 before it has moved its ends
  buckets,   \* the ranges each thread has read
  ranges,    \* ranges, once sorted
  cur,       \* cur_b, cur_e
  used,      \* used
  merged     \* ranges gone through; -1 before the sort

uvars == <<newlines, row, from, to, reading, buckets, ranges, cur, used, merged>>

Starts == {c \in Chars : c = 0 \/ c - 1 \in newlines}
End(c) == Min({d \in newlines : d >= c} \cup {UChars})

ScanInit ==
  /\ newlines \in UNION {kSubset(i, Chars) : i \in 0 .. ULines}
  /\ row \in [Starts -> URanges]
  /\ from = [t \in Threads |-> t * (UChars \div UThreads)]
  /\ to = [t \in Threads |-> IF t = UThreads - 1 THEN UChars ELSE (t + 1) * (UChars \div UThreads)]
  /\ reading = [t \in Threads |-> -1]
  /\ buckets = [t \in Threads |-> <<>>]
  /\ ranges = <<>> /\ cur = <<0, 0>> /\ used = 0 /\ merged = -1

(* Slip: the thread stops where its part ends.                             *)
SlipStopOf(t) == to[t]

(* The last part ends with the file, the others with a line.               *)
StopOf(t) == IF t = UThreads - 1 THEN UChars ELSE End(to[t])

StartOf(t) == IF t = 0 THEN 0
              ELSE Min({c \in from[t] .. UChars : c = UChars \/ c - 1 \in newlines})

(* A thread moves the ends of its part.                                    *)
Align(t) ==
  /\ reading[t] = -1
  /\ from' = [from EXCEPT ![t] = StartOf(t)]
  /\ to' = [to EXCEPT ![t] = StopOf(t)]
  /\ reading' = [reading EXCEPT ![t] = StartOf(t)]
  /\ UNCHANGED <<newlines, row, buckets, ranges, cur, used, merged>>

(* A line, up to its newline or the end of the part.  An empty one gives   *)
(* nothing; one cut short would give something else, and none is.          *)
ReadLine(t) ==
  /\ reading[t] >= 0 /\ reading[t] < to[t]
  /\ LET c == reading[t]
         stop == Min({End(c), to[t]})
     IN /\ buckets' = IF c \in Starts /\ stop = End(c) /\ c < stop
                      THEN [buckets EXCEPT ![t] = Append(@, row[c])] ELSE buckets
        /\ reading' = [reading EXCEPT ![t] = stop + 1]
  /\ UNCHANGED <<newlines, row, from, to, ranges, cur, used, merged>>

(* The join: the buckets are put together and sorted.                      *)
SortRanges ==
  /\ merged = -1 /\ \A t \in Threads : reading[t] >= 0 /\ reading[t] >= to[t]
  /\ ranges' = SortSeq(FlattenSeq([t \in 1 .. UThreads |-> buckets[t - 1]]),
                       LAMBDA a, b : a[1] < b[1])
  /\ cur' = IF ranges' = <<>> THEN <<0, 0>> ELSE ranges'[1]
  /\ merged' = IF ranges' = <<>> THEN 0 ELSE 1
  /\ UNCHANGED <<newlines, row, from, to, reading, buckets, used>>

(* One pass of the merging loop, or what follows its last one.             *)
MergeRange ==
  /\ merged >= 0 /\ merged <= Len(ranges)
  /\ IF merged = Len(ranges) THEN used' = used + cur[2] - cur[1] /\ UNCHANGED cur
     ELSE LET r == ranges[merged + 1]
          IN IF r[1] <= cur[2] THEN /\ cur' = <<cur[1], Max({cur[2], r[2]})>>
                                    /\ UNCHANGED used
                               ELSE cur' = r /\ used' = used + cur[2] - cur[1]
  /\ merged' = merged + 1
  /\ UNCHANGED <<newlines, row, from, to, reading, buckets, ranges>>

ScanNext == (\E t \in Threads : Align(t) \/ ReadLine(t)) \/ SortRanges \/ MergeRange

-----------------------------------------------------------------------------
(* The bytes the program reports are those some line of the file writes,   *)
(* each counted once: wherever the parts are cut no line is skipped or     *)
(* torn, one that two threads read adds nothing, and the merge neither     *)
(* misses an overlap nor a gap.                                            *)
UsedExact ==
  merged = Len(ranges) + 1 =>
    used = Cardinality(UNION {row[c][1] .. row[c][2] - 1 : c \in {s \in Starts : s < End(s)}})
===============================================================================
