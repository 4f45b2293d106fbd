------------------------------- MODULE SepBIT -------------------------------
(***************************************************************************)
(* The stream policy SepBIT (sepbit.cpp) with its recency queue (fifo.h)   *)
(* and its table of creation times (metadata.h).  Host blocks are hot when *)
(* they were written again sooner than the average life of the hot         *)
(* segments; blocks that garbage collection moves are classed by age.      *)
(*                                                                         *)
(* The queue is a ring of the last writes.  It is cut to the average life, *)
(* or to the valid blocks LogCache passes, whichever is less; LogCache     *)
(* passes those of the active segment (log_cache.cpp:375).                 *)
(*                                                                         *)
(* A definition named Slip... is a plausible slip in the definition that   *)
(* follows it, and is used by no specification.                            *)
(***************************************************************************)
EXTENDS Integers, Sequences, FiniteSetsExt

CONSTANTS
  SBlocks,    \* the blocks, natural numbers
  SNear,      \* blocks with one entry in the table of creation times (4096)
  SRing,      \* kFileSize
  SSegment,   \* blocks of a segment
  SCollects,  \* segments an average is taken of (16)
  SAges,      \* ages of collected segments
  SUnknown,   \* what Query says of a block it does not hold (UINT32_MAX)
  SLog,       \* bound: writes
  SNone       \* no position, and an average not taken yet (a negative number)

ASSUME SepBITAssumption ==
  /\ SBlocks \subseteq Nat /\ SAges \subseteq Nat /\ SLog \in Nat
  /\ SNear \in Nat \ {0} /\ SCollects \in Nat \ {0}
  /\ SUnknown \in Nat /\ \A age \in SAges : age <= SUnknown
  /\ SRing \in Nat /\ SSegment \in 1 .. SRing - 2 /\ SNone \in Int \ Nat

VARIABLES
  ring,       \* mArray
  tail, head, \* mTail, mHead
  position,   \* mMap
  average,    \* mAvgLifespan times SCollects
  lives,      \* totLifespan, nCollects
  lastClass,  \* mClassNumOfLastCollectedSegment
  created,    \* mMetadata, by the blocks that share an entry
  written     \* history: the blocks in the order they were written

svars == <<ring, tail, head, position, average, lives, lastClass, created, written>>

Now == Len(written)     \* log_cache_timestamp
Entry(b) == b \div SNear

SepBITInit ==
  /\ ring = [i \in 0 .. SRing - 1 |-> 0] /\ tail = 0 /\ head = 0
  /\ position = [b \in SBlocks |-> SNone]
  /\ average = SNone /\ lives = <<0, 0>> /\ lastClass = 0
  /\ created = [e \in {Entry(b) : b \in SBlocks} |-> 0]
  /\ written = <<>>

(* x < k * mAvgLifespan; the average is DBL_MAX before the first is taken. *)
Below(x, k) == average = SNone \/ x * SCollects < k * average

Held(t, h) == (t + SRing - h) % SRing

(* Slip: the map forgets the block that leaves the ring even if it was     *)
(* written again.                                                          *)
SlipForgetOldest(q) ==
  [q EXCEPT !.map[q.ring[q.head]] = SNone, !.head = (@ + 1) % SRing]

(* The oldest write leaves the ring, and the map if it is the block's last *)
(* one.                                                                    *)
ForgetOldest(q) ==
  LET b == q.ring[q.head]
      at == IF q.map[b] = SNone THEN 0 ELSE q.map[b]   \* operator[] inserts
  IN [q EXCEPT !.map[b] = IF at = q.head THEN SNone ELSE at,
               !.head = (@ + 1) % SRing]

(* FIFO::Update.                                                           *)
Updated(b, valid) ==
  LET q == [ring |-> [ring EXCEPT ![tail] = b], map |-> [position EXCEPT ![b] = tail],
            tail |-> (tail + 1) % SRing, head |-> head]
      long(p) == ~(average = SNone) /\ Held(p.tail, p.head) * SCollects > average
  IN IF ~(long(q) \/ Held(q.tail, q.head) > valid) THEN q
     ELSE LET one == ForgetOldest(q)
          IN IF long(one) THEN ForgetOldest(one) ELSE one

(* FIFO::Query.                                                            *)
Lifespan(b) ==
  IF position[b] = SNone THEN SUnknown ELSE Held(tail, position[b])

(* Append: the creation time is one ahead of the clock.                    *)
Appends(b, valid) ==
  /\ Len(written) < SLog
  /\ LET q == Updated(b, valid)
     IN ring' = q.ring /\ position' = q.map /\ tail' = q.tail /\ head' = q.head
  /\ created' = [created EXCEPT ![Entry(b)] = Len(written) + 2]
  /\ written' = Append(written, b)
  /\ UNCHANGED <<average, lives, lastClass>>

(* CollectSegment.                                                         *)
Collects(class, age) ==
  /\ LET l == IF class = 0 THEN <<lives[1] + age, lives[2] + 1>> ELSE lives
     IN IF l[2] = SCollects THEN average' = l[1] /\ lives' = <<0, 0>>
                            ELSE lives' = l /\ UNCHANGED average
  /\ lastClass' = class
  /\ UNCHANGED <<ring, tail, head, position, created, written>>

SepBITNext ==
  \/ \E b \in SBlocks, valid \in 1 .. SSegment : Appends(b, valid)
  \/ \E class \in 0 .. 1, age \in SAges : Collects(class, age)

SepBITSpec == SepBITInit /\ [][SepBITNext]_svars

(* Classify, for a host write and for a block that is moved.  The age is   *)
(* unsigned, and of a block created ahead of the clock the largest.        *)
HostClass(b) == IF Below(Lifespan(b), 1) THEN 0 ELSE 1

Ahead(b) == created[Entry(b)] > Now
GCClass(b) ==
  LET age == IF Ahead(b) THEN SUnknown * 1000 ELSE Now - created[Entry(b)]
  IN IF lastClass = 0 THEN 2 ELSE IF Below(age, 4) THEN 3 ELSE IF Below(age, 16) THEN 4 ELSE 5

-----------------------------------------------------------------------------
(* Writes since block b was written, that one included; 0 if it never was. *)
Since(b) ==
  LET at == {i \in 1 .. Len(written) : written[i] = b}
  IN IF at = {} THEN 0 ELSE Len(written) - Max(at) + 1

(* The ring, the map and their two ends tell how long ago a block was      *)
(* written, for every block of the window, and nothing of the others:      *)
(* through wrap-around, rewriting, and a window that is cut back by one or *)
(* two with every write.                                                   *)
RecencyExact ==
  \A b \in SBlocks :
    Lifespan(b) = IF Since(b) \in 1 .. Held(tail, head) THEN Since(b) ELSE SUnknown

(* A block is hot only if it was written again in less than the average    *)
(* life; and one that is moved is never classed older than it is, whoever  *)
(* shares its creation time, but for the moment in which that time is      *)
(* ahead of the clock.                                                     *)
ClassesFollowHistory ==
  \A b \in SBlocks :
    /\ average # SNone /\ HostClass(b) = 0 => Since(b) > 0 /\ Below(Since(b), 1)
    /\ Since(b) > 0 /\ lastClass # 0 /\ ~Ahead(b) =>
         /\ Below(Since(b), 4) => GCClass(b) = 3
         /\ Below(Since(b), 16) => GCClass(b) <= 4

(* What SepBIT remembers of the history of writes and collections is       *)
(* right: the recency queue, and with it the classes it is asked for.      *)
HistoryKept == RecencyExact /\ ClassesFollowHistory
=============================================================================
