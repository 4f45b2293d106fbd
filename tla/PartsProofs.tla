----------------------------- MODULE PartsProofs -----------------------------
(***************************************************************************)
(* The safety properties of three small parts, for every ring, every set   *)
(* of blocks and every number of segments.  LogFIFOCache: the ring stays   *)
(* in the order of the last writes, and the cache implements the store of  *)
(* module TieredStore, whose own properties come last.  SepBIT: the        *)
(* recency queue is a window of the last writes, and the classes follow    *)
(* what was written.  VictimPolicies: a policy tracks every sealed segment *)
(* once, and picks victims in order.                                       *)
(***************************************************************************)
EXTENDS TieredStore, LogFIFOCache, SepBIT, VictimPolicies, Containers, SequenceTheorems, TLAPS

-----------------------------------------------------------------------------
(*                          The ring of LogFIFOCache                       *)
-----------------------------------------------------------------------------
(* The inductive invariant.                                                *)

FTypeOK ==
  /\ log_buffer \in [Ring -> FKeys \cup {FNone}]
  /\ mapping \in [FKeys -> Ring \cup {FNone}]
  /\ write_ptr \in Ring
  /\ fcold \subseteq FKeys
  /\ fkey \in FKeys \cup {FNone}
  /\ fpc \in {"idle", "room"}
  /\ before \subseteq FCached \X FCached

(* The older copy of the block being written is gone.                      *)
CallInv ==
  /\ fpc = "idle" => fkey = FNone
  /\ fpc = "room" => fkey \in FKeys \ FCached

(* No block is both cached and mapped below.                               *)
OneCopyInv == \A k \in fcold : k \notin FCached /\ k # fkey

FInv == FTypeOK /\ CallInv /\ OneCopyInv /\ RingInOrder

-----------------------------------------------------------------------------
(* The ring.                                                               *)

LEMMA RingFacts ==
  /\ FSlots \in Nat /\ FSlots # 0
  /\ FNone \notin Ring /\ FNone \notin FKeys
  /\ 0 \in Ring
BY LogFIFOAssumption DEF Ring

(* The slot after this one, which wraps.                                   *)
LEMMA NextSlot ==
  ASSUME NEW i \in Ring
  PROVE  (i + 1) % FSlots = IF i + 1 = FSlots THEN 0 ELSE i + 1
<1>1. FSlots \in Nat /\ FSlots # 0 /\ i \in Nat /\ i < FSlots
  BY RingFacts DEF Ring
<1>2. CASE i + 1 = FSlots
  BY <1>1, <1>2
<1>3. CASE i + 1 # FSlots
  BY <1>1, <1>3
<1> QED BY <1>2, <1>3

(* Each slot has its own distance from write_ptr.                          *)
LEMMA SlotsAheadIsOrder ==
  ASSUME write_ptr \in Ring
  PROVE  /\ \A i \in Ring : SlotsAhead(i) \in 0 .. FSlots - 1
         /\ \A i, j \in Ring : SlotsAhead(i) = SlotsAhead(j) => i = j
         /\ \A i \in Ring : SlotsAhead(i) = 0 <=> i = write_ptr
BY RingFacts DEF Ring, SlotsAhead

(* When write_ptr moves on, the slot it leaves becomes the farthest and    *)
(* the others keep their order.                                            *)
LEMMA PassingSlot ==
  ASSUME write_ptr \in Ring, write_ptr' = (write_ptr + 1) % FSlots
  PROVE  /\ write_ptr' \in Ring
         /\ \A i \in Ring : SlotsAhead(i)' = IF i = write_ptr THEN FSlots - 1
                                             ELSE SlotsAhead(i) - 1
<1>1. write_ptr' = IF write_ptr + 1 = FSlots THEN 0 ELSE write_ptr + 1
  BY NextSlot
<1>2. FSlots \in Nat /\ FSlots # 0
  BY RingFacts
<1> QED BY <1>1, <1>2 DEF Ring, SlotsAhead

-----------------------------------------------------------------------------
(* Every action keeps the invariant.                                       *)

LEMMA InitHasFInv == LogFIFOInit => FInv
<1> SUFFICES ASSUME LogFIFOInit PROVE FInv
  OBVIOUS
<1>1. FCached = {}
  BY DEF LogFIFOInit, FCached
<1>2. FTypeOK
  BY <1>1, RingFacts DEF LogFIFOInit, FTypeOK
<1>3. RingInOrder
  BY <1>1, RingFacts DEF LogFIFOInit, RingInOrder
<1> QED BY <1>2, <1>3 DEF LogFIFOInit, FInv, CallInv, OneCopyInv

(* A block leaves the ring: where it was, or where the mapping said it     *)
(* was, nothing is left, and the others keep their order.                  *)
LEMMA LeaveRing ==
  ASSUME FTypeOK, RingInOrder, NEW k \in FKeys,
         mapping' = [mapping EXCEPT ![k] = FNone],
         log_buffer' = IF mapping[k] # FNone THEN [log_buffer EXCEPT ![mapping[k]] = FNone]
                                             ELSE log_buffer,
         write_ptr' = write_ptr, Forget(k)
  PROVE  /\ log_buffer' \in [Ring -> FKeys \cup {FNone}]
         /\ mapping' \in [FKeys -> Ring \cup {FNone}]
         /\ FCached' = FCached \ {k}
         /\ before' \subseteq FCached' \X FCached'
         /\ RingInOrder'
<1>1. /\ mapping' \in [FKeys -> Ring \cup {FNone}]
      /\ mapping'[k] = FNone
      /\ \A j \in FKeys \ {k} : mapping'[j] = mapping[j]
  BY DEF FTypeOK
<1>2. FCached' = FCached \ {k}
  BY <1>1 DEF FCached
<1>3. log_buffer' \in [Ring -> FKeys \cup {FNone}]
  BY DEF FTypeOK
<1>4. before' \subseteq FCached' \X FCached'
  BY <1>2 DEF FTypeOK, Forget
<1>5. \A i, j \in FCached' : <<i, j>> \in before' <=> <<i, j>> \in before
  BY <1>2 DEF Forget
<1>6. \A i \in Ring : SlotsAhead(i)' = SlotsAhead(i)
  BY DEF SlotsAhead
<1>7. \A j \in FCached' : j \in FCached /\ mapping'[j] = mapping[j] /\ mapping[j] \in Ring
  BY <1>1, <1>2 DEF FCached, FTypeOK
<1>8. ASSUME NEW i \in FCached', NEW j \in FCached'
      PROVE  <<i, j>> \in before' <=> SlotsAhead(mapping[i])' < SlotsAhead(mapping[j])'
  BY <1>5, <1>6, <1>7 DEF RingInOrder
<1>9. \A j \in FKeys, i \in Ring : mapping'[j] = i <=> log_buffer'[i] = j
  <2> SUFFICES ASSUME NEW j \in FKeys, NEW i \in Ring
               PROVE  mapping'[j] = i <=> log_buffer'[i] = j
    OBVIOUS
  <2>1. mapping[j] = i <=> log_buffer[i] = j
    BY DEF RingInOrder
  <2>2. mapping[k] = i <=> log_buffer[i] = k
    BY DEF RingInOrder
  <2>3. log_buffer'[i] = IF mapping[k] = i THEN FNone ELSE log_buffer[i]
    BY RingFacts DEF FTypeOK
  <2> QED BY <2>1, <2>2, <2>3, <1>1, RingFacts
<1> QED BY <1>1, <1>2, <1>3, <1>4, <1>8, <1>9 DEF RingInOrder

LEMMA InsertBeginsKeepsFInv ==
  ASSUME FInv, NEW k \in FKeys, InsertBegins(k)
  PROVE  FInv'
<1> USE DEF FInv
<1>1. /\ fpc = "idle" /\ fkey' = k /\ fpc' = "room"
      /\ mapping' = [mapping EXCEPT ![k] = FNone]
      /\ log_buffer' = IF mapping[k] # FNone THEN [log_buffer EXCEPT ![mapping[k]] = FNone]
                                             ELSE log_buffer
      /\ fcold' = IF mapping[k] # FNone THEN fcold ELSE fcold \ {k}
      /\ write_ptr' = write_ptr /\ Forget(k)
  BY DEF InsertBegins
<1>2. /\ log_buffer' \in [Ring -> FKeys \cup {FNone}]
      /\ mapping' \in [FKeys -> Ring \cup {FNone}]
      /\ FCached' = FCached \ {k}
      /\ before' \subseteq FCached' \X FCached'
      /\ RingInOrder'
  BY <1>1, LeaveRing
<1>3. k \notin fcold'
  BY <1>1 DEF OneCopyInv, FCached
<1>4. FTypeOK'
  BY <1>1, <1>2 DEF FTypeOK
<1>5. CallInv' /\ OneCopyInv'
  BY <1>1, <1>2, <1>3 DEF CallInv, OneCopyInv
<1> QED BY <1>2, <1>4, <1>5

LEMMA EvictOldestKeepsFInv ==
  ASSUME FInv, EvictOldest
  PROVE  FInv' /\ \E old \in FCached : /\ FCached' = FCached \ {old}
                                       /\ fcold' = fcold \cup {old}
                                       /\ old # fkey /\ fkey' = fkey
<1> USE DEF FInv
<1> DEFINE old == log_buffer[write_ptr]
<1>1. old \in FKeys /\ write_ptr \in Ring /\ old # FNone /\ mapping[old] = write_ptr
  BY RingFacts DEF EvictOldest, FTypeOK, RingInOrder
<1>2. old \in FCached /\ mapping[old] # FNone
  BY <1>1, RingFacts DEF FCached
<1>3. /\ fpc = "room" /\ fkey' = fkey /\ fpc' = fpc /\ write_ptr' = write_ptr
      /\ mapping' = [mapping EXCEPT ![old] = FNone]
      /\ fcold' = fcold \cup {old}
      /\ log_buffer' = [log_buffer EXCEPT ![mapping[old]] = FNone]
      /\ Forget(old)
  BY <1>1 DEF EvictOldest
<1> HIDE DEF old
<1>4. /\ log_buffer' \in [Ring -> FKeys \cup {FNone}]
      /\ mapping' \in [FKeys -> Ring \cup {FNone}]
      /\ FCached' = FCached \ {old}
      /\ before' \subseteq FCached' \X FCached'
      /\ RingInOrder'
  BY <1>1, <1>2, <1>3, LeaveRing
<1>5. old # fkey
  BY <1>2, <1>3 DEF CallInv
<1>6. FTypeOK'
  BY <1>1, <1>3, <1>4 DEF FTypeOK
<1>7. CallInv' /\ OneCopyInv'
  BY <1>3, <1>4, <1>5 DEF CallInv, OneCopyInv
<1> QED BY <1>2, <1>3, <1>4, <1>5, <1>6, <1>7

LEMMA AppendBlockKeepsFInv ==
  ASSUME FInv, AppendBlock
  PROVE  FInv' /\ FCached' = FCached \cup {fkey} /\ fcold' = fcold /\ fkey' = FNone
<1> USE DEF FInv
<1>1. /\ fpc = "room" /\ fpc' = "idle" /\ fkey' = FNone /\ fcold' = fcold
      /\ log_buffer[write_ptr] = FNone
      /\ log_buffer' = [log_buffer EXCEPT ![write_ptr] = fkey]
      /\ mapping' = [mapping EXCEPT ![fkey] = write_ptr]
      /\ write_ptr' = (write_ptr + 1) % FSlots
      /\ before' = before \cup (FCached \X {fkey})
  BY DEF AppendBlock
<1>2. fkey \in FKeys /\ fkey \notin FCached /\ write_ptr \in Ring /\ write_ptr # FNone
  BY <1>1, RingFacts DEF CallInv, FTypeOK
<1>3. /\ mapping' \in [FKeys -> Ring \cup {FNone}]
      /\ mapping'[fkey] = write_ptr
      /\ \A j \in FKeys \ {fkey} : mapping'[j] = mapping[j]
  BY <1>1, <1>2 DEF FTypeOK
<1>4. FCached' = FCached \cup {fkey}
  BY <1>2, <1>3 DEF FCached
<1>5. /\ write_ptr' \in Ring
      /\ \A i \in Ring : SlotsAhead(i)' = IF i = write_ptr THEN FSlots - 1
                                          ELSE SlotsAhead(i) - 1
  BY <1>1, <1>2, PassingSlot
<1>6. FTypeOK'
  BY <1>1, <1>2, <1>3, <1>4, <1>5 DEF FTypeOK
<1>7. CallInv' /\ OneCopyInv'
  BY <1>1, <1>2, <1>4, RingFacts DEF CallInv, OneCopyInv, FTypeOK
<1>8. \A j \in FKeys, i \in Ring : mapping'[j] = i <=> log_buffer'[i] = j
  <2> SUFFICES ASSUME NEW j \in FKeys, NEW i \in Ring
               PROVE  mapping'[j] = i <=> log_buffer'[i] = j
    OBVIOUS
  <2>1. mapping[j] = i <=> log_buffer[i] = j
    BY DEF RingInOrder
  <2>2. log_buffer'[i] = IF i = write_ptr THEN fkey ELSE log_buffer[i]
    BY <1>1, <1>2 DEF FTypeOK
  <2>3. log_buffer[i] # fkey
    <3>1. mapping[fkey] = FNone
      BY <1>2 DEF FCached
    <3> QED BY <3>1, <1>2, RingFacts DEF RingInOrder
  <2>4. mapping[j] # write_ptr
    BY <1>1, <1>2, RingFacts DEF RingInOrder
  <2> QED BY <2>1, <2>2, <2>3, <2>4, <1>3
<1>9. \A j \in FCached : /\ mapping[j] \in Ring /\ mapping[j] # write_ptr
                         /\ mapping'[j] = mapping[j] /\ j # fkey
  <2>1. \A j \in FCached : j \in FKeys /\ mapping[j] \in Ring /\ j # fkey
    BY <1>2 DEF FCached, FTypeOK
  <2>2. \A j \in FCached : mapping[j] # write_ptr
    BY <2>1, <1>1, <1>2, RingFacts DEF RingInOrder
  <2> QED BY <2>1, <2>2, <1>3
<1>10. ASSUME NEW j \in FCached', NEW k \in FCached'
       PROVE  <<j, k>> \in before' <=> SlotsAhead(mapping[j])' < SlotsAhead(mapping[k])'
  <2>1. FSlots \in Nat /\ FSlots # 0
    BY RingFacts
  <2>2. \A i \in Ring : SlotsAhead(i) \in 0 .. FSlots - 1
    BY <1>2, SlotsAheadIsOrder
  <2>3. \A i \in FKeys : i = fkey => SlotsAhead(mapping[i])' = FSlots - 1
    BY <1>2, <1>3, <1>5
  <2>4. \A i \in FCached : /\ SlotsAhead(mapping[i]) \in 0 .. FSlots - 1
                           /\ SlotsAhead(mapping[i])' = SlotsAhead(mapping[i]) - 1
    BY <2>2, <1>5, <1>9
  <2>5. CASE j \in FCached /\ k \in FCached
    <3>1. <<j, k>> \in before' <=> <<j, k>> \in before
      BY <2>5, <1>1, <1>2
    <3>2. <<j, k>> \in before <=> SlotsAhead(mapping[j]) < SlotsAhead(mapping[k])
      BY <2>5 DEF RingInOrder
    <3> QED BY <3>1, <3>2, <2>1, <2>4, <2>5
  <2>6. CASE j \in FCached /\ k = fkey
    <3>1. <<j, k>> \in before'
      BY <2>6, <1>1
    <3> QED BY <3>1, <2>1, <2>3, <2>4, <2>6, <1>2
  <2>7. CASE j = fkey
    <3>1. <<j, k>> \notin before'
      BY <2>7, <1>1, <1>2 DEF FTypeOK
    <3>2. ~(SlotsAhead(mapping[j])' < SlotsAhead(mapping[k])')
      <4>1. CASE k = fkey
        BY <4>1, <2>1, <2>3, <2>7, <1>2
      <4>2. CASE k \in FCached
        BY <4>2, <2>1, <2>3, <2>4, <2>7, <1>2
      <4> QED BY <4>1, <4>2, <1>4
    <3> QED BY <3>1, <3>2
  <2> QED BY <2>5, <2>6, <2>7, <1>4
<1>11. RingInOrder'
  BY <1>8, <1>10 DEF RingInOrder
<1> QED BY <1>1, <1>4, <1>6, <1>7, <1>11

LEMMA StutterKeepsFInv ==
  ASSUME FInv, UNCHANGED fvars
  PROVE  FInv'
BY DEF FInv, FTypeOK, CallInv, OneCopyInv, RingInOrder, SlotsAhead, FCached, fvars

(* The inductive invariant holds in every reachable state.                 *)
THEOREM LogFIFOInvariance == LogFIFOSpec => []FInv
<1>1. LogFIFOInit => FInv
  BY InitHasFInv
<1>2. FInv /\ [LogFIFONext]_fvars => FInv'
  BY InsertBeginsKeepsFInv, EvictOldestKeepsFInv, AppendBlockKeepsFInv, StutterKeepsFInv
     DEF LogFIFONext
<1> QED BY <1>1, <1>2, PTL DEF LogFIFOSpec

-----------------------------------------------------------------------------
(* What it means.                                                          *)

(* The ring is in the order of the last writes and the mapping is exact:   *)
(* what is written back is always the block not written for the longest    *)
(* time.                                                                   *)
THEOREM RingStaysInOrder == LogFIFOSpec => []RingInOrder
<1>1. FInv => RingInOrder
  BY DEF FInv
<1> QED BY <1>1, LogFIFOInvariance, PTL

FHeld == {k \in FKeys : mapping[k] # FNone \/ fkey = k}

(* Every step is a write or a write-back of the store, or nothing to it.   *)
LEMMA LogFIFOStepRefines ==
  ASSUME FInv, [LogFIFONext]_fvars
  PROVE  [FStore!TieredNext]_<<FHeld, fcold>>
<1>1. FHeld = FCached \cup ({fkey} \cap FKeys)
  BY DEF FHeld, FCached
<1>2. FHeld' = FCached' \cup ({fkey'} \cap FKeys)
  BY DEF FHeld, FCached
<1>3. ASSUME NEW k \in FKeys, InsertBegins(k)
      PROVE  FStore!TieredNext
  <2>1. fkey = FNone /\ fkey' = k /\ FCached' = FCached \ {k}
    BY <1>3 DEF InsertBegins, FInv, CallInv, FTypeOK, FCached
  <2>2. fcold' = fcold \ {k}
    BY <1>3 DEF InsertBegins, FInv, OneCopyInv, FCached
  <2>3. FHeld' = FHeld \cup {k}
    BY <2>1, <1>1, <1>2, RingFacts
  <2> QED BY <2>2, <2>3 DEF FStore!TieredNext, FStore!WriteKey, FHeld
<1>4. CASE EvictOldest
  <2>1. PICK old \in FCached : /\ FCached' = FCached \ {old}
                               /\ fcold' = fcold \cup {old}
                               /\ old # fkey /\ fkey' = fkey
    BY <1>4, EvictOldestKeepsFInv
  <2>2. FHeld' = FHeld \ {old} /\ old \in FHeld /\ old \in FKeys
    BY <2>1, <1>1, <1>2 DEF FCached
  <2> QED BY <2>1, <2>2 DEF FStore!TieredNext, FStore!WriteBack, FHeld
<1>5. CASE AppendBlock
  <2>1. FCached' = FCached \cup {fkey} /\ fcold' = fcold /\ fkey' = FNone
    BY <1>5, AppendBlockKeepsFInv
  <2>2. fkey \in FKeys
    BY <1>5 DEF AppendBlock, FInv, CallInv
  <2> QED BY <2>1, <2>2, <1>1, <1>2, RingFacts
<1>6. CASE UNCHANGED fvars
  BY <1>6 DEF fvars, FHeld
<1> QED BY <1>3, <1>4, <1>5, <1>6 DEF LogFIFONext

(* The cache implements the store: rewriting a block, reaching a slot that *)
(* is still valid and wrapping around lose no block.                       *)
THEOREM LogFIFOImplementsStore == LogFIFOSpec => LogFIFOImplementsTieredStore
<1>1. LogFIFOInit => FStore!TieredInit
  BY RingFacts DEF LogFIFOInit, FStore!TieredInit
<1>2. FInv /\ [LogFIFONext]_fvars => [FStore!TieredNext]_<<FHeld, fcold>>
  BY LogFIFOStepRefines
<1>3. FHeld = {k \in FKeys : mapping[k] # FNone \/ fkey = k}
  BY DEF FHeld
<1> QED BY <1>1, <1>2, LogFIFOInvariance, PTL
        DEF LogFIFOSpec, FStore!TieredSpec, LogFIFOImplementsTieredStore, FHeld

-----------------------------------------------------------------------------
(*                       The recency queue of SepBIT                       *)
Places == 0 .. SRing - 1

(* The place written i writes ago, seen from tail.                         *)
Back(t, i) == IF t >= i THEN t - i ELSE t - i + SRing

SinceIn(w, b) ==
  LET at == {i \in 1 .. Len(w) : w[i] = b}
  IN IF at = {} THEN 0 ELSE Len(w) - Max(at) + 1

WindowType == [ring : [Places -> Nat], map : [SBlocks -> Places \cup {SNone}],
               tail : Places, head : Places]

(* The ring holds the last writes, and the map where the last write of     *)
(* each block in it is.                                                    *)
Window(q, w) ==
  /\ q \in WindowType
  /\ Held(q.tail, q.head) <= Len(w)
  /\ \A i \in 1 .. Held(q.tail, q.head) : q.ring[Back(q.tail, i)] = w[Len(w) - i + 1]
  /\ \A b \in SBlocks : q.map[b] = IF SinceIn(w, b) \in 1 .. Held(q.tail, q.head)
                                   THEN Back(q.tail, SinceIn(w, b)) ELSE SNone

-----------------------------------------------------------------------------
LEMMA RingAssumption ==
  /\ SRing \in Nat /\ SSegment \in Nat /\ 1 <= SSegment /\ SSegment + 2 <= SRing
  /\ SNone \in Int /\ SNone \notin Nat /\ SNone \notin Places
  /\ SBlocks \subseteq Nat
BY SepBITAssumption DEF Places

(* The remainder of a number below twice the divisor.                      *)
LEMMA Wraps ==
  ASSUME NEW x \in Nat, x < 2 * SRing
  PROVE  x % SRing = IF x < SRing THEN x ELSE x - SRing
<1>1. SRing \in Nat /\ SRing # 0
  BY RingAssumption
<1>2. CASE x < SRing
  BY <1>1, <1>2
<1>3. CASE x >= SRing
  <2> DEFINE r == x - SRing
  <2>1. r \in Nat /\ r < SRing /\ x = r + SRing
    BY <1>1, <1>3
  <2> HIDE DEF r
  <2>2. (r + SRing) % SRing = r
    BY <1>1, <2>1
  <2> QED BY <2>1, <2>2, <1>1, <1>3
<1> QED BY <1>1, <1>2, <1>3

LEMMA HeldInWords ==
  ASSUME NEW t \in Places, NEW h \in Places
  PROVE  /\ Held(t, h) = IF t >= h THEN t - h ELSE t - h + SRing
         /\ Held(t, h) \in 0 .. SRing - 1
<1>1. t \in Nat /\ h \in Nat /\ t < SRing /\ h < SRing /\ SRing \in Nat
  BY RingAssumption DEF Places
<1> DEFINE x == t + SRing - h
<1>2. x \in Nat /\ x < 2 * SRing
  BY <1>1
<1>3. Held(t, h) = x % SRing
  BY DEF Held
<1>4. x < SRing <=> t < h
  BY <1>1
<1>5. x - SRing = t - h /\ x = t - h + SRing
  BY <1>1
<1> HIDE DEF x
<1>6. Held(t, h) = IF x < SRing THEN x ELSE x - SRing
  BY <1>2, <1>3, Wraps
<1> QED BY <1>1, <1>4, <1>5, <1>6

LEMMA StepInWords ==
  ASSUME NEW t \in Places
  PROVE  /\ (t + 1) % SRing = IF t + 1 < SRing THEN t + 1 ELSE 0
         /\ (t + 1) % SRing \in Places
<1>1. t \in Nat /\ t < SRing /\ SRing \in Nat
  BY RingAssumption DEF Places
<1> DEFINE x == t + 1
<1>2. x \in Nat /\ x < 2 * SRing /\ x <= SRing
  BY <1>1, RingAssumption
<1> HIDE DEF x
<1>3. x % SRing = IF x < SRing THEN x ELSE x - SRing
  BY <1>2, Wraps
<1>4. x % SRing = IF x < SRing THEN x ELSE 0
  BY <1>1, <1>2, <1>3
<1>5. x % SRing \in Places
  BY <1>1, <1>2, <1>4, RingAssumption DEF Places
<1> QED BY <1>4, <1>5 DEF x

LEMMA BackInWords ==
  ASSUME NEW t \in Places, NEW i \in 1 .. SRing - 1
  PROVE  /\ Back(t, i) \in Places
         /\ Back(t, i) # t
         /\ Held(t, Back(t, i)) = i
         /\ \A j \in 1 .. SRing - 1 : Back(t, i) = Back(t, j) => i = j
         /\ Back(t, 1) = (IF t = 0 THEN SRing - 1 ELSE t - 1)
<1>1. t \in Nat /\ t < SRing /\ SRing \in Nat /\ i \in Nat
  BY RingAssumption DEF Places
<1>2. Back(t, i) \in Places
  BY <1>1 DEF Back, Places
<1>3. Held(t, Back(t, i)) = i
  BY <1>1, <1>2, HeldInWords DEF Back
<1> QED BY <1>1, <1>2, <1>3 DEF Back

-----------------------------------------------------------------------------
(* The last write of a block.                                              *)

LEMMA GreatestElement ==
  ASSUME NEW n \in Nat, NEW T \in SUBSET (1 .. n), T # {}
  PROVE  Max(T) \in T /\ \A y \in T : y <= Max(T)
<1> DEFINE D == {n - y : y \in T}
<1>1. D \in SUBSET Nat /\ D # {}
  <2>1. \A y \in T : y \in 1 .. n /\ n - y \in Nat
    OBVIOUS
  <2> QED BY <2>1
<1>2. PICK d \in D : \A e \in D : d <= e
  BY <1>1, LeastElement
<1>3. PICK x \in T : d = n - x
  BY <1>2
<1>4. \A y \in T : n - x <= n - y
  BY <1>2, <1>3
<1>5. \A y \in T : x >= y
  BY <1>4
<1>6. \E x2 \in T : \A y \in T : x2 >= y
  BY <1>5
<1>7. Max(T) \in T /\ \A y \in T : Max(T) >= y
  BY <1>6 DEF Max
<1> QED BY <1>7

(* How long ago a block was written, said without a maximum.               *)
LEMMA SinceInWords ==
  ASSUME NEW w \in Seq(SBlocks), NEW b
  PROVE  /\ SinceIn(w, b) \in 0 .. Len(w)
         /\ SinceIn(w, b) # 0 => w[Len(w) - SinceIn(w, b) + 1] = b
         /\ \A i \in 1 .. Len(w) : w[i] = b =>
              SinceIn(w, b) # 0 /\ i <= Len(w) - SinceIn(w, b) + 1
<1> DEFINE n == Len(w)
           at == {i \in 1 .. n : w[i] = b}
<1>1. n \in Nat
  OBVIOUS
<1>2. CASE at = {}
  BY <1>1, <1>2 DEF SinceIn
<1>3. CASE at # {}
  <2>1. at \in SUBSET (1 .. n)
    OBVIOUS
  <2>2. Max(at) \in at /\ \A y \in at : y <= Max(at)
    BY <1>1, <1>3, <2>1, GreatestElement
  <2>3. SinceIn(w, b) = n - Max(at) + 1
    BY <1>3 DEF SinceIn
  <2>4. Max(at) \in 1 .. n /\ w[Max(at)] = b
    BY <2>2
  <2>5. \A i \in 1 .. n : w[i] = b => i <= Max(at)
    BY <2>2
  <2> HIDE DEF at, n
  <2>6. SinceIn(w, b) \in 1 .. n /\ n - SinceIn(w, b) + 1 = Max(at)
    BY <1>1, <2>3, <2>4
  <2> QED BY <1>1, <2>4, <2>5, <2>6 DEF n
<1> QED BY <1>2, <1>3

(* A write makes every other one a step older.                             *)
LEMMA SinceSteps ==
  ASSUME NEW w \in Seq(SBlocks), NEW b \in SBlocks, NEW c
  PROVE  SinceIn(Append(w, b), c) =
           IF c = b THEN 1 ELSE IF SinceIn(w, c) = 0 THEN 0 ELSE SinceIn(w, c) + 1
<1> DEFINE v == Append(w, b)
           n == Len(w)
           old == SinceIn(w, c)
           new == SinceIn(v, c)
<1>1. /\ v \in Seq(SBlocks) /\ Len(v) = n + 1 /\ n \in Nat
      /\ \A i \in 1 .. n : v[i] = w[i]
      /\ v[n + 1] = b
  BY AppendProperties
<1> HIDE DEF v
<1>2. /\ old \in 0 .. n /\ (old # 0 => w[n - old + 1] = c)
      /\ \A i \in 1 .. n : w[i] = c => old # 0 /\ i <= n - old + 1
  BY SinceInWords
<1>3. /\ new \in 0 .. n + 1 /\ (new # 0 => v[n + 1 - new + 1] = c)
      /\ \A i \in 1 .. n + 1 : v[i] = c => new # 0 /\ i <= n + 1 - new + 1
  BY <1>1, SinceInWords
<1> HIDE DEF old, new, n
<1>4. CASE c = b
  <2>1. n + 1 \in 1 .. n + 1 /\ v[n + 1] = c
    BY <1>1, <1>4
  <2>2. new # 0 /\ n + 1 <= n + 1 - new + 1
    BY <1>3, <2>1
  <2> QED BY <1>1, <1>3, <1>4, <2>2 DEF new, v
<1>5. CASE c # b
  <2>1. new # 1
    BY <1>1, <1>3, <1>5
  <2>2. new # 0 => /\ n + 1 - new + 1 \in 1 .. n /\ w[n + 1 - new + 1] = c
    BY <1>1, <1>3, <2>1
  <2>3. old # 0 => n - old + 1 \in 1 .. n /\ v[n - old + 1] = c
    BY <1>1, <1>2
  <2>4. old # 0 => new # 0 /\ n - old + 1 <= n + 1 - new + 1
    BY <1>1, <1>3, <2>3
  <2>5. new # 0 => old # 0 /\ n + 1 - new + 1 <= n - old + 1
    BY <1>2, <2>2
  <2>6. new = IF old = 0 THEN 0 ELSE old + 1
    BY <1>1, <1>2, <1>3, <2>4, <2>5
  <2> QED BY <1>5, <2>6 DEF new, old, v
<1> QED BY <1>4, <1>5

-----------------------------------------------------------------------------
(* The window.                                                             *)

(* The oldest write leaves the window, and nothing else does.              *)
LEMMA ForgetOldestKeepsWindow ==
  ASSUME NEW w \in Seq(SBlocks), NEW q, Window(q, w), Held(q.tail, q.head) # 0
  PROVE  /\ Window(ForgetOldest(q), w)
         /\ ForgetOldest(q).tail = q.tail
         /\ Held(q.tail, ForgetOldest(q).head) = Held(q.tail, q.head) - 1
<1> DEFINE n == Len(w)
           k == Held(q.tail, q.head)
           b == q.ring[q.head]
           d == ForgetOldest(q)
<1>1. /\ q \in WindowType
      /\ q.tail \in Places /\ q.head \in Places
      /\ q.map \in [SBlocks -> Places \cup {SNone}]
      /\ n \in Nat /\ k \in Nat /\ k <= n /\ k \in 1 .. SRing - 1
      /\ SRing \in Nat
      /\ k = IF q.tail >= q.head THEN q.tail - q.head ELSE q.tail - q.head + SRing
  <2>1. q \in WindowType /\ k <= n
    BY DEF Window
  <2>2. q.tail \in Places /\ q.head \in Places /\ q.map \in [SBlocks -> Places \cup {SNone}]
    BY <2>1 DEF WindowType
  <2> QED BY <2>1, <2>2, HeldInWords, RingAssumption
<1>2. q.head = Back(q.tail, k)
  <2>1. q.tail \in Nat /\ q.head \in Nat /\ q.tail < SRing /\ q.head < SRing
    BY <1>1 DEF Places
  <2> QED BY <1>1, <2>1 DEF Back
<1>3. b = w[n - k + 1] /\ b \in SBlocks
  <2>1. k \in 1 .. k /\ n - k + 1 \in 1 .. n
    BY <1>1
  <2>2. b = w[n - k + 1]
    BY <1>2, <2>1 DEF Window
  <2>3. w[n - k + 1] \in SBlocks
    BY <2>1, ElementOfSeq
  <2> QED BY <2>2, <2>3
<1>4. SinceIn(w, b) \in 1 .. k
  <2>1. n - k + 1 \in 1 .. n
    BY <1>1
  <2>2. /\ SinceIn(w, b) \in 0 .. n
        /\ SinceIn(w, b) # 0 /\ n - k + 1 <= n - SinceIn(w, b) + 1
    BY <1>3, <2>1, SinceInWords
  <2> HIDE DEF n, k, b
  <2> QED BY <1>1, <2>2
<1>5. \A c \in SBlocks \ {b} : SinceIn(w, c) # k
  BY <1>1, <1>3, SinceInWords
<1>6. q.map[b] = Back(q.tail, SinceIn(w, b)) /\ q.map[b] \in Places /\ q.map[b] # SNone
  <2>1. q.map[b] = Back(q.tail, SinceIn(w, b))
    BY <1>3, <1>4 DEF Window
  <2>2. SinceIn(w, b) \in 1 .. SRing - 1
    BY <1>1, <1>4
  <2>3. Back(q.tail, SinceIn(w, b)) \in Places
    BY <1>1, <2>2, BackInWords
  <2> QED BY <2>1, <2>3, RingAssumption
<1>7. q.map[b] = q.head <=> SinceIn(w, b) = k
  <2>1. SinceIn(w, b) \in 1 .. SRing - 1
    BY <1>1, <1>4
  <2> QED BY <1>1, <1>2, <1>6, <2>1, BackInWords
<1> DEFINE m == IF q.map[b] = q.head THEN SNone ELSE q.map[b]
           h == (q.head + 1) % SRing
<1>8. d = [q EXCEPT !.map[b] = m, !.head = h]
  BY <1>6 DEF ForgetOldest
<1>9. h \in Places /\ Held(q.tail, h) = k - 1
  <2>1. h \in Places /\ h = IF q.head + 1 < SRing THEN q.head + 1 ELSE 0
    BY <1>1, StepInWords
  <2>2. Held(q.tail, h) = IF q.tail >= h THEN q.tail - h ELSE q.tail - h + SRing
    BY <1>1, <2>1, HeldInWords
  <2>3. q.tail \in Nat /\ q.head \in Nat /\ q.tail < SRing /\ q.head < SRing
    BY <1>1 DEF Places
  <2> DEFINE t == q.tail
             g == q.head
  <2>4. /\ k = IF t >= g THEN t - g ELSE t - g + SRing
        /\ k # 0 /\ SRing \in Nat /\ t \in Nat /\ t < SRing /\ g \in Nat /\ g < SRing
    BY <1>1, <2>3
  <2>5. /\ h = IF g + 1 < SRing THEN g + 1 ELSE 0
        /\ Held(t, h) = IF t >= h THEN t - h ELSE t - h + SRing
    BY <2>1, <2>2
  <2> HIDE DEF h, t, g, k
  <2>6. Held(t, h) = k - 1
    BY <2>4, <2>5
  <2> QED BY <2>1, <2>6 DEF t
<1>10. m \in Places \cup {SNone}
  BY <1>6
<1> HIDE DEF m, h, d, b
<1>11. /\ d \in WindowType
       /\ d.ring = q.ring /\ d.tail = q.tail /\ d.head = h
       /\ d.map = [q.map EXCEPT ![b] = m]
  BY <1>1, <1>3, <1>8, <1>9, <1>10 DEF WindowType
<1>12. \A c \in SBlocks : d.map[c] = IF SinceIn(w, c) \in 1 .. k - 1
                                     THEN Back(q.tail, SinceIn(w, c)) ELSE SNone
  <2> SUFFICES ASSUME NEW c \in SBlocks
               PROVE  d.map[c] = IF SinceIn(w, c) \in 1 .. k - 1
                                 THEN Back(q.tail, SinceIn(w, c)) ELSE SNone
    OBVIOUS
  <2> HIDE DEF k
  <2>1. CASE c = b
    <3>1. d.map[c] = m
      BY <1>1, <1>3, <1>11, <2>1
    <3>2. SinceIn(w, b) \in 1 .. k - 1 <=> SinceIn(w, b) # k
      BY <1>1, <1>4
    <3> QED BY <3>1, <3>2, <1>6, <1>7, <2>1 DEF m
  <2>2. CASE c # b
    <3>1. d.map[c] = q.map[c]
      BY <1>1, <1>11, <2>2
    <3>2. q.map[c] = IF SinceIn(w, c) \in 1 .. k
                     THEN Back(q.tail, SinceIn(w, c)) ELSE SNone
      BY DEF Window, k
    <3>3. SinceIn(w, c) \in 1 .. k <=> SinceIn(w, c) \in 1 .. k - 1
      BY <1>1, <1>5, <2>2
    <3> QED BY <3>1, <3>2, <3>3
  <2> QED BY <2>1, <2>2
<1>13. \A i \in 1 .. k - 1 : d.ring[Back(q.tail, i)] = w[n - i + 1]
  BY <1>1, <1>11 DEF Window
<1>14. k - 1 <= n
  BY <1>1
<1> QED BY <1>9, <1>11, <1>12, <1>13, <1>14 DEF Window, d

(* Block b is written at tail.                                             *)
Pushed(q, b, d) ==
  /\ d \in WindowType
  /\ d.ring = [q.ring EXCEPT ![q.tail] = b] /\ d.map = [q.map EXCEPT ![b] = q.tail]
  /\ d.tail = (q.tail + 1) % SRing /\ d.head = q.head

(* A write enters the window.                                              *)
LEMMA PushKeepsWindow ==
  ASSUME NEW w \in Seq(SBlocks), NEW q, Window(q, w), Held(q.tail, q.head) < SRing - 1,
         NEW b \in SBlocks, NEW d, Pushed(q, b, d)
  PROVE  /\ Window(d, Append(w, b))
         /\ Held(d.tail, d.head) = Held(q.tail, q.head) + 1
<1> DEFINE n == Len(w)
           k == Held(q.tail, q.head)
           v == Append(w, b)
           t == q.tail
           u == (t + 1) % SRing
<1>1. /\ q.ring \in [Places -> Nat] /\ q.map \in [SBlocks -> Places \cup {SNone}]
      /\ t \in Places /\ q.head \in Places
      /\ n \in Nat /\ k \in Nat /\ k <= n /\ k < SRing - 1
      /\ SRing \in Nat
      /\ k = IF t >= q.head THEN t - q.head ELSE t - q.head + SRing
  <2>1. q \in WindowType /\ k <= n
    BY DEF Window
  <2>2. /\ q.ring \in [Places -> Nat] /\ q.map \in [SBlocks -> Places \cup {SNone}]
        /\ t \in Places /\ q.head \in Places
    BY <2>1 DEF WindowType
  <2>3. /\ k \in 0 .. SRing - 1
        /\ k = IF t >= q.head THEN t - q.head ELSE t - q.head + SRing
    BY <2>2, HeldInWords
  <2>4. n \in Nat /\ SRing \in Nat
    BY RingAssumption
  <2> HIDE DEF k, t, n
  <2>5. k \in Nat
    BY <2>3, <2>4
  <2> QED BY <2>1, <2>2, <2>3, <2>4, <2>5 DEF k, t
<1>2. /\ v \in Seq(SBlocks) /\ Len(v) = n + 1
      /\ \A i \in 1 .. n : v[i] = w[i]
      /\ v[n + 1] = b
  BY AppendProperties
<1>3. t \in Nat /\ q.head \in Nat /\ t < SRing /\ q.head < SRing
  BY <1>1 DEF Places
<1>4. u \in Places /\ u = IF t + 1 < SRing THEN t + 1 ELSE 0
  BY <1>1, StepInWords
<1>5. Held(u, q.head) = k + 1
  <2>1. Held(u, q.head) = IF u >= q.head THEN u - q.head ELSE u - q.head + SRing
    BY <1>1, <1>4, HeldInWords
  <2> DEFINE h == q.head
  <2>2. /\ k = IF t >= h THEN t - h ELSE t - h + SRing
        /\ k < SRing - 1 /\ SRing \in Nat /\ t \in Nat /\ t < SRing /\ h \in Nat /\ h < SRing
    BY <1>1, <1>3
  <2>3. Held(u, h) = IF u >= h THEN u - h ELSE u - h + SRing
    BY <2>1
  <2> HIDE DEF u, t, k, h
  <2>4. Held(u, h) = k + 1
    BY <1>4, <2>2, <2>3
  <2> QED BY <2>4 DEF h
<1> HIDE DEF u, t, k
<1>6. /\ d.ring = [q.ring EXCEPT ![t] = b] /\ d.map = [q.map EXCEPT ![b] = t]
      /\ d.tail = u /\ d.head = q.head /\ d \in WindowType
  BY DEF Pushed, t, u
<1>7. Back(u, 1) = t
  BY <1>1, <1>3, <1>4 DEF Back
<1>8. \A i \in 1 .. SRing - 2 : Back(u, i + 1) = Back(t, i) /\ Back(t, i) # t
                                /\ Back(t, i) \in Places
  BY <1>1, <1>3, <1>4 DEF Back, Places
<1> HIDE DEF v
<1>9. \A i \in 1 .. k + 1 : d.ring[Back(u, i)] = v[n + 1 - i + 1]
  <2> SUFFICES ASSUME NEW i \in 1 .. k + 1
               PROVE  d.ring[Back(u, i)] = v[n + 1 - i + 1]
    OBVIOUS
  <2>1. CASE i = 1
    <3>1. n + 1 - i + 1 = n + 1
      BY <1>1, <2>1
    <3>2. d.ring[t] = b
      BY <1>1, <1>6
    <3> QED BY <1>2, <1>7, <2>1, <3>1, <3>2
  <2>2. CASE i # 1
    <3> DEFINE j == i - 1
    <3>1. j \in 1 .. k /\ j \in 1 .. SRing - 2 /\ i = j + 1
      <4>1. k \in Nat /\ k < SRing - 1 /\ SRing \in Nat
        BY <1>1
      <4>2. i \in 2 .. k + 1
        BY <2>2, <4>1
      <4> QED BY <4>1, <4>2
    <3>2. n + 1 - i + 1 = n - j + 1 /\ n - j + 1 \in 1 .. n
      <4>1. n \in Nat /\ k \in Nat /\ k <= n
        BY <1>1
      <4> HIDE DEF j, n
      <4> QED BY <3>1, <4>1
    <3> HIDE DEF j
    <3>3. Back(u, i) = Back(t, j) /\ Back(t, j) # t /\ Back(t, j) \in Places
      BY <1>8, <3>1
    <3>4. d.ring[Back(t, j)] = q.ring[Back(t, j)]
      BY <1>1, <1>6, <3>3
    <3>5. q.ring[Back(t, j)] = w[n - j + 1]
      BY <3>1 DEF Window, t, k
    <3> QED BY <1>2, <3>2, <3>3, <3>4, <3>5
  <2> QED BY <2>1, <2>2
<1>10. \A c \in SBlocks : d.map[c] = IF SinceIn(v, c) \in 1 .. k + 1
                                     THEN Back(u, SinceIn(v, c)) ELSE SNone
  <2> SUFFICES ASSUME NEW c \in SBlocks
               PROVE  d.map[c] = IF SinceIn(v, c) \in 1 .. k + 1
                                 THEN Back(u, SinceIn(v, c)) ELSE SNone
    OBVIOUS
  <2>1. CASE c = b
    <3>1. SinceIn(v, c) = 1
      BY <2>1, SinceSteps DEF v
    <3>2. d.map[c] = t
      BY <1>1, <1>6, <2>1
    <3>3. 1 \in 1 .. k + 1
      BY <1>1
    <3> QED BY <3>1, <3>2, <3>3, <1>7
  <2>2. CASE c # b
    <3> DEFINE s == SinceIn(w, c)
    <3>1. SinceIn(v, c) = IF s = 0 THEN 0 ELSE s + 1
      BY <2>2, SinceSteps DEF v
    <3>2. s \in Nat
      BY SinceInWords
    <3>3. d.map[c] = q.map[c]
      BY <1>1, <1>6, <2>2
    <3>4. q.map[c] = IF s \in 1 .. k THEN Back(t, s) ELSE SNone
      BY DEF Window, t, k
    <3> HIDE DEF s
    <3>5. SinceIn(v, c) \in 1 .. k + 1 <=> s \in 1 .. k
      BY <1>1, <3>1, <3>2
    <3>6. s \in 1 .. k => SinceIn(v, c) = s + 1 /\ Back(u, s + 1) = Back(t, s)
      BY <1>1, <1>8, <3>1, <3>2
    <3> QED BY <3>3, <3>4, <3>5, <3>6
  <2> QED BY <2>1, <2>2
<1>11. k + 1 <= n + 1
  BY <1>1
<1>12. Held(d.tail, d.head) = k + 1
  BY <1>5, <1>6
<1> HIDE DEF n
<1>13. Window(d, v)
  <2>1. \A i \in 1 .. Held(d.tail, d.head) : d.ring[Back(d.tail, i)] = v[Len(v) - i + 1]
    <3> SUFFICES ASSUME NEW i \in 1 .. Held(d.tail, d.head)
                 PROVE  d.ring[Back(d.tail, i)] = v[Len(v) - i + 1]
      OBVIOUS
    <3>1. i \in 1 .. k + 1
      BY <1>12
    <3>2. d.ring[Back(u, i)] = v[n + 1 - i + 1]
      BY <1>9, <3>1
    <3>3. d.tail = u
      BY <1>6
    <3>4. Len(v) - i + 1 = n + 1 - i + 1
      BY <1>1, <1>2, <3>1
    <3> DEFINE x == n + 1 - i + 1
               y == Len(v) - i + 1
    <3>5. d.ring[Back(u, i)] = v[x] /\ y = x
      BY <3>2, <3>4
    <3> HIDE DEF x, y
    <3>6. d.ring[Back(d.tail, i)] = v[y]
      BY <3>3, <3>5
    <3> QED BY <3>6 DEF y
  <2>2. \A c \in SBlocks : d.map[c] = IF SinceIn(v, c) \in 1 .. Held(d.tail, d.head)
                                      THEN Back(d.tail, SinceIn(v, c)) ELSE SNone
    BY <1>6, <1>10, <1>12
  <2>3. Held(d.tail, d.head) <= Len(v)
    BY <1>2, <1>11, <1>12
  <2> QED BY <1>6, <2>1, <2>2, <2>3 DEF Window
<1> QED BY <1>12, <1>13 DEF v, k, t

-----------------------------------------------------------------------------
(* The inductive invariant.                                                *)

Queue == [ring |-> ring, map |-> position, tail |-> tail, head |-> head]

(* The window is never longer than a segment, so a write fits in the ring. *)
WindowInv ==
  /\ written \in Seq(SBlocks)
  /\ Window(Queue, written) /\ Held(tail, head) <= SSegment

(* An average is of ages.                                                  *)
AverageInv ==
  /\ lastClass \in {0, 1}
  /\ lives \in Nat \X Nat /\ lives[1] <= SUnknown * lives[2] /\ lives[2] < SCollects
  /\ average # SNone => average \in Nat /\ average <= SUnknown * SCollects

(* A creation time is at least that of the block's own last write, and not *)
(* more than one ahead of the clock.                                       *)
CreatedInv ==
  /\ created \in [{Entry(b) : b \in SBlocks} -> Nat]
  /\ \A b \in SBlocks : Since(b) # 0 => created[Entry(b)] >= Now - Since(b) + 2

SepBITInv == WindowInv /\ AverageInv /\ CreatedInv

-----------------------------------------------------------------------------
LEMMA InitHasSepBITInv == SepBITInit => SepBITInv
<1> SUFFICES ASSUME SepBITInit PROVE SepBITInv
  OBVIOUS
<1>1. 0 \in Places /\ Held(0, 0) = 0
  BY HeldInWords, RingAssumption DEF Places
<1>2. written = <<>> /\ written \in Seq(SBlocks) /\ Len(written) = 0
  BY DEF SepBITInit
<1>3. \A b \in SBlocks : SinceIn(written, b) = 0
  <2> TAKE b \in SBlocks
  <2>1. SinceIn(written, b) \in 0 .. Len(written)
    BY <1>2, SinceInWords
  <2> QED BY <1>2, <2>1
<1>4. WindowInv
  <2>1. Queue \in WindowType
    BY <1>1, RingAssumption DEF SepBITInit, Queue, WindowType, Places
  <2>2. /\ Queue.tail = 0 /\ Queue.head = 0 /\ tail = 0 /\ head = 0
        /\ \A b \in SBlocks : Queue.map[b] = SNone
    BY DEF SepBITInit, Queue
  <2>3. Window(Queue, written)
    BY <1>1, <1>2, <1>3, <2>1, <2>2 DEF Window
  <2> QED BY <1>1, <1>2, <2>2, <2>3, RingAssumption DEF WindowInv
<1>5. AverageInv
  BY SepBITAssumption DEF SepBITInit, AverageInv
<1>6. CreatedInv
  BY <1>3 DEF SepBITInit, CreatedInv, Since, SinceIn
<1> QED BY <1>4, <1>5, <1>6 DEF SepBITInv

(* Update pushes, and forgets one or two; what it forgets is there.        *)
LEMMA UpdatedKeepsWindow ==
  ASSUME SepBITInv, NEW b \in SBlocks, NEW valid \in 1 .. SSegment
  PROVE  /\ Window(Updated(b, valid), Append(written, b))
         /\ Held(Updated(b, valid).tail, Updated(b, valid).head) <= SSegment
<1> DEFINE q == [ring |-> [ring EXCEPT ![tail] = b], map |-> [position EXCEPT ![b] = tail],
                 tail |-> (tail + 1) % SRing, head |-> head]
           one == ForgetOldest(q)
           long(p) == ~(average = SNone) /\ Held(p.tail, p.head) * SCollects > average
           v == Append(written, b)
           k == Held(tail, head)
           d == Updated(b, valid)
<1>1. d = IF ~(long(q) \/ Held(q.tail, q.head) > valid) THEN q
          ELSE IF long(one) THEN ForgetOldest(one) ELSE one
  BY DEF Updated
<1>2. /\ ring \in [Places -> Nat] /\ position \in [SBlocks -> Places \cup {SNone}]
      /\ tail \in Places /\ head \in Places /\ written \in Seq(SBlocks)
      /\ Window(Queue, written) /\ k <= SSegment /\ k \in Nat
  <2>1. Queue \in WindowType /\ written \in Seq(SBlocks) /\ k <= SSegment
        /\ Window(Queue, written)
    BY DEF SepBITInv, WindowInv, Window
  <2>2. /\ Queue.ring = ring /\ Queue.map = position /\ Queue.tail = tail /\ Queue.head = head
    BY DEF Queue
  <2>3. /\ ring \in [Places -> Nat] /\ position \in [SBlocks -> Places \cup {SNone}]
        /\ tail \in Places /\ head \in Places
    BY <2>1, <2>2 DEF WindowType
  <2> QED BY <2>1, <2>3, HeldInWords
<1>3. Window(q, v) /\ Held(q.tail, q.head) = k + 1 /\ v \in Seq(SBlocks)
  <2>1. b \in Nat
    BY RingAssumption
  <2>2. [ring EXCEPT ![tail] = b] \in [Places -> Nat]
    BY <1>2, <2>1
  <2>3. [position EXCEPT ![b] = tail] \in [SBlocks -> Places \cup {SNone}]
    BY <1>2
  <2>4. (tail + 1) % SRing \in Places
    BY <1>2, StepInWords
  <2>5. q \in WindowType
    BY <1>2, <2>2, <2>3, <2>4 DEF WindowType
  <2>6. /\ q.ring = [Queue.ring EXCEPT ![Queue.tail] = b]
        /\ q.map = [Queue.map EXCEPT ![b] = Queue.tail]
        /\ q.tail = (Queue.tail + 1) % SRing /\ q.head = Queue.head
        /\ Held(Queue.tail, Queue.head) = k
    BY DEF Queue
  <2>7. k < SRing - 1
    BY <1>2, RingAssumption
  <2> HIDE DEF q, k
  <2>8. Held(Queue.tail, Queue.head) < SRing - 1
    BY <2>6, <2>7
  <2>9. Window(q, Append(written, b)) /\ Held(q.tail, q.head) = Held(Queue.tail, Queue.head) + 1
    <3> DEFINE older == Queue
    <3>1. written \in Seq(SBlocks) /\ Window(older, written)
      BY <1>2
    <3>2. Held(older.tail, older.head) < SRing - 1
      BY <2>8
    <3>3. Pushed(older, b, q)
      BY <2>5, <2>6 DEF Pushed
    <3> HIDE DEF older
    <3>4. Window(q, Append(written, b)) /\ Held(q.tail, q.head) = Held(older.tail, older.head) + 1
      BY <3>1, <3>2, <3>3, PushKeepsWindow
    <3> QED BY <3>4 DEF older
  <2>10. v \in Seq(SBlocks)
    BY <1>2, AppendProperties
  <2> QED BY <2>6, <2>9, <2>10
<1>4. average = SNone \/ average \in Nat
  BY DEF SepBITInv, AverageInv
<1>5. SCollects \in Nat /\ SSegment \in Nat /\ valid \in Nat /\ valid >= 1 /\ valid <= SSegment
  BY SepBITAssumption, RingAssumption
<1> HIDE DEF q, v, k, d
<1>6. CASE ~(long(q) \/ Held(q.tail, q.head) > valid)
  <2>1. d = q /\ k + 1 <= valid
    BY <1>1, <1>2, <1>3, <1>5, <1>6
  <2> QED BY <1>2, <1>3, <1>5, <2>1 DEF v, d
<1>7. CASE long(q) \/ Held(q.tail, q.head) > valid
  <2>1. Window(one, v) /\ one.tail = q.tail /\ Held(one.tail, one.head) = k
    <3>1. Held(q.tail, q.head) # 0
      BY <1>2, <1>3
    <3>2. /\ Window(one, v) /\ one.tail = q.tail
          /\ Held(q.tail, one.head) = Held(q.tail, q.head) - 1
      BY <1>3, <3>1, ForgetOldestKeepsWindow
    <3> HIDE DEF one
    <3> QED BY <1>2, <1>3, <3>2
  <2> HIDE DEF one
  <2>2. CASE ~long(one)
    <3>1. d = one
      BY <1>1, <1>7, <2>2
    <3> QED BY <1>2, <2>1, <3>1 DEF v, d
  <2>3. CASE long(one)
    <3>1. d = ForgetOldest(one)
      BY <1>1, <1>7, <2>3
    <3>2. k # 0
      BY <1>4, <1>5, <2>1, <2>3
    <3>3. /\ Window(d, v) /\ d.tail = one.tail /\ Held(one.tail, d.head) = k - 1
      BY <1>3, <2>1, <3>1, <3>2, ForgetOldestKeepsWindow
    <3>4. k - 1 <= SSegment
      BY <1>2, <1>5
    <3> QED BY <3>3, <3>4 DEF v, d
  <2> QED BY <2>2, <2>3
<1> QED BY <1>6, <1>7


(* A host write.                                                           *)
LEMMA AppendsKeepsSepBITInv ==
  ASSUME SepBITInv, NEW b \in SBlocks, NEW valid \in 1 .. SSegment, Appends(b, valid)
  PROVE  SepBITInv'
<1> DEFINE d == Updated(b, valid)
<1>1. /\ ring' = d.ring /\ position' = d.map /\ tail' = d.tail /\ head' = d.head
      /\ created' = [created EXCEPT ![Entry(b)] = Len(written) + 2]
      /\ written' = Append(written, b)
      /\ average' = average /\ lives' = lives /\ lastClass' = lastClass
  BY DEF Appends
<1>2. Window(d, Append(written, b)) /\ Held(d.tail, d.head) <= SSegment
  BY UpdatedKeepsWindow
<1>3. /\ written \in Seq(SBlocks) /\ written' \in Seq(SBlocks)
      /\ Len(written) \in Nat /\ Len(written') = Len(written) + 1
  BY <1>1, AppendProperties DEF SepBITInv, WindowInv
<1> HIDE DEF d
<1>4. WindowInv'
  <2>1. d \in WindowType
    BY <1>2 DEF Window
  <2>2. d = [ring |-> d.ring, map |-> d.map, tail |-> d.tail, head |-> d.head]
    BY <2>1 DEF WindowType
  <2>3. Queue' = d
    BY <1>1, <2>2 DEF Queue
  <2>4. Window(Queue', written')
    BY <1>1, <1>2, <2>3
  <2>5. Held(tail', head') <= SSegment
    BY <1>1, <1>2
  <2> QED BY <1>3, <2>4, <2>5 DEF WindowInv, Window, WindowType, Held, Back
<1>5. AverageInv'
  BY <1>1 DEF SepBITInv, AverageInv
<1>6. CreatedInv'
  <2> DEFINE T == {Entry(c) : c \in SBlocks}
             time == Len(written) + 2
  <2>1. created \in [T -> Nat] /\ Entry(b) \in T /\ time \in Nat
    BY <1>3 DEF SepBITInv, CreatedInv
  <2>2. created' = [created EXCEPT ![Entry(b)] = time]
    BY <1>1
  <2> HIDE DEF T, time
  <2>3. created' \in [T -> Nat]
    BY <2>1, <2>2
  <2>4. ASSUME NEW c \in SBlocks, SinceIn(written', c) # 0
        PROVE  created'[Entry(c)] >= Len(written') - SinceIn(written', c) + 2
    <3> DEFINE s == SinceIn(written, c)
               r == SinceIn(written', c)
               e == Entry(c)
    <3>1. r = IF c = b THEN 1 ELSE IF s = 0 THEN 0 ELSE s + 1
      BY <1>1, <1>3, SinceSteps
    <3>2. s \in Nat /\ r # 0
      BY <1>3, <2>4, SinceInWords
    <3>3. s # 0 => created[e] >= Len(written) - s + 2
      BY DEF SepBITInv, CreatedInv, Since, SinceIn, Now
    <3>4. e \in T /\ created[e] \in Nat
      BY <2>1 DEF T
    <3>5. created'[e] = IF e = Entry(b) THEN time ELSE created[e]
      BY <2>1, <2>2, <3>4
    <3>6. c = b => e = Entry(b)
      OBVIOUS
    <3> HIDE DEF s, r, e
    <3>7. created'[e] >= Len(written') - r + 2
      BY <1>3, <3>1, <3>2, <3>3, <3>4, <3>5, <3>6 DEF time
    <3> QED BY <3>7 DEF r, e
  <2>5. \A c \in SBlocks : Since(c)' # 0 => created'[Entry(c)] >= Now' - Since(c)' + 2
    BY <2>4 DEF Since, SinceIn, Now
  <2> QED BY <2>3, <2>5 DEF CreatedInv, T
<1> QED BY <1>4, <1>5, <1>6 DEF SepBITInv

(* A segment is collected.                                                 *)
LEMMA CollectsKeepsSepBITInv ==
  ASSUME SepBITInv, NEW class \in 0 .. 1, NEW age \in SAges, Collects(class, age)
  PROVE  SepBITInv'
<1>1. /\ ring' = ring /\ position' = position /\ tail' = tail /\ head' = head
      /\ created' = created /\ written' = written /\ lastClass' = class
  BY DEF Collects
<1>2. WindowInv'
  BY <1>1 DEF SepBITInv, WindowInv, Window, Queue
<1>3. CreatedInv'
  BY <1>1 DEF SepBITInv, CreatedInv, Since, Now
<1>4. AverageInv'
  <2> DEFINE x == lives[1]
             n == lives[2]
             m == IF class = 0 THEN <<x + age, n + 1>> ELSE lives
  <2>1. /\ lives \in Nat \X Nat /\ x \in Nat /\ n \in Nat /\ x <= SUnknown * n /\ n < SCollects
        /\ average # SNone => average \in Nat /\ average <= SUnknown * SCollects
    BY DEF SepBITInv, AverageInv
  <2>2. SUnknown \in Nat /\ SCollects \in Nat /\ SCollects > 0 /\ age \in Nat /\ age <= SUnknown
    BY SepBITAssumption
  <2>3. IF m[2] = SCollects THEN average' = m[1] /\ lives' = <<0, 0>>
                            ELSE lives' = m /\ average' = average
    BY DEF Collects
  <2>4. SUnknown * (n + 1) = SUnknown * n + SUnknown
    BY <2>1, <2>2
  <2>5. m \in Nat \X Nat /\ m[1] <= SUnknown * m[2] /\ m[2] <= SCollects
    <3>1. CASE class = 0
      <4>1. m[1] = x + age /\ m[2] = n + 1 /\ m \in Nat \X Nat
        BY <2>1, <2>2, <3>1
      <4> DEFINE y == SUnknown * n
                 z == SUnknown * (n + 1)
      <4>2. y \in Int /\ z = y + SUnknown /\ x <= y
        BY <2>1, <2>2, <2>4
      <4> HIDE DEF y, z, x, n, m
      <4>3. x + age <= z /\ n + 1 <= SCollects
        BY <2>1, <2>2, <4>2
      <4> QED BY <4>1, <4>3 DEF z
    <3>2. CASE class # 0
      <4>1. m = lives
        BY <3>2
      <4> QED BY <2>1, <2>2, <4>1
    <3> QED BY <3>1, <3>2
  <2> HIDE DEF m
  <2>6. lastClass' \in {0, 1}
    BY <1>1
  <2>7. CASE m[2] = SCollects
    <3>1. average' = m[1] /\ lives' = <<0, 0>>
      BY <2>3, <2>7
    <3>2. average' \in Nat /\ average' <= SUnknown * SCollects
      BY <2>5, <2>7, <3>1
    <3>3. lives' \in Nat \X Nat /\ lives'[1] = 0 /\ lives'[2] = 0
      BY <3>1
    <3>4. 0 <= SUnknown * 0
      BY <2>2
    <3> QED BY <2>2, <2>6, <3>2, <3>3, <3>4 DEF AverageInv
  <2>8. CASE m[2] # SCollects
    <3>1. lives' = m /\ average' = average
      BY <2>3, <2>8
    <3>2. m[2] < SCollects
      BY <2>2, <2>5, <2>8
    <3> QED BY <2>1, <2>5, <2>6, <3>1, <3>2 DEF AverageInv
  <2> QED BY <2>7, <2>8
<1> QED BY <1>2, <1>3, <1>4 DEF SepBITInv

-----------------------------------------------------------------------------
(* The window always holds the last writes, in order, and the map where    *)
(* each block in it was last written (sepbit.cpp, fifo.h).                 *)
THEOREM SepBITInvariance == SepBITSpec => []SepBITInv
<1>1. SepBITInit => SepBITInv
  BY InitHasSepBITInv
<1>2. SepBITInv /\ [SepBITNext]_svars => SepBITInv'
  <2> SUFFICES ASSUME SepBITInv, [SepBITNext]_svars
               PROVE  SepBITInv'
    OBVIOUS
  <2>1. ASSUME NEW b \in SBlocks, NEW valid \in 1 .. SSegment, Appends(b, valid)
        PROVE  SepBITInv'
    BY <2>1, AppendsKeepsSepBITInv
  <2>2. ASSUME NEW class \in 0 .. 1, NEW age \in SAges, Collects(class, age)
        PROVE  SepBITInv'
    BY <2>2, CollectsKeepsSepBITInv
  <2>3. CASE UNCHANGED svars
    BY <2>3 DEF svars, SepBITInv, WindowInv, AverageInv, CreatedInv, Window, Queue, Since, Now
  <2> QED BY <2>1, <2>2, <2>3 DEF SepBITNext
<1> QED BY <1>1, <1>2, PTL DEF SepBITSpec

(* RecencyExact (FIFO::Query, fifo.h:56): however the ring wraps and the   *)
(* window is cut back, the queue says exactly how long ago a block of the  *)
(* window was written, and nothing of the others.                          *)
THEOREM RecencyStaysExact == SepBITSpec => []RecencyExact
<1>1. SepBITInv => RecencyExact
  <2> SUFFICES ASSUME SepBITInv, NEW b \in SBlocks
               PROVE  Lifespan(b) = IF Since(b) \in 1 .. Held(tail, head) THEN Since(b)
                                                                          ELSE SUnknown
    BY DEF RecencyExact
  <2> DEFINE s == Since(b)
             k == Held(tail, head)
  <2>1. Window(Queue, written)
    BY DEF SepBITInv, WindowInv
  <2>2. Queue.tail = tail /\ Queue.head = head /\ Queue.map = position
    BY DEF Queue
  <2>3. position[b] = IF s \in 1 .. k THEN Back(tail, s) ELSE SNone
    BY <2>1, <2>2 DEF Window, Since, SinceIn
  <2>4. tail \in Places /\ head \in Places
    BY <2>1, <2>2 DEF Window, WindowType
  <2>5. k \in 0 .. SRing - 1
    BY <2>4, HeldInWords
  <2> HIDE DEF s, k
  <2>6. CASE s \in 1 .. k
    <3>1. s \in 1 .. SRing - 1
      BY <2>5, <2>6, RingAssumption
    <3>2. Back(tail, s) \in Places /\ Held(tail, Back(tail, s)) = s
      BY <2>4, <3>1, BackInWords
    <3>3. position[b] # SNone
      BY <2>3, <2>6, <3>2, RingAssumption
    <3> QED BY <2>3, <2>6, <3>2, <3>3 DEF Lifespan, s, k
  <2>7. CASE s \notin 1 .. k
    BY <2>3, <2>7 DEF Lifespan, s, k
  <2> QED BY <2>6, <2>7
<1> QED BY <1>1, SepBITInvariance, PTL

(* A multiple of the average a longer time is below, a shorter is.         *)
LEMMA BelowMonotone ==
  ASSUME AverageInv, NEW x \in Nat, NEW y \in Nat, NEW k \in Nat, x <= y, Below(y, k)
  PROVE  Below(x, k)
<1>1. CASE average = SNone
  BY <1>1 DEF Below
<1>2. CASE average # SNone
  <2>1. SCollects \in Nat /\ average \in Nat
    BY <1>2, SepBITAssumption DEF AverageInv
  <2> DEFINE z == y - x
             px == x * SCollects
             pz == z * SCollects
             bound == k * average
  <2>2. z \in Nat /\ y = x + z
    OBVIOUS
  <2>3. (x + z) * SCollects = px + pz /\ px \in Nat /\ pz \in Nat /\ bound \in Nat
    BY <2>1, <2>2
  <2>4. y * SCollects < bound
    BY <1>2 DEF Below
  <2>5. px < bound
    <3> HIDE DEF px, pz, bound, z
    <3> QED BY <2>2, <2>3, <2>4
  <2> QED BY <2>5 DEF Below
<1> QED BY <1>1, <1>2

(* ClassesFollowHistory (SepBIT::Classify, sepbit.cpp:14-41): a block is   *)
(* hot only if it was written again in less than the average life, and one *)
(* that is moved is never classed older than it is.                        *)
THEOREM ClassesStayTrue == SepBITSpec => []ClassesFollowHistory
<1>1. SepBITInv /\ RecencyExact => ClassesFollowHistory
  <2> SUFFICES ASSUME SepBITInv, RecencyExact, NEW b \in SBlocks
               PROVE
                 /\ average # SNone /\ HostClass(b) = 0 => Since(b) > 0 /\ Below(Since(b), 1)
                 /\ Since(b) > 0 /\ lastClass # 0 /\ ~Ahead(b) =>
                      /\ Below(Since(b), 4) => GCClass(b) = 3
                      /\ Below(Since(b), 16) => GCClass(b) <= 4
    BY DEF ClassesFollowHistory
  <2> DEFINE s == Since(b)
             at == created[Entry(b)]
  <2>1. AverageInv /\ s \in 0 .. Len(written) /\ Len(written) \in Nat
    <3>1. AverageInv /\ written \in Seq(SBlocks)
      BY DEF SepBITInv, WindowInv
    <3>2. s = SinceIn(written, b)
      BY DEF Since, SinceIn
    <3> HIDE DEF s
    <3> QED BY <3>1, <3>2, SinceInWords
  <2>2. at \in Nat /\ (s # 0 => at >= Len(written) - s + 2)
    BY DEF SepBITInv, CreatedInv, Now
  <2>3. Lifespan(b) = IF s \in 1 .. Held(tail, head) THEN s ELSE SUnknown
    BY DEF RecencyExact
  <2> HIDE DEF s, at
  <2>4. ASSUME average # SNone, HostClass(b) = 0
        PROVE  s > 0 /\ Below(s, 1)
    <3>1. Below(Lifespan(b), 1)
      BY <2>4 DEF HostClass
    <3>2. ~Below(SUnknown, 1)
      <4> DEFINE p == SUnknown * SCollects
      <4>1. average \in Nat /\ average <= p /\ p \in Nat
        BY <2>1, <2>4, SepBITAssumption DEF AverageInv
      <4> HIDE DEF p
      <4>2. ~(p < 1 * average)
        BY <4>1
      <4> QED BY <2>4, <4>2 DEF Below, p
    <3>3. s \in 1 .. Held(tail, head)
      BY <2>3, <3>1, <3>2
    <3>4. Lifespan(b) = s
      BY <2>3, <3>3
    <3>5. s > 0
      BY <2>1, <3>3
    <3> QED BY <3>1, <3>4, <3>5
  <2>5. ASSUME s > 0, lastClass # 0, ~Ahead(b)
        PROVE  (Below(s, 4) => GCClass(b) = 3) /\ (Below(s, 16) => GCClass(b) <= 4)
    <3> DEFINE age == Len(written) - at
    <3>1. ~(at > Len(written))
      BY <2>5 DEF Ahead, Now, at
    <3>2. age \in Nat /\ age <= s
      BY <2>1, <2>2, <2>5, <3>1
    <3>3. GCClass(b) = IF Below(age, 4) THEN 3 ELSE IF Below(age, 16) THEN 4 ELSE 5
      BY <2>5 DEF GCClass, Now, at
    <3> HIDE DEF age
    <3>4. Below(s, 4) => Below(age, 4)
      BY <2>1, <3>2, BelowMonotone
    <3>5. Below(s, 16) => Below(age, 16)
      BY <2>1, <3>2, BelowMonotone
    <3>6. CASE Below(age, 4)
      BY <3>3, <3>6
    <3>7. CASE ~Below(age, 4)
      BY <3>3, <3>4, <3>5, <3>7
    <3> QED BY <3>6, <3>7
  <2> QED BY <2>4, <2>5 DEF s
<1> QED BY <1>1, SepBITInvariance, RecencyStaysExact, PTL

(* HistoryKept: for every ring, segment size, set of blocks and table of   *)
(* creation times, what SepBIT remembers of the past is right.             *)
THEOREM HistoryStaysKept == SepBITSpec => []HistoryKept
<1>1. RecencyExact /\ ClassesFollowHistory => HistoryKept
  BY DEF HistoryKept
<1> QED BY <1>1, RecencyStaysExact, ClassesStayTrue, PTL

-----------------------------------------------------------------------------
(*                          The victim policies                            *)
-----------------------------------------------------------------------------
(* A list without repetitions, and which of two segments is ahead in it.   *)
NoTwice(q) == \A i, j \in DOMAIN q : q[i] = q[j] => i = j
IsList(q) == q \in Seq(PSegs) /\ NoTwice(q)
InFront(q, s, t) == \E i, j \in DOMAIN q : i < j /\ q[i] = s /\ q[j] = t

-----------------------------------------------------------------------------
(* The lists.                                                              *)

LEMMA ListDomain ==
  ASSUME NEW q, IsList(q)
  PROVE  /\ Len(q) \in Nat /\ DOMAIN q = 1 .. Len(q)
         /\ \A s : s \in Range(q) <=> \E i \in 1 .. Len(q) : q[i] = s
         /\ Range(q) \subseteq PSegs
<1>1. Len(q) \in Nat /\ DOMAIN q = 1 .. Len(q) /\ \A i \in 1 .. Len(q) : q[i] \in PSegs
  BY LenProperties, ElementOfSeq DEF IsList
<1> QED BY <1>1 DEF Range

LEMMA EmptyList ==
  IsList(<<>>) /\ Range(<<>>) = {}
BY DEF IsList, NoTwice, Range

LEMMA ContainsIsListed ==
  ASSUME NEW q, IsList(q), NEW s
  PROVE  Contains(q, s) <=> s \in Range(q)
BY ListDomain DEF Contains

LEMMA AheadIsListed ==
  ASSUME NEW q, NEW s, NEW t, IsList(q), InFront(q, s, t)
  PROVE  s \in Range(q) /\ t \in Range(q)
BY DEF InFront, Range

(* The back of a list.                                                     *)
LEMMA ListAppend ==
  ASSUME NEW q, IsList(q), NEW e \in PSegs, e \notin Range(q)
  PROVE  /\ IsList(Append(q, e))
         /\ Range(Append(q, e)) = Range(q) \cup {e}
         /\ \A s, t : InFront(Append(q, e), s, t) <=> InFront(q, s, t) \/ (s \in Range(q) /\ t = e)
<1> DEFINE r == Append(q, e)
           n == Len(q)
<1>1. q \in Seq(PSegs) /\ \A i, j \in DOMAIN q : q[i] = q[j] => i = j
  BY DEF IsList, NoTwice
<1>2. /\ r \in Seq(PSegs) /\ Range(r) = Range(q) \cup {e}
      /\ \A i, j \in DOMAIN r : r[i] = r[j] => i = j
  BY <1>1, PushBack
<1>3. /\ n \in Nat /\ DOMAIN q = 1 .. n
      /\ \A s : s \in Range(q) <=> \E i \in 1 .. n : q[i] = s
  BY ListDomain
<1>4. Len(r) = n + 1 /\ r[n + 1] = e /\ \A i \in 1 .. n : r[i] = q[i]
  BY <1>1, AppendProperties
<1>5. DOMAIN r = 1 .. n + 1
  BY <1>2, <1>4, LenProperties
<1> HIDE DEF r, n
<1>6. ASSUME NEW s, NEW t
      PROVE  InFront(r, s, t) <=> InFront(q, s, t) \/ (s \in Range(q) /\ t = e)
  <2>1. ASSUME InFront(r, s, t) PROVE InFront(q, s, t) \/ (s \in Range(q) /\ t = e)
    <3>1. PICK i \in 1 .. n + 1, j \in 1 .. n + 1 : i < j /\ r[i] = s /\ r[j] = t
      BY <2>1, <1>5 DEF InFront
    <3>2. i \in 1 .. n /\ (j = n + 1 \/ j \in 1 .. n)
      BY <3>1, <1>3
    <3> QED BY <3>1, <3>2, <1>3, <1>4 DEF InFront
  <2>2. ASSUME InFront(q, s, t) PROVE InFront(r, s, t)
    <3>1. PICK i \in 1 .. n, j \in 1 .. n : i < j /\ q[i] = s /\ q[j] = t
      BY <2>2, <1>3 DEF InFront
    <3>2. i \in 1 .. n + 1 /\ j \in 1 .. n + 1
      BY <1>3
    <3> QED BY <3>1, <3>2, <1>4, <1>5 DEF InFront
  <2>3. ASSUME s \in Range(q), t = e PROVE InFront(r, s, t)
    <3>1. PICK i \in 1 .. n : q[i] = s
      BY <2>3, <1>3
    <3>2. i \in 1 .. n + 1 /\ n + 1 \in 1 .. n + 1 /\ i < n + 1
      BY <1>3
    <3> QED BY <3>1, <3>2, <2>3, <1>4, <1>5 DEF InFront
  <2> QED BY <2>1, <2>2, <2>3
<1> QED BY <1>2, <1>6 DEF r, IsList, NoTwice

(* erase.                                                                  *)
LEMMA ListErase ==
  ASSUME NEW q, IsList(q), NEW e
  PROVE  /\ IsList(RemoveFirst(q, e))
         /\ Range(RemoveFirst(q, e)) = Range(q) \ {e}
         /\ \A s, t : InFront(RemoveFirst(q, e), s, t) <=> InFront(q, s, t) /\ s # e /\ t # e
<1> DEFINE r == RemoveFirst(q, e)
           n == Len(q)
<1>1. q \in Seq(PSegs) /\ \A i, j \in DOMAIN q : q[i] = q[j] => i = j
  BY DEF IsList, NoTwice
<1>2. /\ n \in Nat /\ DOMAIN q = 1 .. n
      /\ \A s : s \in Range(q) <=> \E i \in 1 .. n : q[i] = s
  BY ListDomain
<1>3. CASE e \notin Range(q)
  <2>1. r = q
    BY <1>2, <1>3 DEF RemoveFirst
  <2>2. \A s, t : InFront(q, s, t) => s \in Range(q) /\ t \in Range(q)
    BY AheadIsListed
  <2> QED BY <2>1, <2>2, <1>3
<1>4. CASE e \in Range(q)
  <2>1. PICK p \in 1 .. n : q[p] = e
    BY <1>2, <1>4
  <2>2. {i \in 1 .. n : q[i] = e} = {p}
    BY <2>1, <1>1, <1>2
  <2>3. Min({p}) = p
    <3>1. \A x \in {p} : \A y \in {p} : x =< y
      BY <1>2
    <3> QED BY <3>1 DEF Min
  <2>4. r = SubSeq(q, 1, p - 1) \o SubSeq(q, p + 1, Len(q))
    <3>1. SelectInSeq(q, LAMBDA v : v = e) = p
      BY <2>2, <2>3 DEF SelectInSeq
    <3> QED BY <3>1, <2>1 DEF RemoveFirst, RemoveAt
  <2> DEFINE old(j) == IF j < p THEN j ELSE j + 1
  <2>5. /\ r \in Seq(PSegs) /\ Len(r) = n - 1
        /\ \A j, k \in DOMAIN r : r[j] = r[k] => j = k
        /\ Range(r) = Range(q) \ {e}
        /\ \A j \in 1 .. n - 1 : r[j] = q[old(j)]
    <3>1. p \in DOMAIN q
      BY <1>2
    <3> DEFINE cut == SubSeq(q, 1, p - 1) \o SubSeq(q, p + 1, Len(q))
    <3>2. /\ cut \in Seq(PSegs) /\ Len(cut) = Len(q) - 1
          /\ \A j, k \in DOMAIN cut : cut[j] = cut[k] => j = k
          /\ Range(cut) = Range(q) \ {q[p]}
          /\ Skips(cut, q, p)
      BY ONLY <3>1, <1>1, TakeOut
    <3>3. r = cut
      BY <2>4
    <3> HIDE DEF cut, r
    <3> QED BY <3>2, <3>3, <2>1 DEF Skips
  <2>6. DOMAIN r = 1 .. n - 1
    BY <2>5, LenProperties
  <2>7. ASSUME NEW s, NEW t
        PROVE  InFront(r, s, t) <=> InFront(q, s, t) /\ s # e /\ t # e
    <3> HIDE DEF r, n
    <3>1. ASSUME InFront(r, s, t) PROVE InFront(q, s, t) /\ s # e /\ t # e
      <4>1. PICK i \in 1 .. n - 1, j \in 1 .. n - 1 : i < j /\ r[i] = s /\ r[j] = t
        BY <3>1, <2>6 DEF InFront
      <4>2. /\ old(i) \in 1 .. n /\ old(j) \in 1 .. n /\ old(i) < old(j)
            /\ old(i) # p /\ old(j) # p
        BY <4>1, <1>2
      <4>3. q[old(i)] = s /\ q[old(j)] = t
        BY <4>1, <2>5
      <4> HIDE DEF old
      <4>4. s # e /\ t # e
        BY <4>2, <4>3, <2>1, <1>1, <1>2
      <4> QED BY <4>2, <4>3, <4>4, <1>2 DEF InFront
    <3>2. ASSUME InFront(q, s, t), s # e, t # e PROVE InFront(r, s, t)
      <4>1. PICK i \in 1 .. n, j \in 1 .. n : i < j /\ q[i] = s /\ q[j] = t
        BY <3>2, <1>2 DEF InFront
      <4> DEFINE new(k) == IF k < p THEN k ELSE k - 1
      <4>2. i # p /\ j # p
        BY <4>1, <3>2, <2>1
      <4>3. /\ new(i) \in 1 .. n - 1 /\ new(j) \in 1 .. n - 1 /\ new(i) < new(j)
            /\ old(new(i)) = i /\ old(new(j)) = j
        BY <4>1, <4>2, <2>1, <1>2
      <4> HIDE DEF old, new
      <4>4. r[new(i)] = s /\ r[new(j)] = t
        BY <4>1, <4>3, <2>5
      <4> QED BY <4>3, <4>4, <2>6 DEF InFront
    <3> QED BY <3>1, <3>2
  <2> QED BY <2>5, <2>7 DEF IsList, NoTwice
<1> QED BY <1>3, <1>4

(* A list is no longer than there are segments.                            *)
LEMMA ListIsShort ==
  ASSUME NEW q, IsList(q)
  PROVE  /\ Len(q) \in Nat /\ Cardinality(PSegs) \in Nat
         /\ Len(q) <= Cardinality(PSegs)
<1>1. Range(q) \subseteq PSegs /\ Len(q) \in Nat /\ IsFiniteSet(PSegs)
  BY ListDomain, VictimPoliciesAssumption
<1>2. Cardinality(Range(q)) <= Cardinality(PSegs) /\ Cardinality(PSegs) \in Nat
  BY <1>1, FS_Subset, FS_CardinalityType
<1>3. Cardinality(Range(q)) = Len(q)
  BY DistinctCount DEF IsList, NoTwice
<1> QED BY <1>1, <1>2, <1>3

(* The front of a list.                                                    *)
LEMMA ListFront ==
  ASSUME NEW q, IsList(q), q # <<>>
  PROVE  /\ Head(q) \in Range(q)
         /\ \A t \in Range(q) : t # Head(q) => InFront(q, Head(q), t)
<1>1. Len(q) \in Nat /\ Len(q) # 0
  BY EmptySeq DEF IsList
<1>2. /\ DOMAIN q = 1 .. Len(q) /\ Head(q) = q[1] /\ 1 \in 1 .. Len(q)
      /\ \A s : s \in Range(q) <=> \E i \in 1 .. Len(q) : q[i] = s
  BY <1>1, ListDomain
<1>3. ASSUME NEW i \in 1 .. Len(q), q[i] # q[1] PROVE 1 < i
  BY <1>1, <1>3
<1> QED BY <1>2, <1>3 DEF InFront

-----------------------------------------------------------------------------
(* The inductive invariant.                                                *)

PTypeOK ==
  /\ pkind \in Kinds
  /\ pcnt \in [PSegs -> 0 .. PSize] /\ pclass \in [PSegs -> Queues]
  /\ pstate \in [PSegs -> {"free", "full", "sealed", "victim"}]
  /\ queue \in [Queues -> Seq(PSegs)]
  /\ heap \subseteq Nat \X Nat \X PSegs \X Queues
  /\ version \in [PSegs -> (Nat \X Queues) \cup {PNone}]
  /\ gen \in Nat /\ nextq \in Queues

(* A segment is in one list, once.                                         *)
OnceInv ==
  /\ \A q \in Queues : IsList(queue[q])
  /\ \A q, r \in Queues, s \in PSegs : s \in Range(queue[q]) /\ s \in Range(queue[r]) => q = r
  /\ IsList(padded)

(* The sealed segments are listed; what is listed is sealed or a victim.   *)
ListedInv ==
  /\ \A q \in Queues : \A s \in Range(queue[q]) : pstate[s] \in {"sealed", "victim"}
  /\ pkind # "midas" => \A s \in Sealed : \E q \in Queues : s \in Range(queue[q])

(* The list a segment is in.                                               *)
PlaceInv ==
  \A q \in Queues : \A s \in Range(queue[q]) :
    /\ pkind = "zero" => q = IF pcnt[s] = 0 THEN 1 ELSE 0
    /\ pkind = "selective" => q = pclass[s]

(* The lists are in the order of padded, except for zero's list of empty   *)
(* segments, which is in the order they became empty.                      *)
Ordered(q) == pkind \in {"selective", "multi"} \/ (pkind = "zero" /\ q = 0)
OrderInv ==
  /\ \A s \in Range(padded) : pstate[s] \in {"sealed", "victim"}
  /\ Sealed \subseteq Range(padded)
  /\ \A q \in Queues : Ordered(q) =>
       /\ Range(queue[q]) \subseteq Range(padded)
       /\ \A s, t : InFront(queue[q], s, t) => InFront(padded, s, t)

(* A generation is of one entry; a live entry has the count and the stream *)
(* of its segment; a sealed segment has one.                               *)
GenInv ==
  /\ \A x \in heap : x[2] <= gen
  /\ \A x, y \in heap : x[2] = y[2] => x = y
  /\ \A s \in PSegs : version[s] # PNone => version[s][1] <= gen
HeapInv ==
  /\ \A s \in PSegs : pstate[s] = "free" => version[s] = PNone
  /\ \A x \in heap : Live(x) => /\ x[1] = pcnt[x[3]] /\ x[4] = pclass[x[3]]
                                /\ pstate[x[3]] \in {"full", "sealed"}
  /\ pkind # "midas" => heap = {}
  /\ pkind = "midas" => \A s \in Sealed : \E x \in heap : x[3] = s /\ Live(x)

PInv == PTypeOK /\ OnceInv /\ ListedInv /\ PlaceInv /\ OrderInv /\ GenInv /\ HeapInv

-----------------------------------------------------------------------------
(* The steps.                                                              *)

LEMMA PartsFacts ==
  /\ 0 \in Queues /\ 1 \in Queues /\ Queues \subseteq Nat
  /\ IsFiniteSet(PSegs) /\ PSize \in Nat /\ PNone \notin Nat \X Nat
BY VictimPoliciesAssumption DEF Queues

LEMMA InitHasPInv == VictimPoliciesInit => PInv
<1> SUFFICES ASSUME VictimPoliciesInit PROVE PInv
  OBVIOUS
<1>1. PTypeOK
  BY PartsFacts DEF VictimPoliciesInit, PTypeOK
<1>2. \A q \in Queues : queue[q] = <<>>
  BY DEF VictimPoliciesInit
<1>3. OnceInv
  BY <1>2, EmptyList DEF VictimPoliciesInit, OnceInv
<1>4. Sealed = {} /\ \A s \in PSegs : version[s] = PNone /\ heap = {}
  BY DEF VictimPoliciesInit, Sealed
<1>5. ListedInv /\ PlaceInv
  BY <1>2, <1>4, EmptyList DEF ListedInv, PlaceInv
<1>6. OrderInv
  <2>1. ASSUME NEW s, NEW t PROVE ~InFront(<<>>, s, t)
    BY AheadIsListed, EmptyList
  <2> QED BY <2>1, <1>2, <1>4, EmptyList DEF VictimPoliciesInit, OrderInv
<1>7. GenInv /\ HeapInv
  BY <1>4 DEF VictimPoliciesInit, GenInv, HeapInv
<1> QED BY <1>1, <1>3, <1>5, <1>6, <1>7 DEF PInv

(* An outdated entry has no version, and an entry that has one is live.    *)
LEMMA LiveHasVersion ==
  ASSUME PTypeOK, NEW x \in heap, Live(x)
  PROVE  /\ x[3] \in PSegs /\ version[x[3]] # PNone
         /\ version[x[3]] = <<x[2], x[4]>>
<1>1. x[2] \in Nat /\ x[3] \in PSegs /\ x[4] \in Queues
  BY DEF PTypeOK
<1>2. <<x[2], x[4]>> \in Nat \X Nat
  BY <1>1, PartsFacts
<1>3. version[x[3]] = <<x[2], x[4]>>
  BY DEF Live
<1> QED BY <1>1, <1>2, <1>3, PartsFacts

LEMMA PStutter ==
  ASSUME PInv, UNCHANGED pvars
  PROVE  PInv'
<1> USE DEF PInv, pvars, containers
<1>1. PTypeOK'
  BY DEF PTypeOK
<1>2. OnceInv' /\ PlaceInv'
  BY DEF OnceInv, PlaceInv
<1>3. ListedInv' /\ OrderInv'
  BY DEF ListedInv, OrderInv, Ordered, Sealed
<1>4. GenInv' /\ HeapInv'
  BY DEF GenInv, HeapInv, Live, Sealed
<1> QED BY <1>1, <1>2, <1>3, <1>4

(* A segment fills up: no policy knows it.                                 *)
LEMMA FillsKeepsPInv ==
  ASSUME PInv, NEW s \in PSegs, Fills(s)
  PROVE  PInv'
<1>1. /\ pstate[s] = "free"
      /\ pstate' = [pstate EXCEPT ![s] = "full"]
      /\ UNCHANGED <<pkind, queue, heap, version, gen, nextq, padded>>
  BY DEF Fills, containers
<1>2. /\ \E n \in 1 .. PSize : pcnt' = [pcnt EXCEPT ![s] = n]
      /\ \E d \in Queues : pclass' = [pclass EXCEPT ![s] = d]
  BY DEF Fills
<1>3. PTypeOK'
  BY <1>1, <1>2, PartsFacts DEF PInv, PTypeOK
<1>4. /\ \A r \in PSegs : r # s => /\ pstate'[r] = pstate[r] /\ pcnt'[r] = pcnt[r]
                                   /\ pclass'[r] = pclass[r]
      /\ pstate'[s] = "full"
  BY <1>1, <1>2 DEF PInv, PTypeOK
<1>5. Sealed' = Sealed
  BY <1>1, <1>4 DEF Sealed
<1>6. s \notin Range(padded) /\ \A q \in Queues : s \notin Range(queue[q])
  BY <1>1 DEF PInv, ListedInv, OrderInv
<1>7. Range(padded) \subseteq PSegs /\ \A q \in Queues : Range(queue[q]) \subseteq PSegs
  BY ListDomain DEF PInv, OnceInv
<1>8. OnceInv'
  BY <1>1 DEF PInv, OnceInv
<1>9. ListedInv' /\ PlaceInv'
  BY <1>1, <1>4, <1>5, <1>6, <1>7 DEF PInv, ListedInv, PlaceInv
<1>10. OrderInv'
  BY <1>1, <1>4, <1>5, <1>6, <1>7 DEF PInv, OrderInv, Ordered
<1>11. GenInv'
  BY <1>1 DEF PInv, GenInv
<1>12. HeapInv'
  <2>1. \A x \in heap : Live(x) => x[3] \in PSegs /\ x[3] # s
    BY <1>1, LiveHasVersion DEF PInv, HeapInv
  <2>2. \A x : Live(x)' <=> Live(x)
    BY <1>1 DEF Live
  <2> QED BY <2>1, <2>2, <1>1, <1>4, <1>5 DEF PInv, HeapInv
<1> QED BY <1>3, <1>8, <1>9, <1>10, <1>11, <1>12 DEF PInv

(* push_entry: the new entry is the only live one of its segment.          *)
LEMMA PushKeepsHeap ==
  ASSUME PInv, NEW s \in PSegs, NEW cnt \in 0 .. PSize, PushEntry(s, cnt),
         pkind = "midas", pkind' = pkind, pclass' = pclass, pcnt'[s] = cnt,
         pstate[s] \in {"full", "sealed"}, pstate'[s] \in {"full", "sealed"},
         \A r \in PSegs : r # s => pstate'[r] = pstate[r] /\ pcnt'[r] = pcnt[r]
  PROVE  /\ queue' = queue /\ nextq' = nextq /\ gen' \in Nat
         /\ heap' \subseteq Nat \X Nat \X PSegs \X Queues
         /\ version' \in [PSegs -> (Nat \X Queues) \cup {PNone}]
         /\ GenInv' /\ HeapInv'
<1> PICK new : new = <<cnt, gen + 1, s, pclass[s]>>
  OBVIOUS
<1>1. /\ gen' = gen + 1 /\ heap' = heap \cup {new}
      /\ version' = [version EXCEPT ![s] = <<gen + 1, pclass[s]>>]
      /\ queue' = queue /\ nextq' = nextq
  BY DEF PushEntry
<1>2. /\ gen \in Nat /\ cnt \in Nat /\ pclass[s] \in Queues
      /\ \A x \in heap : x \in Nat \X Nat \X PSegs \X Queues
      /\ version \in [PSegs -> (Nat \X Queues) \cup {PNone}]
  BY PartsFacts DEF PInv, PTypeOK
<1>3. /\ gen' \in Nat /\ version' \in [PSegs -> (Nat \X Queues) \cup {PNone}]
      /\ version'[s] = <<gen + 1, pclass[s]>> /\ version'[s] # PNone
      /\ \A r \in PSegs : r # s => version'[r] = version[r]
  <2> DEFINE now == <<gen + 1, pclass[s]>>
  <2>1. gen + 1 \in Nat /\ now \in Nat \X Queues /\ now \in Nat \X Nat
    <3>1. gen + 1 \in Nat
      BY <1>2
    <3>2. pclass[s] \in Queues /\ pclass[s] \in Nat
      BY <1>2, PartsFacts, Zenon
    <3> QED BY <3>1, <3>2
  <2>2. version' = [version EXCEPT ![s] = now]
    BY <1>1
  <2> HIDE DEF now
  <2>3. version' \in [PSegs -> (Nat \X Queues) \cup {PNone}]
    BY <2>1, <2>2, <1>2
  <2>4. version'[s] = now /\ \A r \in PSegs : r # s => version'[r] = version[r]
    BY <2>2, <1>2
  <2>5. now # PNone
    BY <2>1, PartsFacts
  <2> QED BY <2>1, <2>3, <2>4, <2>5, <1>1 DEF now
<1>4. new[1] = cnt /\ new[2] = gen + 1 /\ new[3] = s /\ new[4] = pclass[s]
  OBVIOUS
<1>5. new \in Nat \X Nat \X PSegs \X Queues
  BY <1>2
<1>6. heap' \subseteq Nat \X Nat \X PSegs \X Queues
  BY <1>1, <1>2, <1>5
<1>7. \A x \in heap : x[2] \in Nat /\ x[2] <= gen /\ x[2] # gen + 1 /\ x[2] <= gen + 1
  BY <1>2 DEF PInv, GenInv
<1>8. GenInv'
  <2>1. \A r \in PSegs : version'[r] # PNone => version'[r][1] <= gen'
    <3> SUFFICES ASSUME NEW r \in PSegs, version'[r] # PNone PROVE version'[r][1] <= gen'
      OBVIOUS
    <3>1. CASE r = s
      BY <3>1, <1>1, <1>2, <1>3
    <3>2. CASE r # s
      <4>1. version[r][1] <= gen /\ version[r][1] \in Nat
        BY <3>2, <1>2, <1>3 DEF PInv, GenInv
      <4> QED BY <4>1, <3>2, <1>1, <1>2, <1>3
    <3> QED BY <3>1, <3>2
  <2>2. \A x \in heap' : x[2] <= gen'
    BY <1>1, <1>2, <1>4, <1>7
  <2>3. \A x, y \in heap' : x[2] = y[2] => x = y
    BY <1>1, <1>4, <1>7 DEF PInv, GenInv
  <2> QED BY <2>1, <2>2, <2>3 DEF GenInv
<1>9. /\ Live(new)'
      /\ \A x \in heap : Live(x)' <=> x[3] # s /\ Live(x)
  <2>1. Live(new)'
    <3>1. version'[new[3]] = <<new[2], new[4]>>
      BY <1>3, <1>4
    <3> QED BY <3>1 DEF Live
  <2>2. ASSUME NEW x \in heap PROVE Live(x)' <=> x[3] # s /\ Live(x)
    <3>1. x[3] \in PSegs /\ <<x[2], x[4]>>[1] = x[2] /\ <<gen + 1, pclass[s]>>[1] = gen + 1
      BY <1>2
    <3>2. CASE x[3] = s
      BY <3>1, <3>2, <1>3, <1>7 DEF Live
    <3>3. CASE x[3] # s
      BY <3>1, <3>3, <1>3 DEF Live
    <3> QED BY <3>2, <3>3
  <2> QED BY <2>1, <2>2
<1>10. HeapInv'
  <2>1. \A r \in PSegs : pstate'[r] = "free" => version'[r] = PNone
    BY <1>3 DEF PInv, HeapInv
  <2>2. ASSUME NEW x \in heap', Live(x)'
        PROVE  x[1] = pcnt'[x[3]] /\ x[4] = pclass'[x[3]] /\ pstate'[x[3]] \in {"full", "sealed"}
    <3>1. CASE x = new
      BY <3>1, <1>4
    <3>2. CASE x \in heap
      BY <2>2, <3>2, <1>2, <1>9 DEF PInv, HeapInv
    <3> QED BY <3>1, <3>2, <1>1
  <2>3. ASSUME NEW r \in Sealed' PROVE \E x \in heap' : x[3] = r /\ Live(x)'
    <3>1. CASE r = s
      <4>1. new \in heap' /\ new[3] = r
        BY <3>1, <1>1, <1>4
      <4> QED BY <4>1, <1>9
    <3>2. CASE r # s
      <4>1. r \in Sealed
        BY <3>2, <2>3 DEF Sealed
      <4>2. PICK x \in heap : x[3] = r /\ Live(x)
        BY <4>1 DEF PInv, HeapInv
      <4> QED BY <3>2, <4>2, <1>1, <1>9
    <3> QED BY <3>1, <3>2
  <2> QED BY <2>1, <2>2, <2>3 DEF HeapInv
<1> QED BY <1>1, <1>3, <1>6, <1>8, <1>10

(* A segment leaves every list.                                            *)
LEMMA ErasedKeepsLists ==
  ASSUME PInv, NEW s \in PSegs,
         queue' = [q \in Queues |-> RemoveFirst(queue[q], s)],
         padded' = RemoveFirst(padded, s),
         pkind' = pkind, pclass' = pclass, pstate'[s] \in {"victim", "free"},
         \A r \in PSegs : r # s => pstate'[r] = pstate[r] /\ pcnt'[r] = pcnt[r]
  PROVE  /\ queue' \in [Queues -> Seq(PSegs)]
         /\ OnceInv' /\ ListedInv' /\ PlaceInv' /\ OrderInv'
<1>1. ASSUME NEW q \in Queues
      PROVE  /\ IsList(queue'[q]) /\ Range(queue'[q]) = Range(queue[q]) \ {s}
             /\ \A a, b : InFront(queue'[q], a, b) <=> InFront(queue[q], a, b) /\ a # s /\ b # s
  <2>1. queue'[q] = RemoveFirst(queue[q], s) /\ IsList(queue[q])
    BY DEF PInv, OnceInv
  <2> QED BY <2>1, ListErase
<1>2. /\ IsList(padded') /\ Range(padded') = Range(padded) \ {s}
      /\ \A a, b : InFront(padded', a, b) <=> InFront(padded, a, b) /\ a # s /\ b # s
  <2>1. IsList(padded)
    BY DEF PInv, OnceInv
  <2> QED BY <2>1, ListErase
<1>3. queue' \in [Queues -> Seq(PSegs)]
  BY <1>1 DEF IsList
<1>4. Sealed' = Sealed \ {s}
  BY DEF Sealed
<1>5. Range(padded) \subseteq PSegs /\ \A q \in Queues : Range(queue[q]) \subseteq PSegs
  BY ListDomain DEF PInv, OnceInv
<1>6. OnceInv'
  BY <1>1, <1>2 DEF PInv, OnceInv
<1>7. ListedInv'
  BY <1>1, <1>4, <1>5 DEF PInv, ListedInv
<1>8. PlaceInv'
  BY <1>1, <1>5 DEF PInv, PlaceInv
<1>9. OrderInv'
  <2>1. \A q : Ordered(q)' <=> Ordered(q)
    BY DEF Ordered
  <2>2. \A q \in Queues : Ordered(q) =>
          /\ Range(queue'[q]) \subseteq Range(padded')
          /\ \A a, b : InFront(queue'[q], a, b) => InFront(padded', a, b)
    BY <1>1, <1>2 DEF PInv, OrderInv
  <2>3. \A r \in Range(padded') : pstate'[r] \in {"sealed", "victim"}
    BY <1>2, <1>5 DEF PInv, OrderInv
  <2>4. Sealed' \subseteq Range(padded')
    BY <1>2, <1>4 DEF PInv, OrderInv
  <2> QED BY <2>1, <2>2, <2>3, <2>4 DEF OrderInv
<1> QED BY <1>3, <1>6, <1>7, <1>8, <1>9

(* The lists of the others stay as they are.                               *)
LEMMA SealKeepsPInv ==
  ASSUME PInv, NEW s \in PSegs, Seal(s)
  PROVE  PInv'
<1>1. /\ pstate[s] = "full" /\ AddTo(s)
      /\ pstate' = [pstate EXCEPT ![s] = "sealed"]
      /\ padded' = Append(padded, s)
      /\ pkind' = pkind /\ pcnt' = pcnt /\ pclass' = pclass
  BY DEF Seal
<1>2. /\ pstate' \in [PSegs -> {"free", "full", "sealed", "victim"}]
      /\ pstate'[s] = "sealed" /\ \A r \in PSegs : r # s => pstate'[r] = pstate[r]
      /\ Sealed' = Sealed \cup {s}
  BY <1>1 DEF PInv, PTypeOK, Sealed
<1>3. s \notin Range(padded) /\ \A q \in Queues : s \notin Range(queue[q])
  BY <1>1 DEF PInv, ListedInv, OrderInv
<1>4. Range(padded) \subseteq PSegs /\ \A q \in Queues : Range(queue[q]) \subseteq PSegs
  BY ListDomain DEF PInv, OnceInv
<1>5. /\ IsList(padded') /\ Range(padded') = Range(padded) \cup {s}
      /\ \A a, b : InFront(padded', a, b) <=> InFront(padded, a, b) \/ (a \in Range(padded) /\ b = s)
  <2>1. IsList(padded)
    BY DEF PInv, OnceInv
  <2> QED BY <2>1, <1>1, <1>3, ListAppend
<1>6. /\ \A r \in Range(padded') : pstate'[r] \in {"sealed", "victim"}
      /\ Sealed' \subseteq Range(padded')
  BY <1>2, <1>4, <1>5 DEF PInv, OrderInv
<1>7. \A q : Ordered(q)' <=> Ordered(q)
  BY <1>1 DEF Ordered
<1>8. CASE pkind = "midas"
  <2>1. PushEntry(s, pcnt[s]) /\ pcnt[s] \in 0 .. PSize
    BY <1>1, <1>8 DEF AddTo, PInv, PTypeOK
  <2>2. /\ queue' = queue /\ nextq' = nextq /\ gen' \in Nat
        /\ heap' \subseteq Nat \X Nat \X PSegs \X Queues
        /\ version' \in [PSegs -> (Nat \X Queues) \cup {PNone}]
        /\ GenInv' /\ HeapInv'
    BY <2>1, <1>1, <1>2, <1>8, PushKeepsHeap
  <2>3. PTypeOK'
    BY <2>2, <1>1, <1>2 DEF PInv, PTypeOK
  <2>4. OnceInv'
    BY <2>2, <1>5 DEF PInv, OnceInv
  <2>5. ListedInv' /\ PlaceInv'
    BY <2>2, <1>1, <1>2, <1>4, <1>8 DEF PInv, ListedInv, PlaceInv
  <2>6. OrderInv'
    BY <1>1, <1>6, <1>7, <1>8 DEF OrderInv, Ordered
  <2> QED BY <2>2, <2>3, <2>4, <2>5, <2>6 DEF PInv
<1>9. CASE pkind # "midas"
  <2>1. PICK p \in QueueOf(s) : queue' = [queue EXCEPT ![p] = Append(@, s)]
    BY <1>1, <1>9 DEF AddTo
  <2>2. UNCHANGED <<heap, version, gen, nextq>>
    BY <1>1, <1>9 DEF AddTo
  <2>3. /\ p \in Queues
        /\ pkind = "zero" => p = IF pcnt[s] = 0 THEN 1 ELSE 0
        /\ pkind = "selective" => p = pclass[s]
    BY <2>1, PartsFacts DEF QueueOf, PInv, PTypeOK
  <2>4. /\ IsList(queue'[p]) /\ Range(queue'[p]) = Range(queue[p]) \cup {s}
        /\ \A a, b : InFront(queue'[p], a, b) <=>
                       InFront(queue[p], a, b) \/ (a \in Range(queue[p]) /\ b = s)
    <3>1. queue'[p] = Append(queue[p], s) /\ IsList(queue[p])
      BY <2>1, <2>3 DEF PInv, OnceInv, PTypeOK
    <3> QED BY <3>1, <2>3, <1>3, ListAppend
  <2>5. \A q \in Queues : q # p => queue'[q] = queue[q]
    BY <2>1 DEF PInv, PTypeOK
  <2>6. queue' \in [Queues -> Seq(PSegs)]
    <3>1. \A q \in Queues : queue'[q] \in Seq(PSegs)
      BY <2>4, <2>5 DEF PInv, PTypeOK, IsList
    <3>2. DOMAIN queue' = Queues /\ queue' = [q \in Queues |-> queue'[q]]
      BY <2>1 DEF PInv, PTypeOK
    <3> QED BY <3>1, <3>2
  <2>7. PTypeOK'
    BY <2>2, <2>6, <1>1, <1>2 DEF PInv, PTypeOK
  <2>8. OnceInv'
    BY <2>3, <2>4, <2>5, <1>3, <1>5 DEF PInv, OnceInv
  <2>9. ListedInv'
    BY <2>3, <2>4, <2>5, <1>1, <1>2, <1>4 DEF PInv, ListedInv
  <2>10. PlaceInv'
    BY <2>3, <2>4, <2>5, <1>1, <1>3, <1>4 DEF PInv, PlaceInv
  <2>11. OrderInv'
    <3>1. \A q \in Queues : Ordered(q) =>
            /\ Range(queue'[q]) \subseteq Range(padded')
            /\ \A a, b : InFront(queue'[q], a, b) => InFront(padded', a, b)
      BY <2>4, <2>5, <1>5 DEF PInv, OrderInv
    <3> QED BY <3>1, <1>6, <1>7 DEF OrderInv
  <2>12. GenInv'
    BY <2>2 DEF PInv, GenInv
  <2>13. HeapInv'
    BY <2>2, <1>1, <1>2, <1>9 DEF PInv, HeapInv
  <2> QED BY <2>7, <2>8, <2>9, <2>10, <2>11, <2>12, <2>13 DEF PInv
<1> QED BY <1>8, <1>9

(* A block is overwritten.  A segment that zero tracks changes its list    *)
(* with its last valid block.                                              *)
LEMMA OverwrittenKeepsPInv ==
  ASSUME PInv, NEW s \in PSegs, Overwritten(s)
  PROVE  PInv'
<1>1. /\ pstate[s] \in {"full", "sealed"} /\ pcnt[s] > 0
      /\ pcnt' = [pcnt EXCEPT ![s] = pcnt[s] - 1]
      /\ UpdateOf(s, pcnt[s] - 1)
      /\ pkind' = pkind /\ pclass' = pclass /\ pstate' = pstate /\ padded' = padded
  BY DEF Overwritten
<1>2. /\ pcnt \in [PSegs -> 0 .. PSize] /\ pcnt[s] \in 0 .. PSize
      /\ pcnt[s] - 1 \in 0 .. PSize
  BY <1>1, PartsFacts DEF PInv, PTypeOK
<1>3. /\ pcnt' \in [PSegs -> 0 .. PSize]
      /\ pcnt'[s] = pcnt[s] - 1 /\ \A r \in PSegs : r # s => pcnt'[r] = pcnt[r]
  <2> DEFINE n == pcnt[s] - 1
  <2> HIDE DEF n
  <2>1. n \in 0 .. PSize /\ pcnt' = [pcnt EXCEPT ![s] = n]
    BY <1>1, <1>2 DEF n
  <2> QED BY <2>1, <1>2 DEF n
<1>4. Sealed' = Sealed /\ \A q : Ordered(q)' <=> Ordered(q)
  BY <1>1 DEF Sealed, Ordered
<1>5. Range(padded) \subseteq PSegs /\ \A q \in Queues : Range(queue[q]) \subseteq PSegs
  BY ListDomain DEF PInv, OnceInv
<1>6. \A q \in Queues : Contains(queue[q], s) <=> s \in Range(queue[q])
  BY ContainsIsListed DEF PInv, OnceInv
<1>7. CASE pkind = "midas"
  <2>1. PushEntry(s, pcnt[s] - 1)
    BY <1>1, <1>7 DEF UpdateOf
  <2>2. /\ queue' = queue /\ nextq' = nextq /\ gen' \in Nat
        /\ heap' \subseteq Nat \X Nat \X PSegs \X Queues
        /\ version' \in [PSegs -> (Nat \X Queues) \cup {PNone}]
        /\ GenInv' /\ HeapInv'
    <3> DEFINE n == pcnt[s] - 1
    <3>1. n \in 0 .. PSize /\ PushEntry(s, n) /\ pcnt'[s] = n
      BY <2>1, <1>2, <1>3
    <3> HIDE DEF n
    <3> QED BY <3>1, <1>1, <1>3, <1>7, PushKeepsHeap
  <2>3. PTypeOK'
    BY <2>2, <1>1, <1>3 DEF PInv, PTypeOK
  <2>4. OnceInv' /\ ListedInv' /\ PlaceInv' /\ OrderInv'
    BY <2>2, <1>1, <1>4, <1>7 DEF PInv, OnceInv, ListedInv, PlaceInv, OrderInv
  <2> QED BY <2>2, <2>3, <2>4 DEF PInv
<1>8. CASE /\ pkind = "zero" /\ pcnt[s] - 1 = 0
           /\ \E q \in Queues : Contains(queue[q], s)
  <2>1. /\ queue' = [queue EXCEPT ![0] = RemoveFirst(@, s), ![1] = Append(@, s)]
        /\ UNCHANGED <<heap, version, gen, nextq>>
    BY <1>1, <1>8 DEF UpdateOf
  <2>2. s \in Range(queue[0]) /\ \A q \in Queues : s \in Range(queue[q]) => q = 0
    BY <1>1, <1>6, <1>8 DEF PInv, PlaceInv
  <2>3. /\ queue'[0] = RemoveFirst(queue[0], s) /\ queue'[1] = Append(queue[1], s)
        /\ \A q \in Queues : q # 0 /\ q # 1 => queue'[q] = queue[q]
        /\ DOMAIN queue' = Queues /\ queue' = [q \in Queues |-> queue'[q]]
    <3> DEFINE a == RemoveFirst(queue[0], s)
               b == Append(queue[1], s)
    <3>1. queue' = [[queue EXCEPT ![0] = a] EXCEPT ![1] = b]
      BY <2>1
    <3>2. queue \in [Queues -> Seq(PSegs)] /\ 0 \in Queues /\ 1 \in Queues /\ 0 # 1
      BY PartsFacts DEF PInv, PTypeOK
    <3> HIDE DEF a, b
    <3>3. queue'[0] = a /\ queue'[1] = b /\ DOMAIN queue' = Queues
          /\ \A q \in Queues : q # 0 /\ q # 1 => queue'[q] = queue[q]
      BY <3>1, <3>2
    <3>4. queue' = [q \in Queues |-> queue'[q]]
      BY <3>1, <3>2
    <3> QED BY <3>3, <3>4 DEF a, b
  <2>4. IsList(queue[0]) /\ IsList(queue[1]) /\ s \notin Range(queue[1])
    BY <2>2, PartsFacts DEF PInv, OnceInv
  <2>5. /\ IsList(queue'[0]) /\ Range(queue'[0]) = Range(queue[0]) \ {s}
        /\ \A a, b : InFront(queue'[0], a, b) => InFront(queue[0], a, b)
    BY <2>3, <2>4, ListErase
  <2>6. IsList(queue'[1]) /\ Range(queue'[1]) = Range(queue[1]) \cup {s}
    BY <2>3, <2>4, ListAppend
  <2>7. \A q \in Queues : IsList(queue'[q])
    BY <2>3, <2>5, <2>6 DEF PInv, OnceInv
  <2>8. queue' \in [Queues -> Seq(PSegs)]
    BY <2>3, <2>7 DEF IsList
  <2>9. PTypeOK'
    BY <2>1, <2>8, <1>1, <1>3 DEF PInv, PTypeOK
  <2>10. OnceInv'
    <3>1. \A q, t \in Queues, r \in PSegs :
            r \in Range(queue'[q]) /\ r \in Range(queue'[t]) => q = t
      <4> SUFFICES ASSUME NEW q \in Queues, NEW t \in Queues, NEW r \in PSegs,
                          r \in Range(queue'[q]), r \in Range(queue'[t])
                   PROVE  q = t
        OBVIOUS
      <4>1. \A u \in Queues : r \in Range(queue'[u]) =>
              (r = s /\ u = 1) \/ (r # s /\ r \in Range(queue[u]))
        BY <2>2, <2>3, <2>5, <2>6
      <4>2. \A u, v \in Queues : r \in Range(queue[u]) /\ r \in Range(queue[v]) => u = v
        BY DEF PInv, OnceInv
      <4> QED BY <4>1, <4>2
    <3> QED BY <3>1, <2>7, <1>1 DEF PInv, OnceInv
  <2>11. ListedInv'
    <3>1. \A q \in Queues : \A r \in Range(queue'[q]) : \E t \in Queues : r \in Range(queue[t])
      BY <2>2, <2>3, <2>5, <2>6, PartsFacts
    <3>2. \A q \in Queues : \A r \in Range(queue[q]) : \E t \in Queues : r \in Range(queue'[t])
      BY <2>2, <2>3, <2>5, <2>6, PartsFacts
    <3> QED BY <3>1, <3>2, <1>1, <1>4 DEF PInv, ListedInv
  <2>12. PlaceInv'
    <3>1. \A q \in Queues : \A r \in Range(queue'[q]) :
            (r = s /\ q = 1) \/ (r # s /\ r \in PSegs /\ r \in Range(queue[q]))
      BY <2>2, <2>3, <2>5, <2>6, <1>5, PartsFacts
    <3> QED BY <3>1, <1>1, <1>3, <1>8 DEF PInv, PlaceInv
  <2>13. OrderInv'
    <3>1. \A q \in Queues : Ordered(q) => q = 0
      BY <1>8 DEF Ordered
    <3> QED BY <3>1, <2>5, <1>1, <1>4 DEF PInv, OrderInv
  <2>14. GenInv'
    BY <2>1 DEF PInv, GenInv
  <2>15. HeapInv'
    BY <2>1, <1>1, <1>4, <1>8 DEF PInv, HeapInv
  <2> QED BY <2>9, <2>10, <2>11, <2>12, <2>13, <2>14, <2>15 DEF PInv
<1>9. CASE /\ pkind # "midas"
           /\ ~(/\ pkind = "zero" /\ pcnt[s] - 1 = 0
                /\ \E q \in Queues : Contains(queue[q], s))
  <2>1. UNCHANGED <<queue, heap, version, gen, nextq>>
    BY <1>1, <1>9 DEF UpdateOf, containers
  <2>2. PTypeOK'
    BY <2>1, <1>1, <1>3 DEF PInv, PTypeOK
  <2>3. OnceInv' /\ ListedInv' /\ OrderInv'
    BY <2>1, <1>1, <1>4 DEF PInv, OnceInv, ListedInv, OrderInv
  <2>4. PlaceInv'
    <3> SUFFICES ASSUME NEW q \in Queues, NEW r \in Range(queue[q])
                 PROVE  /\ pkind = "zero" => q = IF pcnt'[r] = 0 THEN 1 ELSE 0
                        /\ pkind = "selective" => q = pclass[r]
      BY <2>1, <1>1 DEF PlaceInv
    <3>1. /\ pkind = "zero" => q = IF pcnt[r] = 0 THEN 1 ELSE 0
          /\ pkind = "selective" => q = pclass[r]
      BY DEF PInv, PlaceInv
    <3>2. CASE r = s
      <4>1. pkind = "zero" => pcnt'[s] # 0 /\ pcnt[s] # 0
        BY <3>2, <1>1, <1>3, <1>6, <1>9
      <4> QED BY <3>1, <3>2, <4>1
    <3>3. CASE r # s
      BY <3>1, <3>3, <1>3, <1>5
    <3> QED BY <3>2, <3>3
  <2>5. GenInv' /\ HeapInv'
    BY <2>1, <1>1, <1>4, <1>9 DEF PInv, GenInv, HeapInv
  <2> QED BY <2>2, <2>3, <2>4, <2>5 DEF PInv
<1> QED BY <1>7, <1>8, <1>9

(* reset_segment.                                                          *)
LEMMA ResetKeepsPInv ==
  ASSUME PInv, NEW s \in PSegs, Reset(s)
  PROVE  PInv'
<1>1. /\ pstate[s] = "victim"
      /\ pcnt' = [pcnt EXCEPT ![s] = 0]
      /\ pstate' = [pstate EXCEPT ![s] = "free"]
      /\ padded' = RemoveFirst(padded, s)
      /\ queue' = [q \in Queues |-> RemoveFirst(queue[q], s)]
      /\ version' = [version EXCEPT ![s] = PNone]
      /\ UNCHANGED <<pkind, pclass, heap, gen, nextq>>
  BY DEF Reset, RemoveFrom
<1>2. /\ pcnt' \in [PSegs -> 0 .. PSize]
      /\ pstate' \in [PSegs -> {"free", "full", "sealed", "victim"}]
      /\ version' \in [PSegs -> (Nat \X Queues) \cup {PNone}]
  BY <1>1, PartsFacts DEF PInv, PTypeOK
<1>3. /\ pstate'[s] = "free" /\ version'[s] = PNone
      /\ \A r \in PSegs : r # s => /\ pstate'[r] = pstate[r] /\ pcnt'[r] = pcnt[r]
                                   /\ version'[r] = version[r]
  BY <1>1 DEF PInv, PTypeOK
<1>4. /\ queue' \in [Queues -> Seq(PSegs)]
      /\ OnceInv' /\ ListedInv' /\ PlaceInv' /\ OrderInv'
  BY <1>1, <1>3, ErasedKeepsLists
<1>5. PTypeOK'
  BY <1>1, <1>2, <1>4 DEF PInv, PTypeOK
<1>6. GenInv'
  BY <1>1, <1>3 DEF PInv, GenInv
<1>7. HeapInv'
  <2>1. \A x \in heap : Live(x) => x[3] \in PSegs /\ x[3] # s
    BY <1>1, LiveHasVersion DEF PInv, HeapInv
  <2>2. \A x \in heap : Live(x)' <=> Live(x)
    <3> SUFFICES ASSUME NEW x \in heap PROVE Live(x)' <=> Live(x)
      OBVIOUS
    <3>1. x[2] \in Nat /\ x[3] \in PSegs /\ x[4] \in Queues
      BY DEF PInv, PTypeOK
    <3>2. <<x[2], x[4]>> # PNone
      <4>1. <<x[2], x[4]>> \in Nat \X Nat
        BY <3>1, PartsFacts
      <4> QED BY <4>1, PartsFacts
    <3>3. CASE x[3] = s
      <4>1. ~Live(x)
        BY <2>1, <3>3
      <4> QED BY <4>1, <3>2, <3>3, <1>3 DEF Live
    <3>4. CASE x[3] # s
      BY <3>1, <3>4, <1>3 DEF Live
    <3> QED BY <3>3, <3>4
  <2>3. Sealed' = Sealed \ {s} /\ Sealed \subseteq PSegs
    BY <1>3 DEF Sealed
  <2> QED BY <2>1, <2>2, <2>3, <1>1, <1>3 DEF PInv, HeapInv
<1> QED BY <1>4, <1>5, <1>6, <1>7 DEF PInv

LEMMA TurnIsNumber ==
  ASSUME PTypeOK, NEW q \in Queues
  PROVE  Turn(q) \in Int
<1>1. q \in Nat /\ nextq \in Nat
  BY PartsFacts DEF PTypeOK
<1>2. PQueues \in Nat /\ PQueues > 0
  BY VictimPoliciesAssumption
<1>3. q - nextq + PQueues \in Int
  BY <1>1, <1>2
<1> QED BY <1>2, <1>3 DEF Turn

(* choose_segment: the entries that stay are all the other live ones.      *)
LEMMA ChosenEntryKeepsHeap ==
  ASSUME PInv, NEW s \in PSegs, NEW x \in heap, x[3] = s, ChooseEntry(x),
         pkind = "midas", pkind' = pkind, pclass' = pclass, pcnt' = pcnt,
         pstate[s] = "sealed", pstate'[s] = "victim",
         \A r \in PSegs : r # s => pstate'[r] = pstate[r]
  PROVE  /\ UNCHANGED <<queue, version, gen>> /\ nextq' \in Queues
         /\ heap' \subseteq heap
         /\ GenInv' /\ HeapInv'
<1>1. /\ Live(x)
      /\ \A y \in heap : Live(y) => \/ Turn(x[4]) < Turn(y[4])
                                    \/ x[4] = y[4] /\ ~Before(y, x)
      /\ heap' = {y \in heap : \/ Turn(y[4]) > Turn(x[4])
                               \/ y[4] = x[4] /\ Before(x, y)}
      /\ nextq' = (x[4] + 1) % PQueues
      /\ UNCHANGED <<queue, version, gen>>
  BY DEF ChooseEntry
<1>2. \A y \in heap : y[1] \in Nat /\ y[2] \in Nat /\ y[3] \in PSegs /\ y[4] \in Queues
  BY DEF PInv, PTypeOK
<1>3. nextq' \in Queues
  <2>1. x[4] \in Nat /\ PQueues \in Nat /\ PQueues # 0
    BY <1>2, PartsFacts, VictimPoliciesAssumption
  <2> QED BY <2>1, <1>1 DEF Queues
<1>4. heap' \subseteq heap
  BY <1>1
<1>5. \A y : Live(y)' <=> Live(y)
  BY <1>1 DEF Live
<1>6. \A y \in heap : Live(y) /\ y # x => y \in heap'
  <2> SUFFICES ASSUME NEW y \in heap, Live(y), y # x PROVE y \in heap'
    OBVIOUS
  <2>1. y[2] # x[2]
    BY DEF PInv, GenInv
  <2>2. x[4] = y[4] /\ ~Before(y, x) => Before(x, y)
    BY <2>1, <1>2 DEF Before
  <2>3. Turn(x[4]) \in Int /\ Turn(y[4]) \in Int
    BY <1>2, TurnIsNumber DEF PInv
  <2>4. Turn(x[4]) < Turn(y[4]) => Turn(y[4]) > Turn(x[4])
    BY <2>3
  <2> QED BY <2>2, <2>4, <1>1
<1>7. x \notin heap'
  <2>1. ~Before(x, x)
    BY <1>2 DEF Before
  <2>2. Turn(x[4]) \in Int
    BY <1>2, TurnIsNumber DEF PInv
  <2>3. ~(Turn(x[4]) > Turn(x[4]))
    BY <2>2
  <2> QED BY <2>1, <2>3, <1>1
<1>8. \A y \in heap : Live(y) /\ y[3] = s => y = x
  <2> SUFFICES ASSUME NEW y \in heap, Live(y), y[3] = s PROVE y = x
    OBVIOUS
  <2>1. <<y[2], y[4]>> = <<x[2], x[4]>>
    BY <1>1 DEF Live
  <2>2. y[2] = x[2]
    BY <2>1
  <2> QED BY <2>2 DEF PInv, GenInv
<1>9. GenInv'
  BY <1>1, <1>4 DEF PInv, GenInv
<1>10. HeapInv'
  <2>1. \A r \in PSegs : pstate'[r] = "free" => version'[r] = PNone
    BY <1>1 DEF PInv, HeapInv
  <2>2. ASSUME NEW y \in heap', Live(y)'
        PROVE  y[1] = pcnt'[y[3]] /\ y[4] = pclass'[y[3]] /\ pstate'[y[3]] \in {"full", "sealed"}
    <3>1. y \in heap /\ Live(y) /\ y # x
      BY <2>2, <1>4, <1>5, <1>7
    <3>2. y[3] # s
      BY <3>1, <1>8
    <3> QED BY <3>1, <3>2, <1>2 DEF PInv, HeapInv
  <2>3. ASSUME NEW r \in Sealed' PROVE \E y \in heap' : y[3] = r /\ Live(y)'
    <3>1. r \in Sealed /\ r # s
      BY <2>3 DEF Sealed
    <3>2. PICK y \in heap : y[3] = r /\ Live(y)
      BY <3>1 DEF PInv, HeapInv
    <3> QED BY <3>1, <3>2, <1>5, <1>6
  <2> QED BY <2>1, <2>2, <2>3 DEF HeapInv
<1> QED BY <1>1, <1>3, <1>4, <1>9, <1>10

(* The victim is in no list any more, or stays where its policy left it.   *)
LEMMA ChooseKeepsPInv ==
  ASSUME PInv, NEW s \in PSegs, Choose(s)
  PROVE  PInv'
<1>1. /\ pstate[s] = "sealed" /\ ChooseSegment(s)
      /\ pstate' = [pstate EXCEPT ![s] = "victim"]
      /\ padded' = RemoveFirst(padded, s)
      /\ pkind' = pkind /\ pcnt' = pcnt /\ pclass' = pclass
  BY DEF Choose, Sealed
<1>2. /\ pstate' \in [PSegs -> {"free", "full", "sealed", "victim"}]
      /\ pstate'[s] = "victim" /\ \A r \in PSegs : r # s => pstate'[r] = pstate[r]
      /\ Sealed' = Sealed \ {s}
  BY <1>1 DEF PInv, PTypeOK, Sealed
<1>3. CASE pkind \in {"midas", "lambda"}
  <2>1. /\ IsList(padded') /\ Range(padded') = Range(padded) \ {s}
        /\ Range(padded) \subseteq PSegs
    BY <1>1, ListErase, ListDomain DEF PInv, OnceInv
  <2>2. queue' = queue
    BY <1>1, <1>3 DEF ChooseSegment, ChooseEntry, containers
  <2>3. OnceInv'
    BY <2>1, <2>2 DEF PInv, OnceInv
  <2>4. ListedInv' /\ PlaceInv'
    <3>1. \A q \in Queues : Range(queue[q]) \subseteq PSegs
      BY ListDomain DEF PInv, OnceInv
    <3> QED BY <3>1, <2>2, <1>1, <1>2 DEF PInv, ListedInv, PlaceInv
  <2>5. OrderInv'
    BY <2>1, <1>1, <1>2, <1>3 DEF PInv, OrderInv, Ordered
  <2>6. /\ heap' \subseteq Nat \X Nat \X PSegs \X Queues
        /\ nextq' \in Queues /\ UNCHANGED <<version, gen>>
        /\ GenInv' /\ HeapInv'
    <3>1. CASE pkind = "midas"
      <4>1. PICK x \in heap : x[3] = s /\ ChooseEntry(x)
        BY <3>1, <1>1 DEF ChooseSegment
      <4>2. /\ UNCHANGED <<version, gen>> /\ nextq' \in Queues
            /\ heap' \subseteq heap /\ GenInv' /\ HeapInv'
        BY <4>1, <3>1, <1>1, <1>2, ChosenEntryKeepsHeap
      <4> QED BY <4>2 DEF PInv, PTypeOK
    <3>2. CASE pkind = "lambda"
      <4>1. UNCHANGED <<heap, version, gen, nextq>>
        BY <3>2, <1>1 DEF ChooseSegment, containers
      <4> QED BY <4>1, <3>2, <1>1, <1>2 DEF PInv, PTypeOK, GenInv, HeapInv
    <3> QED BY <3>1, <3>2, <1>3
  <2>7. PTypeOK'
    BY <2>2, <2>6, <1>1, <1>2 DEF PInv, PTypeOK
  <2> QED BY <2>3, <2>4, <2>5, <2>6, <2>7 DEF PInv
<1>4. CASE pkind \notin {"midas", "lambda"}
  <2>1. /\ queue' = [q \in Queues |-> RemoveFirst(queue[q], s)]
        /\ UNCHANGED <<heap, version, gen, nextq>>
    BY <1>1, <1>4 DEF ChooseSegment
  <2>2. /\ queue' \in [Queues -> Seq(PSegs)]
        /\ OnceInv' /\ ListedInv' /\ PlaceInv' /\ OrderInv'
    BY <2>1, <1>1, <1>2, ErasedKeepsLists
  <2>3. PTypeOK'
    BY <2>1, <2>2, <1>1, <1>2 DEF PInv, PTypeOK
  <2>4. GenInv' /\ HeapInv'
    BY <2>1, <1>1, <1>2, <1>4 DEF PInv, GenInv, HeapInv
  <2> QED BY <2>2, <2>3, <2>4 DEF PInv
<1> QED BY <1>3, <1>4

(* The front of the first list that choose_segment looks at.               *)
LEMMA FirstListedFacts ==
  ASSUME PInv, NEW s \in PSegs, s \in FirstListed
  PROVE  \E p \in Queues :
           /\ s \in Range(queue[p])
           /\ \A t \in Range(queue[p]) : t # s => InFront(queue[p], s, t)
           /\ \A r \in Queues : r > p => Range(queue[r]) = {}
<1>1. PICK p \in Queues : /\ queue[p] # <<>> /\ s = Head(queue[p])
                          /\ \A r \in Queues : r > p => queue[r] = <<>>
  BY DEF FirstListed
<1>2. IsList(queue[p])
  BY DEF PInv, OnceInv
<1>3. /\ s \in Range(queue[p])
      /\ \A t \in Range(queue[p]) : t # s => InFront(queue[p], s, t)
  BY <1>1, <1>2, ListFront
<1> QED BY <1>1, <1>3, EmptyList

(* A segment that was only asked about goes to the back of its list; the   *)
(* victim of the second policy stays in its list.                          *)
LEMMA ConsultKeepsPInv ==
  ASSUME PInv, NEW s \in PSegs, Consult(s)
  PROVE  PInv'
<1> DEFINE p == pclass[s]
<1>1. /\ pkind = "selective" /\ s \in FirstListed
      /\ queue' = [queue EXCEPT ![p] = Append(RemoveFirst(@, s), s)]
      /\ padded' = Append(RemoveFirst(padded, s), s)
      /\ \E v \in Sealed : pstate' = [pstate EXCEPT ![v] = "victim"]
      /\ UNCHANGED <<pkind, pcnt, pclass, heap, version, gen, nextq>>
  BY DEF Consult
<1>2. p \in Queues /\ s \in Range(queue[p]) /\ s \in Range(padded)
  <2>1. PICK q \in Queues : s \in Range(queue[q])
    BY <1>1, FirstListedFacts
  <2>2. q = p
    BY <2>1, <1>1 DEF PInv, PlaceInv
  <2>3. Ordered(q)
    BY <1>1 DEF Ordered
  <2> QED BY <2>1, <2>2, <2>3 DEF PInv, OrderInv
<1>3. PICK v \in Sealed : pstate' = [pstate EXCEPT ![v] = "victim"]
  BY <1>1
<1>4. /\ pstate' \in [PSegs -> {"free", "full", "sealed", "victim"}]
      /\ v \in PSegs /\ pstate[v] = "sealed" /\ pstate'[v] = "victim"
      /\ \A r \in PSegs : r # v => pstate'[r] = pstate[r]
      /\ Sealed' = Sealed \ {v}
  BY <1>3 DEF PInv, PTypeOK, Sealed
<1>5. ASSUME NEW l, IsList(l), s \in Range(l)
      PROVE  /\ IsList(Append(RemoveFirst(l, s), s))
             /\ Range(Append(RemoveFirst(l, s), s)) = Range(l)
             /\ \A a, b : InFront(Append(RemoveFirst(l, s), s), a, b) <=>
                            \/ InFront(l, a, b) /\ a # s /\ b # s
                            \/ a \in Range(l) /\ a # s /\ b = s
  <2> DEFINE e == RemoveFirst(l, s)
  <2>1. /\ IsList(e) /\ Range(e) = Range(l) \ {s}
        /\ \A a, b : InFront(e, a, b) <=> InFront(l, a, b) /\ a # s /\ b # s
    BY <1>5, ListErase
  <2> HIDE DEF e
  <2>2. s \notin Range(e)
    BY <2>1
  <2>3. /\ IsList(Append(e, s)) /\ Range(Append(e, s)) = Range(e) \cup {s}
        /\ \A a, b : InFront(Append(e, s), a, b) <=> InFront(e, a, b) \/ (a \in Range(e) /\ b = s)
    BY <2>1, <2>2, ListAppend
  <2>4. Range(Append(e, s)) = Range(l)
    BY <2>1, <2>3, <1>5
  <2> QED BY <2>1, <2>3, <2>4 DEF e
<1>6. /\ IsList(queue'[p]) /\ Range(queue'[p]) = Range(queue[p])
      /\ \A a, b : InFront(queue'[p], a, b) <=>
                     \/ InFront(queue[p], a, b) /\ a # s /\ b # s
                     \/ a \in Range(queue[p]) /\ a # s /\ b = s
  <2>1. queue'[p] = Append(RemoveFirst(queue[p], s), s) /\ IsList(queue[p])
    BY <1>1, <1>2 DEF PInv, PTypeOK, OnceInv
  <2> QED BY <2>1, <1>2, <1>5
<1>7. /\ IsList(padded') /\ Range(padded') = Range(padded)
      /\ \A a, b : InFront(padded', a, b) <=>
                     \/ InFront(padded, a, b) /\ a # s /\ b # s
                     \/ a \in Range(padded) /\ a # s /\ b = s
  <2>1. IsList(padded)
    BY DEF PInv, OnceInv
  <2> QED BY <2>1, <1>1, <1>2, <1>5
<1> HIDE DEF p
<1>8. /\ \A q \in Queues : q # p => queue'[q] = queue[q]
      /\ DOMAIN queue' = Queues /\ queue' = [q \in Queues |-> queue'[q]]
  BY <1>1 DEF PInv, PTypeOK
<1>9. \A q \in Queues : IsList(queue'[q]) /\ Range(queue'[q]) = Range(queue[q])
  BY <1>6, <1>8 DEF PInv, OnceInv
<1>10. queue' \in [Queues -> Seq(PSegs)]
  BY <1>8, <1>9 DEF IsList
<1>11. PTypeOK'
  BY <1>1, <1>4, <1>10 DEF PInv, PTypeOK
<1>12. OnceInv'
  BY <1>7, <1>9 DEF PInv, OnceInv
<1>13. /\ Range(padded) \subseteq PSegs /\ \A q \in Queues : Range(queue[q]) \subseteq PSegs
  BY ListDomain DEF PInv, OnceInv
<1>14. ListedInv' /\ PlaceInv'
  BY <1>1, <1>4, <1>9, <1>13 DEF PInv, ListedInv, PlaceInv
<1>15. OrderInv'
  <2>1. \A q \in Queues : Ordered(q) =>
          /\ Range(queue'[q]) \subseteq Range(padded')
          /\ \A a, b : InFront(queue'[q], a, b) => InFront(padded', a, b)
    <3> SUFFICES ASSUME NEW q \in Queues, Ordered(q)
                 PROVE  /\ Range(queue'[q]) \subseteq Range(padded')
                        /\ \A a, b : InFront(queue'[q], a, b) => InFront(padded', a, b)
      OBVIOUS
    <3>1. /\ Range(queue[q]) \subseteq Range(padded)
          /\ \A a, b : InFront(queue[q], a, b) => InFront(padded, a, b)
      BY DEF PInv, OrderInv
    <3>2. CASE q = p
      BY <3>1, <3>2, <1>6, <1>7
    <3>3. CASE q # p
      <4>1. s \notin Range(queue[q])
        BY <3>3, <1>2 DEF PInv, OnceInv
      <4>2. \A a, b : InFront(queue[q], a, b) => a # s /\ b # s
        BY <4>1, AheadIsListed DEF PInv, OnceInv
      <4> QED BY <3>1, <3>3, <4>2, <1>7, <1>8
    <3> QED BY <3>2, <3>3
  <2>2. \A r \in Range(padded') : pstate'[r] \in {"sealed", "victim"}
    BY <1>4, <1>7, <1>13 DEF PInv, OrderInv
  <2>3. Sealed' \subseteq Range(padded')
    BY <1>4, <1>7 DEF PInv, OrderInv
  <2>4. \A q : Ordered(q)' <=> Ordered(q)
    BY <1>1 DEF Ordered
  <2> QED BY <2>1, <2>2, <2>3, <2>4 DEF OrderInv
<1>16. GenInv' /\ HeapInv'
  BY <1>1, <1>4 DEF PInv, GenInv, HeapInv
<1> QED BY <1>11, <1>12, <1>14, <1>15, <1>16 DEF PInv

LEMMA VictimPoliciesStep ==
  ASSUME PInv, VictimPoliciesNext
  PROVE  PInv'
BY FillsKeepsPInv, OverwrittenKeepsPInv, SealKeepsPInv, ChooseKeepsPInv, ConsultKeepsPInv,
   ResetKeepsPInv DEF VictimPoliciesNext

(* The inductive invariant holds in every reachable state.                 *)
THEOREM VictimPoliciesInvariance == VictimPoliciesSpec => []PInv
<1>1. VictimPoliciesInit => PInv
  BY InitHasPInv
<1>2. PInv /\ [VictimPoliciesNext]_pvars => PInv'
  BY VictimPoliciesStep, PStutter
<1> QED BY <1>1, <1>2, PTL DEF VictimPoliciesSpec

-----------------------------------------------------------------------------
(* What it means.                                                          *)

(* A policy holds every sealed segment exactly once and no other that is   *)
(* not being collected: nothing is lost, nothing is collected while it is  *)
(* filled again.                                                           *)
LEMMA InvariantTracks == PInv => VictimsTracked
<1> SUFFICES ASSUME PInv, NEW s \in PSegs
             PROVE
    /\ pkind # "midas" /\ pstate[s] # "victim" => Times(s) = IF s \in Sealed THEN 1 ELSE 0
    /\ pkind = "zero" /\ s \in Sealed => (pcnt[s] = 0 <=> Contains(queue[1], s))
    /\ pkind = "midas" =>
         LET live == {x \in heap : x[3] = s /\ Live(x)}
         IN /\ s \in Sealed => {x[1] : x \in live} = {pcnt[s]} /\ Cardinality(live) = 1
            /\ pstate[s] \in {"free", "victim"} => live = {}
  BY DEF VictimsTracked
<1>1. \A q \in Queues : IsList(queue[q]) /\ (Contains(queue[q], s) <=> s \in Range(queue[q]))
  BY ContainsIsListed DEF PInv, OnceInv
<1>2. ASSUME pkind # "midas", pstate[s] # "victim"
      PROVE  Times(s) = IF s \in Sealed THEN 1 ELSE 0
  <2> DEFINE at == {x \in Queues \X (1 .. Cardinality(PSegs)) :
                      x[2] <= Len(queue[x[1]]) /\ queue[x[1]][x[2]] = s}
  <2>1. CASE s \in Sealed
    <3>1. PICK q \in Queues : s \in Range(queue[q])
      BY <2>1, <1>2 DEF PInv, ListedInv
    <3>2. PICK i \in 1 .. Len(queue[q]) : queue[q][i] = s
      BY <3>1, <1>1, ListDomain
    <3>3. Len(queue[q]) \in Nat /\ Len(queue[q]) <= Cardinality(PSegs) /\ Cardinality(PSegs) \in Nat
      BY <1>1, ListIsShort
    <3>4. <<q, i>> \in at
      <4>1. i \in 1 .. Cardinality(PSegs) /\ i <= Len(queue[q])
        BY <3>2, <3>3
      <4> QED BY <4>1, <3>1, <3>2
    <3>5. ASSUME NEW x \in at PROVE x = <<q, i>>
      <4>1. /\ x = <<x[1], x[2]>> /\ x[1] \in Queues /\ x[2] \in 1 .. Cardinality(PSegs)
            /\ x[2] <= Len(queue[x[1]]) /\ queue[x[1]][x[2]] = s
        BY <3>5
      <4>2. Len(queue[x[1]]) \in Nat /\ DOMAIN queue[x[1]] = 1 .. Len(queue[x[1]])
        BY <4>1, <1>1, ListDomain
      <4>3. x[2] \in 1 .. Len(queue[x[1]])
        BY <4>1, <4>2, <3>3
      <4>4. s \in Range(queue[x[1]])
        BY <4>1, <4>2, <4>3 DEF Range
      <4>5. x[1] = q
        BY <4>1, <4>4, <3>1 DEF PInv, OnceInv
      <4>6. x[2] = i
        BY <4>1, <4>2, <4>3, <4>5, <3>2, <1>1 DEF IsList, NoTwice
      <4> QED BY <4>1, <4>5, <4>6
    <3> HIDE DEF at
    <3>6. at = {<<q, i>>}
      BY <3>4, <3>5
    <3>7. Cardinality(at) = 1
      BY <3>6, FS_Singleton
    <3> QED BY <3>7, <2>1 DEF Times, at
  <2>2. CASE s \notin Sealed
    <3>1. pstate[s] \notin {"sealed", "victim"}
      BY <2>2, <1>2 DEF Sealed
    <3>2. \A q \in Queues : s \notin Range(queue[q])
      BY <3>1 DEF PInv, ListedInv
    <3>3. ASSUME NEW x \in at PROVE FALSE
      <4>1. /\ x[1] \in Queues /\ x[2] \in 1 .. Cardinality(PSegs)
            /\ x[2] <= Len(queue[x[1]]) /\ queue[x[1]][x[2]] = s
        BY <3>3
      <4>2. Len(queue[x[1]]) \in Nat /\ DOMAIN queue[x[1]] = 1 .. Len(queue[x[1]])
        BY <4>1, <1>1, ListDomain
      <4>3. Cardinality(PSegs) \in Nat
        BY PartsFacts, FS_CardinalityType
      <4>4. x[2] \in 1 .. Len(queue[x[1]])
        BY <4>1, <4>2, <4>3
      <4> QED BY <4>1, <4>2, <4>4, <3>2 DEF Range
    <3> HIDE DEF at
    <3>4. at = {}
      BY <3>3
    <3> QED BY <3>4, <2>2, FS_EmptySet DEF Times, at
  <2> QED BY <2>1, <2>2
<1>3. ASSUME pkind = "zero", s \in Sealed
      PROVE  pcnt[s] = 0 <=> Contains(queue[1], s)
  <2>1. PICK q \in Queues : s \in Range(queue[q])
    BY <1>3 DEF PInv, ListedInv
  <2>2. q = IF pcnt[s] = 0 THEN 1 ELSE 0
    BY <2>1, <1>3 DEF PInv, PlaceInv
  <2>3. s \in Range(queue[1]) => pcnt[s] = 0
    BY <1>3, PartsFacts DEF PInv, PlaceInv
  <2> QED BY <2>1, <2>2, <2>3, <1>1, PartsFacts
<1>4. ASSUME pkind = "midas"
      PROVE  LET live == {x \in heap : x[3] = s /\ Live(x)}
             IN /\ s \in Sealed => {x[1] : x \in live} = {pcnt[s]} /\ Cardinality(live) = 1
                /\ pstate[s] \in {"free", "victim"} => live = {}
  <2> DEFINE live == {x \in heap : x[3] = s /\ Live(x)}
  <2>1. \A x \in live : x \in heap /\ x[3] = s /\ x[1] = pcnt[s] /\ pstate[s] \in {"full", "sealed"}
    BY DEF PInv, HeapInv
  <2>2. ASSUME NEW x \in live, NEW y \in live PROVE x = y
    <3>1. x \in heap /\ y \in heap /\ <<x[2], x[4]>> = <<y[2], y[4]>>
      BY <2>2 DEF Live
    <3> QED BY <3>1 DEF PInv, GenInv
  <2>3. ASSUME s \in Sealed
        PROVE  {x[1] : x \in live} = {pcnt[s]} /\ Cardinality(live) = 1
    <3>1. PICK x \in live : TRUE
      BY <2>3, <1>4 DEF PInv, HeapInv
    <3>2. live = {x}
      <4> HIDE DEF live
      <4> QED BY <3>1, <2>2
    <3>3. x[1] = pcnt[s]
      BY <3>1, <2>1
    <3> HIDE DEF live
    <3>4. Cardinality(live) = 1
      BY <3>2, FS_Singleton
    <3> QED BY <3>2, <3>3, <3>4
  <2>4. pstate[s] \in {"free", "victim"} => live = {}
    BY <2>1
  <2> QED BY <2>3, <2>4
<1> QED BY <1>2, <1>3, <1>4

(* The segments a policy tracks, in every reachable state.                 *)
THEOREM VictimsStayTracked == VictimPoliciesSpec => []VictimsTracked
BY VictimPoliciesInvariance, InvariantTracks, PTL

(* Only choose_segment takes a segment out of the order of the additions   *)
(* and makes it a victim.                                                  *)
LEMMA OnlyChoosePicks ==
  ASSUME PInv, VictimPoliciesNext, NEW s \in PSegs, Picked(s)
  PROVE  Choose(s)
<1>1. s \in Range(padded) /\ s \notin Range(padded') /\ pstate'[s] = "victim"
  <2>1. PInv'
    BY VictimPoliciesStep
  <2>2. IsList(padded) /\ IsList(padded')
    BY <2>1 DEF PInv, OnceInv
  <2> QED BY <2>2, ContainsIsListed DEF Picked
<1>2. IsList(padded)
  BY DEF PInv, OnceInv
<1>3. PICK r \in PSegs : Fills(r) \/ Overwritten(r) \/ Seal(r) \/ Choose(r) \/ Consult(r) \/ Reset(r)
  BY DEF VictimPoliciesNext
<1>4. ~Fills(r) /\ ~Overwritten(r)
  BY <1>1 DEF Fills, Overwritten
<1>5. ~Seal(r)
  <2>1. SUFFICES ASSUME Seal(r) PROVE FALSE
    OBVIOUS
  <2>2. r \notin Range(padded) /\ padded' = Append(padded, r)
    BY <2>1 DEF Seal, PInv, OrderInv
  <2>3. Range(padded') = Range(padded) \cup {r}
    BY <2>2, <1>2, ListAppend
  <2> QED BY <2>3, <1>1
<1>6. ~Consult(r)
  <2>1. SUFFICES ASSUME Consult(r) PROVE FALSE
    OBVIOUS
  <2> DEFINE e == RemoveFirst(padded, r)
  <2>2. IsList(e) /\ Range(e) = Range(padded) \ {r} /\ padded' = Append(e, r)
    BY <2>1, <1>2, ListErase DEF Consult
  <2> HIDE DEF e
  <2>3. Range(padded') = Range(e) \cup {r}
    BY <2>2, ListAppend
  <2> QED BY <2>2, <2>3, <1>1
<1>7. Choose(r) \/ Reset(r) => s = r
  <2>1. SUFFICES ASSUME Choose(r) \/ Reset(r) PROVE s = r
    OBVIOUS
  <2>2. padded' = RemoveFirst(padded, r)
    BY <2>1 DEF Choose, Reset
  <2>3. Range(padded') = Range(padded) \ {r}
    BY <2>2, <1>2, ListErase
  <2> QED BY <2>3, <1>1
<1>8. Reset(s) => pstate'[s] = "free"
  BY DEF Reset, PInv, PTypeOK
<1> QED BY <1>1, <1>3, <1>4, <1>5, <1>6, <1>7, <1>8

(* What a choice takes.                                                    *)
LEMMA ChosenIsFirst ==
  ASSUME PInv, NEW s \in PSegs, Choose(s), NEW t \in Sealed \ {s}
  PROVE  CASE pkind = "zero" -> pcnt[s] = 0 \/ (pcnt[t] > 0 /\ Older(s, t))
           [] pkind = "selective" -> \/ pclass[s] > pclass[t]
                                     \/ pclass[s] = pclass[t] /\ Older(s, t)
           [] pkind = "multi" ->
                \A q \in Queues : Contains(queue[q], s) /\ Contains(queue[q], t) => Older(s, t)
           [] pkind = "midas" -> pclass[s] = pclass[t] => pcnt[s] <= pcnt[t]
           [] OTHER -> TRUE
<1>1. /\ s \in Sealed /\ t \in Sealed /\ t # s /\ t \in PSegs /\ ChooseSegment(s)
      /\ pcnt[s] \in Nat /\ pcnt[t] \in Nat
  BY PartsFacts DEF Choose, Sealed, PInv, PTypeOK
<1>2. \A q \in Queues : /\ IsList(queue[q])
                        /\ Contains(queue[q], s) <=> s \in Range(queue[q])
                        /\ Contains(queue[q], t) <=> t \in Range(queue[q])
  BY ContainsIsListed DEF PInv, OnceInv
<1>3. \A q \in Queues : Ordered(q) /\ InFront(queue[q], s, t) => Older(s, t)
  <2>1. IsList(padded)
    BY DEF PInv, OnceInv
  <2>2. InFront(padded, s, t) => Older(s, t)
    BY <2>1, ListDomain DEF InFront, Older
  <2> QED BY <2>2 DEF PInv, OrderInv
<1>4. ASSUME pkind \in {"zero", "selective", "multi"}
      PROVE  \E p, u \in Queues :
               /\ s \in Range(queue[p]) /\ t \in Range(queue[u])
               /\ ~(u > p)
               /\ u = p => InFront(queue[p], s, t)
  <2>1. s \in FirstListed
    BY <1>1, <1>4 DEF ChooseSegment
  <2>2. PICK p \in Queues : /\ s \in Range(queue[p])
                            /\ \A r \in Range(queue[p]) : r # s => InFront(queue[p], s, r)
                            /\ \A r \in Queues : r > p => Range(queue[r]) = {}
    BY <2>1, FirstListedFacts
  <2>3. PICK u \in Queues : t \in Range(queue[u])
    BY <1>1, <1>4 DEF PInv, ListedInv
  <2>4. ~(u > p)
    BY <2>2, <2>3
  <2> QED BY <2>2, <2>3, <2>4, <1>1
<1>5. ASSUME pkind = "zero" PROVE pcnt[s] = 0 \/ (pcnt[t] > 0 /\ Older(s, t))
  <2>1. PICK p, u \in Queues : /\ s \in Range(queue[p]) /\ t \in Range(queue[u]) /\ ~(u > p)
                               /\ u = p => InFront(queue[p], s, t)
    BY <1>4, <1>5
  <2>2. /\ p = IF pcnt[s] = 0 THEN 1 ELSE 0
        /\ u = IF pcnt[t] = 0 THEN 1 ELSE 0
    BY <2>1, <1>5 DEF PInv, PlaceInv
  <2>3. ASSUME pcnt[s] # 0 PROVE pcnt[t] > 0 /\ u = p /\ Ordered(p)
    <3>1. p = 0 /\ u = 0 /\ pcnt[t] # 0
      BY <2>1, <2>2, <2>3
    <3> QED BY <3>1, <1>1, <1>5 DEF Ordered
  <2> QED BY <2>1, <2>3, <1>3
<1>6. ASSUME pkind = "selective"
      PROVE  pclass[s] > pclass[t] \/ (pclass[s] = pclass[t] /\ Older(s, t))
  <2>1. PICK p, u \in Queues : /\ s \in Range(queue[p]) /\ t \in Range(queue[u]) /\ ~(u > p)
                               /\ u = p => InFront(queue[p], s, t)
    BY <1>4, <1>6
  <2>2. p = pclass[s] /\ u = pclass[t] /\ p \in Nat /\ u \in Nat
    BY <2>1, <1>6, PartsFacts DEF PInv, PlaceInv
  <2>3. p > u \/ p = u
    BY <2>1, <2>2
  <2>4. Ordered(p)
    BY <1>6 DEF Ordered
  <2> QED BY <2>1, <2>2, <2>3, <2>4, <1>3
<1>7. ASSUME pkind = "multi", NEW q \in Queues, Contains(queue[q], s), Contains(queue[q], t)
      PROVE  Older(s, t)
  <2>1. PICK p, u \in Queues : /\ s \in Range(queue[p]) /\ t \in Range(queue[u])
                               /\ u = p => InFront(queue[p], s, t)
    BY <1>4, <1>7
  <2>2. s \in Range(queue[q]) /\ t \in Range(queue[q])
    BY <1>2, <1>7
  <2>3. p = q /\ u = q
    BY <2>1, <2>2, <1>1 DEF PInv, OnceInv
  <2>4. Ordered(p)
    BY <1>7 DEF Ordered
  <2> QED BY <2>1, <2>3, <2>4, <1>3
<1>8. ASSUME pkind = "midas", pclass[s] = pclass[t] PROVE pcnt[s] <= pcnt[t]
  <2>1. PICK x \in heap : x[3] = s /\ ChooseEntry(x)
    BY <1>1, <1>8 DEF ChooseSegment
  <2>2. PICK y \in heap : y[3] = t /\ Live(y)
    BY <1>1, <1>8 DEF PInv, HeapInv
  <2>3. Live(x) /\ (Turn(x[4]) < Turn(y[4]) \/ (x[4] = y[4] /\ ~Before(y, x)))
    BY <2>1, <2>2 DEF ChooseEntry
  <2>4. x[1] = pcnt[s] /\ x[4] = pclass[s] /\ y[1] = pcnt[t] /\ y[4] = pclass[t]
    BY <2>1, <2>2, <2>3 DEF PInv, HeapInv
  <2>5. x[4] = y[4] /\ x[4] \in Queues
    BY <2>4, <1>8 DEF PInv, PTypeOK
  <2>6. ~(Turn(x[4]) < Turn(x[4]))
    <3>1. Turn(x[4]) \in Int
      BY <2>5, TurnIsNumber DEF PInv
    <3> QED BY <3>1
  <2>7. ~Before(y, x)
    BY <2>3, <2>5, <2>6
  <2> QED BY <2>4, <2>7, <1>1 DEF Before
<1> QED BY <1>5, <1>6, <1>7, <1>8

(* What garbage collection picks is first in the order the policy          *)
(* promises, in every step.                                                *)
THEOREM ChoicesStayInOrder == VictimPoliciesSpec => ChosenInOrder
<1> DEFINE InOrder ==
      \A s \in PSegs : Picked(s) =>
        \A t \in Sealed \ {s} :
          CASE pkind = "zero" -> pcnt[s] = 0 \/ (pcnt[t] > 0 /\ Older(s, t))
            [] pkind = "selective" -> \/ pclass[s] > pclass[t]
                                      \/ pclass[s] = pclass[t] /\ Older(s, t)
            [] pkind = "multi" ->
                 \A q \in Queues : Contains(queue[q], s) /\ Contains(queue[q], t) => Older(s, t)
            [] pkind = "midas" -> pclass[s] = pclass[t] => pcnt[s] <= pcnt[t]
            [] OTHER -> TRUE
<1>1. PInv /\ [VictimPoliciesNext]_pvars => [InOrder]_pvars
  BY OnlyChoosePicks, ChosenIsFirst
<1> HIDE DEF InOrder
<1>2. VictimPoliciesSpec => [][InOrder]_pvars
  BY <1>1, VictimPoliciesInvariance, PTL DEF VictimPoliciesSpec
<1> QED BY <1>2 DEF ChosenInOrder, InOrder

-----------------------------------------------------------------------------
(*                        The store of TieredStore                         *)
-----------------------------------------------------------------------------
(* No block has two newest copies, whatever the groups of a write-back.    *)
THEOREM OneNewestCopy == TieredSpec => []OneCopy
<1>1. TieredInit => OneCopy
  BY DEF TieredInit, OneCopy
<1>2. OneCopy /\ [TieredNext]_<<cached, cold>> => OneCopy'
  BY DEF OneCopy, TieredNext, WriteKey, WriteBack
<1> QED BY <1>1, <1>2, PTL DEF TieredSpec

(* No write and no write-back makes the store forget a block: a cache that *)
(* implements this specification loses no data.                            *)
THEOREM StoredStaysStored == TieredSpec => [][NothingForgotten]_<<cached, cold>>
<1>1. [TieredNext]_<<cached, cold>> => [NothingForgotten]_<<cached, cold>>
  BY DEF TieredNext, WriteKey, WriteBack, NothingForgotten
<1> QED BY <1>1, PTL DEF TieredSpec
=============================================================================
