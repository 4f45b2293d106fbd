------------------------------ MODULE FTLProofs ------------------------------
(***************************************************************************)
(* The safety properties of FTL, for every geometry and every set of       *)
(* logical pages, when the host writes to one stream: the only way this    *)
(* program uses the drive (every caller of Write passes stream 0).         *)
(***************************************************************************)
EXTENDS FTL, Containers, FiniteSetTheorems, SequenceTheorems, TLAPS

SingleStream == Streams = {Stream0}

-----------------------------------------------------------------------------
(* The inductive invariant.                                                *)

(* Per block: bits are set only below the write pointer; the count and the *)
(* heap agree with the bitmap.                                             *)
BlockInv ==
  \A b \in Blocks :
    /\ \A i \in valid[b] : i < write_ptr[b]
    /\ valid_cnt[b] = Cardinality(valid[b])
    /\ heap[b] = IF Full(b) THEN valid_cnt[b] ELSE NotTracked

(* The pool holds erased blocks, each once.                                *)
PoolInv ==
  /\ \A i, j \in DOMAIN freePool : freePool[i] = freePool[j] => i = j
  /\ \A b \in Pool : valid[b] = {} /\ write_ptr[b] = 0

(* A page is being written exactly while a call is in progress.            *)
CallInv == pc = "idle" <=> curLpn = NotAllocated

(* The block the host appends to is not free; it is an open one when Write *)
(* has just asked for it.                                                  *)
ActiveInv ==
  /\ activeBlk[Stream0] \in Blocks
  /\ pc \in {"idle", "program"} => activeBlk[Stream0] \notin Pool
  /\ pc = "program" => IsOpen(activeBlk[Stream0])

(* How far the pool may shrink.  A call finds at least one block less than *)
(* the trigger.  RunGC takes at most one block out before it puts one      *)
(* back, because a fresh destination has room for the rest of the victim.  *)
SizeInv ==
  /\ pc # "migrate" => Len(freePool) >= GCTrigger - 1
  /\ pc = "migrate" =>
       /\ Len(freePool) < GCTrigger
       /\ \/ Len(freePool) >= GCTrigger - 1
          \/ /\ Len(freePool) = GCTrigger - 2
             /\ gcActiveBlk \in Blocks \ {victim}
             /\ write_ptr[gcActiveBlk] <= idx

(* RunGC may free the very block it still lists as its destination, but    *)
(* then the pool has reached the trigger with that block on top: the write *)
(* takes it at once, before anything else can be copied into it.           *)
GCActiveInv ==
  gcActiveBlk \in Pool =>
    /\ pc = "alloc"
    /\ Len(freePool) >= GCTrigger
    /\ gcActiveBlk = freePool[Len(freePool)]

(* The block being emptied is a full one.                                  *)
VictimInv == pc = "migrate" => victim \in Blocks /\ Full(victim)

(* The two maps and the bitmap agree.                                      *)
MapInv == MappedPagesReadable /\ ValidPagesOwned

(* What RunGC has copied no longer belongs to the victim.                  *)
MovedInv ==
  pc = "migrate" =>
    \A l \in Lpns \ {curLpn}, i \in Pages :
      i < idx => lpnToPpn[l] # <<victim, i>>

IInv ==
  /\ TypeOK /\ BlockInv /\ PoolInv /\ CallInv /\ ActiveInv
  /\ SizeInv /\ GCActiveInv /\ VictimInv /\ MapInv /\ MovedInv

-----------------------------------------------------------------------------
(* Sets of pages.                                                          *)

(* Counts of page sets are bounded and follow single additions and         *)
(* removals.                                                               *)
LEMMA PageSetCount ==
  ASSUME NEW V \in SUBSET Pages, NEW i \in Pages
  PROVE  /\ Cardinality(V) \in 0 .. PagesPerBlock
         /\ i \notin V => Cardinality(V \cup {i}) = Cardinality(V) + 1
         /\ Cardinality(V \ {i}) =
              IF i \in V THEN Cardinality(V) - 1 ELSE Cardinality(V)
<1>1. IsFiniteSet(Pages) /\ Cardinality(Pages) = PagesPerBlock
  BY FS_Interval, GeometryAssumption DEF Pages
<1>2. IsFiniteSet(V) /\ Cardinality(V) <= PagesPerBlock
  BY <1>1, FS_Subset
<1>3. Cardinality(V) \in Nat
  BY <1>2, FS_CardinalityType
<1>4. Cardinality(V \cup {i}) = IF i \in V THEN Cardinality(V) ELSE Cardinality(V) + 1
  BY <1>2, FS_AddElement
<1>5. Cardinality(V \ {i}) = IF i \in V THEN Cardinality(V) - 1 ELSE Cardinality(V)
  BY <1>2, FS_RemoveElement
<1> QED BY <1>2, <1>3, <1>4, <1>5, GeometryAssumption

-----------------------------------------------------------------------------
(* What the shared pieces of the actions do to the block tables.           *)

(* Programming an open block keeps the block tables consistent.            *)
LEMMA ProgramKeepsBlocks ==
  ASSUME TypeOK, BlockInv,
         NEW b \in Blocks, ~Full(b), NEW l \in Lpns,
         ProgramPage(b, l)
  PROVE  /\ valid' \in [Blocks -> SUBSET Pages]
         /\ valid_cnt' \in [Blocks -> 0 .. PagesPerBlock]
         /\ write_ptr' \in [Blocks -> 0 .. PagesPerBlock]
         /\ heap' \in [Blocks -> 0 .. PagesPerBlock \cup {NotTracked}]
         /\ lpnToPpn' \in [Lpns -> Ppns \cup {NotAllocated}]
         /\ ppnToLpn' \in [Ppns -> Lpns \cup {NotAllocated}]
         /\ write_ptr[b] \in Pages
         /\ write_ptr[b] \notin valid[b]
         /\ BlockInv'
<1> DEFINE w == write_ptr[b]
<1>1. w \in Pages /\ w \notin valid[b] /\ <<b, w>> \in Ppns
  BY GeometryAssumption DEF TypeOK, BlockInv, Full, Pages, Ppns
<1>2. /\ Cardinality(valid[b] \cup {w}) = valid_cnt[b] + 1
      /\ valid_cnt[b] + 1 \in 0 .. PagesPerBlock
  <2>1. valid[b] \in SUBSET Pages /\ valid[b] \cup {w} \in SUBSET Pages
    BY <1>1 DEF TypeOK
  <2>2. Cardinality(valid[b] \cup {w}) = Cardinality(valid[b]) + 1
    BY <1>1, <2>1, PageSetCount
  <2>3. Cardinality(valid[b] \cup {w}) \in 0 .. PagesPerBlock
    BY <1>1, <2>1, PageSetCount
  <2> QED BY <2>2, <2>3 DEF BlockInv
<1>3. /\ valid' = [valid EXCEPT ![b] = @ \cup {w}]
      /\ valid_cnt' = [valid_cnt EXCEPT ![b] = @ + 1]
      /\ write_ptr' = [write_ptr EXCEPT ![b] = @ + 1]
      /\ heap' = IF w + 1 >= PagesPerBlock
                 THEN [heap EXCEPT ![b] = valid_cnt[b] + 1] ELSE heap
      /\ lpnToPpn' = [lpnToPpn EXCEPT ![l] = <<b, w>>]
      /\ ppnToLpn' = [ppnToLpn EXCEPT ![<<b, w>>] = l]
  BY DEF ProgramPage
<1>4. valid' \in [Blocks -> SUBSET Pages]
  BY <1>1, <1>3 DEF TypeOK
<1>5. valid_cnt' \in [Blocks -> 0 .. PagesPerBlock]
  BY <1>2, <1>3 DEF TypeOK
<1>6. write_ptr' \in [Blocks -> 0 .. PagesPerBlock]
  BY <1>1, <1>3, GeometryAssumption DEF TypeOK, Pages
<1>7. heap' \in [Blocks -> 0 .. PagesPerBlock \cup {NotTracked}]
  BY <1>2, <1>3 DEF TypeOK
<1>8. lpnToPpn' \in [Lpns -> Ppns \cup {NotAllocated}]
  BY <1>1, <1>3 DEF TypeOK
<1>9. ppnToLpn' \in [Ppns -> Lpns \cup {NotAllocated}]
  BY <1>1, <1>3 DEF TypeOK
<1>10. BlockInv'
  <2> SUFFICES ASSUME NEW c \in Blocks
               PROVE  /\ \A i \in valid'[c] : i < write_ptr'[c]
                      /\ valid_cnt'[c] = Cardinality(valid'[c])
                      /\ heap'[c] = IF write_ptr'[c] >= PagesPerBlock
                                    THEN valid_cnt'[c] ELSE NotTracked
    BY DEF BlockInv, Full
  <2>1. CASE c = b
    <3>1. /\ valid'[c] = valid[b] \cup {w}
          /\ valid_cnt'[c] = valid_cnt[b] + 1
          /\ write_ptr'[c] = w + 1
      BY <2>1, <1>3 DEF TypeOK
    <3>2. \A i \in valid'[c] : i < write_ptr'[c]
      BY <3>1, <1>1 DEF BlockInv, TypeOK, Pages
    <3>3. heap[b] = NotTracked
      BY DEF BlockInv
    <3>4. heap'[c] = IF write_ptr'[c] >= PagesPerBlock
                     THEN valid_cnt'[c] ELSE NotTracked
      BY <2>1, <3>1, <3>3, <1>3 DEF TypeOK
    <3> QED BY <3>1, <3>2, <3>4, <1>2
  <2>2. CASE c # b
    <3>1. /\ valid'[c] = valid[c] /\ valid_cnt'[c] = valid_cnt[c]
          /\ write_ptr'[c] = write_ptr[c] /\ heap'[c] = heap[c]
      BY <2>2, <1>3 DEF TypeOK
    <3> QED BY <3>1 DEF BlockInv, Full
  <2> QED BY <2>1, <2>2
<1> QED BY <1>1, <1>4, <1>5, <1>6, <1>7, <1>8, <1>9, <1>10

(* So does invalidating the page a logical page is mapped to.              *)
LEMMA InvalidateKeepsBlocks ==
  ASSUME TypeOK, BlockInv, NEW ppn \in Ppns \cup {NotAllocated},
         InvalidatePpn(ppn)
  PROVE  /\ valid' \in [Blocks -> SUBSET Pages]
         /\ valid_cnt' \in [Blocks -> 0 .. PagesPerBlock]
         /\ write_ptr' = write_ptr
         /\ heap' \in [Blocks -> 0 .. PagesPerBlock \cup {NotTracked}]
         /\ ppnToLpn' \in [Ppns -> Lpns \cup {NotAllocated}]
         /\ BlockInv'
<1>1. CASE ppn = NotAllocated
  BY <1>1 DEF InvalidatePpn, TypeOK, BlockInv, Full, blockVars
<1>2. CASE ppn # NotAllocated
  <2> DEFINE b == ppn[1]
             i == ppn[2]
             hit == i \in valid[b]
             cnt == IF hit THEN valid_cnt[b] - 1 ELSE valid_cnt[b]
  <2>1. b \in Blocks /\ i \in Pages
    BY <1>2 DEF Ppns
  <2>2. /\ valid' = [valid EXCEPT ![b] = @ \ {i}]
        /\ valid_cnt' = [valid_cnt EXCEPT ![b] = cnt]
        /\ heap' = IF hit /\ Full(b) /\ b \in Tracked
                   THEN [heap EXCEPT ![b] = cnt] ELSE heap
        /\ ppnToLpn' = [ppnToLpn EXCEPT ![ppn] = NotAllocated]
        /\ write_ptr' = write_ptr
    BY <1>2 DEF InvalidatePpn
  <2>3. cnt = Cardinality(valid[b] \ {i}) /\ cnt \in 0 .. PagesPerBlock
    <3>1. valid[b] \in SUBSET Pages /\ valid[b] \ {i} \in SUBSET Pages
      BY <2>1 DEF TypeOK
    <3>2. Cardinality(valid[b] \ {i}) =
            IF hit THEN Cardinality(valid[b]) - 1 ELSE Cardinality(valid[b])
      BY <2>1, <3>1, PageSetCount
    <3>3. Cardinality(valid[b] \ {i}) \in 0 .. PagesPerBlock
      <4>1. \A V \in SUBSET Pages : Cardinality(V) \in 0 .. PagesPerBlock
        BY <2>1, PageSetCount
      <4> QED BY <3>1, <4>1
    <3>4. valid_cnt[b] = Cardinality(valid[b])
      BY <2>1 DEF BlockInv
    <3>5. cnt = Cardinality(valid[b] \ {i})
      BY <3>2, <3>4
    <3> HIDE DEF cnt
    <3> QED BY <3>3, <3>5
  <2>4. valid' \in [Blocks -> SUBSET Pages]
    BY <2>1, <2>2 DEF TypeOK
  <2>5. valid_cnt' \in [Blocks -> 0 .. PagesPerBlock]
    BY <2>1, <2>2, <2>3 DEF TypeOK
  <2>6. heap' \in [Blocks -> 0 .. PagesPerBlock \cup {NotTracked}]
    BY <2>1, <2>2, <2>3 DEF TypeOK
  <2>7. ppnToLpn' \in [Ppns -> Lpns \cup {NotAllocated}]
    BY <1>2, <2>2 DEF TypeOK
  <2>8. BlockInv'
    <3> SUFFICES ASSUME NEW c \in Blocks
                 PROVE  /\ \A j \in valid'[c] : j < write_ptr'[c]
                        /\ valid_cnt'[c] = Cardinality(valid'[c])
                        /\ heap'[c] = IF write_ptr'[c] >= PagesPerBlock
                                      THEN valid_cnt'[c] ELSE NotTracked
      BY DEF BlockInv, Full
    <3>1. CASE c = b
      <4>1. valid'[c] = valid[b] \ {i} /\ valid_cnt'[c] = cnt
        BY <3>1, <2>1, <2>2 DEF TypeOK
      <4>2. \A j \in valid'[c] : j < write_ptr[c]
        BY <3>1, <4>1 DEF BlockInv
      <4>3. Full(b) => heap[b] = valid_cnt[b] /\ valid_cnt[b] >= 0
        BY <2>1 DEF BlockInv, TypeOK
      <4>4. Full(b) => b \in Tracked
        BY <4>3, <2>1 DEF Tracked, NotTracked
      <4>5. heap'[c] = IF Full(c) THEN valid_cnt'[c] ELSE NotTracked
        BY <3>1, <4>1, <4>3, <4>4, <2>1, <2>2 DEF BlockInv, TypeOK
      <4> QED BY <3>1, <4>1, <4>2, <4>5, <2>2, <2>3 DEF Full
    <3>2. CASE c # b
      <4>1. valid'[c] = valid[c] /\ valid_cnt'[c] = valid_cnt[c] /\ heap'[c] = heap[c]
        BY <3>2, <2>1, <2>2 DEF TypeOK
      <4> QED BY <4>1, <2>2 DEF BlockInv, Full
    <3> QED BY <3>1, <3>2
  <2> QED BY <2>2, <2>4, <2>5, <2>6, <2>7, <2>8
<1> QED BY <1>1, <1>2

(* Taking a block out of the pool changes no other block; the pool loses   *)
(* just that block.                                                        *)
LEMMA PopKeepsBlocks ==
  ASSUME TypeOK, BlockInv, PoolInv, freePool # <<>>, PopFreeBlock,
         NEW b, b = freePool[Len(freePool)]
  PROVE  /\ b \in Blocks /\ b \in Pool
         /\ valid[b] = {} /\ write_ptr[b] = 0
         /\ valid' = valid /\ write_ptr' = write_ptr
         /\ valid_cnt' = valid_cnt /\ heap' = heap
         /\ freePool' \in Seq(Blocks)
         /\ Len(freePool') = Len(freePool) - 1
         /\ Pool' = Pool \ {b}
         /\ PoolInv'
<1>1. /\ freePool' = SubSeq(freePool, 1, Len(freePool) - 1)
      /\ valid' = [valid EXCEPT ![b] = {}]
      /\ valid_cnt' = [valid_cnt EXCEPT ![b] = 0]
      /\ write_ptr' = [write_ptr EXCEPT ![b] = 0]
      /\ heap' = heap
  BY DEF PopFreeBlock
<1>2. /\ freePool' \in Seq(Blocks)
      /\ Len(freePool') = Len(freePool) - 1
      /\ b \in Blocks
      /\ \A i, j \in DOMAIN freePool' : freePool'[i] = freePool'[j] => i = j
      /\ Pool' = Pool \ {b}
  <2>1. /\ freePool \in Seq(Blocks)
        /\ \A i, j \in DOMAIN freePool : freePool[i] = freePool[j] => i = j
    BY DEF TypeOK, PoolInv
  <2> DEFINE r == SubSeq(freePool, 1, Len(freePool) - 1)
  <2>2. freePool' = r
    BY <1>1
  <2>3. /\ r \in Seq(Blocks)
        /\ Len(r) = Len(freePool) - 1
        /\ freePool[Len(freePool)] \in Blocks
        /\ \A i, j \in DOMAIN r : r[i] = r[j] => i = j
        /\ Range(r) = Range(freePool) \ {freePool[Len(freePool)]}
    BY <2>1, PopStack
  <2> HIDE DEF r
  <2> QED BY <2>2, <2>3 DEF Pool
<1>3. b \in Pool
  <2>1. Len(freePool) \in DOMAIN freePool
    BY EmptySeq, LenProperties DEF TypeOK
  <2> QED BY <2>1 DEF Pool, Range
<1>4. valid[b] = {} /\ write_ptr[b] = 0
  BY <1>3 DEF PoolInv
<1>5. valid_cnt[b] = 0
  BY <1>2, <1>4, FS_EmptySet DEF BlockInv
<1>6. valid' = valid /\ write_ptr' = write_ptr /\ valid_cnt' = valid_cnt
  BY <1>1, <1>2, <1>4, <1>5 DEF TypeOK
<1>7. PoolInv'
  BY <1>2, <1>6 DEF PoolInv
<1> QED BY <1>1, <1>2, <1>3, <1>4, <1>6, <1>7
-----------------------------------------------------------------------------
(* The initial states.                                                     *)

(* The drive the constructor builds satisfies the inductive invariant.     *)
LEMMA InitIInv == ASSUME SingleStream PROVE Init => IInv
<1> SUFFICES ASSUME Init PROVE IInv
  OBVIOUS
<1>1. /\ freePool \in Seq(Blocks) /\ Len(freePool) = NumBlocks - 1
      /\ DOMAIN freePool = 1 .. NumBlocks - 1
      /\ \A i \in 1 .. NumBlocks - 1 : freePool[i] = i - 1
  <2>1. freePool \in [1 .. NumBlocks - 1 -> Blocks]
    BY GeometryAssumption DEF Init, Blocks
  <2>2. NumBlocks - 1 \in Nat
    BY GeometryAssumption
  <2>3. freePool \in Seq(Blocks)
    BY <2>1, <2>2, SeqDef
  <2>4. DOMAIN freePool = 1 .. NumBlocks - 1
    BY <2>1
  <2>5. \A i \in 1 .. NumBlocks - 1 : freePool[i] = i - 1
    BY DEF Init
  <2>6. Len(freePool) = NumBlocks - 1
    BY <2>2, <2>3, <2>4, LenProperties
  <2> QED BY <2>3, <2>4, <2>5, <2>6
<1> USE DEF Init
<1>2. \A b \in Pool : b \in Blocks /\ b # NumBlocks - 1
  <2>1. \A x : x \in Pool <=> \E i \in 1 .. NumBlocks - 1 : x = i - 1
    BY <1>1 DEF Pool, Range
  <2>2. \A i \in 1 .. NumBlocks - 1 : i - 1 \in Blocks /\ i - 1 # NumBlocks - 1
    BY GeometryAssumption DEF Blocks
  <2> QED BY <2>1, <2>2
<1>3. Cardinality({}) = 0
  BY FS_EmptySet
<1>4. TypeOK
  BY <1>1, GeometryAssumption, NamesAssumption DEF TypeOK, Blocks, NotTracked
<1>5. BlockInv
  BY <1>3, GeometryAssumption DEF BlockInv, Full
<1>6. PoolInv
  BY <1>1, <1>2, GeometryAssumption DEF PoolInv, Blocks
<1>7. ActiveInv
  BY <1>2, GeometryAssumption, NamesAssumption DEF ActiveInv, Blocks
<1>8. SizeInv
  BY <1>1, GeometryAssumption DEF SizeInv
<1>9. GCActiveInv
  BY <1>2, NamesAssumption DEF GCActiveInv, Blocks
<1>10. MapInv
  BY DEF MapInv, MappedPagesReadable, ValidPagesOwned, Readable
<1> QED
  BY <1>4, <1>5, <1>6, <1>7, <1>8, <1>9, <1>10
  DEF IInv, CallInv, VictimInv, MovedInv

-----------------------------------------------------------------------------
(* Each action keeps the invariant.                                        *)

(* What invalidating the page of l, now in flight or gone, leaves of the   *)
(* maps: everything about the other logical pages.                         *)
LEMMA InvalidateKeepsMaps ==
  ASSUME IInv, pc = "idle", NEW l \in Lpns, InvalidatePpn(lpnToPpn[l])
  PROVE  /\ \A k \in Lpns \ {l} :
              lpnToPpn[k] # NotAllocated =>
                /\ lpnToPpn[k][2] \in valid'[lpnToPpn[k][1]]
                /\ ppnToLpn'[lpnToPpn[k]] = k
         /\ \A b \in Blocks : \A i \in valid'[b] :
              /\ ppnToLpn'[<<b, i>>] \in Lpns \ {l}
              /\ lpnToPpn[ppnToLpn'[<<b, i>>]] = <<b, i>>
         /\ \A b \in Pool : valid'[b] = {}
<1> USE DEF IInv
<1>1. curLpn = NotAllocated /\ NotAllocated \notin Lpns
  BY NamesAssumption DEF CallInv
<1>2. /\ \A k \in Lpns : lpnToPpn[k] # NotAllocated => Readable(k)
      /\ \A b \in Blocks : \A i \in valid[b] :
           /\ ppnToLpn[<<b, i>>] \in Lpns
           /\ lpnToPpn[ppnToLpn[<<b, i>>]] = <<b, i>>
  BY <1>1 DEF MapInv, MappedPagesReadable, ValidPagesOwned, Moved
<1>3. \A b \in Pool : b \in Blocks /\ valid[b] = {}
  <2>1. Pool \subseteq Blocks
    BY RangeOfSeq DEF Pool, TypeOK
  <2> QED BY <2>1 DEF PoolInv
<1>4. CASE lpnToPpn[l] = NotAllocated
  <2>1. valid' = valid /\ ppnToLpn' = ppnToLpn
    BY <1>4 DEF InvalidatePpn, blockVars
  <2> QED BY SMTT(20), <2>1, <1>2, <1>3, <1>4, NamesAssumption DEF Readable, Ppns, TypeOK
<1>5. CASE lpnToPpn[l] # NotAllocated
  <2> DEFINE p == lpnToPpn[l]
  <2>1. p \in Ppns /\ p = <<p[1], p[2]>> /\ p[1] \in Blocks /\ p[2] \in Pages
    BY <1>5 DEF TypeOK, Ppns
  <2>2. /\ valid' = [valid EXCEPT ![p[1]] = @ \ {p[2]}]
        /\ ppnToLpn' = [ppnToLpn EXCEPT ![p] = NotAllocated]
    BY <1>5 DEF InvalidatePpn
  <2>3. ppnToLpn[p] = l
    BY <1>2, <1>5 DEF Readable
  <2>4. \A k \in Lpns \ {l} :
          lpnToPpn[k] # NotAllocated =>
            /\ lpnToPpn[k][2] \in valid'[lpnToPpn[k][1]]
            /\ ppnToLpn'[lpnToPpn[k]] = k
    <3> SUFFICES ASSUME NEW k \in Lpns \ {l}, lpnToPpn[k] # NotAllocated
                 PROVE  /\ lpnToPpn[k][2] \in valid'[lpnToPpn[k][1]]
                        /\ ppnToLpn'[lpnToPpn[k]] = k
      OBVIOUS
    <3> DEFINE r == lpnToPpn[k]
    <3>1. r \in Ppns /\ r = <<r[1], r[2]>> /\ r[1] \in Blocks
      BY DEF TypeOK, Ppns
    <3>2. r[2] \in valid[r[1]] /\ ppnToLpn[r] = k
      BY <1>2 DEF Readable
    <3>3. r # p
      BY <3>2, <2>3
    <3>4. ppnToLpn'[r] = k
      BY <2>2, <3>1, <3>2, <3>3 DEF TypeOK
    <3>5. r[1] # p[1] \/ r[2] # p[2]
      BY <3>1, <3>3, <2>1
    <3>6. r[2] \in valid'[r[1]]
      BY <2>1, <2>2, <3>1, <3>2, <3>5 DEF TypeOK
    <3> QED BY <3>4, <3>6
  <2>5. ASSUME NEW b \in Blocks, NEW i \in valid'[b]
        PROVE  /\ ppnToLpn'[<<b, i>>] \in Lpns \ {l}
               /\ lpnToPpn[ppnToLpn'[<<b, i>>]] = <<b, i>>
    <3>1. i \in valid[b] /\ <<b, i>> \in Ppns /\ <<b, i>> # p
      BY <2>1, <2>2, <2>5 DEF TypeOK, Ppns
    <3>2. ppnToLpn'[<<b, i>>] = ppnToLpn[<<b, i>>]
      BY <2>2, <3>1 DEF TypeOK
    <3> QED BY <3>1, <3>2, <1>2
  <2>6. \A b \in Pool : valid'[b] = {}
    BY <1>3, <2>1, <2>2 DEF TypeOK
  <2> QED BY <2>4, <2>5, <2>6
<1> QED BY <1>4, <1>5

(* Write, up to the search for a block: one bit and one count go, and the  *)
(* page being written is excused from then on.                             *)
LEMMA BeginWriteKeepsIInv ==
  ASSUME SingleStream, IInv, NEW l \in Lpns, NEW s \in Streams, BeginWrite(l, s)
  PROVE  IInv'
<1> USE DEF IInv
<1>1. /\ pc = "idle" /\ curLpn' = l /\ stream' = s /\ s = Stream0
      /\ InvalidatePpn(lpnToPpn[l])
      /\ pc' = IF IsOpen(activeBlk[s]) THEN "program" ELSE "alloc"
      /\ lpnToPpn' = lpnToPpn /\ freePool' = freePool /\ activeBlk' = activeBlk
      /\ gcActiveBlk' = gcActiveBlk /\ victim' = victim /\ idx' = idx
  BY DEF BeginWrite, SingleStream, poolVars, gcVars
<1>2. lpnToPpn[l] \in Ppns \cup {NotAllocated}
  BY DEF TypeOK
<1>3. /\ valid' \in [Blocks -> SUBSET Pages]
      /\ valid_cnt' \in [Blocks -> 0 .. PagesPerBlock]
      /\ write_ptr' = write_ptr
      /\ heap' \in [Blocks -> 0 .. PagesPerBlock \cup {NotTracked}]
      /\ ppnToLpn' \in [Ppns -> Lpns \cup {NotAllocated}]
      /\ BlockInv'
  BY <1>1, <1>2, InvalidateKeepsBlocks
<1>4. TypeOK'
  BY <1>1, <1>3 DEF TypeOK
<1>5. PoolInv'
  BY <1>1, <1>3, InvalidateKeepsMaps DEF PoolInv, Pool
<1>6. CallInv'
  BY <1>1, NamesAssumption DEF CallInv
<1>7. ActiveInv' /\ SizeInv' /\ GCActiveInv' /\ VictimInv'
  BY <1>1, <1>3 DEF ActiveInv, SizeInv, GCActiveInv, VictimInv, Pool, IsOpen, Full
<1>8. MapInv' /\ MovedInv'
  BY <1>1, InvalidateKeepsMaps
  DEF MapInv, MappedPagesReadable, ValidPagesOwned, Readable, Moved, MovedInv
<1> QED BY <1>3, <1>4, <1>5, <1>6, <1>7, <1>8

(* Trim: the bit, the count and both map entries go together.              *)
LEMMA TrimKeepsIInv ==
  ASSUME SingleStream, IInv, NEW l \in Lpns, Trim(l)
  PROVE  IInv'
<1> USE DEF IInv
<1>1. /\ pc = "idle" /\ InvalidatePpn(lpnToPpn[l])
      /\ lpnToPpn' = [lpnToPpn EXCEPT ![l] = NotAllocated]
      /\ pc' = pc /\ curLpn' = curLpn /\ stream' = stream
      /\ freePool' = freePool /\ activeBlk' = activeBlk
      /\ gcActiveBlk' = gcActiveBlk /\ victim' = victim /\ idx' = idx
  BY DEF Trim, poolVars, gcVars, callVars
<1>2. lpnToPpn[l] \in Ppns \cup {NotAllocated}
  BY DEF TypeOK
<1>3. /\ valid' \in [Blocks -> SUBSET Pages]
      /\ valid_cnt' \in [Blocks -> 0 .. PagesPerBlock]
      /\ write_ptr' = write_ptr
      /\ heap' \in [Blocks -> 0 .. PagesPerBlock \cup {NotTracked}]
      /\ ppnToLpn' \in [Ppns -> Lpns \cup {NotAllocated}]
      /\ BlockInv'
  BY <1>1, <1>2, InvalidateKeepsBlocks
<1>4. TypeOK'
  BY <1>1, <1>3 DEF TypeOK
<1>5. PoolInv'
  BY <1>1, <1>3, InvalidateKeepsMaps DEF PoolInv, Pool
<1>6. CallInv' /\ ActiveInv' /\ SizeInv' /\ GCActiveInv' /\ VictimInv'
  BY <1>1, <1>3
  DEF CallInv, ActiveInv, SizeInv, GCActiveInv, VictimInv, Pool, IsOpen, Full
<1>7. curLpn = NotAllocated /\ NotAllocated \notin Lpns
  BY <1>1, NamesAssumption DEF CallInv
<1>8. MapInv' /\ MovedInv'
  BY SMTT(20), <1>1, <1>7, InvalidateKeepsMaps
  DEF MapInv, MappedPagesReadable, ValidPagesOwned, Readable, Moved, MovedInv, TypeOK
<1> QED BY <1>3, <1>4, <1>5, <1>6, <1>8
-----------------------------------------------------------------------------
(* The steps inside a call.                                                *)

(* Programming block b with page l, when every other mapped page is        *)
(* readable: page l becomes readable and the others stay so.               *)
LEMMA ProgramKeepsMaps ==
  ASSUME IInv, pc \in {"program", "migrate"},
         NEW b \in Blocks, ~Full(b), NEW l \in Lpns, ProgramPage(b, l)
  PROVE  /\ \A k \in Lpns \ {curLpn, l} :
              lpnToPpn'[k] # NotAllocated =>
                /\ lpnToPpn'[k][2] \in valid'[lpnToPpn'[k][1]]
                /\ ppnToLpn'[lpnToPpn'[k]] = k
         /\ /\ lpnToPpn'[l] = <<b, write_ptr[b]>>
            /\ write_ptr[b] \in valid'[b]
            /\ ppnToLpn'[<<b, write_ptr[b]>>] = l
         /\ \A k \in Lpns \ {l} : lpnToPpn'[k] = lpnToPpn[k]
         /\ \A c \in Blocks : c # b => valid'[c] = valid[c] /\ write_ptr'[c] = write_ptr[c]
         /\ valid'[b] = valid[b] \cup {write_ptr[b]}
         /\ \A c \in Blocks : \A i \in valid[c] :
              <<c, i>> # <<b, write_ptr[b]>> /\ ppnToLpn'[<<c, i>>] = ppnToLpn[<<c, i>>]
<1> USE DEF IInv
<1> DEFINE w == write_ptr[b]
<1>1. w \in Pages /\ w \notin valid[b] /\ <<b, w>> \in Ppns
  BY ProgramKeepsBlocks DEF Ppns
<1>2. /\ valid' = [valid EXCEPT ![b] = @ \cup {w}]
      /\ write_ptr' = [write_ptr EXCEPT ![b] = @ + 1]
      /\ lpnToPpn' = [lpnToPpn EXCEPT ![l] = <<b, w>>]
      /\ ppnToLpn' = [ppnToLpn EXCEPT ![<<b, w>>] = l]
  BY DEF ProgramPage
<1>3. /\ \A c \in Blocks : c # b => valid'[c] = valid[c] /\ write_ptr'[c] = write_ptr[c]
      /\ valid'[b] = valid[b] \cup {w}
      /\ lpnToPpn'[l] = <<b, w>>
      /\ \A k \in Lpns \ {l} : lpnToPpn'[k] = lpnToPpn[k]
      /\ ppnToLpn'[<<b, w>>] = l
      /\ \A p \in Ppns : p # <<b, w>> => ppnToLpn'[p] = ppnToLpn[p]
  BY <1>1, <1>2 DEF TypeOK
<1>4. \A c \in Blocks : \A i \in valid[c] :
        /\ <<c, i>> # <<b, w>>
        /\ ppnToLpn'[<<c, i>>] = ppnToLpn[<<c, i>>]
  <2> SUFFICES ASSUME NEW c \in Blocks, NEW i \in valid[c]
               PROVE  <<c, i>> # <<b, w>> /\ ppnToLpn'[<<c, i>>] = ppnToLpn[<<c, i>>]
    OBVIOUS
  <2>1. <<c, i>> \in Ppns
    BY DEF TypeOK, Ppns
  <2>2. <<c, i>> # <<b, w>>
    BY <1>1
  <2> QED BY <2>1, <2>2, <1>3
<1>5. ASSUME NEW k \in Lpns \ {curLpn, l}, lpnToPpn'[k] # NotAllocated
      PROVE  /\ lpnToPpn'[k][2] \in valid'[lpnToPpn'[k][1]]
             /\ ppnToLpn'[lpnToPpn'[k]] = k
  <2> DEFINE r == lpnToPpn[k]
  <2>1. r \in Ppns /\ r = <<r[1], r[2]>> /\ r[1] \in Blocks /\ lpnToPpn'[k] = r
    BY <1>3, <1>5 DEF TypeOK, Ppns
  <2>2. r[2] \in valid[r[1]] /\ ppnToLpn[r] = k
    BY <1>5, <2>1 DEF MapInv, MappedPagesReadable, Readable
  <2>3. r[2] \in valid'[r[1]]
    BY <1>3, <2>1, <2>2
  <2>4. ppnToLpn'[<<r[1], r[2]>>] = ppnToLpn[<<r[1], r[2]>>]
    BY <2>1, <2>2, <1>4
  <2>5. ppnToLpn'[r] = k
    BY <2>1, <2>2, <2>4
  <2> QED BY <2>1, <2>3, <2>5
<1> QED BY <1>1, <1>3, <1>4, <1>5

(* Write, last part: the page gets a place of its own.                     *)
LEMMA FinishWriteKeepsIInv ==
  ASSUME SingleStream, IInv, FinishWrite
  PROVE  IInv'
<1> USE DEF IInv
<1> DEFINE b == activeBlk[Stream0]
<1>1. /\ pc = "program" /\ pc' = "idle" /\ curLpn' = NotAllocated
      /\ stream = Stream0 /\ stream' = stream
      /\ ProgramPage(b, curLpn)
      /\ freePool' = freePool /\ activeBlk' = activeBlk
      /\ gcActiveBlk' = gcActiveBlk /\ victim' = victim /\ idx' = idx
  BY DEF FinishWrite, SingleStream, TypeOK, poolVars, gcVars
<1>2. b \in Blocks /\ ~Full(b) /\ b \notin Pool /\ curLpn \in Lpns
  BY <1>1 DEF ActiveInv, IsOpen, CallInv, TypeOK
<1>3. /\ valid' \in [Blocks -> SUBSET Pages]
      /\ valid_cnt' \in [Blocks -> 0 .. PagesPerBlock]
      /\ write_ptr' \in [Blocks -> 0 .. PagesPerBlock]
      /\ heap' \in [Blocks -> 0 .. PagesPerBlock \cup {NotTracked}]
      /\ lpnToPpn' \in [Lpns -> Ppns \cup {NotAllocated}]
      /\ ppnToLpn' \in [Ppns -> Lpns \cup {NotAllocated}]
      /\ BlockInv'
  BY <1>1, <1>2, ProgramKeepsBlocks
<1> DEFINE w == write_ptr[b]
<1>4. /\ \A k \in Lpns \ {curLpn} :
           lpnToPpn'[k] # NotAllocated =>
             /\ lpnToPpn'[k][2] \in valid'[lpnToPpn'[k][1]]
             /\ ppnToLpn'[lpnToPpn'[k]] = k
      /\ /\ lpnToPpn'[curLpn] = <<b, w>>
         /\ w \in valid'[b]
         /\ ppnToLpn'[<<b, w>>] = curLpn
      /\ \A k \in Lpns \ {curLpn} : lpnToPpn'[k] = lpnToPpn[k]
      /\ \A c \in Blocks : c # b => valid'[c] = valid[c] /\ write_ptr'[c] = write_ptr[c]
      /\ valid'[b] = valid[b] \cup {w}
      /\ \A c \in Blocks : \A i \in valid[c] :
           <<c, i>> # <<b, w>> /\ ppnToLpn'[<<c, i>>] = ppnToLpn[<<c, i>>]
  BY <1>1, <1>2, ProgramKeepsMaps
<1>5. TypeOK'
  BY <1>1, <1>3 DEF TypeOK
<1>6. PoolInv'
  <2>1. \A c \in Pool : c \in Blocks /\ c # b
    BY <1>2, RangeOfSeq DEF Pool, TypeOK
  <2> QED BY <1>1, <1>4, <2>1 DEF PoolInv, Pool
<1>7. CallInv' /\ ActiveInv' /\ SizeInv' /\ GCActiveInv' /\ VictimInv' /\ MovedInv'
  BY <1>1, <1>2
  DEF CallInv, ActiveInv, SizeInv, GCActiveInv, VictimInv, MovedInv, Pool
<1>8. MapInv'
  <2>1. MappedPagesReadable'
    BY <1>1, <1>4 DEF MappedPagesReadable, Readable
  <2>2. \A c \in Blocks : \A i \in valid[c] :
          /\ ppnToLpn[<<c, i>>] \in Lpns \ {curLpn}
          /\ lpnToPpn[ppnToLpn[<<c, i>>]] = <<c, i>>
    BY <1>1 DEF MapInv, ValidPagesOwned, Moved
  <2>3. ASSUME NEW c \in Blocks, NEW i \in valid'[c]
        PROVE  /\ ppnToLpn'[<<c, i>>] \in Lpns
               /\ lpnToPpn'[ppnToLpn'[<<c, i>>]] = <<c, i>>
    <3>1. CASE i \in valid[c]
      BY SMTT(20), <3>1, <2>2, <1>4
    <3>2. CASE i \notin valid[c]
      <4>1. c = b /\ i = w
        BY <3>2, <2>3, <1>4
      <4> QED BY <4>1, <1>2, <1>4
    <3> QED BY <3>1, <3>2
  <2>4. ValidPagesOwned'
    BY <2>3, <1>1, NamesAssumption DEF ValidPagesOwned, Moved
  <2> QED BY <2>1, <2>4 DEF MapInv
<1> QED BY <1>3, <1>5, <1>6, <1>7, <1>8

(* A new active block: what was the destination of RunGC may be taken, and *)
(* is then no longer free.                                                 *)
LEMMA AllocateActiveKeepsIInv ==
  ASSUME SingleStream, IInv, AllocateActive
  PROVE  IInv'
<1> USE DEF IInv
<1> DEFINE b == freePool[Len(freePool)]
<1>1. /\ pc = "alloc" /\ pc' = "program" /\ PopFreeBlock
      /\ Len(freePool) >= GCTrigger
      /\ stream = Stream0 /\ stream' = stream
      /\ activeBlk' = [activeBlk EXCEPT ![Stream0] = b]
      /\ lpnToPpn' = lpnToPpn /\ ppnToLpn' = ppnToLpn
      /\ gcActiveBlk' = gcActiveBlk /\ victim' = victim /\ idx' = idx
      /\ curLpn' = curLpn
  BY DEF AllocateActive, EnoughFree, SingleStream, TypeOK, mapVars, gcVars
<1>2. freePool # <<>>
  BY <1>1, EmptySeq, GeometryAssumption
<1>3. /\ b \in Blocks /\ b \in Pool
      /\ valid[b] = {} /\ write_ptr[b] = 0
      /\ valid' = valid /\ write_ptr' = write_ptr
      /\ valid_cnt' = valid_cnt /\ heap' = heap
      /\ freePool' \in Seq(Blocks)
      /\ Len(freePool') = Len(freePool) - 1
      /\ Pool' = Pool \ {b}
      /\ PoolInv'
  BY <1>1, <1>2, PopKeepsBlocks
<1>4. activeBlk'[Stream0] = b /\ activeBlk' \in [Streams -> Blocks \cup {NotAllocated}]
  BY <1>1, <1>3, NamesAssumption DEF TypeOK
<1>5. TypeOK'
  BY <1>1, <1>3, <1>4 DEF TypeOK
<1>6. BlockInv'
  BY <1>3 DEF BlockInv, Full
<1>7. ActiveInv'
  BY <1>3, <1>4, GeometryAssumption, NamesAssumption DEF ActiveInv, IsOpen, Full
<1>8. Len(freePool) \in Nat
  BY LenProperties DEF TypeOK
<1>9. SizeInv'
  BY <1>1, <1>3, <1>8, GeometryAssumption DEF SizeInv
<1>10. GCActiveInv'
  BY <1>1, <1>3 DEF GCActiveInv
<1>11. CallInv' /\ VictimInv' /\ MovedInv'
  BY <1>1 DEF CallInv, VictimInv, MovedInv
<1>12. MapInv'
  BY <1>1, <1>3
  DEF MapInv, MappedPagesReadable, ValidPagesOwned, Readable, Moved
<1> QED BY <1>3, <1>5, <1>6, <1>7, <1>9, <1>10, <1>11, <1>12

(* RunGC starts with a full block, which cannot be free.                   *)
LEMMA ChooseVictimKeepsIInv ==
  ASSUME SingleStream, IInv, ChooseVictim
  PROVE  IInv'
<1> USE DEF IInv
<1>1. /\ pc = "alloc" /\ pc' = "migrate" /\ idx' = 0
      /\ Len(freePool) < GCTrigger
      /\ UNCHANGED <<blockVars, mapVars, poolVars, curLpn, stream>>
  BY LenProperties, GeometryAssumption DEF ChooseVictim, EnoughFree, TypeOK
<1>2. /\ valid' = valid /\ valid_cnt' = valid_cnt /\ write_ptr' = write_ptr
      /\ heap' = heap /\ lpnToPpn' = lpnToPpn /\ ppnToLpn' = ppnToLpn
      /\ freePool' = freePool /\ activeBlk' = activeBlk
      /\ gcActiveBlk' = gcActiveBlk /\ curLpn' = curLpn /\ stream' = stream
  BY <1>1 DEF blockVars, mapVars, poolVars
<1>3. victim' \in Blocks /\ Full(victim')
  <2>1. PICK b \in Blocks : IsTop(b) /\ victim' = b
    BY DEF ChooseVictim
  <2>2. heap[b] # NotTracked
    BY <2>1 DEF IsTop, Tracked
  <2> QED BY <2>1, <2>2 DEF BlockInv
<1>4. TypeOK'
  BY <1>1, <1>2, <1>3, GeometryAssumption DEF TypeOK
<1>5. BlockInv' /\ PoolInv'
  BY <1>2 DEF BlockInv, PoolInv, Full, Pool
<1>6. CallInv' /\ ActiveInv'
  BY <1>1, <1>2 DEF CallInv, ActiveInv, Pool
<1>7. SizeInv'
  BY <1>1, <1>2 DEF SizeInv
<1>8. GCActiveInv'
  <2>1. Len(freePool) \in Nat
    BY LenProperties DEF TypeOK
  <2>2. gcActiveBlk \notin Pool
    BY <2>1, <1>1, GeometryAssumption DEF GCActiveInv
  <2> QED BY <2>2, <1>2 DEF GCActiveInv, Pool
<1>9. VictimInv'
  BY <1>2, <1>3 DEF VictimInv, Full
<1>10. MovedInv'
  BY <1>1 DEF MovedInv, Pages
<1>11. MapInv'
  <2>1. MappedPagesReadable'
    BY <1>2 DEF MapInv, MappedPagesReadable, Readable
  <2>2. ValidPagesOwned'
    BY <1>1, <1>2 DEF MapInv, ValidPagesOwned, Moved
  <2> QED BY <2>1, <2>2 DEF MapInv
<1> QED BY <1>4, <1>5, <1>6, <1>7, <1>8, <1>9, <1>10, <1>11
(* RunGC passes over a page that nobody maps.                              *)
LEMMA SkipPageKeepsIInv ==
  ASSUME SingleStream, IInv, SkipPage
  PROVE  IInv'
<1> USE DEF IInv
<1>1. /\ pc = "migrate" /\ idx < PagesPerBlock /\ idx \notin valid[victim]
      /\ idx' = idx + 1
      /\ UNCHANGED <<blockVars, mapVars, poolVars, victim, callVars>>
  BY DEF SkipPage
<1>2. /\ valid' = valid /\ valid_cnt' = valid_cnt /\ write_ptr' = write_ptr
      /\ heap' = heap /\ lpnToPpn' = lpnToPpn /\ ppnToLpn' = ppnToLpn
      /\ freePool' = freePool /\ activeBlk' = activeBlk /\ pc' = pc
      /\ gcActiveBlk' = gcActiveBlk /\ curLpn' = curLpn /\ stream' = stream
      /\ victim' = victim
  BY <1>1 DEF blockVars, mapVars, poolVars, callVars
<1>3. idx \in Nat /\ victim \in Blocks
  BY <1>1, GeometryAssumption DEF TypeOK, VictimInv
<1>4. TypeOK'
  BY <1>1, <1>2, <1>3, GeometryAssumption DEF TypeOK
<1>5. BlockInv' /\ PoolInv' /\ CallInv' /\ ActiveInv' /\ GCActiveInv' /\ VictimInv'
  BY <1>2
  DEF BlockInv, PoolInv, CallInv, ActiveInv, GCActiveInv, VictimInv, Full, Pool, IsOpen
<1>6. SizeInv'
  <2>1. gcActiveBlk \in Blocks => write_ptr[gcActiveBlk] \in Nat
    BY GeometryAssumption DEF TypeOK
  <2> QED BY <1>1, <1>2, <1>3, <2>1 DEF SizeInv
<1>7. MovedInv'
  <2> SUFFICES ASSUME NEW l \in Lpns \ {curLpn}, NEW i \in Pages, i < idx + 1
               PROVE  lpnToPpn[l] # <<victim, i>>
    BY <1>1, <1>2 DEF MovedInv
  <2>1. CASE i < idx
    BY <2>1, <1>1 DEF MovedInv
  <2>2. CASE i = idx
    <3>1. lpnToPpn[l] # NotAllocated => lpnToPpn[l][2] \in valid[lpnToPpn[l][1]]
      BY DEF MapInv, MappedPagesReadable, Readable
    <3>2. <<victim, i>> # NotAllocated
      BY <1>3, NamesAssumption DEF Ppns
    <3> QED BY <3>1, <3>2, <2>2, <1>1
  <2> QED BY <2>1, <2>2, <1>3 DEF Pages
<1>8. MapInv'
  <2>1. MappedPagesReadable'
    BY <1>2 DEF MapInv, MappedPagesReadable, Readable
  <2>2. ValidPagesOwned'
    <3> SUFFICES ASSUME NEW b \in Blocks, NEW i \in valid[b],
                        ~(b = victim /\ i < idx + 1)
                 PROVE  /\ ppnToLpn[<<b, i>>] \in Lpns \ {curLpn}
                        /\ lpnToPpn[ppnToLpn[<<b, i>>]] = <<b, i>>
      BY <1>1, <1>2 DEF ValidPagesOwned, Moved
    <3>1. i \in Nat
      BY DEF TypeOK, Pages
    <3>2. ~(b = victim /\ i < idx)
      BY <3>1, <1>3
    <3> QED BY <3>2 DEF MapInv, ValidPagesOwned, Moved
  <2> QED BY <2>1, <2>2 DEF MapInv
<1> QED BY <1>4, <1>5, <1>6, <1>7, <1>8

(* RunGC opens a destination: the pool holds a block because the last one  *)
(* was not filled by this victim.                                          *)
LEMMA AllocateGCActiveKeepsIInv ==
  ASSUME SingleStream, IInv, AllocateGCActive
  PROVE  IInv'
<1> USE DEF IInv
<1> DEFINE b == freePool[Len(freePool)]
<1>1. /\ pc = "migrate" /\ pc' = pc /\ PopFreeBlock
      /\ idx < PagesPerBlock /\ idx' = idx
      /\ freePool # <<>> /\ ~IsOpen(gcActiveBlk)
      /\ gcActiveBlk' = b
      /\ lpnToPpn' = lpnToPpn /\ ppnToLpn' = ppnToLpn
      /\ activeBlk' = activeBlk /\ victim' = victim
      /\ curLpn' = curLpn /\ stream' = stream
  BY DEF AllocateGCActive, mapVars, gcVars, callVars
<1>2. /\ b \in Blocks /\ b \in Pool
      /\ valid[b] = {} /\ write_ptr[b] = 0
      /\ valid' = valid /\ write_ptr' = write_ptr
      /\ valid_cnt' = valid_cnt /\ heap' = heap
      /\ freePool' \in Seq(Blocks)
      /\ Len(freePool') = Len(freePool) - 1
      /\ Pool' = Pool \ {b}
      /\ PoolInv'
  BY <1>1, PopKeepsBlocks
<1>3. TypeOK'
  BY <1>1, <1>2 DEF TypeOK
<1>4. BlockInv'
  BY <1>2 DEF BlockInv, Full
<1>5. CallInv' /\ ActiveInv' /\ VictimInv' /\ MovedInv'
  BY <1>1, <1>2 DEF CallInv, ActiveInv, VictimInv, MovedInv, Full
<1>6. GCActiveInv'
  BY <1>1, <1>2 DEF GCActiveInv
<1>7. SizeInv'
  <2>1. idx \in 0 .. PagesPerBlock /\ Len(freePool) \in Nat
    BY LenProperties DEF TypeOK
  <2>2. Len(freePool) >= GCTrigger - 1
    <3>1. ~(write_ptr[gcActiveBlk] <= idx /\ gcActiveBlk \in Blocks)
      <4>1. gcActiveBlk \in Blocks => write_ptr[gcActiveBlk] >= PagesPerBlock
        BY <1>1, NamesAssumption DEF IsOpen, Full
      <4>2. gcActiveBlk \in Blocks => write_ptr[gcActiveBlk] \in Nat
        BY GeometryAssumption DEF TypeOK
      <4> QED BY <4>1, <4>2, <1>1, <2>1, GeometryAssumption
    <3> QED BY <3>1, <1>1 DEF SizeInv
  <2>3. b # victim
    <3>1. write_ptr[victim] >= PagesPerBlock
      BY <1>1 DEF VictimInv, Full
    <3> QED BY <3>1, <1>2, GeometryAssumption
  <2>4. Len(freePool) < GCTrigger
    BY <1>1 DEF SizeInv
  <2>5. write_ptr[b] <= idx
    BY <1>2, <2>1, GeometryAssumption
  <2>6. Len(freePool) - 1 = GCTrigger - 2 /\ Len(freePool) - 1 < GCTrigger
    BY <2>1, <2>2, <2>4, GeometryAssumption
  <2> QED BY <1>1, <1>2, <2>3, <2>5, <2>6 DEF SizeInv
<1>8. MapInv'
  <2>1. MappedPagesReadable'
    BY <1>1, <1>2 DEF MapInv, MappedPagesReadable, Readable
  <2>2. ValidPagesOwned'
    BY <1>1, <1>2 DEF MapInv, ValidPagesOwned, Moved
  <2> QED BY <2>1, <2>2 DEF MapInv
<1> QED BY <1>2, <1>3, <1>4, <1>5, <1>6, <1>7, <1>8

(* RunGC copies a page: its owner is unique, so nothing in the victim below*)
(* the index stays mapped.                                                 *)
LEMMA MigratePageKeepsIInv ==
  ASSUME SingleStream, IInv, MigratePage
  PROVE  IInv'
<1> USE DEF IInv
<1> DEFINE b == gcActiveBlk
           l == ppnToLpn[<<victim, idx>>]
           w == write_ptr[b]
<1>1. /\ pc = "migrate" /\ idx < PagesPerBlock /\ idx \in valid[victim]
      /\ IsOpen(b) /\ ProgramPage(b, l) /\ idx' = idx + 1
      /\ freePool' = freePool /\ activeBlk' = activeBlk /\ pc' = pc
      /\ gcActiveBlk' = gcActiveBlk /\ curLpn' = curLpn /\ stream' = stream
      /\ victim' = victim
  BY DEF MigratePage, poolVars, callVars
<1>2. /\ b \in Blocks /\ ~Full(b) /\ victim \in Blocks /\ Full(victim) /\ victim # b
      /\ idx \in Nat
  BY <1>1, GeometryAssumption DEF IsOpen, TypeOK, VictimInv
<1>3. l \in Lpns \ {curLpn} /\ lpnToPpn[l] = <<victim, idx>>
  BY <1>1, <1>2 DEF MapInv, ValidPagesOwned, Moved
<1>4. b \notin Pool
  BY <1>1 DEF GCActiveInv
<1>5. /\ valid' \in [Blocks -> SUBSET Pages]
      /\ valid_cnt' \in [Blocks -> 0 .. PagesPerBlock]
      /\ write_ptr' \in [Blocks -> 0 .. PagesPerBlock]
      /\ heap' \in [Blocks -> 0 .. PagesPerBlock \cup {NotTracked}]
      /\ lpnToPpn' \in [Lpns -> Ppns \cup {NotAllocated}]
      /\ ppnToLpn' \in [Ppns -> Lpns \cup {NotAllocated}]
      /\ BlockInv'
  BY <1>1, <1>2, <1>3, ProgramKeepsBlocks
<1>6. /\ \A k \in Lpns \ {curLpn, l} :
           lpnToPpn'[k] # NotAllocated =>
             /\ lpnToPpn'[k][2] \in valid'[lpnToPpn'[k][1]]
             /\ ppnToLpn'[lpnToPpn'[k]] = k
      /\ lpnToPpn'[l] = <<b, w>>
      /\ w \in valid'[b]
      /\ ppnToLpn'[<<b, w>>] = l
      /\ \A k \in Lpns \ {l} : lpnToPpn'[k] = lpnToPpn[k]
      /\ \A c \in Blocks : c # b => valid'[c] = valid[c] /\ write_ptr'[c] = write_ptr[c]
      /\ valid'[b] = valid[b] \cup {w}
      /\ \A c \in Blocks : \A i \in valid[c] :
           <<c, i>> # <<b, w>> /\ ppnToLpn'[<<c, i>>] = ppnToLpn[<<c, i>>]
  BY <1>1, <1>2, <1>3, ProgramKeepsMaps
<1>7. TypeOK'
  <2>1. idx + 1 \in 0 .. PagesPerBlock
    BY <1>1, <1>2, GeometryAssumption
  <2> HIDE DEF b, l, w
  <2> QED BY <2>1, <1>1, <1>5 DEF TypeOK
<1>8. PoolInv'
  <2>1. \A c \in Pool : c \in Blocks /\ c # b
    BY <1>4, RangeOfSeq DEF Pool, TypeOK
  <2> QED BY <1>1, <1>6, <2>1 DEF PoolInv, Pool
<1>9. CallInv' /\ ActiveInv' /\ GCActiveInv'
  BY <1>1 DEF CallInv, ActiveInv, GCActiveInv, Pool
<1>10. VictimInv'
  BY <1>1, <1>2, <1>6 DEF VictimInv, Full
<1>11. SizeInv'
  <2>1. write_ptr'[b] = w + 1 /\ w \in Nat
    BY <1>1, <1>2, GeometryAssumption DEF ProgramPage, TypeOK
  <2> QED BY <1>1, <1>2, <2>1 DEF SizeInv
<1>12. MovedInv'
  <2> SUFFICES ASSUME NEW k \in Lpns \ {curLpn}, NEW i \in Pages, i < idx + 1
               PROVE  lpnToPpn'[k] # <<victim, i>>
    BY <1>1 DEF MovedInv
  <2>1. CASE k = l
    BY <2>1, <1>2, <1>6
  <2>2. CASE k # l /\ i < idx
    BY <2>2, <1>1, <1>6 DEF MovedInv
  <2>3. CASE k # l /\ i = idx
    <3>1. lpnToPpn[k] # NotAllocated => ppnToLpn[lpnToPpn[k]] = k
      BY DEF MapInv, MappedPagesReadable, Readable
    <3>2. <<victim, idx>> # NotAllocated
      BY <2>3, <1>2, NamesAssumption DEF Ppns
    <3>3. lpnToPpn[k] # <<victim, idx>>
      BY <3>1, <3>2, <2>3
    <3> QED BY <3>3, <2>3, <1>6
  <2> QED BY <2>1, <2>2, <2>3, <1>2 DEF Pages
<1>13. MapInv'
  <2>1. MappedPagesReadable'
    BY <1>1, <1>6 DEF MappedPagesReadable, Readable
  <2>2. ASSUME NEW c \in Blocks, NEW i \in valid'[c], ~(c = victim /\ i < idx + 1)
        PROVE  /\ ppnToLpn'[<<c, i>>] \in Lpns \ {curLpn}
               /\ lpnToPpn'[ppnToLpn'[<<c, i>>]] = <<c, i>>
    <3>1. CASE i \in valid[c]
      <4>1. i \in Nat
        BY <3>1 DEF TypeOK, Pages
      <4>2. ~(c = victim /\ i < idx) /\ ~(c = victim /\ i = idx)
        BY <4>1, <2>2, <1>2
      <4>3. /\ ppnToLpn[<<c, i>>] \in Lpns \ {curLpn}
            /\ lpnToPpn[ppnToLpn[<<c, i>>]] = <<c, i>>
        BY <3>1, <4>2 DEF MapInv, ValidPagesOwned, Moved
      <4>4. ppnToLpn[<<c, i>>] # l
        BY <4>2, <4>3, <1>3
      <4> QED BY <3>1, <4>3, <4>4, <1>6
    <3>2. CASE i \notin valid[c]
      <4>1. c = b /\ i = w
        BY <3>2, <2>2, <1>6
      <4> QED BY <4>1, <1>3, <1>6
    <3> QED BY <3>1, <3>2
  <2>3. ValidPagesOwned'
    BY <2>2, <1>1 DEF ValidPagesOwned, Moved
  <2> QED BY <2>1, <2>3 DEF MapInv
<1> QED BY <1>5, <1>7, <1>8, <1>9, <1>10, <1>11, <1>12, <1>13

(* RunGC erases the victim: by then no page maps to it.                    *)
LEMMA EraseVictimKeepsIInv ==
  ASSUME SingleStream, IInv, EraseVictim
  PROVE  IInv'
<1> USE DEF IInv
<1> DEFINE v == victim
<1>1. /\ pc = "migrate" /\ idx = PagesPerBlock /\ pc' = "alloc"
      /\ valid' = [valid EXCEPT ![v] = {}]
      /\ valid_cnt' = [valid_cnt EXCEPT ![v] = 0]
      /\ write_ptr' = [write_ptr EXCEPT ![v] = 0]
      /\ heap' = [heap EXCEPT ![v] = NotTracked]
      /\ freePool' = Append(freePool, v)
      /\ victim' = NotAllocated /\ idx' = 0
      /\ lpnToPpn' = lpnToPpn /\ ppnToLpn' = ppnToLpn /\ activeBlk' = activeBlk
      /\ gcActiveBlk' = gcActiveBlk /\ curLpn' = curLpn /\ stream' = stream
  BY DEF EraseVictim, AllCopied, mapVars
<1>2. v \in Blocks /\ Full(v) /\ write_ptr[v] # 0
  BY <1>1, GeometryAssumption DEF VictimInv, Full
<1>3. v \notin Pool
  BY <1>2 DEF PoolInv
<1>4. /\ freePool' \in Seq(Blocks)
      /\ Len(freePool') = Len(freePool) + 1
      /\ freePool'[Len(freePool')] = v
      /\ \A i, j \in DOMAIN freePool' : freePool'[i] = freePool'[j] => i = j
      /\ Pool' = Pool \cup {v}
  <2>1. /\ freePool \in Seq(Blocks) /\ v \notin Range(freePool)
        /\ \A i, j \in DOMAIN freePool : freePool[i] = freePool[j] => i = j
    BY <1>3 DEF TypeOK, PoolInv, Pool
  <2> DEFINE r == Append(freePool, v)
  <2>2. /\ r \in Seq(Blocks)
        /\ Len(r) = Len(freePool) + 1
        /\ r[Len(r)] = v
        /\ \A i, j \in DOMAIN r : r[i] = r[j] => i = j
        /\ Range(r) = Range(freePool) \cup {v}
    BY <2>1, <1>2, PushBack
  <2>3. freePool' = r
    BY <1>1
  <2> HIDE DEF r
  <2> QED BY <2>2, <2>3 DEF Pool
<1>5. Len(freePool) \in Nat
  BY LenProperties DEF TypeOK
<1>6. /\ valid'[v] = {} /\ valid_cnt'[v] = 0 /\ write_ptr'[v] = 0
      /\ heap'[v] = NotTracked
      /\ \A c \in Blocks : c # v => /\ valid'[c] = valid[c]
                                    /\ valid_cnt'[c] = valid_cnt[c]
                                    /\ write_ptr'[c] = write_ptr[c]
                                    /\ heap'[c] = heap[c]
  BY <1>1, <1>2 DEF TypeOK
<1>7. TypeOK'
  BY <1>1, <1>2, <1>4, GeometryAssumption DEF TypeOK
<1>8. BlockInv'
  <2> SUFFICES ASSUME NEW c \in Blocks
               PROVE  /\ \A i \in valid'[c] : i < write_ptr'[c]
                      /\ valid_cnt'[c] = Cardinality(valid'[c])
                      /\ heap'[c] = IF write_ptr'[c] >= PagesPerBlock
                                    THEN valid_cnt'[c] ELSE NotTracked
    BY DEF BlockInv, Full
  <2>1. CASE c = v
    BY <2>1, <1>6, FS_EmptySet, GeometryAssumption
  <2>2. CASE c # v
    BY <2>2, <1>6 DEF BlockInv, Full
  <2> QED BY <2>1, <2>2
<1>9. PoolInv'
  <2>1. \A c \in Pool : c \in Blocks
    BY RangeOfSeq DEF Pool, TypeOK
  <2>2. \A c \in Pool' : valid'[c] = {} /\ write_ptr'[c] = 0
    BY <1>3, <1>4, <1>6, <2>1 DEF PoolInv
  <2> QED BY <2>2, <1>4 DEF PoolInv
<1>10. CallInv' /\ ActiveInv' /\ VictimInv' /\ MovedInv'
  BY <1>1 DEF CallInv, ActiveInv, VictimInv, MovedInv
<1>11. SizeInv'
  BY <1>1, <1>4, <1>5, GeometryAssumption DEF SizeInv
<1>12. GCActiveInv'
  <2> SUFFICES ASSUME gcActiveBlk \in Pool'
               PROVE  Len(freePool') >= GCTrigger /\ gcActiveBlk = freePool'[Len(freePool')]
    BY <1>1 DEF GCActiveInv
  <2>1. gcActiveBlk \notin Pool
    BY <1>1 DEF GCActiveInv
  <2>2. gcActiveBlk = v
    BY <2>1, <1>4
  <2>3. Len(freePool) >= GCTrigger - 1
    BY <2>2, <1>1 DEF SizeInv
  <2> QED BY <2>2, <2>3, <1>4, <1>5, GeometryAssumption
<1>13. MapInv'
  <2>1. MappedPagesReadable'
    <3> SUFFICES ASSUME NEW k \in Lpns \ {curLpn}, lpnToPpn[k] # NotAllocated
                 PROVE  lpnToPpn[k][2] \in valid'[lpnToPpn[k][1]] /\ ppnToLpn[lpnToPpn[k]] = k
      BY <1>1 DEF MappedPagesReadable, Readable
    <3> DEFINE r == lpnToPpn[k]
    <3>1. r \in Ppns /\ r = <<r[1], r[2]>> /\ r[1] \in Blocks /\ r[2] \in Pages
      BY DEF TypeOK, Ppns
    <3>2. r[2] \in valid[r[1]] /\ ppnToLpn[r] = k
      BY DEF MapInv, MappedPagesReadable, Readable
    <3>3. r[2] < idx
      BY <3>1, <1>1, GeometryAssumption DEF Pages
    <3>4. r # <<v, r[2]>>
      BY <3>1, <3>3, <1>1 DEF MovedInv
    <3>5. r[1] # v
      BY <3>1, <3>4
    <3> QED BY <3>1, <3>2, <3>5, <1>6
  <2>2. ValidPagesOwned'
    <3> SUFFICES ASSUME NEW c \in Blocks, NEW i \in valid'[c]
                 PROVE  /\ ppnToLpn[<<c, i>>] \in Lpns \ {curLpn}
                        /\ lpnToPpn[ppnToLpn[<<c, i>>]] = <<c, i>>
      BY <1>1 DEF ValidPagesOwned, Moved
    <3>1. c # v /\ i \in valid[c]
      BY <1>6
    <3> QED BY <3>1 DEF MapInv, ValidPagesOwned, Moved
  <2> QED BY <2>1, <2>2 DEF MapInv
<1> QED BY <1>7, <1>8, <1>9, <1>10, <1>11, <1>12, <1>13

(* RunGC giving up, and no step at all, change nothing.                    *)
LEMMA StutterKeepsIInv ==
  ASSUME IInv, UNCHANGED vars
  PROVE  IInv'
BY DEF vars, blockVars, mapVars, poolVars, gcVars, callVars, IInv, TypeOK,
       BlockInv, PoolInv, CallInv, ActiveInv, SizeInv, GCActiveInv, VictimInv,
       MapInv, MovedInv, MappedPagesReadable, ValidPagesOwned, Readable, Moved,
       IsOpen, Full, Pool

(* Every step of the drive keeps the inductive invariant.                  *)
LEMMA NextKeepsIInv ==
  ASSUME SingleStream, IInv, [Next]_vars
  PROVE  IInv'
<1>1. ASSUME NEW l \in Lpns, NEW s \in Streams, BeginWrite(l, s)
      PROVE  IInv'
  BY <1>1, BeginWriteKeepsIInv
<1>2. ASSUME NEW l \in Lpns, Trim(l)
      PROVE  IInv'
  BY <1>2, TrimKeepsIInv
<1>3. CASE FinishWrite
  BY <1>3, FinishWriteKeepsIInv
<1>4. CASE AllocateActive
  BY <1>4, AllocateActiveKeepsIInv
<1>5. CASE ChooseVictim
  BY <1>5, ChooseVictimKeepsIInv
<1>6. CASE RunGCFails
  BY <1>6, StutterKeepsIInv DEF RunGCFails, EnoughFree
<1>7. CASE SkipPage
  BY <1>7, SkipPageKeepsIInv
<1>8. CASE AllocateGCActive
  BY <1>8, AllocateGCActiveKeepsIInv
<1>9. CASE MigratePage
  BY <1>9, MigratePageKeepsIInv
<1>10. CASE EraseVictim
  BY <1>10, EraseVictimKeepsIInv
<1>11. CASE UNCHANGED vars
  BY <1>11, StutterKeepsIInv
<1> QED
  BY <1>1, <1>2, <1>3, <1>4, <1>5, <1>6, <1>7, <1>8, <1>9, <1>10, <1>11
     DEF Next, Internal

(* The inductive invariant holds in every reachable state.                 *)
THEOREM Invariance ==
  ASSUME SingleStream
  PROVE  Spec => []IInv
<1>1. Init => IInv
  BY InitIInv
<1>2. IInv /\ [Next]_vars => IInv'
  BY NextKeepsIInv
<1> QED BY <1>1, <1>2, PTL DEF Spec

(* Every variable keeps its type.                                          *)
THEOREM TypeCorrectness ==
  ASSUME SingleStream
  PROVE  Spec => []TypeOK
<1>1. IInv => TypeOK
  BY DEF IInv
<1> QED BY <1>1, Invariance, PTL

(* No write, trim, migration or erase loses a mapped page.                 *)
THEOREM NoPageLost ==
  ASSUME SingleStream
  PROVE  Spec => []MappedPagesReadable
<1>1. IInv => MappedPagesReadable
  BY DEF IInv, MapInv
<1> QED BY <1>1, Invariance, PTL

(* Every set bit belongs to one live logical page.                         *)
THEOREM ValidPagesAreLive ==
  ASSUME SingleStream
  PROVE  Spec => []ValidPagesOwned
<1>1. IInv => ValidPagesOwned
  BY DEF IInv, MapInv
<1> QED BY <1>1, Invariance, PTL

(* The greedy heap is exact, so the victim is a true minimum.              *)
THEOREM GreedyHeapIsExact ==
  ASSUME SingleStream
  PROVE  Spec => []HeapExact
<1>1. IInv => HeapExact
  BY DEF IInv, BlockInv, HeapExact
<1> QED BY <1>1, Invariance, PTL

(* A block a call is about to program, and the victim, are never free.     *)
THEOREM PoolIsSafe ==
  ASSUME SingleStream
  PROVE  Spec => []PoolSafe
<1>1. IInv => PoolSafe
  <2> SUFFICES ASSUME IInv PROVE PoolSafe
    OBVIOUS
  <2> USE DEF IInv
  <2>1. pc = "program" => activeBlk[stream] \notin Pool
    BY DEF ActiveInv, TypeOK, SingleStream
  <2>2. pc = "migrate" => victim \notin Pool
    BY GeometryAssumption DEF PoolInv, VictimInv, Full
  <2>3. pc = "migrate" /\ IsOpen(gcActiveBlk) => gcActiveBlk \notin Pool
    BY DEF GCActiveInv
  <2> QED BY <2>1, <2>2, <2>3 DEF PoolInv, PoolSafe
<1> QED BY <1>1, Invariance, PTL

(* Garbage collection always finds a destination: the assert in            *)
(* AllocateNewGCActiveBlock cannot fail.                                   *)
THEOREM GCNeverStarves ==
  ASSUME SingleStream
  PROVE  Spec => []GCAllocationSucceeds
<1>1. IInv => GCAllocationSucceeds
  <2> SUFFICES ASSUME IInv, pc = "migrate", idx < PagesPerBlock, freePool = <<>>
               PROVE  IsOpen(gcActiveBlk)
    BY DEF GCAllocationSucceeds
  <2> USE DEF IInv
  <2>1. Len(freePool) = 0
    BY EmptySeq
  <2>2. gcActiveBlk \in Blocks /\ write_ptr[gcActiveBlk] <= idx
    BY <2>1, GeometryAssumption DEF SizeInv
  <2>3. write_ptr[gcActiveBlk] < PagesPerBlock
    BY <2>2, GeometryAssumption DEF TypeOK
  <2> QED BY <2>2, <2>3, NamesAssumption, GeometryAssumption DEF IsOpen, Full, TypeOK
<1> QED BY <1>1, Invariance, PTL

-----------------------------------------------------------------------------
(* The drive implements the logical disk.                                  *)

MappedPages == {k \in Lpns : k = curLpn \/ lpnToPpn[k] # NotAllocated}

MapsTellStored == StoredPages = MappedPages

(* The pages the drive stores are the ones its forward map knows, and the  *)
(* one being written.                                                      *)
LEMMA StoredIsMapped == IInv => MapsTellStored
<1> SUFFICES ASSUME IInv PROVE StoredPages = MappedPages
  BY DEF MapsTellStored
<1>1. \A k \in Lpns \ {curLpn} : Readable(k) <=> lpnToPpn[k] # NotAllocated
  BY DEF IInv, MapInv, MappedPagesReadable, Readable
<1>2. curLpn \in Lpns \cup {NotAllocated} /\ NotAllocated \notin Lpns
  BY NamesAssumption DEF IInv, TypeOK
<1> QED BY <1>1, <1>2 DEF StoredPages, MappedPages

(* The same after a step.                                                  *)
LEMMA StoredIsMappedNext == IInv' => MapsTellStored'
BY StoredIsMapped, PTL

(* FinishWrite and MigratePage map a page that was stored already.         *)
LEMMA RemapKeepsMapped ==
  ASSUME TypeOK,
         NEW b \in Blocks, ~Full(b), NEW l \in MappedPages, ProgramPage(b, l),
         curLpn' = curLpn \/ (curLpn = l /\ curLpn' = NotAllocated)
  PROVE  MappedPages' = MappedPages
<1>1. write_ptr[b] \in Pages
  BY GeometryAssumption DEF TypeOK, Full, Pages
<1>2. <<b, write_ptr[b]>> # NotAllocated
  BY <1>1, NamesAssumption DEF Ppns
<1>3. /\ lpnToPpn'[l] # NotAllocated
      /\ \A k \in Lpns \ {l} : lpnToPpn'[k] = lpnToPpn[k]
  BY <1>2 DEF ProgramPage, TypeOK, MappedPages
<1> QED BY <1>3, NamesAssumption DEF MappedPages

(* A write stores its page from the moment it begins.                      *)
LEMMA BeginWriteStores ==
  ASSUME IInv, NEW l \in Lpns, NEW s \in Streams, BeginWrite(l, s)
  PROVE  ~Busy /\ Busy' /\ MappedPages' = MappedPages \cup {l}
<1>1. /\ curLpn = NotAllocated /\ curLpn' = l /\ lpnToPpn' = lpnToPpn
      /\ ~Busy /\ Busy'
  BY DEF BeginWrite, IInv, CallInv, Busy
<1> QED BY <1>1, NamesAssumption DEF MappedPages

(* A trim forgets its page.                                                *)
LEMMA TrimForgets ==
  ASSUME IInv, NEW l \in Lpns, Trim(l)
  PROVE  ~Busy /\ ~Busy' /\ MappedPages' = MappedPages \ {l}
<1>1. /\ curLpn = NotAllocated /\ curLpn' = curLpn
      /\ lpnToPpn' = [lpnToPpn EXCEPT ![l] = NotAllocated]
      /\ ~Busy /\ ~Busy'
  BY DEF Trim, IInv, CallInv, callVars, Busy
<1> QED BY <1>1, NamesAssumption DEF MappedPages, IInv, TypeOK

(* What the drive does by itself keeps what it stores.                     *)
LEMMA InternalKeepsStored ==
  ASSUME SingleStream, IInv, Internal \/ UNCHANGED vars
  PROVE  MappedPages' = MappedPages /\ (~Busy' \/ (Busy' <=> Busy))
<1> USE DEF IInv
<1>1. CASE FinishWrite
  <2>1. /\ ProgramPage(activeBlk[Stream0], curLpn) /\ curLpn' = NotAllocated
        /\ activeBlk[Stream0] \in Blocks /\ ~Full(activeBlk[Stream0])
        /\ curLpn \in MappedPages
    BY <1>1 DEF FinishWrite, ActiveInv, CallInv, IsOpen, TypeOK, SingleStream,
                MappedPages
  <2>2. ~Busy'
    BY <1>1 DEF FinishWrite, Busy
  <2> QED BY <2>1, <2>2, RemapKeepsMapped
<1>2. CASE MigratePage
  <2>1. /\ ProgramPage(gcActiveBlk, ppnToLpn[<<victim, idx>>]) /\ curLpn' = curLpn
        /\ gcActiveBlk \in Blocks /\ ~Full(gcActiveBlk)
    BY <1>2 DEF MigratePage, IsOpen, TypeOK, callVars
  <2>2. pc = "migrate" /\ victim \in Blocks /\ idx \in valid[victim] /\ ~(idx < idx)
    BY <1>2, GeometryAssumption DEF MigratePage, VictimInv, TypeOK
  <2>3. /\ ppnToLpn[<<victim, idx>>] \in Lpns
        /\ lpnToPpn[ppnToLpn[<<victim, idx>>]] = <<victim, idx>>
    BY <2>2 DEF MapInv, ValidPagesOwned, Moved
  <2>4. <<victim, idx>> # NotAllocated
    BY <2>2, NamesAssumption DEF Ppns, TypeOK
  <2>5. ppnToLpn[<<victim, idx>>] \in MappedPages
    BY <2>3, <2>4 DEF MappedPages
  <2>6. Busy' <=> Busy
    BY <1>2 DEF MigratePage, callVars, Busy
  <2> QED BY <2>1, <2>5, <2>6, RemapKeepsMapped
<1>3. CASE \/ AllocateActive \/ ChooseVictim \/ RunGCFails \/ SkipPage
           \/ AllocateGCActive \/ EraseVictim \/ UNCHANGED vars
  <2>1. lpnToPpn' = lpnToPpn /\ curLpn' = curLpn /\ (Busy' <=> Busy)
    BY <1>3 DEF AllocateActive, EnoughFree, ChooseVictim, RunGCFails, SkipPage, AllocateGCActive,
                EraseVictim, AllCopied, vars, mapVars, callVars, Busy
  <2> QED BY <2>1 DEF MappedPages
<1> QED BY <1>1, <1>2, <1>3 DEF Internal

(* Every step of the drive is one of the disk's, or nothing to its user.   *)
LEMMA StepRefines ==
  ASSUME SingleStream, IInv, [Next]_vars
  PROVE  [Disk!DiskNext]_<<StoredPages, Busy>>
<1>1. StoredPages = MappedPages /\ StoredPages' = MappedPages'
  <2>1. IInv'
    BY NextKeepsIInv
  <2> QED BY <2>1, StoredIsMapped, StoredIsMappedNext DEF MapsTellStored
<1> SUFFICES \/ /\ MappedPages' = MappedPages
                /\ ~Busy' \/ (Busy' <=> Busy)
             \/ \E l \in Lpns : ~Busy /\ Busy' /\ MappedPages' = MappedPages \cup {l}
             \/ \E l \in Lpns : ~Busy /\ ~Busy' /\ MappedPages' = MappedPages \ {l}
  BY <1>1 DEF Disk!DiskNext, Disk!DiskBeginWrite, Disk!DiskEndWrite, Disk!DiskTrim, Busy
<1> QED BY BeginWriteStores, TrimForgets, InternalKeepsStored DEF Next

(* The drive implements the logical disk: whatever garbage collection      *)
(* does, its user sees writes and trims only.                              *)
THEOREM DriveImplementsLogicalDisk ==
  ASSUME SingleStream
  PROVE  Spec => ImplementsLogicalDisk
<1>1. Init => Disk!DiskInit
  BY NamesAssumption DEF Init, Disk!DiskInit, StoredPages, Readable, Busy
<1>2. IInv /\ [Next]_vars => [Disk!DiskNext]_<<StoredPages, Busy>>
  BY StepRefines
<1> QED BY <1>1, <1>2, Invariance, PTL DEF Spec, Disk!DiskSpec, ImplementsLogicalDisk

=============================================================================
