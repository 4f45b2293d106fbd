--------------------------------- MODULE FTL ---------------------------------
(***************************************************************************)
(* The page-mapping flash translation layer (ftl.cpp, class                *)
(* PageMappingFTL) together with the greedy victim heap it owns            *)
(* (evict_policy_greedy.cpp).  The drive is the cold tier behind every     *)
(* cache of the simulator and the cache device behind LRUCache.            *)
(*                                                                         *)
(* Write of one logical page is a call with a loop inside a loop: it       *)
(* invalidates the old physical page, and when the active block is full it *)
(* runs garbage collection until enough blocks are free, then programs the *)
(* page.  Each loop iteration is an action; "pc" says where the call is.   *)
(* The code is single threaded, so no other call starts while one is       *)
(* unfinished.  A write that spans several pages repeats the same loop     *)
(* body page by page and keeps nothing else between two pages: it is the   *)
(* sequence of the single-page writes.                                     *)
(*                                                                         *)
(* A definition named Slip... is a plausible slip in the definition that   *)
(* follows it.  No specification uses one: each is put in the place of     *)
(* its neighbour to see that a property fails then.                        *)
(***************************************************************************)
EXTENDS Integers, Sequences, FiniteSets, Functions

CONSTANTS
  NumBlocks,      \* blocks_.size()
  PagesPerBlock,  \* PAGES_PER_BLOCK
  GCTrigger,      \* GC_TRIGGER_THRESHOLD (4 in the code)
  Lpns,           \* the logical pages the host uses
  Streams,        \* the stream ids passed to Write
  Stream0,        \* stream 0, for which the constructor opens a block
  NotAllocated    \* NOT_ALLOCATED

Blocks == 0 .. NumBlocks - 1
Pages  == 0 .. PagesPerBlock - 1
Ppns   == Blocks \X Pages        \* ppn = block * PAGES_PER_BLOCK + page

ASSUME GeometryAssumption ==
  /\ NumBlocks \in Nat /\ PagesPerBlock \in Nat /\ GCTrigger \in Nat
  /\ PagesPerBlock >= 1
  /\ GCTrigger >= 2
  /\ NumBlocks >= GCTrigger

ASSUME NamesAssumption ==
  /\ Stream0 \in Streams
  /\ NotAllocated \notin Ppns \cup Lpns \cup Blocks

NotTracked == -1                 \* no handle in the heap

VARIABLES
  valid,       \* Block::valid, as the set of pages whose bit is set
  valid_cnt,   \* Segment::valid_cnt
  write_ptr,   \* Segment::write_ptr
  lpnToPpn,    \* lpnToPpn_
  ppnToLpn,    \* ppnToLpn_
  freePool,    \* freePool_, a stack: push_back and pop_back
  activeBlk,   \* activeBlk_, one block per stream
  gcActiveBlk, \* gcActiveBlk_: every use of it in the code has stream id 0
  heap,        \* the greedy heap: the count each tracked block is filed under
  pc,          \* where the call in progress is, "idle" between two calls
  curLpn,      \* the page being written
  stream,      \* the stream it is written to
  victim,      \* the block RunGC is emptying
  idx          \* RunGC's loop index over the pages of the victim

blockVars == <<valid, valid_cnt, write_ptr, heap>>
mapVars   == <<lpnToPpn, ppnToLpn>>
poolVars  == <<freePool, activeBlk, gcActiveBlk>>
gcVars    == <<victim, idx>>
callVars  == <<pc, curLpn, stream>>
vars      == <<blockVars, mapVars, poolVars, gcVars, callVars>>

TypeOK ==
  /\ valid \in [Blocks -> SUBSET Pages]
  /\ valid_cnt \in [Blocks -> 0 .. PagesPerBlock]
  /\ write_ptr \in [Blocks -> 0 .. PagesPerBlock]
  /\ lpnToPpn \in [Lpns -> Ppns \cup {NotAllocated}]
  /\ ppnToLpn \in [Ppns -> Lpns \cup {NotAllocated}]
  /\ freePool \in Seq(Blocks)
  /\ activeBlk \in [Streams -> Blocks \cup {NotAllocated}]
  /\ gcActiveBlk \in Blocks \cup {NotAllocated}
  /\ heap \in [Blocks -> 0 .. PagesPerBlock \cup {NotTracked}]
  /\ pc \in {"idle", "alloc", "migrate", "program"}
  /\ curLpn \in Lpns \cup {NotAllocated}
  /\ stream \in Streams
  /\ victim \in Blocks \cup {NotAllocated}
  /\ idx \in 0 .. PagesPerBlock

-----------------------------------------------------------------------------
(* The victim heap (GreedyEvictPolicy).                                    *)

Tracked == {b \in Blocks : heap[b] # NotTracked}

(* The heap's order: fewest valid pages first, then the lower address.     *)
(* blocks_ is one vector, so addresses follow block ids.                   *)
IsTop(b) ==
  /\ b \in Tracked
  /\ \A c \in Tracked : \/ heap[b] < heap[c]
                        \/ heap[b] = heap[c] /\ b <= c

-----------------------------------------------------------------------------
(* Helpers of the class.                                                   *)

Full(b) == write_ptr[b] >= PagesPerBlock

(* Slip: the active block is reused without asking whether it is full.     *)
SlipIsOpen(b) == b # NotAllocated

(* GetOrAllocate[GC]ActiveBlock finds an open block without allocating.    *)
IsOpen(b) == b # NotAllocated /\ ~Full(b)

Pool == Range(freePool)

(* Slip: the count changes but the heap is not told (no update call).      *)
SlipInvalidatePpn(ppn) ==
  IF ppn = NotAllocated
  THEN UNCHANGED <<blockVars, ppnToLpn>>
  ELSE /\ valid' = [valid EXCEPT ![ppn[1]] = @ \ {ppn[2]}]
       /\ valid_cnt' = [valid_cnt EXCEPT ![ppn[1]] = Cardinality(valid'[ppn[1]])]
       /\ ppnToLpn' = [ppnToLpn EXCEPT ![ppn] = NotAllocated]
       /\ UNCHANGED <<write_ptr, heap>>

(* InvalidatePpn(ppn).  A full block is filed again under its new count;   *)
(* the reverse entry goes, the forward entry stays.                        *)
InvalidatePpn(ppn) ==
  IF ppn = NotAllocated
  THEN UNCHANGED <<blockVars, ppnToLpn>>
  ELSE LET b == ppn[1]
           hit == ppn[2] \in valid[b]
           cnt == IF hit THEN valid_cnt[b] - 1 ELSE valid_cnt[b]
       IN /\ valid' = [valid EXCEPT ![b] = @ \ {ppn[2]}]
          /\ valid_cnt' = [valid_cnt EXCEPT ![b] = cnt]
          /\ heap' = IF hit /\ Full(b) /\ b \in Tracked
                     THEN [heap EXCEPT ![b] = cnt] ELSE heap
          /\ ppnToLpn' = [ppnToLpn EXCEPT ![ppn] = NotAllocated]
          /\ UNCHANGED write_ptr

(* Slip: SetPpn records the forward entry only.                            *)
SlipProgramPage(b, l) ==
  LET fills == write_ptr[b] + 1 >= PagesPerBlock
  IN /\ valid' = [valid EXCEPT ![b] = @ \cup {write_ptr[b]}]
     /\ valid_cnt' = [valid_cnt EXCEPT ![b] = @ + 1]
     /\ write_ptr' = [write_ptr EXCEPT ![b] = @ + 1]
     /\ heap' = IF fills THEN [heap EXCEPT ![b] = valid_cnt[b] + 1] ELSE heap
     /\ lpnToPpn' = [lpnToPpn EXCEPT ![l] = <<b, write_ptr[b]>>]
     /\ UNCHANGED ppnToLpn

(* Program the next page of block b with logical page l: the code that     *)
(* Write and RunGC share, SetPpn included.                                 *)
ProgramPage(b, l) ==
  LET ppn == <<b, write_ptr[b]>>
      fills == write_ptr[b] + 1 >= PagesPerBlock
  IN /\ valid' = [valid EXCEPT ![b] = @ \cup {write_ptr[b]}]
     /\ valid_cnt' = [valid_cnt EXCEPT ![b] = @ + 1]
     /\ write_ptr' = [write_ptr EXCEPT ![b] = @ + 1]
     /\ heap' = IF fills THEN [heap EXCEPT ![b] = valid_cnt[b] + 1] ELSE heap
     /\ lpnToPpn' = [lpnToPpn EXCEPT ![l] = ppn]
     /\ ppnToLpn' = [ppnToLpn EXCEPT ![ppn] = l]

(* Slip: the block is read from the back of the pool but not popped.       *)
SlipPopFreeBlock == UNCHANGED <<freePool, blockVars>>

(* Take the block at the back of the pool and clear it.                    *)
PopFreeBlock ==
  LET b == freePool[Len(freePool)]
  IN /\ freePool' = SubSeq(freePool, 1, Len(freePool) - 1)
     /\ valid' = [valid EXCEPT ![b] = {}]
     /\ valid_cnt' = [valid_cnt EXCEPT ![b] = 0]
     /\ write_ptr' = [write_ptr EXCEPT ![b] = 0]
     /\ UNCHANGED heap

(* Slip: garbage collection waits until the pool is empty.                 *)
SlipEnoughFree == freePool # <<>>

(* AllocateNewActiveBlock's loop is left.                                  *)
EnoughFree == Len(freePool) >= GCTrigger

(* Slip: the copy loop ends one page early.                                *)
SlipAllCopied == idx >= PagesPerBlock - 1

(* RunGC's loop over the pages of the victim is left.                      *)
AllCopied == idx = PagesPerBlock

-----------------------------------------------------------------------------
(* The constructor puts every block in the pool and opens the last one for *)
(* stream 0.                                                               *)
Init ==
  /\ valid = [b \in Blocks |-> {}]
  /\ valid_cnt = [b \in Blocks |-> 0]
  /\ write_ptr = [b \in Blocks |-> 0]
  /\ lpnToPpn = [l \in Lpns |-> NotAllocated]
  /\ ppnToLpn = [p \in Ppns |-> NotAllocated]
  /\ freePool = [i \in 1 .. NumBlocks - 1 |-> i - 1]
  /\ activeBlk = [s \in Streams |-> IF s = Stream0 THEN NumBlocks - 1
                                                   ELSE NotAllocated]
  /\ gcActiveBlk = NotAllocated
  /\ heap = [b \in Blocks |-> NotTracked]
  /\ pc = "idle"
  /\ curLpn = NotAllocated
  /\ stream = Stream0
  /\ victim = NotAllocated
  /\ idx = 0

(* Write: the old page is invalidated before a block is looked for.        *)
BeginWrite(l, s) ==
  /\ pc = "idle"
  /\ InvalidatePpn(lpnToPpn[l])
  /\ curLpn' = l
  /\ stream' = s
  /\ pc' = IF IsOpen(activeBlk[s]) THEN "program" ELSE "alloc"
  /\ UNCHANGED <<lpnToPpn, poolVars, gcVars>>

(* Write: the page goes to the stream's active block and the call returns. *)
FinishWrite ==
  /\ pc = "program"
  /\ ProgramPage(activeBlk[stream], curLpn)
  /\ pc' = "idle"
  /\ curLpn' = NotAllocated
  /\ UNCHANGED <<poolVars, gcVars, stream>>

(* AllocateNewActiveBlock, once its loop is left: enough blocks are free.  *)
AllocateActive ==
  /\ pc = "alloc"
  /\ EnoughFree
  /\ PopFreeBlock
  /\ activeBlk' = [activeBlk EXCEPT ![stream] = freePool[Len(freePool)]]
  /\ pc' = "program"
  /\ UNCHANGED <<mapVars, gcActiveBlk, gcVars, curLpn, stream>>

(* RunGC, first part: a victim with something to reclaim.                  *)
ChooseVictim ==
  /\ pc = "alloc"
  /\ ~EnoughFree
  /\ \E b \in Blocks : /\ IsTop(b)
                       /\ valid_cnt[b] # PagesPerBlock
                       /\ victim' = b
  /\ idx' = 0
  /\ pc' = "migrate"
  /\ UNCHANGED <<blockVars, mapVars, poolVars, curLpn, stream>>

(* RunGC returns false (no victim, or the best one is all valid) and the   *)
(* loop of AllocateNewActiveBlock calls it again with nothing changed.     *)
RunGCFails ==
  /\ pc = "alloc"
  /\ ~EnoughFree
  /\ \A b \in Blocks : IsTop(b) => valid_cnt[b] = PagesPerBlock
  /\ UNCHANGED vars

(* RunGC's loop: a page whose bit is clear is passed over.                 *)
SkipPage ==
  /\ pc = "migrate"
  /\ idx < PagesPerBlock
  /\ idx \notin valid[victim]
  /\ idx' = idx + 1
  /\ UNCHANGED <<blockVars, mapVars, poolVars, victim, callVars>>

(* RunGC's loop needs a destination and its current one is full: a block   *)
(* leaves the pool, with no garbage collection of its own.  The code       *)
(* asserts that the pool is not empty (GCAllocationSucceeds).              *)
AllocateGCActive ==
  /\ pc = "migrate"
  /\ idx < PagesPerBlock
  /\ idx \in valid[victim]
  /\ ~IsOpen(gcActiveBlk)
  /\ freePool # <<>>
  /\ PopFreeBlock
  /\ gcActiveBlk' = freePool[Len(freePool)]
  /\ UNCHANGED <<mapVars, activeBlk, gcVars, callVars>>

(* RunGC's loop: a valid page is copied.  Its bit in the victim stays set  *)
(* and its old reverse entry stays too, until the victim is erased and the *)
(* page programmed again.                                                  *)
MigratePage ==
  /\ pc = "migrate"
  /\ idx < PagesPerBlock
  /\ idx \in valid[victim]
  /\ IsOpen(gcActiveBlk)
  /\ ProgramPage(gcActiveBlk, ppnToLpn[<<victim, idx>>])
  /\ idx' = idx + 1
  /\ UNCHANGED <<poolVars, victim, callVars>>

(* RunGC, last part: the victim is erased, leaves the heap and goes to the *)
(* back of the pool; AllocateNewActiveBlock looks at the pool again.       *)
EraseVictim ==
  /\ pc = "migrate"
  /\ AllCopied
  /\ valid' = [valid EXCEPT ![victim] = {}]
  /\ valid_cnt' = [valid_cnt EXCEPT ![victim] = 0]
  /\ write_ptr' = [write_ptr EXCEPT ![victim] = 0]
  /\ heap' = [heap EXCEPT ![victim] = NotTracked]
  /\ freePool' = Append(freePool, victim)
  /\ victim' = NotAllocated
  /\ idx' = 0
  /\ pc' = "alloc"
  /\ UNCHANGED <<mapVars, activeBlk, gcActiveBlk, curLpn, stream>>

(* Slip: the page is unmapped but its bit stays set.                       *)
SlipTrim(l) ==
  /\ pc = "idle"
  /\ lpnToPpn[l] # NotAllocated
  /\ lpnToPpn' = [lpnToPpn EXCEPT ![l] = NotAllocated]
  /\ UNCHANGED <<blockVars, ppnToLpn, poolVars, gcVars, callVars>>

(* Trim of one page: nothing happens to a page that is not mapped.         *)
Trim(l) ==
  /\ pc = "idle"
  /\ lpnToPpn[l] # NotAllocated
  /\ InvalidatePpn(lpnToPpn[l])
  /\ lpnToPpn' = [lpnToPpn EXCEPT ![l] = NotAllocated]
  /\ UNCHANGED <<poolVars, gcVars, callVars>>

(* The steps the drive takes by itself to finish a call.                   *)
Internal ==
  \/ FinishWrite \/ AllocateActive \/ ChooseVictim \/ RunGCFails
  \/ SkipPage \/ AllocateGCActive \/ MigratePage \/ EraseVictim

Next ==
  \/ \E l \in Lpns, s \in Streams : BeginWrite(l, s)
  \/ \E l \in Lpns : Trim(l)
  \/ Internal

Spec == Init /\ [][Next]_vars

(* A call that was made runs on: nothing interrupts the thread it is on.   *)
(* Whether the host makes another call is the host's choice.               *)
FairSpec == Spec /\ WF_vars(Internal)
-----------------------------------------------------------------------------
(* Properties.                                                             *)

(* The drive can return page l: the forward map, the bitmap and the        *)
(* reverse map agree on where it is.                                       *)
Readable(l) ==
  /\ lpnToPpn[l] # NotAllocated
  /\ lpnToPpn[l][2] \in valid[lpnToPpn[l][1]]
  /\ ppnToLpn[lpnToPpn[l]] = l

(* Copies RunGC has already moved: their bits are still set in the victim. *)
Moved(b, i) == pc = "migrate" /\ b = victim /\ i < idx

(* No write, trim, migration or erase loses a mapped page.  The page being *)
(* written is excused: Write leaves its old forward entry in place while   *)
(* garbage collection runs (ftl.cpp, Write lines 110-113).                 *)
MappedPagesReadable ==
  \A l \in Lpns : lpnToPpn[l] # NotAllocated /\ l # curLpn => Readable(l)

(* Every set bit stands for exactly one live logical page, so the counts   *)
(* garbage collection decides by are counts of live data, and RunGC's      *)
(* assert that a valid page has an owner (ftl.cpp:245) never fails.        *)
ValidPagesOwned ==
  \A b \in Blocks : \A i \in valid[b] :
    ~Moved(b, i) => /\ ppnToLpn[<<b, i>>] \in Lpns \ {curLpn}
                    /\ lpnToPpn[ppnToLpn[<<b, i>>]] = <<b, i>>

(* The greedy heap tracks exactly the full blocks, each under its current  *)
(* number of valid pages, so choose_segment picks a true minimum although  *)
(* counts change while blocks sit in the heap.                             *)
HeapExact ==
  \A b \in Blocks :
    /\ valid_cnt[b] = Cardinality(valid[b])
    /\ heap[b] = IF Full(b) THEN valid_cnt[b] ELSE NotTracked

(* A free block is in the pool once, is erased, and no call that is about  *)
(* to program a page programs it, although a freed block may still be      *)
(* listed as an active block (RunGC does not clear those tables).          *)
PoolSafe ==
  /\ \A i, j \in DOMAIN freePool : freePool[i] = freePool[j] => i = j
  /\ \A b \in Pool : valid[b] = {} /\ write_ptr[b] = 0
  /\ pc = "program" => activeBlk[stream] \notin Pool
  /\ pc = "migrate" => /\ victim \notin Pool
                       /\ IsOpen(gcActiveBlk) => gcActiveBlk \notin Pool

(* RunGC finds a destination whenever it needs one: AllocateNewActiveBlock *)
(* starts it early enough that assert(false) at ftl.cpp:198 is dead code.  *)
GCAllocationSucceeds ==
  pc = "migrate" /\ idx < PagesPerBlock /\ idx \in valid[victim]
    => IsOpen(gcActiveBlk) \/ freePool # <<>>

(* "Avoid spinning forever" (ftl.cpp:225): a write that has to collect     *)
(* garbage first is done some time.                                        *)
WriteCompletes == pc = "alloc" ~> pc = "idle"

(* The logical pages that hold data, seen from above.                      *)
StoredPages == {l \in Lpns : Readable(l)} \cup ({curLpn} \ {NotAllocated})

Busy == pc # "idle"

Disk == INSTANCE LogicalDisk WITH Pages <- Lpns, stored <- StoredPages, busy <- Busy

(* Seen from above, the drive is a logical disk: a write counts from the   *)
(* moment Write is called, and the garbage collection it triggers neither  *)
(* loses a page nor brings a trimmed one back.                             *)
ImplementsLogicalDisk == Disk!DiskSpec
=============================================================================
