------------------------------ MODULE LRUCache ------------------------------
(***************************************************************************)
(* The update-in-place cache (lru_cache.cpp, class LRUCache) on the drive  *)
(* it is kept on (cache_ftl, the PageMappingFTL of module FTL) and the     *)
(* allocator of addresses on that drive (allocator.cpp, DummyAllocator).   *)
(*                                                                         *)
(* A cached block owns an address; the logical pages of the drive, Lpns,   *)
(* are the addresses.  batch_insert handles its blocks one after the       *)
(* other; each is a turn: a hit moves the block to the young end of the    *)
(* list and writes it again, a miss first evicts while the cache is full.  *)
(* The write it ends with is a call to the drive, whose steps are those of *)
(* FTL, and nothing else happens until it returns.                         *)
(***************************************************************************)
EXTENDS FTL, SequencesExt

CONSTANTS
  Keys,       \* the blocks the host uses
  Capacity,   \* capacity_, the number of addresses
  NoKey

ASSUME CapacityAssumption ==
  /\ Capacity \in Nat /\ Capacity >= 1
  /\ Lpns = 0 .. Capacity - 1
  /\ Streams = {Stream0}
  /\ NoKey \notin Keys

VARIABLES
  cacheMap,   \* cacheMap: the address of each cached block, NotAllocated for the others
  cacheList,  \* cacheList: the cached blocks, the oldest first
  freeList,   \* DummyAllocator::freeList, a stack with its top last
  allocated,  \* DummyAllocator::allocated, the set of the addresses in use
  dirty,      \* history: the cached blocks written since they came in
  cold,       \* the blocks mapped on the cold drive
  missing     \* the block batch_insert is making room for

driveVars == vars
cacheVars == <<cacheMap, cacheList, freeList, allocated, dirty, cold, missing>>

Cached == {k \in Keys : cacheMap[k] # NotAllocated}

LRUInit ==
  /\ Init
  /\ cacheMap = [k \in Keys |-> NotAllocated]
  /\ cacheList = <<>>
  /\ freeList = [i \in 1 .. Capacity |-> Capacity - i]
  /\ allocated = {}
  /\ dirty = {} /\ cold = {}
  /\ missing = NoKey

-----------------------------------------------------------------------------
(* The helpers of the two classes.                                         *)

(* touch: the block leaves its place in the list, which its table entry    *)
(* knows, and becomes the youngest.                                        *)
Touch(k) ==
  \E i \in DOMAIN cacheList :
    /\ cacheList[i] = k
    /\ cacheList' = Append(RemoveAt(cacheList, i), k)

(* DummyAllocator::alloc, which asserts that an address is left.           *)
Alloc(a) ==
  /\ freeList # <<>>
  /\ a = freeList[Len(freeList)]
  /\ freeList' = SubSeq(freeList, 1, Len(freeList) - 1)
  /\ allocated' = allocated \cup {a}

(* DummyAllocator::free, which asserts that the address is in use.         *)
Free(a) ==
  /\ a \in allocated
  /\ freeList' = Append(freeList, a)
  /\ allocated' = allocated \ {a}

(* Slip: the drive is not told that the address is free.                   *)
SlipTrimAddress(a) == UNCHANGED driveVars

(* cache_ftl.Trim: does nothing to an address that was never written.      *)
TrimAddress(a) ==
  IF lpnToPpn[a] = NotAllocated THEN UNCHANGED driveVars ELSE Trim(a)

(* Slip: the block is dropped.                                             *)
SlipWriteBack(k) == UNCHANGED cold

(* _evict_one_block: the block is written to the cold drive, dirty or not. *)
WriteBack(k) == cold' = cold \cup {k}

(* Only a write reaches the drive.                                         *)
WriteAddress(a, write) == IF write THEN BeginWrite(a, Stream0) ELSE UNCHANGED driveVars

-----------------------------------------------------------------------------
(* batch_insert for a cached block.                                        *)
Hit(k, write) ==
  /\ pc = "idle" /\ missing = NoKey
  /\ k \in Cached
  /\ Touch(k)
  /\ WriteAddress(cacheMap[k], write)
  /\ dirty' = IF write THEN dirty \cup {k} ELSE dirty
  /\ UNCHANGED <<cacheMap, freeList, allocated, cold, missing>>

(* The loop of batch_insert for another block, while the cache is full:    *)
(* evict_one_block writes the oldest block to the cold drive.              *)
EvictFor(k) ==
  /\ pc = "idle" /\ missing \in {NoKey, k}
  /\ k \notin Cached
  /\ Cardinality(Cached) >= Capacity
  /\ LET old == Head(cacheList)
     IN /\ cacheList' = Tail(cacheList)
        /\ cacheMap' = [cacheMap EXCEPT ![old] = NotAllocated]
        /\ Free(cacheMap[old])
        /\ TrimAddress(cacheMap[old])
        /\ dirty' = dirty \ {old}
        /\ WriteBack(old)
  /\ missing' = k

(* The rest of batch_insert: the block comes in as the youngest.  Its copy *)
(* on the cold drive, if there is one, is not trimmed.                     *)
Insert(k, write) ==
  /\ pc = "idle" /\ missing \in {NoKey, k}
  /\ k \notin Cached
  /\ Cardinality(Cached) < Capacity
  /\ \E a \in Lpns :
       /\ Alloc(a)
       /\ cacheMap' = [cacheMap EXCEPT ![k] = a]
       /\ WriteAddress(a, write)
  /\ cacheList' = Append(cacheList, k)
  /\ dirty' = IF write THEN dirty \cup {k} ELSE dirty
  /\ missing' = NoKey
  /\ UNCHANGED cold

(* The drive goes on with the write it was given.                          *)
DriveStep == Internal /\ UNCHANGED cacheVars

LRUNext ==
  \/ \E k \in Keys, write \in BOOLEAN : Hit(k, write) \/ Insert(k, write)
  \/ \E k \in Keys : EvictFor(k)
  \/ DriveStep

LRUSpec == LRUInit /\ [][LRUNext]_<<driveVars, cacheVars>>

-----------------------------------------------------------------------------
(* Properties.                                                             *)

(* Every cached block owns one address and one place in the list, and the  *)
(* allocator knows the same addresses: its two asserts (allocator.cpp:32   *)
(* and 55) never fail, and no two blocks share an address.                 *)
AddressesPaired ==
  /\ \A j, k \in Cached : cacheMap[j] = cacheMap[k] => j = k
  /\ allocated = {cacheMap[k] : k \in Cached}
  /\ Range(freeList) = Lpns \ allocated
  /\ Len(freeList) = Cardinality(Lpns \ allocated)
  /\ Range(cacheList) = Cached
  /\ Len(cacheList) = Cardinality(Cached)

(* The drive holds exactly the blocks that were written into the cache, at *)
(* their addresses, through its own garbage collection: an address that is *)
(* used again brings back no older block, and an evicted block leaves      *)
(* nothing behind that the drive would go on copying.                      *)
DriveHoldsTheDirty == StoredPages = {cacheMap[k] : k \in dirty}

(* The cache's table, the allocator and the drive agree about every        *)
(* address.                                                                *)
AddressesExact == AddressesPaired /\ DriveHoldsTheDirty

Store == INSTANCE TieredStore WITH
  cached <- Cached,
  cold <- cold \ Cached,
  Group <- [k \in Keys |-> {k}]

(* The copies on the cold drive are not trimmed when a block comes back,   *)
(* but once those are discounted the two tiers keep the promise of a       *)
(* write-back cache: no block is forgotten.                                *)
LRUImplementsTieredStore == Store!TieredSpec
=============================================================================
