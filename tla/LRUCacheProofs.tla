--------------------------- MODULE LRUCacheProofs ---------------------------
(***************************************************************************)
(* The safety properties of LRUCache, for every capacity, every set of     *)
(* blocks and every geometry of the drive under it.  Each step of the      *)
(* cache is at most one step of the drive, so what FTLProofs proves of the *)
(* drive holds under the cache; on top of it the table, the list, the      *)
(* allocator and the drive agree about every address.                      *)
(***************************************************************************)
EXTENDS LRUCache, FTLProofs

-----------------------------------------------------------------------------
(* The inductive invariant.                                                *)

(* Nothing is twice in the list or on the stack, and only a cached block   *)
(* can have been written.                                                  *)
ListInv ==
  /\ cacheMap \in [Keys -> Lpns \cup {NotAllocated}]
  /\ cacheList \in Seq(Keys) /\ freeList \in Seq(Lpns)
  /\ \A i, j \in DOMAIN cacheList : cacheList[i] = cacheList[j] => i = j
  /\ \A i, j \in DOMAIN freeList : freeList[i] = freeList[j] => i = j
  /\ dirty \subseteq Cached

(* The addresses of the cached blocks are the ones in use.                 *)
PairInv ==
  /\ \A j, k \in Cached : cacheMap[j] = cacheMap[k] => j = k
  /\ allocated = {cacheMap[k] : k \in Cached}
  /\ Range(freeList) = Lpns \ allocated
  /\ Range(cacheList) = Cached

(* The drive has mapped, or is writing, what was written.                  *)
DirtyInv == MappedPages = {cacheMap[k] : k \in dirty}

LRUInv == IInv /\ ListInv /\ PairInv /\ DirtyInv

-----------------------------------------------------------------------------
(* The drive under the cache.                                              *)

(* The addresses are the pages of a drive with one stream.                 *)
LEMMA AddressFacts ==
  /\ SingleStream /\ Stream0 \in Streams
  /\ NotAllocated \notin Lpns
  /\ Capacity \in Nat /\ Capacity >= 1
  /\ IsFiniteSet(Lpns) /\ Cardinality(Lpns) = Capacity
<1>1. IsFiniteSet(Lpns) /\ Cardinality(Lpns) = Capacity
  BY FS_Interval, CapacityAssumption
<1> QED BY <1>1, CapacityAssumption, NamesAssumption DEF SingleStream

(* A cached block has an address, and one only.                            *)
LEMMA CachedHasAddress ==
  ASSUME ListInv
  PROVE  /\ Cached \subseteq Keys
         /\ \A k \in Cached : cacheMap[k] \in Lpns
         /\ \A k \in Keys \ Cached : cacheMap[k] = NotAllocated
BY DEF ListInv, Cached

(* Every step of the cache is a step of the drive, or none.                *)
LEMMA StepOfDrive ==
  ASSUME LRUInv, [LRUNext]_<<driveVars, cacheVars>>
  PROVE  [Next]_vars
<1>1. ASSUME NEW a \in Lpns, NEW write, WriteAddress(a, write)
      PROVE  [Next]_vars
  BY <1>1, AddressFacts DEF WriteAddress, driveVars, Next
<1>2. ASSUME NEW k \in Keys, NEW write \in BOOLEAN, Hit(k, write)
      PROVE  [Next]_vars
  BY <1>1, <1>2, CachedHasAddress DEF Hit, LRUInv
<1>3. ASSUME NEW k \in Keys, NEW write \in BOOLEAN, Insert(k, write)
      PROVE  [Next]_vars
  BY <1>1, <1>3 DEF Insert
<1>4. ASSUME NEW k \in Keys, EvictFor(k)
      PROVE  [Next]_vars
  <2>1. cacheMap[Head(cacheList)] \in Lpns
    BY <1>4, CachedHasAddress DEF EvictFor, Free, LRUInv, PairInv
  <2> QED BY <1>4, <2>1 DEF EvictFor, TrimAddress, driveVars, Next
<1> QED BY <1>2, <1>3, <1>4 DEF LRUNext, DriveStep, driveVars, Next

(* What a write, and a trim, of an address do to what the drive stores.    *)
LEMMA WriteAddressStores ==
  ASSUME IInv, NEW a \in Lpns, NEW write \in BOOLEAN, WriteAddress(a, write)
  PROVE  MappedPages' = IF write THEN MappedPages \cup {a} ELSE MappedPages
<1>1. CASE write
  BY <1>1, AddressFacts, BeginWriteStores DEF WriteAddress
<1>2. CASE ~write
  BY <1>2, AddressFacts, InternalKeepsStored DEF WriteAddress, driveVars
<1> QED BY <1>1, <1>2

LEMMA TrimAddressForgets ==
  ASSUME IInv, pc = "idle", NEW a \in Lpns, TrimAddress(a)
  PROVE  MappedPages' = MappedPages \ {a}
<1>1. CASE lpnToPpn[a] # NotAllocated
  BY <1>1, TrimForgets DEF TrimAddress
<1>2. CASE lpnToPpn[a] = NotAllocated
  <2>1. MappedPages' = MappedPages
    BY <1>2, AddressFacts, InternalKeepsStored DEF TrimAddress, driveVars
  <2>2. curLpn = NotAllocated
    BY DEF IInv, CallInv
  <2>3. a \notin MappedPages
    BY <1>2, <2>2, AddressFacts DEF MappedPages
  <2> QED BY <2>1, <2>3
<1> QED BY <1>1, <1>2

-----------------------------------------------------------------------------
(* Every action keeps the invariant.                                       *)

LEMMA InitHasLRUInv == LRUInit => LRUInv
<1> SUFFICES ASSUME LRUInit PROVE LRUInv
  OBVIOUS
<1>1. IInv
  BY AddressFacts, InitIInv DEF LRUInit
<1>2. Cached = {}
  BY DEF LRUInit, Cached
<1>3. /\ freeList \in Seq(Lpns)
      /\ \A i, j \in DOMAIN freeList : freeList[i] = freeList[j] => i = j
      /\ Range(freeList) = Lpns
  <2>1. freeList = [i \in 1 .. Capacity |-> Capacity - i]
    BY DEF LRUInit
  <2>2. \A i \in 1 .. Capacity : Capacity - i \in Lpns
    BY CapacityAssumption
  <2>3. freeList \in Seq(Lpns)
    BY <2>1, <2>2, CapacityAssumption, IsASeq
  <2>4. \A i, j \in 1 .. Capacity : Capacity - i = Capacity - j => i = j
    BY CapacityAssumption
  <2>5. \A a \in Lpns : Capacity - a \in 1 .. Capacity /\ Capacity - (Capacity - a) = a
    BY CapacityAssumption
  <2>6. DOMAIN freeList = 1 .. Capacity /\ \A i \in 1 .. Capacity : freeList[i] = Capacity - i
    BY <2>1
  <2>7. \A i, j \in DOMAIN freeList : freeList[i] = freeList[j] => i = j
    BY <2>4, <2>6
  <2>8. Range(freeList) \subseteq Lpns
    BY <2>2, <2>6 DEF Range
  <2>9. Lpns \subseteq Range(freeList)
    BY <2>5, <2>6 DEF Range
  <2> QED BY <2>3, <2>7, <2>8, <2>9
<1>4. ListInv
  BY <1>3 DEF LRUInit, ListInv
<1>5. PairInv
  <2>1. Range(cacheList) = {}
    BY DEF LRUInit, Range
  <2> QED BY <1>2, <1>3, <2>1 DEF LRUInit, PairInv
<1>6. DirtyInv
  BY AddressFacts DEF LRUInit, Init, DirtyInv, MappedPages
<1> QED BY <1>1, <1>4, <1>5, <1>6 DEF LRUInv

LEMMA HitKeepsLRUInv ==
  ASSUME LRUInv, IInv', NEW k \in Keys, NEW write \in BOOLEAN, Hit(k, write)
  PROVE  LRUInv' /\ UNCHANGED <<Cached, cold>>
<1>1. /\ k \in Cached /\ Touch(k) /\ WriteAddress(cacheMap[k], write)
      /\ dirty' = IF write THEN dirty \cup {k} ELSE dirty
      /\ UNCHANGED <<cacheMap, freeList, allocated, cold>>
  BY DEF Hit
<1>2. Cached' = Cached /\ cacheMap[k] \in Lpns
  BY <1>1, CachedHasAddress DEF Cached, LRUInv
<1>3. /\ cacheList' \in Seq(Keys)
      /\ \A i, j \in DOMAIN cacheList' : cacheList'[i] = cacheList'[j] => i = j
      /\ Range(cacheList') = Cached
  <2>1. PICK i \in DOMAIN cacheList :
          cacheList[i] = k /\ cacheList' = Append(RemoveAt(cacheList, i), k)
    BY <1>1 DEF Touch
  <2> DEFINE r == RemoveAt(cacheList, i)
  <2>2. /\ cacheList \in Seq(Keys)
        /\ \A a, b \in DOMAIN cacheList : cacheList[a] = cacheList[b] => a = b
        /\ Range(cacheList) = Cached
    BY DEF LRUInv, ListInv, PairInv
  <2>3. /\ r \in Seq(Keys)
        /\ \A a, b \in DOMAIN r : r[a] = r[b] => a = b
        /\ Range(r) = Cached \ {k}
    BY <2>1, <2>2, TakeOut DEF RemoveAt
  <2> HIDE DEF r
  <2>4. /\ Append(r, k) \in Seq(Keys)
        /\ \A a, b \in DOMAIN Append(r, k) : Append(r, k)[a] = Append(r, k)[b] => a = b
        /\ Range(Append(r, k)) = (Cached \ {k}) \cup {k}
    BY <2>3, PushBack
  <2> QED BY <1>1, <2>1, <2>4 DEF r
<1>4. ListInv'
  BY <1>1, <1>2, <1>3 DEF LRUInv, ListInv
<1>5. PairInv'
  BY <1>1, <1>2, <1>3 DEF LRUInv, PairInv
<1>6. DirtyInv'
  <2>1. MappedPages' = IF write THEN MappedPages \cup {cacheMap[k]} ELSE MappedPages
    BY <1>1, <1>2, WriteAddressStores DEF LRUInv
  <2> QED BY <1>1, <2>1 DEF LRUInv, DirtyInv
<1> QED BY <1>1, <1>2, <1>4, <1>5, <1>6 DEF LRUInv

LEMMA EvictForKeepsLRUInv ==
  ASSUME LRUInv, IInv', NEW k \in Keys, EvictFor(k)
  PROVE  LRUInv' /\ \E old \in Cached : Cached' = Cached \ {old} /\ cold' = cold \cup {old}
<1> DEFINE old == Head(cacheList)
           a == cacheMap[old]
<1>1. /\ Cardinality(Cached) >= Capacity
      /\ cacheList' = Tail(cacheList)
      /\ cacheMap' = [cacheMap EXCEPT ![old] = NotAllocated]
      /\ freeList' = Append(freeList, a)
      /\ allocated' = allocated \ {a}
      /\ TrimAddress(a) /\ pc = "idle"
      /\ dirty' = dirty \ {old} /\ cold' = cold \cup {old}
  BY DEF EvictFor, Free, WriteBack
<1>2. /\ cacheList \in Seq(Keys) /\ Range(cacheList) = Cached
      /\ \A i, j \in DOMAIN cacheList : cacheList[i] = cacheList[j] => i = j
  BY DEF LRUInv, ListInv, PairInv
<1>3. cacheList # <<>>
  <2>1. Range(<<>>) = {}
    BY DEF Range
  <2>2. cacheList = <<>> => Cached = {}
    BY <1>2, <2>1
  <2>3. Cached = {} => Cardinality(Cached) = 0
    BY FS_EmptySet
  <2>4. Cardinality(Cached) # 0
    BY <1>1, CapacityAssumption
  <2> QED BY <2>2, <2>3, <2>4
<1>4. /\ cacheList' \in Seq(Keys)
      /\ old \in Cached
      /\ \A i, j \in DOMAIN cacheList' : cacheList'[i] = cacheList'[j] => i = j
      /\ Range(cacheList') = Cached \ {old}
  BY <1>1, <1>2, <1>3, PopFront
<1>5. old \in Keys /\ a \in Lpns /\ a # NotAllocated
  BY <1>4, CachedHasAddress, AddressFacts DEF LRUInv
<1> HIDE DEF old, a
<1>6. /\ cacheMap' \in [Keys -> Lpns \cup {NotAllocated}]
      /\ Cached' = Cached \ {old}
      /\ \A j \in Cached' : cacheMap'[j] = cacheMap[j]
  BY <1>1, <1>5 DEF LRUInv, ListInv, Cached
<1>7. \A j \in Cached : cacheMap[j] = a => j = old
  BY <1>4 DEF LRUInv, PairInv, a
<1>8. a \in allocated
  BY <1>4 DEF LRUInv, PairInv, a
<1>9. /\ freeList' \in Seq(Lpns)
      /\ \A i, j \in DOMAIN freeList' : freeList'[i] = freeList'[j] => i = j
      /\ Range(freeList') = Range(freeList) \cup {a}
  <2>1. a \notin Range(freeList)
    BY <1>8 DEF LRUInv, PairInv
  <2>2. /\ freeList \in Seq(Lpns)
        /\ \A i, j \in DOMAIN freeList : freeList[i] = freeList[j] => i = j
    BY DEF LRUInv, ListInv
  <2>3. LET r == Append(freeList, a)
        IN /\ r \in Seq(Lpns)
           /\ \A i, j \in DOMAIN r : r[i] = r[j] => i = j
           /\ Range(r) = Range(freeList) \cup {a}
    BY <2>1, <2>2, <1>5, PushBack
  <2> QED BY <2>3, <1>1
<1>10. ListInv'
  BY <1>1, <1>4, <1>6, <1>9 DEF LRUInv, ListInv
<1>11. PairInv'
  <2>1. allocated' = {cacheMap'[j] : j \in Cached'}
    <3>1. allocated' = {cacheMap[j] : j \in Cached \ {old}}
      BY <1>1, <1>7, <1>4 DEF LRUInv, PairInv, a
    <3> QED BY <3>1, <1>6
  <2>2. Range(freeList') = Lpns \ allocated'
    BY <1>1, <1>5, <1>9 DEF LRUInv, PairInv
  <2>3. \A i, j \in Cached' : cacheMap'[i] = cacheMap'[j] => i = j
    BY <1>6 DEF LRUInv, PairInv
  <2> QED BY <2>1, <2>2, <2>3, <1>4, <1>6 DEF PairInv
<1>12. DirtyInv'
  <2>1. MappedPages' = MappedPages \ {a}
    BY <1>1, <1>5, TrimAddressForgets DEF LRUInv
  <2>2. dirty \subseteq Cached /\ MappedPages = {cacheMap[j] : j \in dirty}
    BY DEF LRUInv, ListInv, DirtyInv
  <2>3. {cacheMap[j] : j \in dirty} \ {a} = {cacheMap[j] : j \in dirty \ {old}}
    BY <2>2, <1>7 DEF a
  <2>4. \A j \in dirty \ {old} : cacheMap'[j] = cacheMap[j]
    BY <2>2, <1>6
  <2> QED BY <2>1, <2>2, <2>3, <2>4, <1>1 DEF DirtyInv
<1> QED BY <1>1, <1>4, <1>6, <1>10, <1>11, <1>12 DEF LRUInv

LEMMA InsertKeepsLRUInv ==
  ASSUME LRUInv, IInv', NEW k \in Keys, NEW write \in BOOLEAN, Insert(k, write)
  PROVE  LRUInv' /\ Cached' = Cached \cup {k} /\ cold' = cold /\ k \notin Cached
<1>1. PICK a \in Lpns :
        /\ freeList # <<>> /\ a = freeList[Len(freeList)]
        /\ freeList' = SubSeq(freeList, 1, Len(freeList) - 1)
        /\ allocated' = allocated \cup {a}
        /\ cacheMap' = [cacheMap EXCEPT ![k] = a]
        /\ WriteAddress(a, write)
  BY DEF Insert, Alloc
<1>2. /\ k \notin Cached
      /\ cacheList' = Append(cacheList, k)
      /\ dirty' = IF write THEN dirty \cup {k} ELSE dirty
      /\ cold' = cold
  BY DEF Insert
<1>3. a # NotAllocated
  BY AddressFacts
<1>4. /\ cacheMap' \in [Keys -> Lpns \cup {NotAllocated}]
      /\ Cached' = Cached \cup {k}
      /\ cacheMap'[k] = a
      /\ \A j \in Cached : j # k /\ cacheMap'[j] = cacheMap[j]
  BY <1>1, <1>2, <1>3 DEF LRUInv, ListInv, Cached
<1>5. /\ freeList' \in Seq(Lpns)
      /\ \A i, j \in DOMAIN freeList' : freeList'[i] = freeList'[j] => i = j
      /\ Range(freeList') = Range(freeList) \ {a}
      /\ a \in Range(freeList)
  <2>1. /\ freeList \in Seq(Lpns)
        /\ \A i, j \in DOMAIN freeList : freeList[i] = freeList[j] => i = j
    BY DEF LRUInv, ListInv
  <2>2. LET r == SubSeq(freeList, 1, Len(freeList) - 1)
        IN /\ r \in Seq(Lpns)
           /\ \A i, j \in DOMAIN r : r[i] = r[j] => i = j
           /\ Range(r) = Range(freeList) \ {freeList[Len(freeList)]}
    BY <2>1, <1>1, PopStack
  <2>3. Len(freeList) \in DOMAIN freeList
    <3>1. Len(freeList) \in Nat /\ Len(freeList) # 0 /\ DOMAIN freeList = 1 .. Len(freeList)
      BY <2>1, <1>1, EmptySeq, LenProperties
    <3> QED BY <3>1
  <2>4. a \in Range(freeList)
    BY <2>3, <1>1 DEF Range
  <2> QED BY <2>2, <2>4, <1>1
<1>6. a \notin allocated
  BY <1>5 DEF LRUInv, PairInv
<1>7. \A j \in Cached : cacheMap[j] # a
  BY <1>6 DEF LRUInv, PairInv
<1>8. /\ cacheList' \in Seq(Keys)
      /\ \A i, j \in DOMAIN cacheList' : cacheList'[i] = cacheList'[j] => i = j
      /\ Range(cacheList') = Cached \cup {k}
  <2>1. /\ cacheList \in Seq(Keys) /\ Range(cacheList) = Cached
        /\ \A i, j \in DOMAIN cacheList : cacheList[i] = cacheList[j] => i = j
    BY DEF LRUInv, ListInv, PairInv
  <2>2. LET r == Append(cacheList, k)
        IN /\ r \in Seq(Keys)
           /\ \A i, j \in DOMAIN r : r[i] = r[j] => i = j
           /\ Range(r) = Range(cacheList) \cup {k}
    BY <2>1, <1>2, PushBack
  <2> QED BY <2>1, <2>2, <1>2
<1>9. ListInv'
  BY <1>2, <1>4, <1>5, <1>8 DEF LRUInv, ListInv
<1>10. PairInv'
  <2>1. allocated' = {cacheMap'[j] : j \in Cached'}
    BY <1>1, <1>4 DEF LRUInv, PairInv
  <2>2. Range(freeList') = Lpns \ allocated'
    BY <1>1, <1>5 DEF LRUInv, PairInv
  <2>3. \A i, j \in Cached' : cacheMap'[i] = cacheMap'[j] => i = j
    BY <1>4, <1>7 DEF LRUInv, PairInv
  <2> QED BY <2>1, <2>2, <2>3, <1>4, <1>8 DEF PairInv
<1>11. DirtyInv'
  <2>1. MappedPages' = IF write THEN MappedPages \cup {a} ELSE MappedPages
    BY <1>1, WriteAddressStores DEF LRUInv
  <2>2. \A j \in dirty : cacheMap'[j] = cacheMap[j]
    BY <1>4 DEF LRUInv, ListInv
  <2>3. MappedPages = {cacheMap'[j] : j \in dirty}
    BY <2>2 DEF LRUInv, DirtyInv
  <2> QED BY <2>1, <2>3, <1>2, <1>4 DEF DirtyInv
<1> QED BY <1>2, <1>4, <1>9, <1>10, <1>11 DEF LRUInv

LEMMA DriveStepKeepsLRUInv ==
  ASSUME LRUInv, IInv', DriveStep \/ UNCHANGED <<driveVars, cacheVars>>
  PROVE  LRUInv' /\ UNCHANGED <<Cached, cold>>
<1>1. UNCHANGED cacheVars /\ (Internal \/ UNCHANGED vars)
  BY DEF DriveStep, driveVars
<1>2. MappedPages' = MappedPages
  BY <1>1, AddressFacts, InternalKeepsStored DEF LRUInv
<1>3. Cached' = Cached /\ cold' = cold
  BY <1>1 DEF Cached, cacheVars
<1> QED BY <1>1, <1>2, <1>3 DEF LRUInv, ListInv, PairInv, DirtyInv, cacheVars

LEMMA NextKeepsLRUInv ==
  ASSUME LRUInv, [LRUNext]_<<driveVars, cacheVars>>
  PROVE  LRUInv'
<1>1. IInv'
  BY StepOfDrive, AddressFacts, NextKeepsIInv DEF LRUInv
<1>2. ASSUME NEW k \in Keys, NEW write \in BOOLEAN, Hit(k, write)
      PROVE  LRUInv'
  BY <1>1, <1>2, HitKeepsLRUInv
<1>3. ASSUME NEW k \in Keys, NEW write \in BOOLEAN, Insert(k, write)
      PROVE  LRUInv'
  BY <1>1, <1>3, InsertKeepsLRUInv
<1>4. ASSUME NEW k \in Keys, EvictFor(k)
      PROVE  LRUInv'
  BY <1>1, <1>4, EvictForKeepsLRUInv
<1>5. CASE DriveStep \/ UNCHANGED <<driveVars, cacheVars>>
  BY <1>1, <1>5, DriveStepKeepsLRUInv
<1> QED BY <1>2, <1>3, <1>4, <1>5 DEF LRUNext

(* The inductive invariant holds in every reachable state.                 *)
THEOREM LRUInvariance == LRUSpec => []LRUInv
<1>1. LRUInit => LRUInv
  BY InitHasLRUInv
<1>2. LRUInv /\ [LRUNext]_<<driveVars, cacheVars>> => LRUInv'
  BY NextKeepsLRUInv
<1> QED BY <1>1, <1>2, PTL DEF LRUSpec

-----------------------------------------------------------------------------
(* What it means.                                                          *)

(* The table, the list, the allocator and the drive agree about every      *)
(* address: no block loses its address to another, no address leaks, and   *)
(* the drive stores the written blocks and nothing else.                   *)
THEOREM AddressesStayExact == LRUSpec => []AddressesExact
<1>1. LRUInv => AddressesExact
  <2> SUFFICES ASSUME LRUInv PROVE AddressesExact
    OBVIOUS
  <2>1. Len(freeList) = Cardinality(Lpns \ allocated)
    <3>1. /\ freeList \in Seq(Lpns) /\ Range(freeList) = Lpns \ allocated
          /\ \A i, j \in DOMAIN freeList : freeList[i] = freeList[j] => i = j
      BY DEF LRUInv, ListInv, PairInv
    <3> QED BY <3>1, DistinctCount
  <2>2. Len(cacheList) = Cardinality(Cached)
    <3>1. /\ cacheList \in Seq(Keys) /\ Range(cacheList) = Cached
          /\ \A i, j \in DOMAIN cacheList : cacheList[i] = cacheList[j] => i = j
      BY DEF LRUInv, ListInv, PairInv
    <3> QED BY <3>1, DistinctCount
  <2>3. StoredPages = {cacheMap[k] : k \in dirty}
    BY StoredIsMapped DEF LRUInv, DirtyInv, MapsTellStored
  <2> QED BY <2>1, <2>2, <2>3
          DEF LRUInv, PairInv, AddressesExact, AddressesPaired, DriveHoldsTheDirty
<1> QED BY <1>1, LRUInvariance, PTL

(* While the cache is not full the allocator has an address, and what it   *)
(* is given back is an address in use.                                     *)
AllocatorAssertsHold ==
  /\ Cardinality(Cached) < Capacity => freeList # <<>>
  /\ \A k \in Cached : cacheMap[k] \in allocated

(* The asserts of DummyAllocator (allocator.cpp:32 and 55) never fail.     *)
THEOREM AllocatorNeverFails == LRUSpec => []AllocatorAssertsHold
<1>1. LRUInv => AllocatorAssertsHold
  <2> SUFFICES ASSUME LRUInv PROVE AllocatorAssertsHold
    OBVIOUS
  <2>1. \A k \in Cached : cacheMap[k] \in allocated
    BY DEF LRUInv, PairInv
  <2>2. IsFiniteSet(Cached)
    <3>1. /\ cacheList \in Seq(Keys) /\ Range(cacheList) = Cached
          /\ \A i, j \in DOMAIN cacheList : cacheList[i] = cacheList[j] => i = j
      BY DEF LRUInv, ListInv, PairInv
    <3> QED BY <3>1, DistinctCount
  <2>3. ASSUME freeList = <<>>
        PROVE  Cardinality(Cached) >= Capacity
    <3>1. Lpns \subseteq {cacheMap[k] : k \in Cached}
      <4>1. Range(freeList) = {}
        BY <2>3 DEF Range
      <4> QED BY <4>1 DEF LRUInv, PairInv
    <3> DEFINE m == [k \in Cached |-> cacheMap[k]]
               T == {m[k] : k \in Cached}
    <3>2. DOMAIN m = Cached /\ Lpns \subseteq T
      BY <3>1
    <3> HIDE DEF m
    <3>3. IsFiniteSet(T) /\ Cardinality(T) <= Cardinality(Cached)
      BY <2>2, <3>2, ImageCount
    <3> HIDE DEF T
    <3>4. Cardinality(Lpns) <= Cardinality(T)
      BY <3>2, <3>3, FS_Subset
    <3>5. Cardinality(T) \in Nat /\ Cardinality(Cached) \in Nat
      BY <2>2, <3>3, FS_CardinalityType
    <3>6. Cardinality(Lpns) = Capacity /\ Capacity \in Nat
      BY AddressFacts
    <3> QED BY <3>3, <3>4, <3>5, <3>6
  <2>4. Cardinality(Cached) \in Nat /\ Capacity \in Nat
    BY <2>2, FS_CardinalityType, CapacityAssumption
  <2> QED BY <2>1, <2>3, <2>4 DEF AllocatorAssertsHold
<1> QED BY <1>1, LRUInvariance, PTL

(* The cache uses its drive as the drive's own specification allows, so    *)
(* that whatever is proved of the drive holds under the cache.             *)
THEOREM CacheUsesDriveAsDrive == LRUSpec => Spec
<1>1. LRUInit => Init
  BY DEF LRUInit
<1>2. LRUInv /\ [LRUNext]_<<driveVars, cacheVars>> => [Next]_vars
  BY StepOfDrive
<1> QED BY <1>1, <1>2, LRUInvariance, PTL DEF LRUSpec, Spec

(* Every step is a write or a write-back of the store, or nothing to it.   *)
LEMMA LRUStepRefines ==
  ASSUME LRUInv, [LRUNext]_<<driveVars, cacheVars>>
  PROVE  [Store!TieredNext]_<<Cached, cold \ Cached>>
<1>1. IInv'
  BY StepOfDrive, AddressFacts, NextKeepsIInv DEF LRUInv
<1>2. ASSUME NEW k \in Keys, NEW write \in BOOLEAN, Hit(k, write)
      PROVE  UNCHANGED <<Cached, cold>>
  BY <1>1, <1>2, HitKeepsLRUInv
<1>3. ASSUME NEW k \in Keys, NEW write \in BOOLEAN, Insert(k, write)
      PROVE  Store!TieredNext
  <2>1. Cached' = Cached \cup {k} /\ cold' = cold
    BY <1>1, <1>3, InsertKeepsLRUInv
  <2>2. (cold \ Cached)' = (cold \ Cached) \ {k}
    BY <2>1
  <2> QED BY <2>1, <2>2 DEF Store!TieredNext, Store!WriteKey
<1>4. ASSUME NEW k \in Keys, EvictFor(k)
      PROVE  Store!TieredNext
  <2>1. PICK old \in Cached : Cached' = Cached \ {old} /\ cold' = cold \cup {old}
    BY <1>1, <1>4, EvictForKeepsLRUInv
  <2>2. (cold \ Cached)' = (cold \ Cached) \cup {old} /\ old \in Keys
    BY <2>1 DEF Cached
  <2> QED BY <2>1, <2>2 DEF Store!TieredNext, Store!WriteBack
<1>5. CASE DriveStep \/ UNCHANGED <<driveVars, cacheVars>>
  BY <1>1, <1>5, DriveStepKeepsLRUInv
<1> QED BY <1>2, <1>3, <1>4, <1>5 DEF LRUNext

(* The cache implements the store: an update in place, an eviction and the *)
(* drive's own garbage collection lose no block.                           *)
THEOREM LRUImplementsStore == LRUSpec => LRUImplementsTieredStore
<1>1. LRUInit => Store!TieredInit
  BY DEF LRUInit, Store!TieredInit, Cached
<1>2. LRUInv /\ [LRUNext]_<<driveVars, cacheVars>>
        => [Store!TieredNext]_<<Cached, cold \ Cached>>
  BY LRUStepRefines
<1> QED BY <1>1, <1>2, LRUInvariance, PTL
        DEF LRUSpec, Store!TieredSpec, LRUImplementsTieredStore

=============================================================================
