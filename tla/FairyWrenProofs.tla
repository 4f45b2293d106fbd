-------------------------- MODULE FairyWrenProofs --------------------------
(***************************************************************************)
(* The safety properties of FairyWren, for every number of segments, every *)
(* segment size and every set of blocks.  A procedure may force a reclaim  *)
(* in the middle of a copy, so the invariant, Sound, is stated for a cache *)
(* of which some segments are in flight: out of the lists, victims of the  *)
(* copies under way.  Each procedure is shown to keep it, and to leave the *)
(* segments in flight alone; then each action is a composition of them.    *)
(***************************************************************************)
EXTENDS FairyWren, Containers, SequenceTheorems, TLAPS

-----------------------------------------------------------------------------
(* The state of the cache, its invariant, and what a call keeps.           *)
CacheFields == {"slot", "fill", "valid", "where", "free", "fifo", "active", "region", "count",
                "drive", "ok"}

CacheTypes(d) ==
  /\ DOMAIN d = CacheFields
  /\ d.slot \in [Segments -> [Slots -> Blocks \cup {Nil}]]
  /\ d.fill \in [Segments -> 0 .. SegBlocks]
  /\ d.valid \in [Segments -> Nat]
  /\ d.where \in [Blocks -> (Segments \X Slots) \cup {Nil}]
  /\ d.free \in [Regions -> Seq(Segments)]
  /\ d.fifo \in [Regions -> Seq(Segments)]
  /\ d.active \in [Regions -> Segments \cup {Nil}]
  /\ d.region \in [Segments -> Regions]
  /\ d.count \in [Regions -> Int]
  /\ d.drive \subseteq Blocks
  /\ d.ok \in BOOLEAN

(* No segment twice in a list.                                             *)
Once(q) == \A i, j \in DOMAIN q : q[i] = q[j] => i = j

(* A segment is in one place of its own region, or in flight: F.           *)
Home(d, F, s, r) ==
  /\ s \in Range(d.free[r]) =>
       d.region[s] = r /\ s \notin F /\ s \notin Range(d.fifo[r]) /\ s # d.active[r]
  /\ s \in Range(d.fifo[r]) => d.region[s] = r /\ s \notin F /\ s # d.active[r]
  /\ s = d.active[r] => d.region[s] = r /\ s \notin F
  /\ d.region[s] = r =>
       s \in F \/ s \in Range(d.free[r]) \/ s \in Range(d.fifo[r]) \/ s = d.active[r]

Homes(d, F) ==
  /\ F \subseteq Segments
  /\ \A r \in Regions : Once(d.free[r]) /\ Once(d.fifo[r])
  /\ \A s \in Segments, r \in Regions : Home(d, F, s, r)

(* The slots of a segment, and the pages of a region, that hold a block.   *)
Filled(d, s) == {i \in Slots : d.slot[s][i] # Nil}
Pages(d, r) == {p \in Segments \X Slots : d.region[p[1]] = r /\ d.slot[p[1]][p[2]] # Nil}

(* What is above the fill of a segment is empty, and so is a free segment. *)
Room(d) ==
  /\ \A s \in Segments, i \in Slots : i > d.fill[s] => d.slot[s][i] = Nil
  /\ \A r \in Regions : \A s \in Range(d.free[r]) : \A i \in Slots : d.slot[s][i] = Nil

(* The mapping and the slots agree, and a cached block is not below.       *)
Indexed(d) ==
  /\ \A b \in Blocks : d.where[b] # Nil =>
       b \notin d.drive /\ d.slot[d.where[b][1]][d.where[b][2]] = b
  /\ \A s \in Segments, i \in Slots : d.slot[s][i] # Nil => d.where[d.slot[s][i]] = <<s, i>>

(* The counts of valid blocks are those of the slots.                      *)
Counted(d) ==
  /\ \A s \in Segments : d.valid[s] = Cardinality(Filled(d, s))
  /\ \A r \in Regions : d.count[r] = Cardinality(Pages(d, r))

(* Every region has the segments it was given.                             *)
Labelled(d) == \A r \in Regions : Cardinality({s \in Segments : d.region[s] = r}) = Share[r]

(* The inductive invariant, at every moment of a call that has taken the   *)
(* segments F out of their lists.                                          *)
Sound(d, F) ==
  CacheTypes(d) /\ Homes(d, F) /\ Room(d) /\ Indexed(d) /\ Counted(d) /\ Labelled(d)

(* Only lists, active segments and the answer differ.                      *)
Still(e, d) ==
  /\ e.slot = d.slot /\ e.fill = d.fill /\ e.valid = d.valid /\ e.where = d.where
  /\ e.region = d.region /\ e.count = d.count /\ e.drive = d.drive

(* The blocks the cache or the cold drive holds.                           *)
Stored(d) == {b \in Blocks : d.where[b] # Nil} \cup d.drive

(* The segments in flight are as they were, and no block was lost.         *)
Keeps(e, d, F) ==
  /\ \A s \in F : e.slot[s] = d.slot[s] /\ e.region[s] = d.region[s]
  /\ Stored(d) \subseteq Stored(e)

(* No region of R has become active: what a reclaim for one region may     *)
(* never do behind the back of the copy that asked for it.                 *)
Steady(e, d, R) == \A q \in R : d.active[q] = Nil => e.active[q] = Nil

(* Nothing is in the segment.                                              *)
Blank(d, s) == \A i \in Slots : d.slot[s][i] = Nil

(* A list of a region is replaced.                                         *)
Put(L, r, x) == [L EXCEPT ![r] = x]

-----------------------------------------------------------------------------
(* The lists of the regions.                                               *)

(* What the assumption on the constants gives.                             *)
LEMMA CacheFacts ==
  /\ SegBlocks \in Nat /\ SegBlocks # 0 /\ TotalSegments \in Nat /\ TotalSegments >= 3
  /\ Nil \notin Blocks /\ Nil \notin Segments /\ Nil \notin Segments \X Slots
  /\ IsFiniteSet(Segments) /\ IsFiniteSet(Slots) /\ IsFiniteSet(Segments \X Slots)
<1>1. IsFiniteSet(Segments) /\ IsFiniteSet(Slots)
  BY FairyWrenAssumption, FS_Interval DEF Segments, Slots
<1>2. IsFiniteSet(Segments \X Slots)
  BY <1>1, FS_Product
<1> QED BY <1>1, <1>2, FairyWrenAssumption DEF Segments, Slots

(* A state with the same slots, counts and mapping is sound when its lists *)
(* are.                                                                    *)
LEMMA SameContents ==
  ASSUME NEW d, NEW F, Sound(d, F), NEW e, NEW G, CacheTypes(e), Homes(e, G), Still(e, d),
         \A r \in Regions : \A s \in Range(e.free[r]) : Blank(d, s)
  PROVE  Sound(e, G) /\ Stored(e) = Stored(d)
<1>1. Room(e)
  BY DEF Sound, Room, Still, Blank
<1>2. Indexed(e)
  BY DEF Sound, Indexed, Still
<1>3. Counted(e)
  <2>1. /\ \A s : Filled(e, s) = Filled(d, s)
        /\ \A r : Pages(e, r) = Pages(d, r)
    BY DEF Filled, Pages, Still
  <2> QED BY <2>1 DEF Sound, Counted, Still
<1>4. Labelled(e) /\ Stored(e) = Stored(d)
  BY DEF Sound, Labelled, Still, Stored
<1> QED BY <1>1, <1>2, <1>3, <1>4 DEF Sound

(* One list of a region changes.                                           *)
LEMMA UpdateLists ==
  ASSUME NEW L \in [Regions -> Seq(Segments)], \A q \in Regions : Once(L[q]), NEW r \in Regions,
         NEW x \in Seq(Segments), Once(x), NEW M, M = [L EXCEPT ![r] = x]
  PROVE  /\ M \in [Regions -> Seq(Segments)] /\ \A q \in Regions : Once(M[q])
         /\ Range(M[r]) = Range(x) /\ \A q \in Regions : q # r => Range(M[q]) = Range(L[q])
<1>1. M[r] = x /\ \A q \in Regions : q # r => M[q] = L[q]
  OBVIOUS
<1>2. M \in [Regions -> Seq(Segments)]
  OBVIOUS
<1>3. \A q \in Regions : Once(M[q])
  BY <1>1
<1> HIDE DEF Regions
<1> QED BY <1>1, <1>2, <1>3

(* A free segment holds nothing.                                           *)
LEMMA FreeIsBlank ==
  ASSUME NEW d, NEW F, Sound(d, F), NEW r \in Regions, NEW s \in Range(d.free[r])
  PROVE  Blank(d, s) /\ s \in Segments /\ s \notin F /\ d.region[s] = r
<1>1. d.free[r] \in Seq(Segments)
  BY DEF Sound, CacheTypes
<1>2. s \in Segments
  BY <1>1, RangeOfSeq, Zenon
<1>3. Blank(d, s)
  BY DEF Sound, Room, Blank
<1> QED BY <1>2, <1>3 DEF Sound, Homes, Home

(* An answer changes nothing else.                                         *)
LEMMA AnswerIsSound ==
  ASSUME NEW d, NEW F, Sound(d, F), NEW x \in BOOLEAN
  PROVE  LET e == Answer(d, x)
         IN Sound(e, F) /\ Still(e, d) /\ Stored(e) = Stored(d) /\ e.active = d.active
            /\ e.free = d.free /\ e.fifo = d.fifo /\ e.ok = x
<1> DEFINE e == Answer(d, x)
<1>1. /\ DOMAIN e = CacheFields /\ Still(e, d) /\ e.active = d.active
      /\ e.free = d.free /\ e.fifo = d.fifo /\ e.ok = x
  BY DEF Answer, Sound, CacheTypes, CacheFields, Still
<1> HIDE DEF e
<1>2. CacheTypes(e)
  BY <1>1 DEF Sound, CacheTypes, Still
<1>3. Homes(e, F)
  BY <1>1 DEF Sound, Homes, Home, Still
<1>4. \A r \in Regions : \A s \in Range(e.free[r]) : Blank(d, s)
  BY <1>1, FreeIsBlank
<1>5. Sound(e, F) /\ Stored(e) = Stored(d)
  BY <1>1, <1>2, <1>3, <1>4, SameContents
<1> QED BY <1>1, <1>5 DEF e

(* A segment is taken out of, or put into, one of the places of its        *)
(* region.                                                                 *)
LEMMA TakeFree ==
  ASSUME NEW d, NEW F, Sound(d, F), NEW r \in Regions, d.free[r] # <<>>,
         NEW e, DOMAIN e = CacheFields, Still(e, d), e.ok \in BOOLEAN,
         e.active = d.active, e.fifo = d.fifo,
         e.free = Put(d.free, r, Tail(d.free[r]))
  PROVE  LET s == Head(d.free[r])
         IN /\ Sound(e, F \cup {s}) /\ Stored(e) = Stored(d)
            /\ s \in Segments /\ s \notin F /\ d.region[s] = r /\ Blank(d, s)
            /\ \A q \in Regions : s # d.active[q]
<1> DEFINE s == Head(d.free[r])
<1>1. /\ d.free \in [Regions -> Seq(Segments)] /\ \A q \in Regions : Once(d.free[q])
      /\ d.free[r] \in Seq(Segments)
  BY DEF Sound, CacheTypes, Homes
<1>2. /\ Tail(d.free[r]) \in Seq(Segments) /\ s \in Segments /\ s \in Range(d.free[r])
      /\ Once(Tail(d.free[r])) /\ Range(Tail(d.free[r])) = Range(d.free[r]) \ {s}
  BY <1>1, PopFront DEF Once
<1> HIDE DEF s
<1>4. /\ e.free \in [Regions -> Seq(Segments)] /\ \A q \in Regions : Once(e.free[q])
      /\ Range(e.free[r]) = Range(d.free[r]) \ {s}
      /\ \A q \in Regions : q # r => Range(e.free[q]) = Range(d.free[q])
  <2> DEFINE x == Tail(d.free[r])
             L == d.free
             M == e.free
  <2>1. /\ L \in [Regions -> Seq(Segments)] /\ \A q \in Regions : Once(L[q])
        /\ x \in Seq(Segments) /\ Once(x) /\ M = [L EXCEPT ![r] = x]
    BY <1>1, <1>2 DEF Put
  <2> HIDE DEF x, L, M
  <2>2. /\ M \in [Regions -> Seq(Segments)] /\ \A q \in Regions : Once(M[q])
        /\ Range(M[r]) = Range(x) /\ \A q \in Regions : q # r => Range(M[q]) = Range(L[q])
    BY <2>1, UpdateLists
  <2> QED BY <2>2, <1>2 DEF x, L, M
<1>5. CacheTypes(e)
  BY <1>4 DEF Sound, CacheTypes, Still
<1>6. s \notin F /\ d.region[s] = r /\ Blank(d, s)
  BY <1>2, FreeIsBlank
<1>7. ASSUME NEW t \in Segments, NEW q \in Regions PROVE Home(e, F \cup {s}, t, q)
  <2>1. Home(d, F, t, q) /\ Home(d, F, s, q)
    BY <1>2 DEF Sound, Homes
  <2>2. CASE t = s
    BY <2>1, <2>2, <1>2, <1>4, <1>6 DEF Home, Still
  <2>3. CASE t # s
    BY <2>1, <2>3, <1>2, <1>4, <1>6 DEF Home, Still
  <2> QED BY <2>2, <2>3
<1>8. Homes(e, F \cup {s})
  BY <1>2, <1>4, <1>7 DEF Sound, Homes
<1>9. \A q \in Regions : \A t \in Range(e.free[q]) : Blank(d, t)
  BY <1>4, FreeIsBlank
<1>10. Sound(e, F \cup {s}) /\ Stored(e) = Stored(d)
  BY <1>5, <1>8, <1>9, SameContents
<1>11. \A q \in Regions : s # d.active[q]
  BY <1>2, <1>6 DEF Sound, Homes, Home
<1> QED BY <1>2, <1>10, <1>6, <1>11 DEF s

LEMMA TakeFifo ==
  ASSUME NEW d, NEW F, Sound(d, F), NEW r \in Regions, d.fifo[r] # <<>>,
         NEW e, DOMAIN e = CacheFields, Still(e, d), e.ok \in BOOLEAN,
         e.active = d.active, e.free = d.free,
         e.fifo = Put(d.fifo, r, Tail(d.fifo[r]))
  PROVE  LET s == Head(d.fifo[r])
         IN /\ Sound(e, F \cup {s}) /\ Stored(e) = Stored(d)
            /\ s \in Segments /\ s \notin F /\ d.region[s] = r
<1> DEFINE s == Head(d.fifo[r])
<1>1. /\ d.fifo \in [Regions -> Seq(Segments)] /\ \A q \in Regions : Once(d.fifo[q])
      /\ d.fifo[r] \in Seq(Segments)
  BY DEF Sound, CacheTypes, Homes
<1>2. /\ Tail(d.fifo[r]) \in Seq(Segments) /\ s \in Segments /\ s \in Range(d.fifo[r])
      /\ Once(Tail(d.fifo[r])) /\ Range(Tail(d.fifo[r])) = Range(d.fifo[r]) \ {s}
  BY <1>1, PopFront DEF Once
<1> HIDE DEF s
<1>4. /\ e.fifo \in [Regions -> Seq(Segments)] /\ \A q \in Regions : Once(e.fifo[q])
      /\ Range(e.fifo[r]) = Range(d.fifo[r]) \ {s}
      /\ \A q \in Regions : q # r => Range(e.fifo[q]) = Range(d.fifo[q])
  <2> DEFINE x == Tail(d.fifo[r])
             L == d.fifo
             M == e.fifo
  <2>1. /\ L \in [Regions -> Seq(Segments)] /\ \A q \in Regions : Once(L[q])
        /\ x \in Seq(Segments) /\ Once(x) /\ M = [L EXCEPT ![r] = x]
    BY <1>1, <1>2 DEF Put
  <2> HIDE DEF x, L, M
  <2>2. /\ M \in [Regions -> Seq(Segments)] /\ \A q \in Regions : Once(M[q])
        /\ Range(M[r]) = Range(x) /\ \A q \in Regions : q # r => Range(M[q]) = Range(L[q])
    BY <2>1, UpdateLists
  <2> QED BY <2>2, <1>2 DEF x, L, M
<1>5. CacheTypes(e)
  BY <1>4 DEF Sound, CacheTypes, Still
<1>6. s \notin F /\ d.region[s] = r
  BY <1>2 DEF Sound, Homes, Home
<1>7. ASSUME NEW t \in Segments, NEW q \in Regions PROVE Home(e, F \cup {s}, t, q)
  <2>1. Home(d, F, t, q) /\ Home(d, F, s, q)
    BY <1>2 DEF Sound, Homes
  <2>2. CASE t = s
    BY <2>1, <2>2, <1>2, <1>4, <1>6 DEF Home, Still
  <2>3. CASE t # s
    BY <2>1, <2>3, <1>2, <1>4, <1>6 DEF Home, Still
  <2> QED BY <2>2, <2>3
<1>8. Homes(e, F \cup {s})
  BY <1>2, <1>4, <1>7 DEF Sound, Homes
<1>9. \A q \in Regions : \A t \in Range(e.free[q]) : Blank(d, t)
  BY FreeIsBlank
<1>10. Sound(e, F \cup {s}) /\ Stored(e) = Stored(d)
  BY <1>5, <1>8, <1>9, SameContents
<1> QED BY <1>2, <1>10, <1>6 DEF s

LEMMA TakeActive ==
  ASSUME NEW d, NEW F, Sound(d, F), NEW r \in Regions, d.active[r] # Nil,
         NEW e, DOMAIN e = CacheFields, Still(e, d), e.ok \in BOOLEAN,
         e.free = d.free, e.fifo = d.fifo,
         e.active = Put(d.active, r, Nil)
  PROVE  LET s == d.active[r]
         IN /\ Sound(e, F \cup {s}) /\ Stored(e) = Stored(d)
            /\ s \in Segments /\ s \notin F /\ d.region[s] = r
<1> DEFINE s == d.active[r]
<1>1. s \in Segments
  BY DEF Sound, CacheTypes
<1>3. /\ e.active \in [Regions -> Segments \cup {Nil}] /\ e.active[r] = Nil
      /\ \A q \in Regions : q # r => e.active[q] = d.active[q]
  BY DEF Sound, CacheTypes, Put
<1>4. \A q \in Regions : s = d.active[q] <=> q = r
  BY <1>1 DEF Sound, Homes, Home
<1>5. s \notin F /\ d.region[s] = r
  BY <1>1 DEF Sound, Homes, Home
<1>6. s = d.active[r]
  OBVIOUS
<1> HIDE DEF s
<1>7. CacheTypes(e)
  BY <1>3 DEF Sound, CacheTypes, Still
<1>8. ASSUME NEW t \in Segments, NEW q \in Regions PROVE Home(e, F \cup {s}, t, q)
  <2>1. Home(d, F, t, q) /\ Home(d, F, s, q) /\ t # Nil
    BY <1>1, CacheFacts DEF Sound, Homes
  <2>2. CASE t = s
    BY <2>1, <2>2, <1>1, <1>3, <1>4, <1>5 DEF Home, Still
  <2>3. CASE t # s
    BY <2>1, <2>3, <1>3, <1>4, <1>5, <1>6 DEF Home, Still
  <2> QED BY <2>2, <2>3
<1>9. Homes(e, F \cup {s})
  BY <1>1, <1>8 DEF Sound, Homes
<1>10. \A q \in Regions : \A t \in Range(e.free[q]) : Blank(d, t)
  BY FreeIsBlank
<1>11. Sound(e, F \cup {s}) /\ Stored(e) = Stored(d)
  BY <1>7, <1>9, <1>10, SameContents
<1> QED BY <1>1, <1>5, <1>11 DEF s

LEMMA GiveActive ==
  ASSUME NEW d, NEW G, Sound(d, G), NEW r \in Regions, NEW s \in G, d.region[s] = r,
         d.active[r] = Nil,
         NEW e, DOMAIN e = CacheFields, Still(e, d), e.ok \in BOOLEAN,
         e.free = d.free, e.fifo = d.fifo,
         e.active = Put(d.active, r, s)
  PROVE  Sound(e, G \ {s}) /\ Stored(e) = Stored(d)
<1>1. s \in Segments
  BY DEF Sound, Homes
<1>3. /\ e.active \in [Regions -> Segments \cup {Nil}] /\ e.active[r] = s
      /\ \A q \in Regions : q # r => e.active[q] = d.active[q]
  BY <1>1 DEF Sound, CacheTypes, Put
<1>7. CacheTypes(e)
  BY <1>3 DEF Sound, CacheTypes, Still
<1>8. ASSUME NEW t \in Segments, NEW q \in Regions PROVE Home(e, G \ {s}, t, q)
  <2>1. Home(d, G, t, q) /\ Home(d, G, s, q) /\ t # Nil
    BY <1>1, CacheFacts DEF Sound, Homes
  <2>2. CASE t = s
    BY <2>1, <2>2, <1>1, <1>3 DEF Home, Still
  <2>3. CASE t # s
    BY <2>1, <2>3, <1>3 DEF Home, Still
  <2> QED BY <2>2, <2>3
<1>9. Homes(e, G \ {s})
  BY <1>1, <1>8 DEF Sound, Homes
<1>10. \A q \in Regions : \A t \in Range(e.free[q]) : Blank(d, t)
  BY FreeIsBlank
<1>11. Sound(e, G \ {s}) /\ Stored(e) = Stored(d)
  BY <1>7, <1>9, <1>10, SameContents
<1> QED BY <1>11

LEMMA GiveFree ==
  ASSUME NEW d, NEW G, Sound(d, G), NEW r \in Regions, NEW s \in G, d.region[s] = r,
         Blank(d, s),
         NEW e, DOMAIN e = CacheFields, Still(e, d), e.ok \in BOOLEAN,
         e.active = d.active, e.fifo = d.fifo,
         e.free = Put(d.free, r, Append(d.free[r], s))
  PROVE  Sound(e, G \ {s}) /\ Stored(e) = Stored(d)
<1> DEFINE x == Append(d.free[r], s)
<1>1. /\ d.free \in [Regions -> Seq(Segments)] /\ \A q \in Regions : Once(d.free[q])
      /\ d.free[r] \in Seq(Segments) /\ s \in Segments
      /\ s \notin Range(d.free[r])
  BY DEF Sound, CacheTypes, Homes, Home
<1>2. /\ x \in Seq(Segments) /\ Once(x)
      /\ Range(x) = Range(d.free[r]) \cup {s}
  <2> DEFINE p == d.free[r]
  <2>1. p \in Seq(Segments) /\ s \in Segments /\ s \notin Range(p)
        /\ \A i, j \in DOMAIN p : p[i] = p[j] => i = j
    BY <1>1 DEF Once
  <2> HIDE DEF p
  <2>2. LET y == Append(p, s) IN
        /\ y \in Seq(Segments) /\ Range(y) = Range(p) \cup {s}
        /\ \A i, j \in DOMAIN y : y[i] = y[j] => i = j
    BY <2>1, PushBack
  <2> QED BY <2>2 DEF p, Once
<1>3. e.free = [d.free EXCEPT ![r] = x]
  BY DEF Put
<1> HIDE DEF x
<1>4. /\ e.free \in [Regions -> Seq(Segments)] /\ \A q \in Regions : Once(e.free[q])
      /\ Range(e.free[r]) = Range(d.free[r]) \cup {s}
      /\ \A q \in Regions : q # r => Range(e.free[q]) = Range(d.free[q])
  <2> DEFINE L == d.free
             M == e.free
  <2>1. /\ L \in [Regions -> Seq(Segments)] /\ \A q \in Regions : Once(L[q])
        /\ M = [L EXCEPT ![r] = x]
    BY <1>1, <1>3 DEF Put
  <2> HIDE DEF L, M
  <2>2. /\ M \in [Regions -> Seq(Segments)] /\ \A q \in Regions : Once(M[q])
        /\ Range(M[r]) = Range(x) /\ \A q \in Regions : q # r => Range(M[q]) = Range(L[q])
    BY <2>1, <1>2, UpdateLists
  <2> QED BY <2>2, <1>2 DEF L, M
<1>5. CacheTypes(e)
  BY <1>3, <1>4 DEF Sound, CacheTypes, Still
<1>7. ASSUME NEW t \in Segments, NEW q \in Regions PROVE Home(e, G \ {s}, t, q)
  <2>1. Home(d, G, t, q) /\ Home(d, G, s, q)
    BY <1>1 DEF Sound, Homes
  <2>2. CASE t = s
    BY <2>1, <2>2, <1>3, <1>4 DEF Home, Still
  <2>3. CASE t # s
    BY <2>1, <2>3, <1>3, <1>4 DEF Home, Still
  <2> QED BY <2>2, <2>3
<1>8. Homes(e, G \ {s})
  BY <1>3, <1>4, <1>7 DEF Sound, Homes
<1>9. \A q \in Regions : \A t \in Range(e.free[q]) : Blank(d, t)
  BY <1>3, <1>4, FreeIsBlank
<1>10. Sound(e, G \ {s}) /\ Stored(e) = Stored(d)
  BY <1>3, <1>5, <1>8, <1>9, SameContents
<1> QED BY <1>3, <1>10

LEMMA GiveFifo ==
  ASSUME NEW d, NEW G, Sound(d, G), NEW r \in Regions, NEW s \in G, d.region[s] = r,
         NEW e, DOMAIN e = CacheFields, Still(e, d), e.ok \in BOOLEAN,
         e.active = d.active, e.free = d.free,
         e.fifo = Put(d.fifo, r, Append(d.fifo[r], s))
  PROVE  Sound(e, G \ {s}) /\ Stored(e) = Stored(d)
<1> DEFINE x == Append(d.fifo[r], s)
<1>1. /\ d.fifo \in [Regions -> Seq(Segments)] /\ \A q \in Regions : Once(d.fifo[q])
      /\ d.fifo[r] \in Seq(Segments) /\ s \in Segments
      /\ s \notin Range(d.fifo[r])
  BY DEF Sound, CacheTypes, Homes, Home
<1>2. /\ x \in Seq(Segments) /\ Once(x)
      /\ Range(x) = Range(d.fifo[r]) \cup {s}
  <2> DEFINE p == d.fifo[r]
  <2>1. p \in Seq(Segments) /\ s \in Segments /\ s \notin Range(p)
        /\ \A i, j \in DOMAIN p : p[i] = p[j] => i = j
    BY <1>1 DEF Once
  <2> HIDE DEF p
  <2>2. LET y == Append(p, s) IN
        /\ y \in Seq(Segments) /\ Range(y) = Range(p) \cup {s}
        /\ \A i, j \in DOMAIN y : y[i] = y[j] => i = j
    BY <2>1, PushBack
  <2> QED BY <2>2 DEF p, Once
<1>3. e.fifo = [d.fifo EXCEPT ![r] = x]
  BY DEF Put
<1> HIDE DEF x
<1>4. /\ e.fifo \in [Regions -> Seq(Segments)] /\ \A q \in Regions : Once(e.fifo[q])
      /\ Range(e.fifo[r]) = Range(d.fifo[r]) \cup {s}
      /\ \A q \in Regions : q # r => Range(e.fifo[q]) = Range(d.fifo[q])
  <2> DEFINE L == d.fifo
             M == e.fifo
  <2>1. /\ L \in [Regions -> Seq(Segments)] /\ \A q \in Regions : Once(L[q])
        /\ M = [L EXCEPT ![r] = x]
    BY <1>1, <1>3 DEF Put
  <2> HIDE DEF L, M
  <2>2. /\ M \in [Regions -> Seq(Segments)] /\ \A q \in Regions : Once(M[q])
        /\ Range(M[r]) = Range(x) /\ \A q \in Regions : q # r => Range(M[q]) = Range(L[q])
    BY <2>1, <1>2, UpdateLists
  <2> QED BY <2>2, <1>2 DEF L, M
<1>5. CacheTypes(e)
  BY <1>3, <1>4 DEF Sound, CacheTypes, Still
<1>7. ASSUME NEW t \in Segments, NEW q \in Regions PROVE Home(e, G \ {s}, t, q)
  <2>1. Home(d, G, t, q) /\ Home(d, G, s, q)
    BY <1>1 DEF Sound, Homes
  <2>2. CASE t = s
    BY <2>1, <2>2, <1>3, <1>4 DEF Home, Still
  <2>3. CASE t # s
    BY <2>1, <2>3, <1>3, <1>4 DEF Home, Still
  <2> QED BY <2>2, <2>3
<1>8. Homes(e, G \ {s})
  BY <1>3, <1>4, <1>7 DEF Sound, Homes
<1>9. \A q \in Regions : \A t \in Range(e.free[q]) : Blank(d, t)
  BY <1>3, <1>4, FreeIsBlank
<1>10. Sound(e, G \ {s}) /\ Stored(e) = Stored(d)
  BY <1>3, <1>5, <1>8, <1>9, SameContents
<1> QED BY <1>3, <1>10

(* A segment put back at the front of a list.                              *)
LEMMA PushFront ==
  ASSUME NEW S, NEW q \in Seq(S), NEW e \in S,
         \A i, j \in DOMAIN q : q[i] = q[j] => i = j,
         e \notin Range(q)
  PROVE  LET r == <<e>> \o q
         IN /\ r \in Seq(S)
            /\ Len(r) = Len(q) + 1
            /\ \A i, j \in DOMAIN r : r[i] = r[j] => i = j
            /\ Range(r) = Range(q) \cup {e}
<1> DEFINE n == Len(q)
           r == <<e>> \o q
<1>1. n \in Nat /\ DOMAIN q = 1 .. n
  BY LenProperties
<1>2. /\ r \in Seq(S) /\ Len(r) = n + 1 /\ DOMAIN r = 1 .. n + 1
      /\ r[1] = e /\ \A i \in 2 .. n + 1 : r[i] = q[i - 1]
  <2>1. <<e>> \in Seq(S) /\ Len(<<e>>) = 1 /\ <<e>>[1] = e
    OBVIOUS
  <2>2. /\ r \in Seq(S) /\ Len(r) = 1 + n
        /\ \A i \in 1 .. 1 + n : r[i] = IF i <= 1 THEN <<e>>[i] ELSE q[i - 1]
    BY <2>1, ConcatProperties
  <2>3. DOMAIN r = 1 .. n + 1
    BY <1>1, <2>2, LenProperties
  <2> HIDE DEF r, n
  <2> QED BY <1>1, <2>1, <2>2, <2>3
<1> HIDE DEF r, n
<1>3. \A i \in 1 .. n + 1 : i = 1 \/ (i \in 2 .. n + 1 /\ i - 1 \in 1 .. n)
  BY <1>1
<1>4. \A i \in 1 .. n : i + 1 \in 2 .. n + 1 /\ i + 1 \in 1 .. n + 1 /\ (i + 1) - 1 = i
  BY <1>1
<1>5. Range(r) = Range(q) \cup {e}
  <2>1. ASSUME NEW x \in Range(r) PROVE x \in Range(q) \cup {e}
    BY <1>1, <1>2, <1>3, <2>1 DEF Range
  <2>2. ASSUME NEW x \in Range(q) PROVE x \in Range(r)
    <3>1. PICK i \in 1 .. n : q[i] = x
      BY <1>1 DEF Range
    <3>2. r[i + 1] = x
      BY <1>2, <1>4, <3>1
    <3> QED BY <1>2, <1>4, <3>2 DEF Range
  <2>3. e \in Range(r)
    BY <1>1, <1>2 DEF Range
  <2> QED BY <2>1, <2>2, <2>3
<1>6. ASSUME NEW i \in 1 .. n + 1, NEW j \in 1 .. n + 1, r[i] = r[j] PROVE i = j
  <2>1. \A k \in 1 .. n : q[k] # e
    BY <1>1 DEF Range
  <2>2. CASE i = 1
    BY <2>1, <2>2, <1>2, <1>3, <1>6
  <2>3. CASE j = 1
    BY <2>1, <2>3, <1>2, <1>3, <1>6
  <2>4. CASE i # 1 /\ j # 1
    <3>1. i - 1 \in 1 .. n /\ j - 1 \in 1 .. n /\ q[i - 1] = q[j - 1]
      BY <2>4, <1>2, <1>3, <1>6
    <3>2. i - 1 = j - 1
      BY <1>1, <3>1
    <3> QED BY <3>2
  <2> QED BY <2>2, <2>3, <2>4
<1> QED BY <1>2, <1>5, <1>6 DEF r, n

LEMMA GiveFifoFront ==
  ASSUME NEW d, NEW G, Sound(d, G), NEW r \in Regions, NEW s \in G, d.region[s] = r,
         NEW e, DOMAIN e = CacheFields, Still(e, d), e.ok \in BOOLEAN,
         e.active = d.active, e.free = d.free,
         e.fifo = Put(d.fifo, r, <<s>> \o d.fifo[r])
  PROVE  Sound(e, G \ {s}) /\ Stored(e) = Stored(d)
<1> DEFINE x == <<s>> \o d.fifo[r]
<1>1. /\ d.fifo \in [Regions -> Seq(Segments)] /\ \A q \in Regions : Once(d.fifo[q])
      /\ d.fifo[r] \in Seq(Segments) /\ s \in Segments
      /\ s \notin Range(d.fifo[r])
  BY DEF Sound, CacheTypes, Homes, Home
<1>2. /\ x \in Seq(Segments) /\ Once(x)
      /\ Range(x) = Range(d.fifo[r]) \cup {s}
  <2> DEFINE p == d.fifo[r]
  <2>1. p \in Seq(Segments) /\ s \in Segments /\ s \notin Range(p)
        /\ \A i, j \in DOMAIN p : p[i] = p[j] => i = j
    BY <1>1 DEF Once
  <2> HIDE DEF p
  <2>2. LET y == <<s>> \o p IN
        /\ y \in Seq(Segments) /\ Range(y) = Range(p) \cup {s}
        /\ \A i, j \in DOMAIN y : y[i] = y[j] => i = j
    BY <2>1, PushFront
  <2> QED BY <2>2 DEF p, Once
<1>3. e.fifo = [d.fifo EXCEPT ![r] = x]
  BY DEF Put
<1> HIDE DEF x
<1>4. /\ e.fifo \in [Regions -> Seq(Segments)] /\ \A q \in Regions : Once(e.fifo[q])
      /\ Range(e.fifo[r]) = Range(d.fifo[r]) \cup {s}
      /\ \A q \in Regions : q # r => Range(e.fifo[q]) = Range(d.fifo[q])
  <2> DEFINE L == d.fifo
             M == e.fifo
  <2>1. /\ L \in [Regions -> Seq(Segments)] /\ \A q \in Regions : Once(L[q])
        /\ M = [L EXCEPT ![r] = x]
    BY <1>1, <1>3 DEF Put
  <2> HIDE DEF L, M
  <2>2. /\ M \in [Regions -> Seq(Segments)] /\ \A q \in Regions : Once(M[q])
        /\ Range(M[r]) = Range(x) /\ \A q \in Regions : q # r => Range(M[q]) = Range(L[q])
    BY <2>1, <1>2, UpdateLists
  <2> QED BY <2>2, <1>2 DEF L, M
<1>5. CacheTypes(e)
  BY <1>3, <1>4 DEF Sound, CacheTypes, Still
<1>7. ASSUME NEW t \in Segments, NEW q \in Regions PROVE Home(e, G \ {s}, t, q)
  <2>1. Home(d, G, t, q) /\ Home(d, G, s, q)
    BY <1>1 DEF Sound, Homes
  <2>2. CASE t = s
    BY <2>1, <2>2, <1>3, <1>4 DEF Home, Still
  <2>3. CASE t # s
    BY <2>1, <2>3, <1>3, <1>4 DEF Home, Still
  <2> QED BY <2>2, <2>3
<1>8. Homes(e, G \ {s})
  BY <1>3, <1>4, <1>7 DEF Sound, Homes
<1>9. \A q \in Regions : \A t \in Range(e.free[q]) : Blank(d, t)
  BY <1>3, <1>4, FreeIsBlank
<1>10. Sound(e, G \ {s}) /\ Stored(e) = Stored(d)
  BY <1>3, <1>5, <1>8, <1>9, SameContents
<1> QED BY <1>3, <1>10

(* Two states that are the same record, however they were written.         *)
Alike(e, d) ==
  /\ DOMAIN e = CacheFields /\ Still(e, d)
  /\ e.active = d.active /\ e.free = d.free /\ e.fifo = d.fifo /\ e.ok = d.ok

(* The same record is as sound.                                            *)
LEMMA AlikeIsSound ==
  ASSUME NEW d, NEW F, Sound(d, F), NEW e, Alike(e, d)
  PROVE  Sound(e, F) /\ Stored(e) = Stored(d)
<1>1. CacheTypes(e)
  BY DEF Sound, CacheTypes, Alike, Still
<1>2. Homes(e, F)
  BY DEF Sound, Homes, Home, Alike, Still
<1>3. \A r \in Regions : \A s \in Range(e.free[r]) : Blank(d, s)
  BY FreeIsBlank DEF Alike
<1> QED BY <1>1, <1>2, <1>3, SameContents DEF Alike

(* With a count of 0 a segment is empty.                                   *)
LEMMA NoneValid ==
  ASSUME NEW d, NEW F, Sound(d, F), NEW s \in Segments
  PROVE  /\ d.valid[s] = Cardinality(Filled(d, s)) /\ IsFiniteSet(Filled(d, s))
         /\ d.valid[s] = 0 <=> Blank(d, s)
<1>1. Filled(d, s) \subseteq Slots /\ IsFiniteSet(Slots)
  BY CacheFacts DEF Filled
<1>2. IsFiniteSet(Filled(d, s))
  BY <1>1, FS_Subset
<1>3. d.valid[s] = Cardinality(Filled(d, s))
  BY DEF Sound, Counted
<1>4. Filled(d, s) = {} <=> Blank(d, s)
  BY DEF Filled, Blank
<1>5. Cardinality(Filled(d, s)) = 0 <=> Filled(d, s) = {}
  BY <1>2, FS_EmptySet
<1> QED BY <1>2, <1>3, <1>4, <1>5

-----------------------------------------------------------------------------
(* Segments and blocks.                                                    *)

(* An empty segment in flight is reset.                                    *)
LEMMA ResetIsSound ==
  ASSUME NEW d, NEW F, Sound(d, F), NEW s \in Segments, Blank(d, s)
  PROVE  LET e == ResetSegment(d, s)
         IN /\ Sound(e, F) /\ Stored(e) = Stored(d)
            /\ DOMAIN e = CacheFields /\ e.slot = d.slot /\ e.valid = d.valid
            /\ e.fill = [d.fill EXCEPT ![s] = 0] /\ e.where = d.where /\ e.region = d.region
            /\ e.count = d.count /\ e.drive = d.drive /\ e.active = d.active
            /\ e.free = d.free /\ e.fifo = d.fifo /\ e.ok = d.ok
<1> DEFINE e == ResetSegment(d, s)
           nothing == [i \in Slots |-> Nil]
<1>1. /\ DOMAIN e = CacheFields /\ e.slot = [d.slot EXCEPT ![s] = nothing]
      /\ e.valid = [d.valid EXCEPT ![s] = 0] /\ e.fill = [d.fill EXCEPT ![s] = 0]
      /\ e.where = d.where /\ e.region = d.region
      /\ e.count = d.count /\ e.drive = d.drive /\ e.active = d.active
      /\ e.free = d.free /\ e.fifo = d.fifo /\ e.ok = d.ok
  BY DEF ResetSegment, Sound, CacheTypes, CacheFields
<1>2. e.slot = d.slot
  <2>1. d.slot \in [Segments -> [Slots -> Blocks \cup {Nil}]]
    BY DEF Sound, CacheTypes
  <2>2. d.slot[s] = nothing
    BY <2>1 DEF Blank
  <2> HIDE DEF nothing, e
  <2> QED BY <1>1, <2>1, <2>2
<1>3. e.valid = d.valid
  <2>1. d.valid \in [Segments -> Nat] /\ d.valid[s] = 0
    BY NoneValid DEF Sound, CacheTypes
  <2> HIDE DEF e
  <2> QED BY <1>1, <2>1
<1> HIDE DEF e, nothing
<1>4. e.fill \in [Segments -> 0 .. SegBlocks] /\ \A t \in Segments : t # s => e.fill[t] = d.fill[t]
  BY <1>1, CacheFacts DEF Sound, CacheTypes
<1>5. CacheTypes(e)
  BY <1>1, <1>2, <1>3, <1>4 DEF Sound, CacheTypes
<1>6. Homes(e, F)
  BY <1>1 DEF Sound, Homes, Home
<1>7. Room(e)
  BY <1>1, <1>2, <1>4 DEF Sound, Room, Blank
<1>8. Indexed(e)
  <2>1. Indexed(d)
    BY DEF Sound
  <2>2. e.slot = d.slot /\ e.where = d.where /\ e.drive = d.drive
    BY <1>1, <1>2
  <2> QED BY <2>1, <2>2 DEF Indexed
<1>9. Counted(e)
  <2>1. /\ \A t : Filled(e, t) = Filled(d, t)
        /\ \A r : Pages(e, r) = Pages(d, r)
    BY <1>1, <1>2 DEF Filled, Pages
  <2> QED BY <1>1, <1>3, <2>1 DEF Sound, Counted
<1>10. Labelled(e) /\ Stored(e) = Stored(d)
  BY <1>1 DEF Sound, Labelled, Stored
<1>11. Sound(e, F)
  BY <1>5, <1>6, <1>7, <1>8, <1>9, <1>10 DEF Sound
<1> QED BY <1>1, <1>2, <1>3, <1>10, <1>11 DEF e

(* A segment moved to its own region.                                      *)
LEMMA MoveWithin ==
  ASSUME NEW d, NEW F, Sound(d, F), NEW s \in Segments, NEW r, d.region[s] = r
  PROVE  Alike(MoveSegment(d, s, r), d)
<1> DEFINE left == [d EXCEPT !.count[r] = @ - d.valid[s]]
           e == MoveSegment(d, s, r)
<1>1. /\ d.count \in [Regions -> Int] /\ d.valid[s] \in Nat /\ r \in Regions
      /\ d.region \in [Segments -> Regions]
  BY DEF Sound, CacheTypes
<1>2. /\ DOMAIN e = CacheFields
      /\ e.count = [left.count EXCEPT ![r] = @ + d.valid[s]]
      /\ left.count = [d.count EXCEPT ![r] = @ - d.valid[s]]
      /\ e.region = [d.region EXCEPT ![s] = r]
      /\ e.slot = d.slot /\ e.valid = d.valid /\ e.fill = d.fill /\ e.where = d.where
      /\ e.drive = d.drive /\ e.active = d.active
      /\ e.free = d.free /\ e.fifo = d.fifo /\ e.ok = d.ok
  BY DEF MoveSegment, Sound, CacheTypes, CacheFields
<1>3. e.region = d.region
  BY <1>1, <1>2
<1>4. e.count = d.count
  <2> HIDE DEF e, left
  <2>1. left.count \in [Regions -> Int] /\ left.count[r] = d.count[r] - d.valid[s]
        /\ \A q \in Regions : q # r => left.count[q] = d.count[q]
    BY <1>1, <1>2
  <2>2. e.count \in [Regions -> Int] /\ e.count[r] = left.count[r] + d.valid[s]
        /\ \A q \in Regions : q # r => e.count[q] = left.count[q]
    BY <1>1, <1>2, <2>1
  <2>3. d.count[r] - d.valid[s] + d.valid[s] = d.count[r]
    BY <1>1
  <2>4. \A q \in Regions : e.count[q] = d.count[q]
    BY <2>1, <2>2, <2>3
  <2> QED BY <1>1, <2>2, <2>4
<1> QED BY <1>2, <1>3, <1>4 DEF Alike, Still

(* release_segment_to_free, of an empty segment in flight.                 *)
LEMMA ReleaseIsSound ==
  ASSUME NEW d, NEW G, Sound(d, G), NEW r, NEW s \in G, d.region[s] = r, d.valid[s] = 0
  PROVE  LET e == Release(d, r, s)
         IN /\ Sound(e, G \ {s}) /\ Stored(e) = Stored(d)
            /\ e.slot = d.slot /\ e.region = d.region /\ e.active = d.active /\ e.ok = d.ok
<1> DEFINE blank == ResetSegment(d, s)
           free == [blank EXCEPT !.free[r] = Append(@, s)]
           e == MoveSegment(free, s, r)
<1>1. s \in Segments /\ r \in Regions
  BY DEF Sound, Homes, CacheTypes
<1>2. Blank(d, s)
  BY <1>1, NoneValid
<1>3. /\ Sound(blank, G) /\ Stored(blank) = Stored(d) /\ blank.slot = d.slot
      /\ blank.region = d.region /\ blank.active = d.active /\ blank.ok = d.ok
  BY <1>1, <1>2, ResetIsSound
<1>4. blank.region[s] = r /\ Blank(blank, s) /\ DOMAIN blank = CacheFields
  BY <1>2, <1>3 DEF Blank, Sound, CacheTypes
<1> HIDE DEF blank
<1>5. /\ DOMAIN free = CacheFields /\ Still(free, blank) /\ free.ok = blank.ok
      /\ free.active = blank.active /\ free.fifo = blank.fifo
      /\ free.free = Put(blank.free, r, Append(blank.free[r], s))
  BY <1>4 DEF CacheFields, Still, Put
<1> HIDE DEF free
<1>6. free.region[s] = r /\ free.ok \in BOOLEAN
  BY <1>3, <1>4, <1>5 DEF Still, Sound, CacheTypes
<1>7. Sound(free, G \ {s}) /\ Stored(free) = Stored(blank)
  BY <1>1, <1>3, <1>4, <1>5, <1>6, GiveFree
<1>8. Alike(e, free)
  BY <1>1, <1>6, <1>7, MoveWithin
<1>9. Sound(e, G \ {s}) /\ Stored(e) = Stored(free)
  BY <1>7, <1>8, AlikeIsSound
<1>10. e = Release(d, r, s)
  BY DEF Release, free, blank
<1> HIDE DEF e
<1> QED BY <1>3, <1>5, <1>7, <1>8, <1>9, <1>10 DEF Alike, Still

(* Finite sets of slots.                                                   *)
LEMMA PagesAreFinite ==
  ASSUME NEW d, NEW r, NEW s
  PROVE  /\ IsFiniteSet(Pages(d, r)) /\ Cardinality(Pages(d, r)) \in Nat
         /\ IsFiniteSet(Filled(d, s)) /\ Cardinality(Filled(d, s)) \in Nat
<1>1. Pages(d, r) \subseteq Segments \X Slots /\ Filled(d, s) \subseteq Slots
  BY DEF Pages, Filled
<1> QED BY <1>1, CacheFacts, FS_Subset, FS_CardinalityType

(* One slot differs.                                                       *)
SlotSet(e, d, s, i, x) ==
  /\ \A t \in Segments, j \in Slots :
       e.slot[t][j] = IF t = s /\ j = i THEN x ELSE d.slot[t][j]
  /\ e.region = d.region

(* One slot of one segment is written.                                     *)
LEMMA UpdateSlot ==
  ASSUME NEW L \in [Segments -> [Slots -> Blocks \cup {Nil}]], NEW s \in Segments,
         NEW i \in Slots, NEW x \in Blocks \cup {Nil},
         NEW M, M = [L EXCEPT ![s] = [@ EXCEPT ![i] = x]]
  PROVE  /\ M \in [Segments -> [Slots -> Blocks \cup {Nil}]]
         /\ \A t \in Segments, j \in Slots : M[t][j] = IF t = s /\ j = i THEN x ELSE L[t][j]
         /\ \A t \in Segments : t # s => M[t] = L[t]
<1>1. L[s] \in [Slots -> Blocks \cup {Nil}]
  OBVIOUS
<1> DEFINE y == [L[s] EXCEPT ![i] = x]
<1>2. y \in [Slots -> Blocks \cup {Nil}] /\ \A j \in Slots : y[j] = IF j = i THEN x ELSE L[s][j]
  BY <1>1
<1>3. M = [L EXCEPT ![s] = y]
  OBVIOUS
<1> HIDE DEF y
<1> QED BY <1>2, <1>3

(* The counts when a block leaves its slot.                                *)
LEMMA SlotCleared ==
  ASSUME NEW d, Counted(d), NEW e, NEW s \in Segments, NEW i \in Slots,
         SlotSet(e, d, s, i, Nil), d.slot[s][i] # Nil, d.region \in [Segments -> Regions],
         \A t \in Segments : e.valid[t] = IF t = s THEN d.valid[t] - 1 ELSE d.valid[t],
         \A r \in Regions : e.count[r] = IF r = d.region[s] THEN d.count[r] - 1 ELSE d.count[r]
  PROVE  Counted(e)
<1>1. ASSUME NEW t \in Segments PROVE e.valid[t] = Cardinality(Filled(e, t))
  <2>1. d.valid[t] = Cardinality(Filled(d, t)) /\ IsFiniteSet(Filled(d, t))
    BY PagesAreFinite DEF Counted
  <2>2. CASE t = s
    <3>1. Filled(e, t) = Filled(d, t) \ {i} /\ i \in Filled(d, t)
      BY <2>2 DEF Filled, SlotSet
    <3>2. Cardinality(Filled(e, t)) = Cardinality(Filled(d, t)) - 1
      BY ZenonT(40), <3>1, <2>1, FS_RemoveElement
    <3> QED BY <2>1, <2>2, <3>2
  <2>3. CASE t # s
    <3>1. Filled(e, t) = Filled(d, t)
      BY <2>3 DEF Filled, SlotSet
    <3> QED BY <2>1, <2>3, <3>1
  <2> QED BY <2>2, <2>3
<1>2. ASSUME NEW r \in Regions PROVE e.count[r] = Cardinality(Pages(e, r))
  <2>1. d.count[r] = Cardinality(Pages(d, r)) /\ IsFiniteSet(Pages(d, r))
    BY PagesAreFinite DEF Counted
  <2>2. ASSUME NEW p \in Segments \X Slots
        PROVE  e.slot[p[1]][p[2]] = IF p = <<s, i>> THEN Nil ELSE d.slot[p[1]][p[2]]
    <3>1. p[1] \in Segments /\ p[2] \in Slots /\ (p = <<s, i>> <=> p[1] = s /\ p[2] = i)
      OBVIOUS
    <3> QED BY <3>1 DEF SlotSet
  <2>3. <<s, i>> \in Segments \X Slots /\ <<s, i>>[1] = s /\ <<s, i>>[2] = i
    OBVIOUS
  <2>4. CASE r = d.region[s]
    <3>1. Pages(e, r) = Pages(d, r) \ {<<s, i>>}
      BY <2>2 DEF Pages, SlotSet
    <3>2. <<s, i>> \in Pages(d, r)
      BY <2>3, <2>4 DEF Pages
    <3>3. Cardinality(Pages(e, r)) = Cardinality(Pages(d, r)) - 1
      BY ZenonT(40), <3>1, <3>2, <2>1, FS_RemoveElement
    <3> QED BY <2>1, <2>4, <3>3
  <2>5. CASE r # d.region[s]
    <3>1. <<s, i>> \notin Pages(d, r) /\ <<s, i>> \notin Pages(e, r)
      BY <2>3, <2>5 DEF Pages, SlotSet
    <3>2. Pages(e, r) = Pages(d, r)
      BY <3>1, <2>2 DEF Pages, SlotSet
    <3> QED BY <2>1, <2>5, <3>2
  <2> QED BY <2>4, <2>5
<1> QED BY <1>1, <1>2 DEF Counted

(* The counts when a block gets a slot.                                    *)
LEMMA SlotFilled ==
  ASSUME NEW d, Counted(d), NEW e, NEW s \in Segments, NEW i \in Slots, NEW x, x # Nil,
         SlotSet(e, d, s, i, x), d.slot[s][i] = Nil, d.region \in [Segments -> Regions],
         \A t \in Segments : e.valid[t] = IF t = s THEN d.valid[t] + 1 ELSE d.valid[t],
         \A r \in Regions : e.count[r] = IF r = d.region[s] THEN d.count[r] + 1 ELSE d.count[r]
  PROVE  Counted(e)
<1>1. ASSUME NEW t \in Segments PROVE e.valid[t] = Cardinality(Filled(e, t))
  <2>1. d.valid[t] = Cardinality(Filled(d, t)) /\ IsFiniteSet(Filled(d, t))
    BY PagesAreFinite DEF Counted
  <2>2. CASE t = s
    <3>1. Filled(e, t) = Filled(d, t) \cup {i} /\ i \notin Filled(d, t)
      BY <2>2 DEF Filled, SlotSet
    <3>2. Cardinality(Filled(e, t)) = Cardinality(Filled(d, t)) + 1
      BY <3>1, <2>1, FS_AddElement
    <3> QED BY <2>1, <2>2, <3>2
  <2>3. CASE t # s
    <3>1. Filled(e, t) = Filled(d, t)
      BY <2>3 DEF Filled, SlotSet
    <3> QED BY <2>1, <2>3, <3>1
  <2> QED BY <2>2, <2>3
<1>2. ASSUME NEW r \in Regions PROVE e.count[r] = Cardinality(Pages(e, r))
  <2>1. d.count[r] = Cardinality(Pages(d, r)) /\ IsFiniteSet(Pages(d, r))
    BY PagesAreFinite DEF Counted
  <2>2. ASSUME NEW p \in Segments \X Slots
        PROVE  e.slot[p[1]][p[2]] = IF p = <<s, i>> THEN x ELSE d.slot[p[1]][p[2]]
    <3>1. p[1] \in Segments /\ p[2] \in Slots /\ (p = <<s, i>> <=> p[1] = s /\ p[2] = i)
      OBVIOUS
    <3> QED BY <3>1 DEF SlotSet
  <2>3. <<s, i>> \in Segments \X Slots /\ <<s, i>>[1] = s /\ <<s, i>>[2] = i
    OBVIOUS
  <2>4. CASE r = d.region[s]
    <3>1. Pages(e, r) = Pages(d, r) \cup {<<s, i>>}
      BY <2>2, <2>3, <2>4 DEF Pages, SlotSet
    <3>2. <<s, i>> \notin Pages(d, r)
      BY <2>3 DEF Pages
    <3>3. Cardinality(Pages(e, r)) = Cardinality(Pages(d, r)) + 1
      BY ZenonT(40), <3>1, <3>2, <2>1, FS_AddElement
    <3> QED BY <2>1, <2>4, <3>3
  <2>5. CASE r # d.region[s]
    <3>1. <<s, i>> \notin Pages(d, r) /\ <<s, i>> \notin Pages(e, r)
      BY <2>3, <2>5 DEF Pages, SlotSet
    <3>2. Pages(e, r) = Pages(d, r)
      BY <3>1, <2>2 DEF Pages, SlotSet
    <3> QED BY <2>1, <2>5, <3>2
  <2> QED BY <2>4, <2>5
<1> QED BY <1>1, <1>2 DEF Counted

(* The slot the mapping names holds the block.                             *)
LEMMA WhereIs ==
  ASSUME NEW d, NEW F, Sound(d, F), NEW b \in Blocks, d.where[b] # Nil
  PROVE  /\ d.where[b] \in Segments \X Slots
         /\ d.where[b][1] \in Segments /\ d.where[b][2] \in Slots
         /\ d.where[b] = <<d.where[b][1], d.where[b][2]>>
         /\ d.slot[d.where[b][1]][d.where[b][2]] = b /\ b \notin d.drive
<1>1. d.where[b] \in Segments \X Slots
  BY DEF Sound, CacheTypes
<1> QED BY <1>1 DEF Sound, Indexed

(* invalidate loses no block but the one it is called for.                 *)
LEMMA InvalidateIsSound ==
  ASSUME NEW d, NEW F, Sound(d, F), NEW b \in Blocks
  PROVE  LET e == Invalidate(d, b)
         IN /\ Sound(e, F) /\ e.where[b] = Nil /\ b \notin e.drive
            /\ Stored(d) \subseteq Stored(e) \cup {b}
            /\ e.active = d.active /\ e.fill = d.fill /\ e.region = d.region
            /\ e.free = d.free /\ e.fifo = d.fifo /\ e.ok = d.ok
            /\ \A t \in Segments : (d.where[b] # Nil => t # d.where[b][1]) => e.slot[t] = d.slot[t]
<1> DEFINE e == Invalidate(d, b)
<1>1. CASE d.where[b] = Nil
  <2>1. /\ DOMAIN e = CacheFields /\ e.drive = d.drive \ {b} /\ e.slot = d.slot
        /\ e.fill = d.fill /\ e.valid = d.valid /\ e.where = d.where /\ e.count = d.count
        /\ e.active = d.active /\ e.region = d.region
        /\ e.free = d.free /\ e.fifo = d.fifo /\ e.ok = d.ok
    BY <1>1 DEF Invalidate, Sound, CacheTypes, CacheFields
  <2> HIDE DEF e
  <2>2. CacheTypes(e) /\ Homes(e, F) /\ Room(e)
    BY <2>1 DEF Sound, CacheTypes, Homes, Home, Room
  <2>3. Indexed(e)
    <3>1. Indexed(d)
      BY DEF Sound
    <3> QED BY <2>1, <3>1 DEF Indexed
  <2>4. Counted(e) /\ Labelled(e)
    <3>1. /\ \A t : Filled(e, t) = Filled(d, t)
          /\ \A r : Pages(e, r) = Pages(d, r)
      BY <2>1 DEF Filled, Pages
    <3> QED BY ZenonT(40), <2>1, <3>1 DEF Sound, Counted, Labelled
  <2>5. Sound(e, F)
    BY <2>2, <2>3, <2>4 DEF Sound
  <2>6. Stored(d) \subseteq Stored(e) \cup {b}
    BY <2>1 DEF Stored
  <2> QED BY <1>1, <2>1, <2>5, <2>6 DEF e
<1>2. CASE d.where[b] # Nil
  <2> DEFINE s == d.where[b][1]
             i == d.where[b][2]
  <2>1. /\ s \in Segments /\ i \in Slots /\ d.where[b] = <<s, i>>
        /\ d.slot[s][i] = b /\ b \notin d.drive
    BY <1>2, WhereIs
  <2>2. /\ DOMAIN e = CacheFields /\ e.drive = d.drive
        /\ e.slot = [d.slot EXCEPT ![s] = [@ EXCEPT ![i] = Nil]]
        /\ e.fill = d.fill /\ e.valid = [d.valid EXCEPT ![s] = @ - 1]
        /\ e.where = [d.where EXCEPT ![b] = Nil]
        /\ e.count = [d.count EXCEPT ![d.region[s]] = @ - 1]
        /\ e.active = d.active /\ e.region = d.region
        /\ e.free = d.free /\ e.fifo = d.fifo /\ e.ok = d.ok
    BY <1>2 DEF Invalidate, Vacate, Sound, CacheTypes, CacheFields
  <2> HIDE DEF e, s, i
  <2>3. /\ e.slot \in [Segments -> [Slots -> Blocks \cup {Nil}]]
        /\ SlotSet(e, d, s, i, Nil)
        /\ \A t \in Segments : t # s => e.slot[t] = d.slot[t]
    <3> DEFINE L == d.slot
               M == e.slot
    <3>1. L \in [Segments -> [Slots -> Blocks \cup {Nil}]] /\ Nil \in Blocks \cup {Nil}
      BY DEF Sound, CacheTypes
    <3>2. M = [L EXCEPT ![s] = [@ EXCEPT ![i] = Nil]]
      BY <2>2
    <3> HIDE DEF L, M
    <3>3. /\ M \in [Segments -> [Slots -> Blocks \cup {Nil}]]
          /\ \A t \in Segments, j \in Slots :
               M[t][j] = IF t = s /\ j = i THEN Nil ELSE L[t][j]
          /\ \A t \in Segments : t # s => M[t] = L[t]
      BY <3>1, <3>2, <2>1, UpdateSlot
    <3> QED BY <3>3, <2>2 DEF SlotSet, L, M
  <2>4. /\ \A t \in Segments : e.valid[t] = IF t = s THEN d.valid[t] - 1 ELSE d.valid[t]
        /\ \A r \in Regions : e.count[r] = IF r = d.region[s] THEN d.count[r] - 1 ELSE d.count[r]
        /\ d.region \in [Segments -> Regions] /\ e.count \in [Regions -> Int]
    BY SMTT(20), <2>1, <2>2 DEF Sound, CacheTypes
  <2>5. d.slot[s][i] # Nil
    BY <2>1, CacheFacts
  <2>6. Counted(e)
    BY <2>1, <2>3, <2>4, <2>5, SlotCleared DEF Sound
  <2>7. e.valid \in [Segments -> Nat]
    <3>1. \A t \in Segments : e.valid[t] \in Nat
      BY <2>6, PagesAreFinite DEF Counted
    <3>2. DOMAIN e.valid = Segments /\ e.valid = [t \in Segments |-> e.valid[t]]
      BY <2>2 DEF Sound, CacheTypes
    <3> QED BY <3>1, <3>2
  <2>8. /\ e.where \in [Blocks -> (Segments \X Slots) \cup {Nil}] /\ e.where[b] = Nil
        /\ \A a \in Blocks : a # b => e.where[a] = d.where[a]
    BY <2>2 DEF Sound, CacheTypes
  <2>9. CacheTypes(e)
    BY <2>2, <2>3, <2>4, <2>7, <2>8 DEF Sound, CacheTypes
  <2>10. Homes(e, F)
    BY <2>2 DEF Sound, Homes, Home
  <2>11. Room(e)
    <3>1. \A t \in Segments, j \in Slots : d.slot[t][j] = Nil => e.slot[t][j] = Nil
      BY <2>3 DEF SlotSet
    <3>2. \A r \in Regions : \A t \in Range(d.free[r]) : t \in Segments
      BY FreeIsBlank
    <3> QED BY <2>2, <3>1, <3>2 DEF Sound, Room
  <2>12. Indexed(e)
    <3>1. ASSUME NEW a \in Blocks, e.where[a] # Nil
          PROVE  a \notin e.drive /\ e.slot[e.where[a][1]][e.where[a][2]] = a
      <4>1. a # b /\ e.where[a] = d.where[a]
        BY <2>8, <3>1
      <4>2. /\ d.where[a][1] \in Segments /\ d.where[a][2] \in Slots
            /\ d.slot[d.where[a][1]][d.where[a][2]] = a /\ a \notin d.drive
        BY <4>1, <3>1, WhereIs
      <4>3. ~(d.where[a][1] = s /\ d.where[a][2] = i)
        BY <4>1, <4>2, <2>1
      <4> QED BY <4>1, <4>2, <4>3, <2>2, <2>3 DEF SlotSet
    <3>2. ASSUME NEW t \in Segments, NEW j \in Slots, e.slot[t][j] # Nil
          PROVE  e.where[e.slot[t][j]] = <<t, j>>
      <4>1. ~(t = s /\ j = i) /\ e.slot[t][j] = d.slot[t][j]
        BY <2>3, <3>2 DEF SlotSet
      <4>2. d.where[d.slot[t][j]] = <<t, j>> /\ d.slot[t][j] \in Blocks
        <5>1. Indexed(d) /\ d.slot \in [Segments -> [Slots -> Blocks \cup {Nil}]]
          BY DEF Sound, CacheTypes
        <5>2. d.slot[t][j] # Nil
          BY <3>2, <4>1
        <5>3. d.where[d.slot[t][j]] = <<t, j>>
          BY <5>1, <5>2 DEF Indexed
        <5>4. d.slot[t][j] \in Blocks
          BY <5>1, <5>2
        <5> QED BY <5>3, <5>4
      <4>3. d.slot[t][j] # b
        BY <4>1, <4>2, <2>1
      <4> QED BY <4>1, <4>2, <4>3, <2>8
    <3> QED BY <3>1, <3>2 DEF Indexed
  <2>13. Labelled(e)
    BY <2>2 DEF Sound, Labelled
  <2>14. Sound(e, F)
    BY <2>6, <2>9, <2>10, <2>11, <2>12, <2>13 DEF Sound
  <2>15. Stored(d) \subseteq Stored(e) \cup {b} /\ b \notin e.drive
    BY <2>1, <2>2, <2>8 DEF Stored
  <2>16. s = d.where[b][1] /\ e = Invalidate(d, b)
    BY DEF s, e
  <2> QED BY <1>2, <2>2, <2>3, <2>8, <2>14, <2>15, <2>16
<1> QED BY <1>1, <1>2

(* append_block, in an active segment with room.                           *)
LEMMA PlaceIsSound ==
  ASSUME NEW d, NEW F, Sound(d, F), NEW b \in Blocks, d.where[b] = Nil, b \notin d.drive,
         NEW r \in Regions, NEW s, s = d.active[r], s # Nil, d.fill[s] < SegBlocks
  PROVE  LET e == PlaceBlock(d, s, b)
         IN /\ Sound(e, F) /\ Stored(e) = Stored(d) \cup {b}
            /\ e.active = d.active /\ e.region = d.region /\ e.ok = d.ok /\ s \notin F
            /\ \A t \in Segments : t # s => e.slot[t] = d.slot[t]
<1> DEFINE i == d.fill[s] + 1
           e == PlaceBlock(d, s, b)
<1>1. s \in Segments
  BY DEF Sound, CacheTypes
<1>2. d.region[s] = r /\ s \notin F /\ \A q \in Regions : s \notin Range(d.free[q])
  BY <1>1 DEF Sound, Homes, Home
<1>3. d.fill[s] \in 0 .. SegBlocks /\ d.fill[s] \in Nat
  BY <1>1, CacheFacts DEF Sound, CacheTypes
<1>4. i \in Slots /\ i > d.fill[s] /\ i \in 0 .. SegBlocks
  BY <1>3, CacheFacts DEF Slots
<1>5. /\ DOMAIN e = CacheFields /\ e.drive = d.drive
      /\ e.slot = [d.slot EXCEPT ![s] = [@ EXCEPT ![i] = b]]
      /\ e.fill = [d.fill EXCEPT ![s] = i] /\ e.valid = [d.valid EXCEPT ![s] = @ + 1]
      /\ e.where = [d.where EXCEPT ![b] = <<s, i>>]
      /\ e.count = [d.count EXCEPT ![d.region[s]] = @ + 1]
      /\ e.active = d.active /\ e.region = d.region
      /\ e.free = d.free /\ e.fifo = d.fifo /\ e.ok = d.ok
  BY DEF PlaceBlock, Sound, CacheTypes, CacheFields
<1>6. d.slot[s][i] = Nil /\ b # Nil
  BY <1>1, <1>4, CacheFacts DEF Sound, Room
<1>7. \A j \in Slots : j > i => j > d.fill[s]
  BY <1>3 DEF Slots
<1> HIDE DEF e, i
<1>8. /\ e.slot \in [Segments -> [Slots -> Blocks \cup {Nil}]]
      /\ SlotSet(e, d, s, i, b)
      /\ \A t \in Segments : t # s => e.slot[t] = d.slot[t]
  <2> DEFINE L == d.slot
             M == e.slot
  <2>1. L \in [Segments -> [Slots -> Blocks \cup {Nil}]] /\ b \in Blocks \cup {Nil}
    BY DEF Sound, CacheTypes
  <2>2. M = [L EXCEPT ![s] = [@ EXCEPT ![i] = b]]
    BY <1>5
  <2> HIDE DEF L, M
  <2>3. /\ M \in [Segments -> [Slots -> Blocks \cup {Nil}]]
        /\ \A t \in Segments, j \in Slots :
             M[t][j] = IF t = s /\ j = i THEN b ELSE L[t][j]
        /\ \A t \in Segments : t # s => M[t] = L[t]
    BY <2>1, <2>2, <1>1, <1>4, UpdateSlot
  <2> QED BY <2>3, <1>5 DEF SlotSet, L, M
<1>9. /\ \A t \in Segments : e.valid[t] = IF t = s THEN d.valid[t] + 1 ELSE d.valid[t]
      /\ \A q \in Regions : e.count[q] = IF q = d.region[s] THEN d.count[q] + 1 ELSE d.count[q]
      /\ d.region \in [Segments -> Regions] /\ e.count \in [Regions -> Int]
      /\ e.valid \in [Segments -> Nat]
  <2>1. /\ d.valid \in [Segments -> Nat] /\ d.count \in [Regions -> Int]
        /\ d.region \in [Segments -> Regions] /\ d.region[s] \in Regions
    BY <1>1 DEF Sound, CacheTypes
  <2>2. \A t \in Segments : e.valid[t] = IF t = s THEN d.valid[t] + 1 ELSE d.valid[t]
    BY <1>1, <1>5, <2>1
  <2>3. /\ \A q \in Regions : e.count[q] = IF q = d.region[s] THEN d.count[q] + 1 ELSE d.count[q]
        /\ e.count \in [Regions -> Int]
    <3> HIDE DEF Regions
    <3> QED BY <1>5, <2>1
  <2>4. e.valid \in [Segments -> Nat]
    BY <1>1, <1>5, <2>1
  <2> QED BY <2>1, <2>2, <2>3, <2>4
<1>10. Counted(e)
  BY <1>1, <1>4, <1>6, <1>8, <1>9, SlotFilled DEF Sound
<1>12. /\ e.where \in [Blocks -> (Segments \X Slots) \cup {Nil}] /\ e.where[b] = <<s, i>>
       /\ \A a \in Blocks : a # b => e.where[a] = d.where[a]
  BY SMTT(20), <1>1, <1>4, <1>5 DEF Sound, CacheTypes
<1>13. /\ e.fill \in [Segments -> 0 .. SegBlocks] /\ e.fill[s] = i
       /\ \A t \in Segments : t # s => e.fill[t] = d.fill[t]
  BY <1>1, <1>4, <1>5 DEF Sound, CacheTypes
<1>14. CacheTypes(e)
  BY <1>5, <1>8, <1>9, <1>12, <1>13 DEF Sound, CacheTypes
<1>15. Homes(e, F)
  BY <1>5 DEF Sound, Homes, Home
<1>16. Room(e)
  <2>1. ASSUME NEW t \in Segments, NEW j \in Slots, j > e.fill[t] PROVE e.slot[t][j] = Nil
    <3>1. CASE t = s
      <4>1. j > i /\ j # i
        BY <1>4, <1>13, <2>1, <3>1 DEF Slots
      <4>2. d.slot[t][j] = Nil
        BY <1>7, <3>1, <4>1 DEF Sound, Room
      <4> QED BY <1>8, <4>1, <4>2 DEF SlotSet
    <3>2. CASE t # s
      BY <1>8, <1>13, <2>1, <3>2 DEF Sound, Room
    <3> QED BY <3>1, <3>2
  <2>2. ASSUME NEW q \in Regions, NEW t \in Range(e.free[q]), NEW j \in Slots
        PROVE  e.slot[t][j] = Nil
    <3>1. t \in Range(d.free[q]) /\ t # s /\ t \in Segments /\ Blank(d, t)
      BY <1>2, <1>5, FreeIsBlank
    <3> QED BY <1>8, <3>1 DEF Blank
  <2> QED BY <2>1, <2>2 DEF Room
<1>17. Indexed(e)
  <2>1. ASSUME NEW a \in Blocks, e.where[a] # Nil
        PROVE  a \notin e.drive /\ e.slot[e.where[a][1]][e.where[a][2]] = a
    <3>1. CASE a = b
      <4>1. e.where[a][1] = s /\ e.where[a][2] = i /\ e.slot[s][i] = b
        BY <1>1, <1>4, <1>8, <1>12, <3>1 DEF SlotSet
      <4> QED BY <4>1, <1>5, <3>1
    <3>2. CASE a # b
      <4>1. e.where[a] = d.where[a]
        BY <1>12, <3>2
      <4>2. /\ d.where[a][1] \in Segments /\ d.where[a][2] \in Slots
            /\ d.slot[d.where[a][1]][d.where[a][2]] = a /\ a \notin d.drive
        BY <4>1, <2>1, WhereIs
      <4>3. ~(d.where[a][1] = s /\ d.where[a][2] = i)
        BY <4>2, <1>6, CacheFacts
      <4> QED BY <4>1, <4>2, <4>3, <1>5, <1>8 DEF SlotSet
    <3> QED BY <3>1, <3>2
  <2>2. ASSUME NEW t \in Segments, NEW j \in Slots, e.slot[t][j] # Nil
        PROVE  e.where[e.slot[t][j]] = <<t, j>>
    <3>1. CASE t = s /\ j = i
      BY <1>8, <1>12, <3>1 DEF SlotSet
    <3>2. CASE ~(t = s /\ j = i)
      <4>1. e.slot[t][j] = d.slot[t][j]
        BY <1>8, <3>2 DEF SlotSet
      <4>2. d.where[d.slot[t][j]] = <<t, j>> /\ d.slot[t][j] \in Blocks /\ <<t, j>> # Nil
        <5>1. Indexed(d) /\ d.slot \in [Segments -> [Slots -> Blocks \cup {Nil}]]
          BY DEF Sound, CacheTypes
        <5>2. d.slot[t][j] # Nil /\ <<t, j>> \in Segments \X Slots
          BY <2>2, <4>1
        <5>3. d.where[d.slot[t][j]] = <<t, j>>
          BY <5>1, <5>2 DEF Indexed
        <5>4. d.slot[t][j] \in Blocks
          BY <5>1, <5>2
        <5> QED BY <5>2, <5>3, <5>4, CacheFacts
      <4>3. d.slot[t][j] # b
        BY <4>2
      <4> QED BY <4>1, <4>2, <4>3, <1>12
    <3> QED BY <3>1, <3>2
  <2> QED BY <2>1, <2>2 DEF Indexed
<1>18. Labelled(e)
  <2>1. e.region = d.region
    BY <1>5
  <2>2. Labelled(d)
    BY DEF Sound
  <2> QED BY <2>1, <2>2, Zenon DEF Labelled
<1>19. Sound(e, F)
  BY <1>10, <1>14, <1>15, <1>16, <1>17, <1>18 DEF Sound
<1>20. Stored(e) = Stored(d) \cup {b}
  <2>1. <<s, i>> # Nil
    BY <1>1, <1>4, CacheFacts
  <2> QED BY <2>1, <1>5, <1>12 DEF Stored
<1> QED BY <1>2, <1>5, <1>8, <1>19, <1>20 DEF e

(* migrate_block, out of a segment in flight, once there is room.          *)
LEMMA MoveBlockIsSound ==
  ASSUME NEW d, NEW G, Sound(d, G), NEW s \in G, NEW i \in Slots, d.slot[s][i] # Nil,
         NEW r \in Regions, d.ok, d.active[r] # Nil, d.fill[d.active[r]] < SegBlocks
  PROVE  LET e == MoveBlock(d, s, i, r)
         IN /\ Sound(e, G) /\ Stored(d) \subseteq Stored(e)
            /\ e.active = d.active /\ e.region = d.region /\ e.ok = d.ok
            /\ \A t \in G \ {s} : e.slot[t] = d.slot[t]
<1> DEFINE a == d.active[r]
           b == d.slot[s][i]
           j == d.fill[a] + 1
           P == PlaceBlock(d, a, b)
           e == Vacate(P, s, i)
           m == Invalidate(d, b)
           p == PlaceBlock(m, a, b)
<1>1. /\ a \in Segments /\ s \in Segments /\ a # s /\ a # Nil /\ a \notin G
      /\ d.fill[a] < SegBlocks /\ a = d.active[r]
  BY CacheFacts DEF Sound, CacheTypes, Homes, Home
<1>2. /\ b \in Blocks /\ d.where[b] = <<s, i>> /\ d.where[b] # Nil
      /\ d.where[b][1] = s /\ d.where[b][2] = i
  <2>1. /\ d.slot \in [Segments -> [Slots -> Blocks \cup {Nil}]] /\ Indexed(d)
        /\ <<s, i>> # Nil
    BY <1>1, CacheFacts DEF Sound, CacheTypes
  <2>2. d.where[b] = <<s, i>>
    BY <2>1, <1>1 DEF Indexed
  <2> QED BY <2>1, <2>2, <1>1
<1>3. j \in Slots
  <2>1. d.fill[a] \in 0 .. SegBlocks /\ SegBlocks \in Nat
    BY <1>1, CacheFacts DEF Sound, CacheTypes
  <2> HIDE DEF a
  <2> QED BY <2>1, <1>1 DEF Slots
<1>4. DOMAIN d = CacheFields
  BY DEF Sound, CacheTypes
<1>5. /\ DOMAIN P = CacheFields /\ P.drive = d.drive
      /\ P.slot = [d.slot EXCEPT ![a] = [@ EXCEPT ![j] = b]]
      /\ P.fill = Put(d.fill, a, j) /\ P.valid = [d.valid EXCEPT ![a] = @ + 1]
      /\ P.where = [d.where EXCEPT ![b] = <<a, j>>]
      /\ P.count = [d.count EXCEPT ![d.region[a]] = @ + 1]
      /\ P.active = d.active /\ P.region = d.region
      /\ P.free = d.free /\ P.fifo = d.fifo /\ P.ok = d.ok
  <2> HIDE DEF a, b
  <2> QED BY <1>4 DEF PlaceBlock, CacheFields, Put
<1>6. /\ DOMAIN m = CacheFields /\ m.drive = d.drive
      /\ m.slot = [d.slot EXCEPT ![s] = [@ EXCEPT ![i] = Nil]]
      /\ m.fill = d.fill /\ m.valid = [d.valid EXCEPT ![s] = @ - 1]
      /\ m.where = [d.where EXCEPT ![b] = Nil]
      /\ m.count = [d.count EXCEPT ![d.region[s]] = @ - 1]
      /\ m.active = d.active /\ m.region = d.region
      /\ m.free = d.free /\ m.fifo = d.fifo /\ m.ok = d.ok
  <2> HIDE DEF a, b
  <2> QED BY <1>2, <1>4 DEF Invalidate, Vacate, CacheFields
<1>7. /\ Sound(m, G) /\ m.where[b] = Nil /\ b \notin m.drive
      /\ Stored(d) \subseteq Stored(m) \cup {b}
      /\ \A t \in Segments : t # s => m.slot[t] = d.slot[t]
  <2> HIDE DEF a, b
  <2> QED BY <1>2, InvalidateIsSound
<1>8. /\ Sound(p, G) /\ Stored(p) = Stored(m) \cup {b}
      /\ p.active = m.active /\ p.region = m.region /\ p.ok = m.ok
      /\ \A t \in Segments : t # a => p.slot[t] = m.slot[t]
  <2> HIDE DEF a, b, m
  <2>1. /\ a = m.active[r] /\ a # Nil /\ m.fill[a] < SegBlocks /\ m.where[b] = Nil
        /\ b \notin m.drive /\ b \in Blocks /\ Sound(m, G)
    BY <1>1, <1>2, <1>6, <1>7
  <2> QED BY <2>1, PlaceIsSound
<1>9. /\ DOMAIN p = CacheFields /\ p.drive = m.drive
      /\ p.slot = [m.slot EXCEPT ![a] = [@ EXCEPT ![j] = b]]
      /\ p.fill = Put(m.fill, a, j) /\ p.valid = [m.valid EXCEPT ![a] = @ + 1]
      /\ p.where = [m.where EXCEPT ![b] = <<a, j>>]
      /\ p.count = [m.count EXCEPT ![m.region[a]] = @ + 1]
      /\ p.active = m.active /\ p.region = m.region
      /\ p.free = m.free /\ p.fifo = m.fifo /\ p.ok = m.ok
  <2> HIDE DEF a, b, m
  <2> QED BY <1>6 DEF PlaceBlock, CacheFields, Put
<1>10. /\ DOMAIN e = CacheFields /\ e.drive = P.drive
       /\ e.slot = [P.slot EXCEPT ![s] = [@ EXCEPT ![i] = Nil]]
       /\ e.fill = P.fill /\ e.valid = [P.valid EXCEPT ![s] = @ - 1] /\ e.where = P.where
       /\ e.count = [P.count EXCEPT ![P.region[s]] = @ - 1]
       /\ e.active = P.active /\ e.region = P.region
       /\ e.free = P.free /\ e.fifo = P.fifo /\ e.ok = P.ok
  <2> HIDE DEF a, b, P
  <2> QED BY <1>5 DEF Vacate, CacheFields
<1>11. e = MoveBlock(d, s, i, r)
  BY DEF MoveBlock
<1> HIDE DEF a, b, j, P, e, m, p
<1>12. e.slot = p.slot
  <2>1. d.slot \in [Segments -> [Slots -> Blocks \cup {Nil}]]
    BY DEF Sound, CacheTypes
  <2>2. /\ P.slot \in [Segments -> [Slots -> Blocks \cup {Nil}]]
        /\ \A t \in Segments, k \in Slots :
             P.slot[t][k] = IF t = a /\ k = j THEN b ELSE d.slot[t][k]
    <3> DEFINE L == d.slot
               M == P.slot
    <3>1. L \in [Segments -> [Slots -> Blocks \cup {Nil}]] /\ M = [L EXCEPT ![a] = [@ EXCEPT ![j] = b]]
      BY <1>5, <2>1
    <3> HIDE DEF L, M
    <3>2. /\ M \in [Segments -> [Slots -> Blocks \cup {Nil}]]
          /\ \A t \in Segments, k \in Slots : M[t][k] = IF t = a /\ k = j THEN b ELSE L[t][k]
      BY <3>1, <1>1, <1>2, <1>3, UpdateSlot
    <3> QED BY <3>2 DEF L, M
  <2>3. /\ m.slot \in [Segments -> [Slots -> Blocks \cup {Nil}]]
        /\ \A t \in Segments, k \in Slots :
             m.slot[t][k] = IF t = s /\ k = i THEN Nil ELSE d.slot[t][k]
    <3> DEFINE L == d.slot
               M == m.slot
    <3>1. L \in [Segments -> [Slots -> Blocks \cup {Nil}]] /\ M = [L EXCEPT ![s] = [@ EXCEPT ![i] = Nil]]
      BY <1>6, <2>1
    <3> HIDE DEF L, M
    <3>2. /\ M \in [Segments -> [Slots -> Blocks \cup {Nil}]]
          /\ \A t \in Segments, k \in Slots : M[t][k] = IF t = s /\ k = i THEN Nil ELSE L[t][k]
      BY <3>1, <1>1, UpdateSlot
    <3> QED BY <3>2 DEF L, M
  <2>4. /\ e.slot \in [Segments -> [Slots -> Blocks \cup {Nil}]]
        /\ \A t \in Segments, k \in Slots :
             e.slot[t][k] = IF t = s /\ k = i THEN Nil ELSE P.slot[t][k]
    <3> DEFINE L == P.slot
               M == e.slot
    <3>1. L \in [Segments -> [Slots -> Blocks \cup {Nil}]] /\ M = [L EXCEPT ![s] = [@ EXCEPT ![i] = Nil]]
      BY <1>10, <2>2
    <3> HIDE DEF L, M
    <3>2. /\ M \in [Segments -> [Slots -> Blocks \cup {Nil}]]
          /\ \A t \in Segments, k \in Slots : M[t][k] = IF t = s /\ k = i THEN Nil ELSE L[t][k]
      BY <3>1, <1>1, UpdateSlot
    <3> QED BY <3>2 DEF L, M
  <2>5. /\ p.slot \in [Segments -> [Slots -> Blocks \cup {Nil}]]
        /\ \A t \in Segments, k \in Slots :
             p.slot[t][k] = IF t = a /\ k = j THEN b ELSE m.slot[t][k]
    <3> DEFINE L == m.slot
               M == p.slot
    <3>1. L \in [Segments -> [Slots -> Blocks \cup {Nil}]] /\ M = [L EXCEPT ![a] = [@ EXCEPT ![j] = b]]
      BY <1>9, <2>3
    <3> HIDE DEF L, M
    <3>2. /\ M \in [Segments -> [Slots -> Blocks \cup {Nil}]]
          /\ \A t \in Segments, k \in Slots : M[t][k] = IF t = a /\ k = j THEN b ELSE L[t][k]
      BY <3>1, <1>1, <1>2, <1>3, UpdateSlot
    <3> QED BY <3>2 DEF L, M
  <2>6. ASSUME NEW t \in Segments PROVE e.slot[t] = p.slot[t]
    <3>1. ASSUME NEW k \in Slots PROVE e.slot[t][k] = p.slot[t][k]
      <4>1. /\ e.slot[t][k] = IF t = s /\ k = i THEN Nil ELSE P.slot[t][k]
            /\ p.slot[t][k] = IF t = a /\ k = j THEN b ELSE m.slot[t][k]
        BY <2>4, <2>5
      <4> QED BY <1>1, <2>2, <2>3, <4>1
    <3>2. /\ e.slot[t] \in [Slots -> Blocks \cup {Nil}]
          /\ p.slot[t] \in [Slots -> Blocks \cup {Nil}]
      BY <2>4, <2>5
    <3> QED BY <3>1, <3>2
  <2> QED BY <2>4, <2>5, <2>6
<1>13. e.valid = p.valid
  <2>1. d.valid \in [Segments -> Nat]
    BY DEF Sound, CacheTypes
  <2>2. /\ e.valid = [[d.valid EXCEPT ![a] = @ + 1] EXCEPT ![s] = @ - 1]
        /\ p.valid = [[d.valid EXCEPT ![s] = @ - 1] EXCEPT ![a] = @ + 1]
    BY <1>5, <1>6, <1>9, <1>10
  <2> QED BY <2>1, <2>2, <1>1
<1>14. e.count = p.count
  <2> DEFINE x == d.region[a]
             y == d.region[s]
             n == d.count
  <2>1. n \in [Regions -> Int] /\ x \in Regions /\ y \in Regions
    BY <1>1 DEF Sound, CacheTypes
  <2>2. /\ e.count = [[n EXCEPT ![x] = @ + 1] EXCEPT ![y] = @ - 1]
        /\ p.count = [[n EXCEPT ![y] = @ - 1] EXCEPT ![x] = @ + 1]
    BY <1>5, <1>6, <1>9, <1>10
  <2> HIDE DEF x, y, n, Regions
  <2>3. CASE x = y
    <3>1. n[x] \in Int /\ (n[x] + 1) - 1 = n[x] /\ (n[x] - 1) + 1 = n[x]
      BY <2>1
    <3> QED BY <2>1, <2>2, <2>3, <3>1
  <2>4. CASE x # y
    <3>1. e.count \in [Regions -> Int] /\ p.count \in [Regions -> Int]
      BY <2>1, <2>2
    <3>2. ASSUME NEW q \in Regions PROVE e.count[q] = p.count[q]
      BY <2>1, <2>2, <2>4
    <3> QED BY <3>1, <3>2
  <2> QED BY <2>3, <2>4
<1>15. e.where = p.where
  <2>1. /\ e.where = [d.where EXCEPT ![b] = <<a, j>>]
        /\ p.where = [[d.where EXCEPT ![b] = Nil] EXCEPT ![b] = <<a, j>>]
    BY <1>5, <1>6, <1>9, <1>10
  <2> QED BY <2>1
<1>16. Alike(e, p)
  BY <1>5, <1>6, <1>9, <1>10, <1>12, <1>13, <1>14, <1>15 DEF Alike, Still
<1>17. Sound(e, G) /\ Stored(e) = Stored(p)
  BY <1>8, <1>16, AlikeIsSound
<1>18. \A t \in G \ {s} : e.slot[t] = d.slot[t]
  <2>1. \A t \in G : t \in Segments /\ t # a
    BY <1>1 DEF Sound, Homes
  <2> QED BY <2>1, <1>7, <1>8, <1>12
<1>19. e.active = d.active /\ e.region = d.region /\ e.ok = d.ok
  BY <1>5, <1>10
<1>20. Stored(d) \subseteq Stored(e)
  BY <1>7, <1>8, <1>17
<1> QED BY <1>11, <1>17, <1>18, <1>19, <1>20

(* The blocks of a segment.                                                *)
Holds(d, s) == {p \in Segments \X Slots : p[1] = s /\ d.slot[s][p[2]] # Nil}

(* The blocks of one segment are as many as its count says, and are a part *)
(* of its region's.                                                        *)
LEMMA HeldCount ==
  ASSUME NEW d, NEW F, Sound(d, F), NEW s \in Segments
  PROVE  IsFiniteSet(Holds(d, s)) /\ Cardinality(Holds(d, s)) = d.valid[s]
<1>1. Holds(d, s) = {s} \X Filled(d, s)
  BY DEF Holds, Filled
<1>2. /\ IsFiniteSet({s}) /\ Cardinality({s}) = 1
      /\ IsFiniteSet(Filled(d, s)) /\ Cardinality(Filled(d, s)) \in Nat
  BY FS_Singleton, PagesAreFinite
<1>3. /\ IsFiniteSet({s} \X Filled(d, s))
      /\ Cardinality({s} \X Filled(d, s)) = Cardinality({s}) * Cardinality(Filled(d, s))
  BY <1>2, FS_Product
<1>4. d.valid[s] = Cardinality(Filled(d, s))
  BY NoneValid
<1>5. 1 * Cardinality(Filled(d, s)) = Cardinality(Filled(d, s))
  BY <1>2
<1> QED BY <1>1, <1>2, <1>3, <1>4, <1>5

LEMMA HeldIsCounted ==
  ASSUME NEW d, NEW F, Sound(d, F), NEW s \in Segments
  PROVE  /\ Holds(d, s) \subseteq Pages(d, d.region[s])
         /\ \A r : r # d.region[s] => Holds(d, s) \cap Pages(d, r) = {}
         /\ \A r : Cardinality(Pages(d, r) \ Holds(d, s)) =
                     Cardinality(Pages(d, r)) - (IF r = d.region[s] THEN d.valid[s] ELSE 0)
         /\ \A r : r # d.region[s] =>
              Cardinality(Pages(d, r) \cup Holds(d, s)) = Cardinality(Pages(d, r)) + d.valid[s]
<1>1. /\ Holds(d, s) \subseteq Pages(d, d.region[s])
      /\ \A r : r # d.region[s] => Holds(d, s) \cap Pages(d, r) = {}
  BY DEF Holds, Pages
<1>2. /\ IsFiniteSet(Holds(d, s)) /\ Cardinality(Holds(d, s)) = d.valid[s] /\ d.valid[s] \in Nat
      /\ \A r : IsFiniteSet(Pages(d, r)) /\ Cardinality(Pages(d, r)) \in Nat
  BY HeldCount, PagesAreFinite DEF Sound, CacheTypes
<1>3. ASSUME NEW r
      PROVE  Cardinality(Pages(d, r) \ Holds(d, s)) =
               Cardinality(Pages(d, r)) - (IF r = d.region[s] THEN d.valid[s] ELSE 0)
  <2>1. CASE r = d.region[s]
    <3>1. Cardinality(Pages(d, r) \ Holds(d, s)) =
            Cardinality(Pages(d, r)) - Cardinality(Pages(d, r) \cap Holds(d, s))
      BY <1>2, FS_Difference
    <3>2. Pages(d, r) \cap Holds(d, s) = Holds(d, s)
      BY <1>1, <2>1
    <3> QED BY <1>2, <2>1, <3>1, <3>2
  <2>2. CASE r # d.region[s]
    <3>1. Pages(d, r) \ Holds(d, s) = Pages(d, r)
      BY <1>1, <2>2
    <3>2. Cardinality(Pages(d, r)) \in Nat
      BY <1>2
    <3> DEFINE n == Cardinality(Pages(d, r))
    <3>3. n = n - 0
      <4> HIDE DEF n
      <4> QED BY <3>2 DEF n
    <3> QED BY <2>2, <3>1, <3>3, Zenon
  <2> QED BY <2>1, <2>2
<1>4. ASSUME NEW r, r # d.region[s]
      PROVE  Cardinality(Pages(d, r) \cup Holds(d, s)) = Cardinality(Pages(d, r)) + d.valid[s]
  <2>1. Cardinality(Pages(d, r) \cup Holds(d, s)) =
          Cardinality(Pages(d, r)) + Cardinality(Holds(d, s)) - Cardinality(Pages(d, r) \cap Holds(d, s))
    BY <1>2, FS_Union
  <2>2. Pages(d, r) \cap Holds(d, s) = {}
    BY <1>1, <1>4
  <2>3. Cardinality({}) = 0
    BY FS_EmptySet
  <2> DEFINE A == Cardinality(Pages(d, r))
             B == d.valid[s]
             C == Cardinality(Pages(d, r) \cap Holds(d, s))
  <2>4. A \in Nat /\ B \in Nat /\ C = 0 /\ Cardinality(Pages(d, r) \cup Holds(d, s)) = A + B - C
    BY <1>2, <2>1, <2>2, <2>3
  <2>5. Cardinality(Pages(d, r) \cup Holds(d, s)) = A + B
    <3> HIDE DEF A, B, C
    <3> QED BY <2>4
  <2> QED BY <2>5
<1> QED BY <1>1, <1>3, <1>4

(* drop_segment: what it drops is below.                                   *)
LEMMA DropIsSound ==
  ASSUME NEW d, NEW G, Sound(d, G), NEW s \in G
  PROVE  LET e == DropSegment(d, s)
         IN /\ Sound(e, G) /\ Stored(d) \subseteq Stored(e) /\ e.valid[s] = 0
            /\ e.active = d.active /\ e.region = d.region /\ e.ok = d.ok
            /\ \A t \in G \ {s} : e.slot[t] = d.slot[t]
<1> DEFINE e == DropSegment(d, s)
           nothing == [i \in Slots |-> Nil]
           gone == {d.slot[s][i] : i \in Slots} \ {Nil}
<1>1. s \in Segments /\ G \subseteq Segments
  BY DEF Sound, Homes
<1>2. /\ DOMAIN e = CacheFields /\ e.slot = [d.slot EXCEPT ![s] = nothing]
      /\ e.valid = [d.valid EXCEPT ![s] = 0] /\ e.fill = [d.fill EXCEPT ![s] = 0]
      /\ e.where = [b \in Blocks |-> IF b \in gone THEN Nil ELSE d.where[b]]
      /\ e.count = [d.count EXCEPT ![d.region[s]] = @ - d.valid[s]]
      /\ e.drive = d.drive \cup gone /\ e.region = d.region /\ e.active = d.active
      /\ e.free = d.free /\ e.fifo = d.fifo /\ e.ok = d.ok
  <2>1. DOMAIN d = CacheFields
    BY DEF Sound, CacheTypes
  <2> QED BY <2>1 DEF DropSegment, ResetSegment, CacheFields
<1>3. /\ d.slot \in [Segments -> [Slots -> Blocks \cup {Nil}]] /\ Indexed(d)
      /\ d.where \in [Blocks -> (Segments \X Slots) \cup {Nil}]
      /\ \A i \in Slots : d.slot[s][i] \in Blocks \cup {Nil}
  BY <1>1 DEF Sound, CacheTypes
<1>4. /\ gone \subseteq Blocks
      /\ \A b : b \in gone <=> b # Nil /\ \E i \in Slots : d.slot[s][i] = b
  BY <1>3
<1>5. nothing \in [Slots -> Blocks \cup {Nil}] /\ \A i \in Slots : nothing[i] = Nil
  OBVIOUS
<1> HIDE DEF e, nothing, gone
<1>6. \A b \in gone : \E i \in Slots : d.where[b] = <<s, i>> /\ d.slot[s][i] = b
  BY <1>1, <1>3, <1>4 DEF Indexed
<1>7. /\ e.slot \in [Segments -> [Slots -> Blocks \cup {Nil}]]
      /\ \A t \in Segments : t # s => e.slot[t] = d.slot[t]
      /\ \A i \in Slots : e.slot[s][i] = Nil
  BY <1>1, <1>2, <1>3, <1>5
<1>8. /\ e.where \in [Blocks -> (Segments \X Slots) \cup {Nil}]
      /\ \A b \in Blocks : e.where[b] = IF b \in gone THEN Nil ELSE d.where[b]
  BY <1>2, <1>3
<1>9. /\ e.fill \in [Segments -> 0 .. SegBlocks] /\ e.fill[s] = 0
      /\ \A t \in Segments : t # s => e.fill[t] = d.fill[t]
  BY <1>1, <1>2, CacheFacts DEF Sound, CacheTypes
<1>10. /\ e.valid \in [Segments -> Nat] /\ e.valid[s] = 0
       /\ \A t \in Segments : t # s => e.valid[t] = d.valid[t]
  BY <1>1, <1>2 DEF Sound, CacheTypes
<1>11. /\ e.count \in [Regions -> Int] /\ d.valid[s] \in Nat
       /\ \A r \in Regions : e.count[r] = d.count[r] - (IF r = d.region[s] THEN d.valid[s] ELSE 0)
  <2>1. /\ d.count \in [Regions -> Int] /\ d.valid[s] \in Nat /\ d.region[s] \in Regions
    BY <1>1 DEF Sound, CacheTypes
  <2> HIDE DEF Regions
  <2> QED BY <2>1, <1>2
<1>12. CacheTypes(e)
  BY <1>2, <1>4, <1>7, <1>8, <1>9, <1>10, <1>11 DEF Sound, CacheTypes
<1>13. Homes(e, G)
  BY <1>2 DEF Sound, Homes, Home
<1>14. Room(e)
  <2>1. \A t \in Segments, j \in Slots : d.slot[t][j] = Nil => e.slot[t][j] = Nil
    BY <1>7
  <2>2. ASSUME NEW t \in Segments, NEW j \in Slots, j > e.fill[t] PROVE e.slot[t][j] = Nil
    BY <1>7, <1>9, <2>1, <2>2 DEF Sound, Room
  <2>3. ASSUME NEW q \in Regions, NEW t \in Range(e.free[q]), NEW j \in Slots
        PROVE  e.slot[t][j] = Nil
    <3>1. t \in Range(d.free[q]) /\ t \in Segments /\ Blank(d, t)
      BY <1>2, FreeIsBlank
    <3> QED BY <2>1, <3>1 DEF Blank
  <2> QED BY <2>2, <2>3 DEF Room
<1>15. Indexed(e)
  <2>1. ASSUME NEW a \in Blocks, e.where[a] # Nil
        PROVE  a \notin e.drive /\ e.slot[e.where[a][1]][e.where[a][2]] = a
    <3>1. a \notin gone /\ e.where[a] = d.where[a]
      BY <1>8, <2>1
    <3>2. /\ d.where[a][1] \in Segments /\ d.where[a][2] \in Slots
          /\ d.slot[d.where[a][1]][d.where[a][2]] = a /\ a \notin d.drive
      BY <2>1, <3>1, WhereIs
    <3>3. d.where[a][1] # s
      BY <1>4, <3>1, <3>2, CacheFacts
    <3> QED BY <1>2, <1>7, <3>1, <3>2, <3>3
  <2>2. ASSUME NEW t \in Segments, NEW j \in Slots, e.slot[t][j] # Nil
        PROVE  e.where[e.slot[t][j]] = <<t, j>>
    <3> DEFINE a == d.slot[t][j]
    <3>1. t # s /\ e.slot[t][j] = a /\ a # Nil
      BY <1>7, <2>2
    <3>2. a \in Blocks /\ d.where[a] = <<t, j>>
      <4>1. a \in Blocks \cup {Nil}
        BY <1>3
      <4> QED BY <3>1, <4>1, <1>3 DEF Indexed
    <3> HIDE DEF a
    <3>3. a \notin gone
      BY <1>6, <3>1, <3>2
    <3> QED BY <1>8, <3>1, <3>2, <3>3
  <2> QED BY <2>1, <2>2 DEF Indexed
<1>16. Counted(e)
  <2>1. ASSUME NEW t \in Segments PROVE e.valid[t] = Cardinality(Filled(e, t))
    <3>1. CASE t = s
      <4>1. Filled(e, s) = {}
        BY <1>7 DEF Filled
      <4> QED BY <3>1, <4>1, <1>10, FS_EmptySet
    <3>2. CASE t # s
      <4>1. Filled(e, t) = Filled(d, t)
        BY <1>7, <3>2 DEF Filled
      <4> QED BY <3>2, <4>1, <1>10, NoneValid
    <3> QED BY <3>1, <3>2
  <2>2. ASSUME NEW r \in Regions PROVE e.count[r] = Cardinality(Pages(e, r))
    <3>1. Pages(e, r) = Pages(d, r) \ Holds(d, s)
      <4>1. ASSUME NEW p \in Segments \X Slots
            PROVE  p \in Pages(e, r) <=> p \in Pages(d, r) /\ p \notin Holds(d, s)
        <5>1. p[1] \in Segments /\ p[2] \in Slots
          OBVIOUS
        <5> QED BY <5>1, <1>2, <1>7 DEF Pages, Holds
      <4>2. Pages(e, r) \subseteq Segments \X Slots /\ Pages(d, r) \subseteq Segments \X Slots
        BY DEF Pages
      <4> QED BY <4>1, <4>2
    <3>2. Cardinality(Pages(d, r) \ Holds(d, s)) =
            Cardinality(Pages(d, r)) - (IF r = d.region[s] THEN d.valid[s] ELSE 0)
      BY <1>1, HeldIsCounted
    <3>3. d.count[r] = Cardinality(Pages(d, r))
      BY DEF Sound, Counted
    <3> QED BY <1>11, <3>1, <3>2, <3>3
  <2> QED BY <2>1, <2>2 DEF Counted
<1>17. Labelled(e)
  BY <1>2 DEF Sound, Labelled
<1>18. Sound(e, G)
  BY <1>12, <1>13, <1>14, <1>15, <1>16, <1>17 DEF Sound
<1>19. Stored(d) \subseteq Stored(e)
  BY <1>2, <1>8 DEF Stored
<1>20. \A t \in G \ {s} : e.slot[t] = d.slot[t]
  BY <1>1, <1>7
<1> QED BY <1>2, <1>10, <1>18, <1>19, <1>20 DEF e

(* A full segment and an empty one change regions.                         *)
LEMMA RelabelIsSound ==
  ASSUME NEW d, NEW G, Sound(d, G), NEW s \in G, NEW t \in G, NEW from \in Regions, NEW to \in Regions,
         from # to, d.region[s] = from, d.region[t] = to, d.valid[t] = 0,
         NEW e, DOMAIN e = CacheFields, e.slot = d.slot, e.fill = d.fill, e.valid = d.valid,
         e.where = d.where, e.free = d.free, e.fifo = d.fifo, e.active = d.active,
         e.drive = d.drive, e.ok \in BOOLEAN,
         e.region \in [Segments -> Regions], e.region[s] = to, e.region[t] = from,
         \A u \in Segments : u # s /\ u # t => e.region[u] = d.region[u],
         e.count \in [Regions -> Int],
         \A r \in Regions : e.count[r] = IF r = from THEN d.count[r] - d.valid[s]
                                         ELSE IF r = to THEN d.count[r] + d.valid[s]
                                         ELSE d.count[r]
  PROVE  Sound(e, G) /\ Stored(e) = Stored(d)
<1>1. s \in Segments /\ t \in Segments /\ G \subseteq Segments /\ s # t
  BY DEF Sound, Homes
<1>2. CacheTypes(e)
  BY DEF Sound, CacheTypes
<1>3. Homes(e, G)
  <2>1. ASSUME NEW u \in Segments, NEW r \in Regions PROVE Home(e, G, u, r)
    <3>1. Home(d, G, u, r)
      BY DEF Sound, Homes
    <3>2. CASE u \in G
      BY <3>1, <3>2 DEF Home
    <3>3. CASE u \notin G
      <4>1. e.region[u] = d.region[u]
        BY <3>3
      <4> QED BY <3>1, <4>1 DEF Home
    <3> QED BY <3>2, <3>3
  <2> QED BY <2>1 DEF Sound, Homes
<1>4. Room(e)
  BY DEF Sound, Room
<1>5. Indexed(e) /\ Stored(e) = Stored(d)
  <2>1. Indexed(d)
    BY DEF Sound
  <2> QED BY <2>1 DEF Indexed, Stored
<1>6. Counted(e)
  <2>1. ASSUME NEW u \in Segments PROVE e.valid[u] = Cardinality(Filled(e, u))
    <3>1. Filled(e, u) = Filled(d, u)
      BY DEF Filled
    <3> QED BY <3>1, NoneValid
  <2>2. \A i \in Slots : d.slot[t][i] = Nil
    BY <1>1, NoneValid DEF Blank
  <2>3. ASSUME NEW r \in Regions PROVE e.count[r] = Cardinality(Pages(e, r))
    <3>1. d.count[r] = Cardinality(Pages(d, r))
      BY DEF Sound, Counted
    <3>2. /\ Pages(e, r) \subseteq Segments \X Slots /\ Pages(d, r) \subseteq Segments \X Slots
          /\ Holds(d, s) \subseteq Segments \X Slots
      BY DEF Pages, Holds
    <3>3. ASSUME NEW p \in Segments \X Slots
          PROVE  p \in Pages(e, r) <=> IF p[1] = s THEN r = to /\ p \in Holds(d, s)
                                       ELSE p \in Pages(d, r)
      <4>1. p[1] \in Segments /\ p[2] \in Slots
        OBVIOUS
      <4>2. CASE p[1] = s
        BY <4>1, <4>2 DEF Pages, Holds
      <4>3. CASE p[1] = t
        BY <1>1, <2>2, <4>1, <4>3 DEF Pages, Holds
      <4>4. CASE p[1] # s /\ p[1] # t
        BY <4>1, <4>4 DEF Pages, Holds
      <4> QED BY <4>2, <4>3, <4>4
    <3>4. ASSUME NEW p \in Segments \X Slots
          PROVE  /\ p \in Holds(d, s) => p[1] = s
                 /\ p[1] = s => (p \in Pages(d, r) <=> r = from /\ p \in Holds(d, s))
      BY DEF Pages, Holds
    <3>5. CASE r = from
      <4>1. Pages(e, r) = Pages(d, r) \ Holds(d, s)
        BY <3>2, <3>3, <3>4, <3>5
      <4> QED BY <1>1, <3>1, <3>5, <4>1, HeldIsCounted
    <3>6. CASE r = to
      <4>1. Pages(e, r) = Pages(d, r) \cup Holds(d, s)
        BY <3>2, <3>3, <3>4, <3>6
      <4> QED BY <1>1, <3>1, <3>6, <4>1, HeldIsCounted
    <3>7. CASE r # from /\ r # to
      <4>1. Pages(e, r) = Pages(d, r)
        BY <3>2, <3>3, <3>4, <3>7
      <4> QED BY <3>1, <3>7, <4>1
    <3> QED BY <3>5, <3>6, <3>7
  <2> QED BY <2>1, <2>3 DEF Counted
<1>7. Labelled(e)
  <2> DEFINE Of(x, r) == {u \in Segments : x.region[u] = r}
  <2>1. ASSUME NEW r \in Regions PROVE Cardinality(Of(e, r)) = Share[r]
    <3>1. Cardinality(Of(d, r)) = Share[r] /\ IsFiniteSet(Of(d, r)) /\ Cardinality(Of(d, r)) \in Nat
      <4>1. Of(d, r) \subseteq Segments
        OBVIOUS
      <4>2. IsFiniteSet(Of(d, r))
        BY <4>1, CacheFacts, FS_Subset
      <4> QED BY <4>2, FS_CardinalityType DEF Sound, Labelled
    <3>2. CASE r = from
      <4>1. Of(e, r) = (Of(d, r) \ {s}) \cup {t} /\ s \in Of(d, r) /\ t \notin Of(d, r) \ {s}
        BY <1>1, <3>2
      <4> HIDE DEF Of
      <4>2. IsFiniteSet(Of(d, r) \ {s}) /\ Cardinality(Of(d, r) \ {s}) = Cardinality(Of(d, r)) - 1
        BY <3>1, <4>1, FS_RemoveElement
      <4>3. Cardinality(Of(e, r)) = Cardinality(Of(d, r) \ {s}) + 1
        BY ZenonT(40), <4>1, <4>2, FS_AddElement
      <4> QED BY <3>1, <4>2, <4>3
    <3>3. CASE r = to
      <4>1. Of(e, r) = (Of(d, r) \ {t}) \cup {s} /\ t \in Of(d, r) /\ s \notin Of(d, r) \ {t}
        BY <1>1, <3>3
      <4> HIDE DEF Of
      <4>2. IsFiniteSet(Of(d, r) \ {t}) /\ Cardinality(Of(d, r) \ {t}) = Cardinality(Of(d, r)) - 1
        BY <3>1, <4>1, FS_RemoveElement
      <4>3. Cardinality(Of(e, r)) = Cardinality(Of(d, r) \ {t}) + 1
        BY ZenonT(40), <4>1, <4>2, FS_AddElement
      <4> QED BY <3>1, <4>2, <4>3
    <3>4. CASE r # from /\ r # to
      <4>1. Of(e, r) = Of(d, r)
        BY <1>1, <3>4
      <4> QED BY <3>1, <4>1
    <3> QED BY <3>2, <3>3, <3>4
  <2> QED BY <2>1 DEF Labelled
<1> QED BY <1>2, <1>3, <1>4, <1>5, <1>6, <1>7 DEF Sound

(* What move_segment_region does to the record.                            *)
LEMMA MoveBetween ==
  ASSUME NEW d, DOMAIN d = CacheFields, d.count \in [Regions -> Int],
         d.region \in [Segments -> Regions], d.valid \in [Segments -> Nat],
         NEW s \in Segments, NEW r \in Regions, r # d.region[s]
  PROVE  LET e == MoveSegment(d, s, r)
         IN /\ DOMAIN e = CacheFields /\ e.slot = d.slot /\ e.fill = d.fill /\ e.valid = d.valid
            /\ e.where = d.where /\ e.free = d.free /\ e.fifo = d.fifo /\ e.active = d.active
            /\ e.drive = d.drive /\ e.ok = d.ok /\ e.region = Put(d.region, s, r)
            /\ e.region \in [Segments -> Regions] /\ e.count \in [Regions -> Int]
            /\ \A q \in Regions : e.count[q] = IF q = d.region[s] THEN d.count[q] - d.valid[s]
                                               ELSE IF q = r THEN d.count[q] + d.valid[s]
                                               ELSE d.count[q]
<1> DEFINE old == d.region[s]
           n == d.valid[s]
           e == MoveSegment(d, s, r)
<1>1. /\ DOMAIN e = CacheFields /\ e.slot = d.slot /\ e.fill = d.fill /\ e.valid = d.valid
      /\ e.where = d.where /\ e.free = d.free /\ e.fifo = d.fifo /\ e.active = d.active
      /\ e.drive = d.drive /\ e.ok = d.ok /\ e.region = Put(d.region, s, r)
      /\ e.count = [[d.count EXCEPT ![old] = @ - n] EXCEPT ![r] = @ + n]
  BY DEF MoveSegment, CacheFields, Put
<1>2. old \in Regions /\ n \in Nat /\ r # old
  OBVIOUS
<1> HIDE DEF e, old, n, Regions
<1>3. e.region \in [Segments -> Regions]
  BY <1>1 DEF Put
<1>4. /\ e.count \in [Regions -> Int]
      /\ \A q \in Regions : e.count[q] = IF q = old THEN d.count[q] - n
                                         ELSE IF q = r THEN d.count[q] + n
                                         ELSE d.count[q]
  BY <1>1, <1>2
<1> QED BY <1>1, <1>3, <1>4 DEF e, old, n

(* No active segment changed either.                                       *)
Calm(e, d, F) == Keeps(e, d, F) /\ e.active = d.active

(* A wholly valid victim is exchanged for a free segment of the next       *)
(* region.                                                                 *)
LEMMA ExchangeIsSound ==
  ASSUME NEW d, NEW G, Sound(d, G), NEW s \in G, NEW from \in Regions, NEW to \in Regions,
         from # to, d.region[s] = from
  PROVE  LET e == Exchange(d, s, from, to)
         IN IF d.free[to] = <<>> THEN e = Answer(d, FALSE)
            ELSE Sound(e, G \ {s}) /\ Calm(e, d, G \ {s})
<1>1. CASE d.free[to] = <<>>
  BY <1>1 DEF Exchange
<1>2. CASE d.free[to] # <<>>
  <2> DEFINE t == Head(d.free[to])
             taken == [d EXCEPT !.free[to] = Tail(@)]
             blank == ResetSegment(taken, t)
             reset == ResetSegment(d, t)
             lists == [reset EXCEPT !.free[to] = Tail(@), !.free[from] = Append(@, t)]
             stolen == MoveSegment(lists, t, from)
             moved == MoveSegment(stolen, s, to)
             e == Answer([moved EXCEPT !.fifo[to] = Append(@, s)], TRUE)
             label == [blank EXCEPT !.region = moved.region, !.count = moved.count]
             given == [label EXCEPT !.free[from] = Append(@, t)]
             last == [given EXCEPT !.fifo[to] = Append(@, s), !.ok = TRUE]
  <2>1. DOMAIN d = CacheFields /\ d.ok \in BOOLEAN
    BY DEF Sound, CacheTypes
  <2>2. /\ DOMAIN taken = CacheFields /\ Still(taken, d) /\ taken.ok \in BOOLEAN
        /\ taken.active = d.active /\ taken.fifo = d.fifo
        /\ taken.free = Put(d.free, to, Tail(d.free[to]))
    BY <2>1 DEF CacheFields, Still, Put
  <2>3. e = Exchange(d, s, from, to)
    BY <1>2 DEF Exchange, Steal
  <2> HIDE DEF taken
  <2>4. /\ Sound(taken, G \cup {t}) /\ Stored(taken) = Stored(d)
        /\ t \in Segments /\ t \notin G /\ d.region[t] = to /\ Blank(d, t)
    BY SMTT(20), <1>2, <2>2, TakeFree
  <2> HIDE DEF t
  <2>5. Blank(taken, t) /\ s \in Segments /\ G \subseteq Segments
    BY <2>2, <2>4 DEF Still, Blank, Sound, Homes
  <2>6. /\ Sound(blank, G \cup {t}) /\ Stored(blank) = Stored(taken)
        /\ DOMAIN blank = CacheFields /\ blank.slot = taken.slot /\ blank.valid = taken.valid
        /\ blank.fill = [taken.fill EXCEPT ![t] = 0] /\ blank.where = taken.where
        /\ blank.region = taken.region
        /\ blank.count = taken.count /\ blank.drive = taken.drive /\ blank.active = taken.active
        /\ blank.free = taken.free /\ blank.fifo = taken.fifo /\ blank.ok = taken.ok
    BY <2>4, <2>5, ResetIsSound
  <2>7. /\ DOMAIN reset = CacheFields /\ reset.slot = d.slot /\ reset.valid = d.valid
        /\ reset.fill = [d.fill EXCEPT ![t] = 0] /\ reset.where = d.where
        /\ reset.region = d.region
        /\ reset.count = d.count /\ reset.drive = d.drive /\ reset.active = d.active
        /\ reset.free = d.free /\ reset.fifo = d.fifo /\ reset.ok = d.ok
    BY <2>4, ResetIsSound
  <2> HIDE DEF reset, blank
  <2>8. /\ DOMAIN lists = CacheFields /\ lists.slot = d.slot /\ lists.valid = d.valid
        /\ lists.fill = [d.fill EXCEPT ![t] = 0] /\ lists.where = d.where
        /\ lists.region = d.region
        /\ lists.count = d.count /\ lists.drive = d.drive /\ lists.active = d.active
        /\ lists.free = [[d.free EXCEPT ![to] = Tail(@)] EXCEPT ![from] = Append(@, t)]
        /\ lists.fifo = d.fifo /\ lists.ok = d.ok
    BY <2>7 DEF CacheFields
  <2> HIDE DEF lists
  <2>9. /\ d.count \in [Regions -> Int] /\ d.region \in [Segments -> Regions]
        /\ d.valid \in [Segments -> Nat] /\ d.valid[t] = 0 /\ d.valid[s] \in Nat
    BY <2>4, <2>5, NoneValid DEF Sound, CacheTypes
  <2>10. /\ DOMAIN stolen = CacheFields /\ stolen.slot = lists.slot /\ stolen.fill = lists.fill
         /\ stolen.valid = lists.valid
         /\ stolen.where = lists.where /\ stolen.free = lists.free /\ stolen.fifo = lists.fifo
         /\ stolen.active = lists.active
         /\ stolen.drive = lists.drive /\ stolen.ok = lists.ok
         /\ stolen.region = Put(lists.region, t, from)
         /\ stolen.region \in [Segments -> Regions] /\ stolen.count \in [Regions -> Int]
         /\ \A q \in Regions : stolen.count[q] = d.count[q]
    <3>1. /\ lists.count \in [Regions -> Int] /\ lists.region \in [Segments -> Regions]
          /\ lists.valid \in [Segments -> Nat] /\ lists.region[t] = to /\ lists.valid[t] = 0
      BY <2>4, <2>8, <2>9
    <3>5. from # lists.region[t] /\ DOMAIN lists = CacheFields /\ t \in Segments
      BY <2>4, <2>8, <3>1
    <3>2. /\ DOMAIN stolen = CacheFields /\ stolen.slot = lists.slot /\ stolen.fill = lists.fill
          /\ stolen.valid = lists.valid
          /\ stolen.where = lists.where /\ stolen.free = lists.free /\ stolen.fifo = lists.fifo
          /\ stolen.active = lists.active
          /\ stolen.drive = lists.drive /\ stolen.ok = lists.ok
          /\ stolen.region = Put(lists.region, t, from)
          /\ stolen.region \in [Segments -> Regions] /\ stolen.count \in [Regions -> Int]
          /\ \A q \in Regions :
               stolen.count[q] = IF q = lists.region[t] THEN lists.count[q] - lists.valid[t]
                                 ELSE IF q = from THEN lists.count[q] + lists.valid[t]
                                 ELSE lists.count[q]
      BY <3>1, <3>5, MoveBetween
    <3> HIDE DEF stolen
    <3>3. ASSUME NEW q \in Regions PROVE stolen.count[q] = d.count[q]
      <4>1. /\ d.count[q] \in Int /\ d.count[q] - 0 = d.count[q] /\ d.count[q] + 0 = d.count[q]
        BY <2>9
      <4>2. lists.region[t] = to /\ lists.valid[t] = 0 /\ lists.count = d.count
        BY <3>1, <2>8
      <4>3. stolen.count[q] = IF q = lists.region[t] THEN lists.count[q] - lists.valid[t]
                              ELSE IF q = from THEN lists.count[q] + lists.valid[t]
                              ELSE lists.count[q]
        BY <3>2
      <4>4. stolen.count[q] = IF q = to THEN d.count[q] - 0
                              ELSE IF q = from THEN d.count[q] + 0
                              ELSE d.count[q]
        BY Zenon, <4>2, <4>3
      <4> QED BY <4>1, <4>4
    <3> QED BY <3>2, <3>3
  <2> HIDE DEF stolen
  <2>11. /\ stolen.region[s] = from /\ stolen.region[t] = from /\ s # t
         /\ \A u \in Segments : u # t => stolen.region[u] = d.region[u]
         /\ stolen.valid = d.valid
    BY <2>4, <2>5, <2>8, <2>9, <2>10 DEF Put
  <2>12. /\ DOMAIN moved = CacheFields /\ moved.slot = stolen.slot /\ moved.fill = stolen.fill
         /\ moved.valid = stolen.valid
         /\ moved.where = stolen.where /\ moved.free = stolen.free /\ moved.fifo = stolen.fifo
         /\ moved.active = stolen.active
         /\ moved.drive = stolen.drive /\ moved.ok = stolen.ok
         /\ moved.region = Put(stolen.region, s, to)
         /\ moved.region \in [Segments -> Regions] /\ moved.count \in [Regions -> Int]
         /\ \A q \in Regions :
              moved.count[q] = IF q = stolen.region[s] THEN stolen.count[q] - stolen.valid[s]
                               ELSE IF q = to THEN stolen.count[q] + stolen.valid[s]
                               ELSE stolen.count[q]
    BY <2>5, <2>9, <2>10, <2>11, MoveBetween
  <2> HIDE DEF moved
  <2>13. /\ moved.region[s] = to /\ moved.region[t] = from
         /\ \A u \in Segments : u # s /\ u # t => moved.region[u] = d.region[u]
         /\ \A q \in Regions : moved.count[q] = IF q = from THEN d.count[q] - d.valid[s]
                                                ELSE IF q = to THEN d.count[q] + d.valid[s]
                                                ELSE d.count[q]
    <3>1. /\ moved.region[s] = to /\ moved.region[t] = from
          /\ \A u \in Segments : u # s /\ u # t => moved.region[u] = d.region[u]
      BY <2>5, <2>10, <2>11, <2>12 DEF Put
    <3>2. \A q \in Regions : moved.count[q] = IF q = from THEN d.count[q] - d.valid[s]
                                              ELSE IF q = to THEN d.count[q] + d.valid[s]
                                              ELSE d.count[q]
      BY <2>10, <2>11, <2>12
    <3> QED BY <3>1, <3>2
  <2>14. /\ DOMAIN label = CacheFields /\ label.slot = blank.slot /\ label.fill = blank.fill
         /\ label.valid = blank.valid /\ label.where = blank.where /\ label.free = blank.free
         /\ label.fifo = blank.fifo /\ label.active = blank.active /\ label.drive = blank.drive
         /\ label.ok = blank.ok /\ label.region = moved.region /\ label.count = moved.count
    BY <2>6 DEF CacheFields
  <2> HIDE DEF label
  <2>15. /\ blank.slot = d.slot /\ blank.valid = d.valid /\ blank.where = d.where
         /\ blank.region = d.region /\ blank.count = d.count /\ blank.active = d.active
    BY <2>2, <2>6 DEF Still
  <2>16. Sound(label, G \cup {t}) /\ Stored(label) = Stored(blank)
    <3>1. /\ blank.region[s] = from /\ blank.region[t] = to /\ blank.valid[t] = 0
          /\ label.ok \in BOOLEAN
          /\ label.region \in [Segments -> Regions] /\ label.region[s] = to /\ label.region[t] = from
          /\ \A u \in Segments : u # s /\ u # t => label.region[u] = blank.region[u]
          /\ label.count \in [Regions -> Int]
          /\ \A q \in Regions : label.count[q] = IF q = from THEN blank.count[q] - blank.valid[s]
                                                 ELSE IF q = to THEN blank.count[q] + blank.valid[s]
                                                 ELSE blank.count[q]
      BY <2>2, <2>4, <2>6, <2>9, <2>12, <2>13, <2>14, <2>15
    <3>2. s \in G \cup {t} /\ t \in G \cup {t}
      OBVIOUS
    <3> QED BY <3>1, <3>2, <2>6, <2>14, RelabelIsSound
  <2>17. /\ DOMAIN given = CacheFields /\ Still(given, label) /\ given.ok \in BOOLEAN
         /\ given.active = label.active /\ given.fifo = label.fifo
         /\ given.free = Put(label.free, from, Append(label.free[from], t))
    <3>1. label.ok \in BOOLEAN
      BY <2>2, <2>6, <2>14
    <3> QED BY <3>1, <2>14 DEF CacheFields, Still, Put
  <2> HIDE DEF given
  <2>18. label.region[t] = from /\ Blank(label, t) /\ t \in G \cup {t}
    BY <2>4, <2>13, <2>14, <2>15 DEF Blank
  <2>19. Sound(given, (G \cup {t}) \ {t}) /\ Stored(given) = Stored(label)
    BY <2>16, <2>17, <2>18, GiveFree
  <2>20. (G \cup {t}) \ {t} = G
    BY <2>4
  <2>21. /\ DOMAIN last = CacheFields /\ Still(last, given) /\ last.ok = TRUE
         /\ last.active = given.active /\ last.free = given.free
         /\ last.fifo = Put(given.fifo, to, Append(given.fifo[to], s))
    BY <2>17 DEF CacheFields, Still, Put
  <2> HIDE DEF last
  <2>22. given.region[s] = to
    BY <2>13, <2>14, <2>17 DEF Still
  <2>23. Sound(last, G \ {s}) /\ Stored(last) = Stored(given)
    <3>1. Sound(given, G) /\ last.ok \in BOOLEAN
      BY <2>19, <2>20, <2>21
    <3> QED BY <3>1, <2>21, <2>22, GiveFifo
  <2>24. /\ DOMAIN e = CacheFields /\ Still(e, moved) /\ e.active = moved.active /\ e.ok = TRUE
         /\ e.free = moved.free /\ e.fifo = Put(moved.fifo, to, Append(moved.fifo[to], s))
    BY <2>12 DEF Answer, CacheFields, Still, Put
  <2> HIDE DEF e
  <2>25. e.free = last.free
    BY <2>2, <2>6, <2>8, <2>10, <2>12, <2>14, <2>17, <2>21, <2>24 DEF Put
  <2>26. e.fifo = last.fifo
    BY <2>2, <2>6, <2>8, <2>10, <2>12, <2>14, <2>17, <2>21, <2>24
  <2>27. e.fill = last.fill
    BY <2>2, <2>6, <2>8, <2>10, <2>12, <2>14, <2>17, <2>21, <2>24 DEF Still
  <2>28. Alike(e, last)
    <3>1. e.slot = last.slot /\ e.valid = last.valid /\ e.where = last.where
      BY <2>8, <2>10, <2>12, <2>14, <2>15, <2>17, <2>21, <2>24 DEF Still
    <3>2. e.region = last.region /\ e.count = last.count
      BY <2>14, <2>17, <2>21, <2>24 DEF Still
    <3>3. e.drive = last.drive /\ e.active = last.active
      BY <2>2, <2>6, <2>8, <2>10, <2>12, <2>14, <2>17, <2>21, <2>24 DEF Still
    <3>4. e.ok = last.ok /\ DOMAIN e = CacheFields
      BY <2>21, <2>24
    <3> QED BY <3>1, <3>2, <3>3, <3>4, <2>25, <2>26, <2>27 DEF Still, Alike
  <2>29. Sound(e, G \ {s}) /\ Stored(e) = Stored(last)
    BY <2>23, <2>28, AlikeIsSound
  <2>30. /\ e.active = d.active /\ e.slot = d.slot
         /\ \A u \in G \ {s} : e.region[u] = d.region[u]
    <3>1. \A u \in G \ {s} : u \in Segments /\ u # s /\ u # t
      BY <2>4, <2>5
    <3> QED BY <3>1, <2>8, <2>10, <2>12, <2>13, <2>24 DEF Still
  <2>31. Stored(e) = Stored(d)
    BY <2>4, <2>6, <2>16, <2>19, <2>23, <2>24, <2>29
  <2>32. Calm(e, d, G \ {s})
    BY <2>30, <2>31 DEF Keeps, Calm
  <2> HIDE DEF e
  <2> QED BY <1>2, <2>3, <2>29, <2>30, <2>32
<1> QED BY <1>1, <1>2

(* The active segment of a region has room.                                *)
Ready(e, r) == e.active[r] # Nil /\ e.fill[e.active[r]] < SegBlocks

(* Active segments were closed at most.                                    *)
Idles(e, d) == \A q \in Regions : e.active[q] \in {d.active[q], Nil}

-----------------------------------------------------------------------------
(* Active segments and victims.                                            *)

(* Promises kept in turn.                                                  *)
LEMMA KeepsInTurn ==
  ASSUME NEW x, NEW y, NEW z, NEW F, Keeps(x, y, F), Keeps(y, z, F)
  PROVE  Keeps(x, z, F)
BY DEF Keeps

LEMMA KeepsFewer ==
  ASSUME NEW x, NEW y, NEW F, NEW G, Keeps(x, y, G), F \subseteq G
  PROVE  Keeps(x, y, F)
BY DEF Keeps

LEMMA SteadyInTurn ==
  ASSUME NEW x, NEW y, NEW z, NEW R, Steady(x, y, R), Steady(y, z, R)
  PROVE  Steady(x, z, R)
BY DEF Steady

(* The second half of ensure_active_segment.                               *)
LEMMA OpenFreeIsSound ==
  ASSUME NEW d, NEW F, Sound(d, F), NEW r \in Regions, d.active[r] = Nil
  PROVE  LET e == OpenFree(d, r)
         IN /\ Sound(e, F) /\ Keeps(e, d, F) /\ (e.ok => Ready(e, r))
            /\ \A q \in Regions : q # r => e.active[q] = d.active[q]
            /\ d.free[r] = <<>> => e.active = d.active /\ ~e.ok
<1>1. CASE ~d.ok \/ d.free[r] = <<>>
  <2> DEFINE e == Answer(d, FALSE)
  <2>1. Sound(e, F) /\ Still(e, d) /\ Stored(e) = Stored(d) /\ e.active = d.active /\ e.ok = FALSE
    BY AnswerIsSound
  <2>2. e = OpenFree(d, r)
    BY <1>1 DEF OpenFree
  <2> HIDE DEF e
  <2>3. Keeps(e, d, F)
    BY <2>1 DEF Keeps, Still
  <2> QED BY <2>1, <2>2, <2>3
<1>2. CASE ~(~d.ok \/ d.free[r] = <<>>)
  <2> DEFINE s == Head(d.free[r])
             taken == [d EXCEPT !.free[r] = Tail(@)]
             blank == ResetSegment(taken, s)
             reset == ResetSegment(d, s)
             live == [blank EXCEPT !.active[r] = s, !.ok = TRUE]
             lists == [reset EXCEPT !.free[r] = Tail(@), !.active[r] = s, !.ok = TRUE]
             e == MoveSegment(lists, s, r)
  <2>1. DOMAIN d = CacheFields /\ d.ok \in BOOLEAN
    BY DEF Sound, CacheTypes
  <2>2. /\ DOMAIN taken = CacheFields /\ Still(taken, d) /\ taken.ok \in BOOLEAN
        /\ taken.active = d.active /\ taken.fifo = d.fifo
        /\ taken.free = Put(d.free, r, Tail(d.free[r]))
    BY <2>1 DEF CacheFields, Still, Put
  <2>3. e = OpenFree(d, r)
    BY <1>2 DEF OpenFree
  <2> HIDE DEF taken
  <2>4. /\ Sound(taken, F \cup {s}) /\ Stored(taken) = Stored(d)
        /\ s \in Segments /\ s \notin F /\ d.region[s] = r /\ Blank(d, s)
    BY SMTT(20), <1>2, <2>2, TakeFree
  <2> HIDE DEF s
  <2>5. Blank(taken, s) /\ s # Nil
    BY <2>2, <2>4, CacheFacts DEF Still, Blank
  <2>6. /\ Sound(blank, F \cup {s}) /\ Stored(blank) = Stored(taken)
        /\ DOMAIN blank = CacheFields /\ blank.slot = taken.slot /\ blank.valid = taken.valid
        /\ blank.fill = [taken.fill EXCEPT ![s] = 0] /\ blank.where = taken.where
        /\ blank.region = taken.region
        /\ blank.count = taken.count /\ blank.drive = taken.drive /\ blank.active = taken.active
        /\ blank.free = taken.free /\ blank.fifo = taken.fifo /\ blank.ok = taken.ok
    BY <2>4, <2>5, ResetIsSound
  <2>7. /\ DOMAIN reset = CacheFields /\ reset.slot = d.slot /\ reset.valid = d.valid
        /\ reset.fill = [d.fill EXCEPT ![s] = 0] /\ reset.where = d.where
        /\ reset.region = d.region
        /\ reset.count = d.count /\ reset.drive = d.drive /\ reset.active = d.active
        /\ reset.free = d.free /\ reset.fifo = d.fifo /\ reset.ok = d.ok
    BY <2>4, ResetIsSound
  <2> HIDE DEF reset, blank
  <2>8. /\ DOMAIN live = CacheFields /\ Still(live, blank) /\ live.ok = TRUE
        /\ live.free = blank.free /\ live.fifo = blank.fifo
        /\ live.active = Put(blank.active, r, s)
    BY <2>6 DEF CacheFields, Still, Put
  <2> HIDE DEF live
  <2>9. /\ DOMAIN lists = CacheFields /\ lists.slot = d.slot /\ lists.valid = d.valid
        /\ lists.fill = [d.fill EXCEPT ![s] = 0] /\ lists.where = d.where
        /\ lists.region = d.region
        /\ lists.count = d.count /\ lists.drive = d.drive /\ lists.active = Put(d.active, r, s)
        /\ lists.free = Put(d.free, r, Tail(d.free[r])) /\ lists.fifo = d.fifo /\ lists.ok = TRUE
    BY <2>7 DEF CacheFields, Put
  <2> HIDE DEF lists
  <2>10. Sound(live, F) /\ Stored(live) = Stored(blank)
    <3>1. /\ blank.region[s] = r /\ blank.active[r] = Nil /\ s \in F \cup {s}
          /\ live.ok \in BOOLEAN /\ (F \cup {s}) \ {s} = F
      BY <2>2, <2>4, <2>6, <2>8 DEF Still
    <3>2. Sound(live, (F \cup {s}) \ {s}) /\ Stored(live) = Stored(blank)
      BY <3>1, <2>6, <2>8, GiveActive
    <3> QED BY <3>1, <3>2
  <2>11. Alike(lists, live)
    <3>1. lists.slot = live.slot /\ lists.fill = live.fill /\ lists.valid = live.valid
      BY <2>2, <2>6, <2>8, <2>9 DEF Still
    <3>2. lists.where = live.where /\ lists.region = live.region /\ lists.count = live.count
      BY <2>2, <2>6, <2>8, <2>9 DEF Still
    <3>3. lists.drive = live.drive /\ lists.active = live.active /\ lists.free = live.free
      BY <2>2, <2>6, <2>8, <2>9 DEF Still
    <3>4. lists.fifo = live.fifo /\ lists.ok = live.ok
      BY <2>2, <2>6, <2>8, <2>9
    <3> QED BY <3>1, <3>2, <3>3, <3>4, <2>9 DEF Alike, Still
  <2>12. Sound(lists, F) /\ Stored(lists) = Stored(live)
    BY <2>10, <2>11, AlikeIsSound
  <2>13. Alike(e, lists)
    <3>1. lists.region[s] = r
      BY <2>4, <2>9
    <3> QED BY <2>4, <2>12, <3>1, MoveWithin
  <2> HIDE DEF e
  <2>14. Sound(e, F) /\ Stored(e) = Stored(d)
    BY <2>4, <2>6, <2>10, <2>12, <2>13, AlikeIsSound
  <2>15. /\ e.slot = d.slot /\ e.region = d.region /\ e.active = Put(d.active, r, s)
         /\ e.fill = [d.fill EXCEPT ![s] = 0]
    BY <2>9, <2>13 DEF Alike, Still
  <2>16. Keeps(e, d, F)
    BY <2>14, <2>15 DEF Keeps
  <2>17. Ready(e, r) /\ \A q \in Regions : q # r => e.active[q] = d.active[q]
    <3>1. d.active \in [Regions -> Segments \cup {Nil}] /\ d.fill \in [Segments -> 0 .. SegBlocks]
      BY DEF Sound, CacheTypes
    <3>2. e.active[r] = s /\ \A q \in Regions : q # r => e.active[q] = d.active[q]
      BY <3>1, <2>15 DEF Put
    <3>3. e.fill[s] = 0 /\ 0 < SegBlocks
      BY <3>1, <2>4, <2>15, CacheFacts
    <3> QED BY <3>2, <3>3, <2>5 DEF Ready
  <2> QED BY <1>2, <2>3, <2>14, <2>16, <2>17
<1> QED BY <1>1, <1>2

(* close_active_segment and what is built on it.                           *)
LEMMA CloseActiveIsSound ==
  ASSUME NEW d, NEW F, Sound(d, F), NEW r \in Regions, d.active[r] # Nil
  PROVE  LET e == CloseActive(d, r)
         IN /\ Sound(e, F) /\ Keeps(e, d, F) /\ e.ok = d.ok
            /\ e.active[r] = Nil /\ \A q \in Regions : q # r => e.active[q] = d.active[q]
<1> DEFINE s == d.active[r]
           lifted == [d EXCEPT !.active[r] = Nil]
           pushed == [lifted EXCEPT !.fifo[r] = Append(@, s)]
           released == Release(lifted, r, s)
           e == CloseActive(d, r)
<1>1. DOMAIN d = CacheFields /\ d.ok \in BOOLEAN /\ d.active \in [Regions -> Segments \cup {Nil}]
  BY DEF Sound, CacheTypes
<1>2. /\ DOMAIN lifted = CacheFields /\ Still(lifted, d) /\ lifted.ok = d.ok
      /\ lifted.free = d.free /\ lifted.fifo = d.fifo
      /\ lifted.active = Put(d.active, r, Nil)
  BY <1>1 DEF CacheFields, Still, Put
<1>3. e = IF lifted.valid[s] = 0 THEN released ELSE pushed
  BY DEF CloseActive, PushToFifo
<1> HIDE DEF lifted, e
<1>4. /\ Sound(lifted, F \cup {s}) /\ Stored(lifted) = Stored(d)
      /\ s \in Segments /\ s \notin F /\ d.region[s] = r
  BY <1>1, <1>2, TakeActive
<1>5. lifted.active[r] = Nil /\ \A q \in Regions : q # r => lifted.active[q] = d.active[q]
  BY <1>1, <1>2 DEF Put
<1> HIDE DEF s
<1>6. s \in F \cup {s} /\ (F \cup {s}) \ {s} = F /\ lifted.region[s] = r
  BY <1>2, <1>4 DEF Still
<1>7. ASSUME NEW x, x.slot = lifted.slot, x.region = lifted.region, Stored(x) = Stored(lifted)
      PROVE  Keeps(x, d, F)
  BY <1>2, <1>4, <1>7 DEF Keeps, Still
<1>8. CASE lifted.valid[s] = 0
  <2>1. /\ Sound(released, (F \cup {s}) \ {s}) /\ Stored(released) = Stored(lifted)
        /\ released.slot = lifted.slot /\ released.region = lifted.region
        /\ released.active = lifted.active /\ released.ok = lifted.ok
    BY <1>4, <1>6, <1>8, ReleaseIsSound
  <2> HIDE DEF released
  <2>2. Keeps(released, d, F) /\ Sound(released, F)
    BY <1>6, <1>7, <2>1
  <2> QED BY <1>2, <1>3, <1>5, <1>8, <2>1, <2>2 DEF e
<1>9. CASE lifted.valid[s] # 0
  <2>1. /\ DOMAIN pushed = CacheFields /\ Still(pushed, lifted) /\ pushed.ok = lifted.ok
        /\ pushed.active = lifted.active /\ pushed.free = lifted.free
        /\ pushed.fifo = Put(lifted.fifo, r, Append(lifted.fifo[r], s))
    BY <1>2 DEF CacheFields, Still, Put
  <2> HIDE DEF pushed
  <2>2. pushed.ok \in BOOLEAN
    BY <1>1, <1>2, <2>1
  <2>3. Sound(pushed, (F \cup {s}) \ {s}) /\ Stored(pushed) = Stored(lifted)
    BY <1>4, <1>6, <2>1, <2>2, GiveFifo
  <2>4. Keeps(pushed, d, F) /\ Sound(pushed, F)
    <3>1. pushed.slot = lifted.slot /\ pushed.region = lifted.region
      BY <2>1 DEF Still
    <3> QED BY <1>6, <1>7, <2>3, <3>1
  <2> QED BY <1>2, <1>3, <1>5, <1>9, <2>1, <2>4 DEF e
<1> QED BY <1>8, <1>9

LEMMA SealFullIsSound ==
  ASSUME NEW d, NEW F, Sound(d, F), NEW r \in Regions
  PROVE  LET e == SealFull(d, r)
         IN /\ Sound(e, F) /\ Keeps(e, d, F) /\ e.ok = d.ok /\ Idles(e, d)
            /\ e.active[r] # Nil => Ready(e, r)
            /\ d.active[r] = Nil => e = d
<1>1. CASE d.active[r] # Nil /\ d.fill[d.active[r]] = SegBlocks
  <2>1. SealFull(d, r) = CloseActive(d, r)
    BY <1>1 DEF SealFull
  <2> QED BY <1>1, <2>1, CloseActiveIsSound DEF Idles
<1>2. CASE ~(d.active[r] # Nil /\ d.fill[d.active[r]] = SegBlocks)
  <2>1. SealFull(d, r) = d
    BY <1>2 DEF SealFull
  <2>2. Keeps(d, d, F) /\ Idles(d, d)
    BY DEF Keeps, Idles
  <2>3. d.active[r] # Nil => Ready(d, r)
    <3>1. d.active[r] # Nil => d.fill[d.active[r]] \in 0 .. SegBlocks /\ SegBlocks \in Nat
      BY CacheFacts DEF Sound, CacheTypes
    <3> QED BY <3>1, <1>2 DEF Ready
  <2> QED BY <2>1, <2>2, <2>3
<1> QED BY <1>1, <1>2

LEMMA WithVictimIsSound ==
  ASSUME NEW d, NEW F, Sound(d, F), NEW r \in Regions
  PROVE  LET e == WithVictim(d, r)
         IN Sound(e, F) /\ Keeps(e, d, F) /\ e.ok = d.ok /\ Idles(e, d)
<1>1. CASE d.fifo[r] = <<>> /\ d.active[r] # Nil /\ d.valid[d.active[r]] > 0
  <2>1. WithVictim(d, r) = CloseActive(d, r)
    BY <1>1 DEF WithVictim
  <2> QED BY <1>1, <2>1, CloseActiveIsSound DEF Idles
<1>2. CASE ~(d.fifo[r] = <<>> /\ d.active[r] # Nil /\ d.valid[d.active[r]] > 0)
  <2>1. WithVictim(d, r) = d
    BY <1>2 DEF WithVictim
  <2>2. Keeps(d, d, F) /\ Idles(d, d)
    BY DEF Keeps, Idles
  <2> QED BY <2>1, <2>2
<1> QED BY <1>1, <1>2

(* pop_victim puts the victim in flight.                                   *)
LEMMA PopVictimIsSound ==
  ASSUME NEW d, NEW F, Sound(d, F), NEW r \in Regions, d.fifo[r] # <<>>
  PROVE  LET v == Head(d.fifo[r])
             e == PopVictim(d, r)
         IN /\ Sound(e, F \cup {v}) /\ Keeps(e, d, F) /\ e.active = d.active
            /\ v \notin F /\ v \in Segments /\ e.region[v] = r /\ e.valid = d.valid
            /\ e.free = d.free
<1> DEFINE v == Head(d.fifo[r])
           e == PopVictim(d, r)
<1>1. DOMAIN d = CacheFields /\ d.ok \in BOOLEAN
  BY DEF Sound, CacheTypes
<1>2. /\ DOMAIN e = CacheFields /\ Still(e, d) /\ e.ok \in BOOLEAN
      /\ e.active = d.active /\ e.free = d.free
      /\ e.fifo = Put(d.fifo, r, Tail(d.fifo[r]))
  BY <1>1 DEF PopVictim, CacheFields, Still, Put
<1> HIDE DEF e
<1>3. /\ Sound(e, F \cup {v}) /\ Stored(e) = Stored(d)
      /\ v \in Segments /\ v \notin F /\ d.region[v] = r
  BY <1>2, TakeFifo
<1> HIDE DEF v
<1>4. Keeps(e, d, F) /\ e.region[v] = r /\ e.valid = d.valid
  BY <1>2, <1>3 DEF Keeps, Still
<1> QED BY <1>2, <1>3, <1>4 DEF e, v

(* A victim with nothing valid left becomes free.                          *)
LEMMA ReleaseKeeps ==
  ASSUME NEW d, NEW F, NEW s, s \notin F, Sound(d, F \cup {s}), NEW r, d.region[s] = r,
         d.valid[s] = 0, NEW x \in BOOLEAN
  PROVE  LET e == Answer(Release(d, r, s), x)
         IN Sound(e, F) /\ Keeps(e, d, F) /\ e.active = d.active /\ e.ok = x
<1> DEFINE free == Release(d, r, s)
           e == Answer(free, x)
<1>1. s \in F \cup {s} /\ (F \cup {s}) \ {s} = F
  OBVIOUS
<1>2. /\ Sound(free, (F \cup {s}) \ {s}) /\ Stored(free) = Stored(d)
      /\ free.slot = d.slot /\ free.region = d.region /\ free.active = d.active
  BY <1>1, ReleaseIsSound
<1> HIDE DEF free
<1>3. Sound(free, F)
  BY <1>1, <1>2
<1>4. Sound(e, F) /\ Still(e, free) /\ Stored(e) = Stored(free) /\ e.active = free.active /\ e.ok = x
  BY <1>3, AnswerIsSound
<1> HIDE DEF e
<1>5. Keeps(e, d, F)
  BY <1>2, <1>4 DEF Keeps, Still
<1> QED BY <1>2, <1>4, <1>5 DEF e, free

(* A wholly valid cold victim is written back and becomes free.            *)
LEMMA DropWholeIsSound ==
  ASSUME NEW d, NEW F, NEW s, s \notin F, Sound(d, F \cup {s}), d.region[s] = "cold"
  PROVE  LET e == DropWhole(d, s)
         IN Sound(e, F) /\ Keeps(e, d, F) /\ e.active = d.active /\ e.ok
<1> DEFINE drop == DropSegment(d, s)
           e == Answer(Release(drop, "cold", s), TRUE)
<1>1. s \in F \cup {s} /\ (F \cup {s}) \ {s} = F
  OBVIOUS
<1>2. /\ Sound(drop, F \cup {s}) /\ Stored(d) \subseteq Stored(drop) /\ drop.valid[s] = 0
      /\ drop.active = d.active /\ drop.region = d.region
      /\ \A t \in (F \cup {s}) \ {s} : drop.slot[t] = d.slot[t]
  BY <1>1, DropIsSound
<1>3. Keeps(drop, d, F) /\ drop.region[s] = "cold"
  BY <1>1, <1>2 DEF Keeps
<1>4. e = DropWhole(d, s)
  BY DEF DropWhole
<1> HIDE DEF drop
<1>5. Sound(e, F) /\ Keeps(e, drop, F) /\ e.active = drop.active /\ e.ok = TRUE
  BY <1>2, <1>3, ReleaseKeeps
<1> HIDE DEF e
<1> QED BY <1>2, <1>3, <1>4, <1>5, KeepsInTurn

(* A victim whose copy has ended.                                          *)
LEMMA SettleIsSound ==
  ASSUME NEW d, NEW F, NEW v, v \notin F, Sound(d, F \cup {v}), NEW r, d.region[v] = r
  PROVE  LET e == Settle(d, v, r)
         IN Sound(e, F) /\ Keeps(e, d, F) /\ e.active = d.active
<1>1. CASE d.ok /\ d.valid[v] = 0
  <2> DEFINE e == Answer(Release(d, r, v), TRUE)
  <2>1. e = Settle(d, v, r)
    BY <1>1 DEF Settle
  <2>2. d.valid[v] = 0 /\ TRUE \in BOOLEAN
    BY <1>1
  <2>3. Sound(e, F) /\ Keeps(e, d, F) /\ e.active = d.active /\ e.ok = TRUE
    <3>1. \A x \in BOOLEAN :
            LET f == Answer(Release(d, r, v), x)
            IN Sound(f, F) /\ Keeps(f, d, F) /\ f.active = d.active /\ f.ok = x
      <4> HIDE DEF e
      <4> QED BY <2>2, ReleaseKeeps
    <3> QED BY <3>1, Zenon
  <2> HIDE DEF e
  <2> QED BY <2>1, <2>3
<1>2. CASE ~(d.ok /\ d.valid[v] = 0)
  <2> DEFINE e == Answer([d EXCEPT !.fifo[r] = <<v>> \o @], FALSE)
  <2>1. e = Settle(d, v, r)
    BY <1>2 DEF Settle
  <2>2. /\ DOMAIN d = CacheFields /\ v \in F \cup {v} /\ (F \cup {v}) \ {v} = F
        /\ v \in Segments /\ r \in Regions
    BY DEF Sound, CacheTypes, Homes
  <2>3. /\ DOMAIN e = CacheFields /\ Still(e, d) /\ e.ok \in BOOLEAN
        /\ e.active = d.active /\ e.free = d.free
        /\ e.fifo = Put(d.fifo, r, <<v>> \o d.fifo[r])
    BY <2>2 DEF Answer, CacheFields, Still, Put
  <2> HIDE DEF e
  <2>4. Sound(e, (F \cup {v}) \ {v}) /\ Stored(e) = Stored(d)
    BY <2>2, <2>3, GiveFifoFront
  <2>5. Keeps(e, d, F)
    BY <2>3, <2>4 DEF Keeps, Still
  <2>6. Sound(e, F)
    BY <2>2, <2>4
  <2> QED BY <2>1, <2>3, <2>5, <2>6
<1> QED BY <1>1, <1>2

(* What a reclaim promises to a copy of a region that is not in R.         *)
Reclaims(e, d, F, R) == Sound(e, F) /\ Keeps(e, d, F) /\ Steady(e, d, R)

(* ensure_active_segment, when the reclaim it forces keeps its promise and *)
(* does not make the region active itself.                                 *)
LEMMA EnsureIsSound ==
  ASSUME NEW d, NEW F, Sound(d, F), NEW r \in Regions, NEW R, R \subseteq Regions, r \notin R,
         NEW f,
         LET sealed == SealFull(d, r)
         IN Sound(sealed, F) /\ sealed.active[r] = Nil /\ sealed.free[r] = <<>>
              => Reclaims(f, sealed, F, R \cup {r})
  PROVE  LET sealed == SealFull(d, r)
             e == IF sealed.active[r] # Nil THEN Answer(sealed, TRUE)
                  ELSE IF sealed.free[r] = <<>> THEN OpenFree(f, r)
                  ELSE OpenFree(Answer(sealed, TRUE), r)
         IN Reclaims(e, d, F, R) /\ (e.ok => Ready(e, r))
<1> DEFINE sealed == SealFull(d, r)
           yes == Answer(sealed, TRUE)
<1>1. /\ Sound(sealed, F) /\ Keeps(sealed, d, F) /\ Idles(sealed, d)
      /\ sealed.active[r] # Nil => Ready(sealed, r)
  BY SealFullIsSound
<1> HIDE DEF sealed
<1>2. /\ Sound(yes, F) /\ Still(yes, sealed) /\ Stored(yes) = Stored(sealed)
      /\ yes.active = sealed.active /\ yes.free = sealed.free /\ yes.ok = TRUE
  BY <1>1, AnswerIsSound
<1>3. Keeps(yes, sealed, F) /\ (sealed.active[r] # Nil => Ready(yes, r))
  BY <1>1, <1>2 DEF Keeps, Still, Ready
<1>4. Steady(sealed, d, R)
  BY <1>1 DEF Idles, Steady
<1>5. Steady(yes, d, R) /\ Keeps(yes, d, F)
  BY <1>1, <1>2, <1>3, <1>4, KeepsInTurn DEF Steady
<1> HIDE DEF yes
<1>6. CASE sealed.active[r] # Nil
  BY <1>2, <1>3, <1>5, <1>6 DEF Reclaims, sealed, yes
<1>7. CASE sealed.active[r] = Nil /\ sealed.free[r] = <<>>
  <2> DEFINE e == OpenFree(f, r)
  <2>1. Sound(f, F) /\ Keeps(f, sealed, F) /\ Steady(f, sealed, R) /\ f.active[r] = Nil
    BY <1>1, <1>7 DEF Reclaims, Steady, sealed
  <2>2. /\ Sound(e, F) /\ Keeps(e, f, F) /\ (e.ok => Ready(e, r))
        /\ \A q \in Regions : q # r => e.active[q] = f.active[q]
    BY <2>1, OpenFreeIsSound
  <2> HIDE DEF e
  <2>3. Steady(e, f, R)
    BY <2>2 DEF Steady
  <2>4. Keeps(e, d, F)
    BY <1>1, <2>1, <2>2, KeepsInTurn
  <2>5. Steady(e, d, R)
    BY <1>4, <2>1, <2>3, SteadyInTurn
  <2> QED BY <1>7, <2>2, <2>4, <2>5 DEF Reclaims, e, sealed
<1>8. CASE sealed.active[r] = Nil /\ sealed.free[r] # <<>>
  <2> DEFINE e == OpenFree(yes, r)
  <2>1. yes.active[r] = Nil
    BY <1>2, <1>8
  <2>2. /\ Sound(e, F) /\ Keeps(e, yes, F) /\ (e.ok => Ready(e, r))
        /\ \A q \in Regions : q # r => e.active[q] = yes.active[q]
    BY <1>2, <2>1, OpenFreeIsSound
  <2> HIDE DEF e
  <2>3. Steady(e, yes, R)
    BY <2>2 DEF Steady
  <2>4. Keeps(e, d, F)
    BY <1>5, <2>2, KeepsInTurn
  <2>5. Steady(e, d, R)
    BY <1>5, <2>3, SteadyInTurn
  <2> QED BY <1>8, <2>2, <2>4, <2>5 DEF Reclaims, e, sealed, yes
<1> QED BY <1>6, <1>7, <1>8

(* A region that has no segment to write to, and none to open.             *)
Dry(x, q) == x.active[q] = Nil /\ x.free[q] = <<>>

(* What holds between two blocks of a copy of v: F are the segments in     *)
(* flight further out, C the regions known to be dry.                      *)
Copying(x, d, F, v, R, C) ==
  /\ Sound(x, F \cup {v}) /\ Keeps(x, d, F) /\ x.region[v] = d.region[v] /\ Steady(x, d, R)
  /\ \A q \in C : Dry(x, q)

-----------------------------------------------------------------------------
(* Copies and reclaims.                                                    *)

(* One block of a copy.                                                    *)
LEMMA TurnIsSound ==
  ASSUME NEW d, NEW F, NEW v, v \notin F, NEW R, NEW to \in Regions, NEW C, C \subseteq {to},
         NEW e, Copying(e, d, F, v, R, C), NEW i \in Slots, e.slot[v][i] # Nil,
         NEW x, Reclaims(x, e, F \cup {v}, R), x.ok => Ready(x, to), \A q \in C : Dry(x, q)
  PROVE  Copying(MoveBlock(x, v, i, to), d, F, v, R, C)
<1>1. v \in F \cup {v} /\ F \subseteq F \cup {v} /\ (F \cup {v}) \ {v} = F
  OBVIOUS
<1>2. /\ Sound(x, F \cup {v}) /\ Keeps(x, e, F) /\ x.slot[v] = e.slot[v]
      /\ x.region[v] = d.region[v]
  BY <1>1, KeepsFewer DEF Reclaims, Keeps, Copying
<1>3. Keeps(x, d, F) /\ Steady(x, d, R)
  BY <1>2, KeepsInTurn, SteadyInTurn DEF Copying, Reclaims
<1>4. CASE ~x.ok
  BY <1>2, <1>3, <1>4 DEF MoveBlock, Copying
<1>5. CASE x.ok
  <2> DEFINE m == MoveBlock(x, v, i, to)
  <2>1. x.active[to] # Nil /\ x.fill[x.active[to]] < SegBlocks /\ C = {}
    BY <1>5 DEF Ready, Dry
  <2>2. x.slot[v][i] # Nil
    BY <1>2
  <2>3. /\ Sound(m, F \cup {v}) /\ Stored(x) \subseteq Stored(m)
        /\ m.active = x.active /\ m.region = x.region
        /\ \A t \in (F \cup {v}) \ {v} : m.slot[t] = x.slot[t]
    BY <1>1, <1>2, <1>5, <2>1, <2>2, MoveBlockIsSound
  <2> HIDE DEF m
  <2>4. Keeps(m, x, F)
    BY <1>1, <2>3 DEF Keeps
  <2>5. Keeps(m, d, F)
    BY <1>3, <2>4, KeepsInTurn
  <2>6. Steady(m, d, R) /\ m.region[v] = d.region[v]
    BY <1>2, <1>3, <2>3 DEF Steady
  <2> QED BY <2>1, <2>3, <2>5, <2>6 DEF Copying, m
<1> QED BY <1>4, <1>5

(* A step of the copy of each region.                                      *)
OneTurn(r, e, v, i) ==
  IF e.ok /\ e.slot[v][i] # Nil
  THEN IF r = "cold" THEN Migrate(e, v, i, "cold", NoForce(SealFull(e, "cold")))
       ELSE IF r = "hot" THEN Migrate(e, v, i, "cold", ReclaimFromCold(SealFull(e, "cold")))
       ELSE Migrate(e, v, i, "hot", ForceHot(SealFull(e, "hot")))
  ELSE e

(* The function that EachValid defines, up to slot m.                      *)
Turns(f, m, r, d, v) ==
  f = [i \in 0 .. m |-> IF i = 0 THEN Answer(d, TRUE) ELSE OneTurn(r, f[i - 1], v, i)]

(* EachValid: a copy of which every step is sound is sound. The    *)
(* function exists for every number of slots and each of its values is     *)
(* such a state, both by induction on the slot.                            *)
LEMMA CopyLoop ==
  ASSUME NEW d, NEW F, NEW v, NEW r, NEW R, NEW C, Copying(Answer(d, TRUE), d, F, v, R, C),
         \A e : \A i \in Slots :
           Copying(e, d, F, v, R, C) => Copying(OneTurn(r, e, v, i), d, F, v, R, C)
  PROVE  /\ \E f : Turns(f, SegBlocks, r, d, v)
         /\ \A f : Turns(f, SegBlocks, r, d, v) => Copying(f[SegBlocks], d, F, v, R, C)
<1> DEFINE Good(x) == Copying(x, d, F, v, R, C)
<1>0. SegBlocks \in Nat
  BY CacheFacts
<1>1. \A m \in Nat : \E f : Turns(f, m, r, d, v)
  <2> DEFINE T == {m \in Nat : \E f : Turns(f, m, r, d, v)}
  <2>1. 0 \in T
    <3>1. Turns([i \in 0 .. 0 |-> Answer(d, TRUE)], 0, r, d, v)
      BY DEF Turns
    <3> QED BY Zenon, <3>1
  <2>2. \A m \in T : m + 1 \in T
    <3> TAKE m \in T
    <3>1. m \in Nat /\ \A i \in 0 .. m + 1 : i # 0 => i - 1 \in 0 .. m
      OBVIOUS
    <3>2. PICK f : Turns(f, m, r, d, v)
      OBVIOUS
    <3> DEFINE g == [i \in 0 .. m + 1 |->
                       IF i = 0 THEN Answer(d, TRUE) ELSE OneTurn(r, f[i - 1], v, i)]
    <3>3. \A i \in 0 .. m : g[i] = f[i]
      <4>1. \A i \in 0 .. m : f[i] = IF i = 0 THEN Answer(d, TRUE) ELSE OneTurn(r, f[i - 1], v, i)
        BY <3>2, Zenon DEF Turns
      <4>2. \A i \in 0 .. m : i \in 0 .. m + 1
        BY <3>1
      <4> QED BY <4>1, <4>2, Zenon
    <3>4. Turns(g, m + 1, r, d, v)
      BY Zenon, <3>1, <3>3 DEF Turns
    <3>5. \E h : Turns(h, m + 1, r, d, v)
      BY <3>4, Zenon
    <3> QED BY <3>1, <3>5
  <2> HIDE DEF T
  <2>3. T = Nat
    BY Zenon, <2>1, <2>2, ByInduction DEF T
  <2> QED BY Zenon, <2>3 DEF T
<1>2. \A f : Turns(f, SegBlocks, r, d, v) => Good(f[SegBlocks])
  <2> SUFFICES ASSUME NEW f, Turns(f, SegBlocks, r, d, v) PROVE Good(f[SegBlocks])
    OBVIOUS
  <2> DEFINE T == {m \in Nat : m \in 0 .. SegBlocks => Good(f[m])}
  <2>1. 0 \in T
    <3>1. 0 \in 0 .. SegBlocks
      BY <1>0
    <3>2. f[0] = Answer(d, TRUE)
      BY <3>1 DEF Turns
    <3> QED BY <3>2
  <2>2. \A m \in T : m + 1 \in T
    <3> SUFFICES ASSUME NEW m \in T, m + 1 \in 0 .. SegBlocks PROVE Good(f[m + 1])
      OBVIOUS
    <3>1. m + 1 # 0 /\ m + 1 \in Slots /\ m \in 0 .. SegBlocks /\ (m + 1) - 1 = m
      BY <1>0 DEF Slots
    <3>2. Good(f[m])
      BY <3>1
    <3>3. f[m + 1] = OneTurn(r, f[m], v, m + 1)
      BY <3>1 DEF Turns
    <3> QED BY <3>1, <3>2, <3>3
  <2> HIDE DEF T
  <2>3. T = Nat
    BY Zenon, <2>1, <2>2, ByInduction DEF T
  <2>4. SegBlocks \in 0 .. SegBlocks
    BY <1>0
  <2> QED BY <1>0, <2>3, <2>4 DEF T
<1> QED BY <1>0, <1>1, <1>2

(* The copy of a cold victim, which forces nothing; where the cold region  *)
(* is dry it stops at the first block.                                     *)
LEMMA CopyColdIsSound ==
  ASSUME NEW d, NEW F, NEW v, v \notin F, Sound(d, F \cup {v}), NEW C, C \subseteq {"cold"},
         \A q \in C : Dry(d, q)
  PROVE  Copying(CopyFromCold(d, v), d, F, v, {"fwlog", "hot"}, C)
<1> DEFINE R == {"fwlog", "hot"}
           start == Answer(d, TRUE)
<1>1. /\ Sound(start, F \cup {v}) /\ Still(start, d) /\ Stored(start) = Stored(d)
      /\ start.active = d.active /\ start.free = d.free
  BY AnswerIsSound
<1>2. Copying(start, d, F, v, R, C)
  <2> HIDE DEF start
  <2> QED BY <1>1 DEF Copying, Keeps, Still, Steady, Dry
<1>3. ASSUME NEW e, NEW i \in Slots, Copying(e, d, F, v, R, C)
      PROVE  Copying(OneTurn("cold", e, v, i), d, F, v, R, C)
  <2> DEFINE sealed == SealFull(e, "cold")
             f == NoForce(sealed)
             x == EnsureActive(e, "cold", f)
  <2>1. CASE ~(e.ok /\ e.slot[v][i] # Nil)
    BY <1>3, <2>1 DEF OneTurn
  <2>2. CASE e.ok /\ e.slot[v][i] # Nil
    <3>1. Sound(e, F \cup {v}) /\ "cold" \in Regions /\ R \subseteq Regions /\ "cold" \notin R
      BY <1>3 DEF Copying, Regions
    <3>2. /\ Sound(sealed, F \cup {v}) /\ (e.active["cold"] = Nil => sealed = e)
      BY <3>1, SealFullIsSound
    <3> HIDE DEF sealed
    <3>3. Sound(sealed, F \cup {v}) => Reclaims(f, sealed, F \cup {v}, R \cup {"cold"})
      BY AnswerIsSound DEF NoForce, Reclaims, Keeps, Still, Steady
    <3>4. x = IF sealed.active["cold"] # Nil THEN Answer(sealed, TRUE)
              ELSE IF sealed.free["cold"] = <<>> THEN OpenFree(f, "cold")
              ELSE OpenFree(Answer(sealed, TRUE), "cold")
      BY DEF EnsureActive, sealed
    <3>5. Reclaims(x, e, F \cup {v}, R) /\ (x.ok => Ready(x, "cold"))
      <4> HIDE DEF R, f, x
      <4> QED BY <3>1, <3>3, <3>4, EnsureIsSound DEF sealed
    <3>6. ASSUME NEW q \in C PROVE Dry(x, q)
      <4>1. q = "cold" /\ sealed = e /\ e.active["cold"] = Nil /\ e.free["cold"] = <<>>
        BY <1>3, <3>2 DEF Copying, Dry
      <4>2. f.active = e.active /\ f.free = e.free
        BY <3>2, <4>1, AnswerIsSound DEF NoForce
      <4>3. x = Answer(f, FALSE)
        BY <3>4, <4>1, <4>2 DEF OpenFree
      <4>4. x.active = f.active /\ x.free = f.free
        <5>1. Sound(f, F \cup {v}) /\ FALSE \in BOOLEAN
          BY <3>2, <3>3 DEF Reclaims
        <5> HIDE DEF f
        <5> QED BY <4>3, <5>1, AnswerIsSound
      <4> QED BY <4>1, <4>2, <4>4 DEF Dry
    <3>7. OneTurn("cold", e, v, i) = MoveBlock(x, v, i, "cold")
      BY <2>2 DEF OneTurn, Migrate, sealed
    <3> HIDE DEF x, R
    <3>8. Copying(MoveBlock(x, v, i, "cold"), d, F, v, R, C)
      <4> DEFINE to == "cold"
      <4>1. to \in Regions /\ C \subseteq {to} /\ Copying(e, d, F, v, R, C) /\ e.slot[v][i] # Nil
        BY <1>3, <2>2, <3>1
      <4>2. Reclaims(x, e, F \cup {v}, R) /\ (x.ok => Ready(x, to)) /\ \A q \in C : Dry(x, q)
        BY <3>5, <3>6
      <4> HIDE DEF to
      <4>3. Copying(MoveBlock(x, v, i, to), d, F, v, R, C)
        BY <4>1, <4>2, TurnIsSound
      <4> QED BY <4>3 DEF to
    <3> QED BY <3>7, <3>8
  <2> QED BY <2>1, <2>2
<1> DEFINE CopySlot(e, i) ==
             IF e.ok /\ e.slot[v][i] # Nil THEN Migrate(e, v, i, "cold", NoForce(SealFull(e, "cold"))) ELSE e
           Copied[i \in 0 .. SegBlocks] ==
             IF i = 0 THEN start ELSE CopySlot(Copied[i - 1], i)
           Is(f) == f = [i \in 0 .. SegBlocks |-> IF i = 0 THEN start ELSE CopySlot(f[i - 1], i)]
<1>4. \A f : Is(f) <=> Turns(f, SegBlocks, "cold", d, v)
  BY Zenon DEF Turns, OneTurn
<1> HIDE DEF R
<1>5. /\ \E f : Turns(f, SegBlocks, "cold", d, v)
      /\ \A f : Turns(f, SegBlocks, "cold", d, v) => Copying(f[SegBlocks], d, F, v, R, C)
  BY <1>2, <1>3, CopyLoop
<1>6. Is(Copied)
  BY Zenon, <1>4, <1>5
<1>7. Copying(Copied[SegBlocks], d, F, v, R, C)
  BY Zenon, <1>4, <1>5, <1>6
<1>8. CopyFromCold(d, v) = Copied[SegBlocks]
  BY Zenon DEF CopyFromCold, EachValid
<1> QED BY <1>7, <1>8, Zenon DEF R

(* A last step after those that were already sound.                        *)
LEMMA ThenReclaims ==
  ASSUME NEW x, NEW y, NEW z, NEW F, NEW R, Sound(x, F), Keeps(x, y, F), Steady(x, y, R),
         Keeps(y, z, F), Steady(y, z, R)
  PROVE  Reclaims(x, z, F, R)
BY KeepsInTurn, SteadyInTurn DEF Reclaims

(* The exchange, for the segments that stay in flight.                     *)
LEMMA SwapIsSound ==
  ASSUME NEW d, NEW F, NEW v, v \notin F, Sound(d, F \cup {v}), NEW from \in Regions,
         NEW to \in Regions, from # to, d.region[v] = from, d.free[to] # <<>>
  PROVE  LET e == Exchange(d, v, from, to)
         IN Sound(e, F) /\ Keeps(e, d, F) /\ e.active = d.active
<1> DEFINE e == Exchange(d, v, from, to)
           G == F \cup {v}
<1>1. v \in G /\ G \ {v} = F /\ Sound(d, G)
  OBVIOUS
<1> HIDE DEF G
<1>2. Sound(e, G \ {v})
  BY <1>1, ExchangeIsSound
<1>3. Calm(e, d, G \ {v})
  BY <1>1, ExchangeIsSound
<1> HIDE DEF e
<1> QED BY <1>1, <1>2, <1>3 DEF e, Calm

(* What ReclaimFrom needs of the copy of its victim.                       *)
Copies(k, d, F, r, R, C) ==
  LET e == WithVictim(d, r)
      v == Head(e.fifo[r])
      popped == PopVictim(e, r)
  IN e.fifo[r] # <<>> /\ v \notin F /\ Sound(popped, F \cup {v})
       /\ (\A q \in C : Dry(popped, q)) => Copying(k, popped, F, v, R, C)

(* A reclaim of any region keeps its promise when its copy is sound.       *)
LEMMA ReclaimIsSound ==
  ASSUME NEW d, NEW F, Sound(d, F), NEW r \in Regions, NEW R, R \subseteq Regions,
         NEW C, C \subseteq {r}, \A q \in C : Dry(d, q), NEW k,
         Copies(k, d, F, r, R, C)
  PROVE  LET end == ReclaimFrom(d, r, k)
         IN Reclaims(end, d, F, R) /\ \A q \in C : end.active[q] = Nil
<1> DEFINE e == WithVictim(d, r)
           v == Head(e.fifo[r])
           popped == PopVictim(e, r)
           no == Answer(e, FALSE)
           released == Answer(Release(popped, r, v), TRUE)
           drop == DropWhole(popped, v)
           swap == Exchange(popped, v, r, NextRegion[r])
           whole == IF popped.valid[v] # SegBlocks THEN Answer(popped, FALSE)
                    ELSE IF r = "cold" THEN drop ELSE swap
           settled == Settle(k, v, r)
           end == IF e.fifo[r] = <<>> THEN no
                  ELSE IF popped.valid[v] = 0 THEN released
                  ELSE IF whole.ok THEN whole
                  ELSE settled
<1>1. Sound(e, F) /\ Keeps(e, d, F) /\ Idles(e, d)
  BY WithVictimIsSound
<1>2. \A q \in C : e = d
  BY DEF WithVictim, Dry
<1>3. Steady(e, d, R) /\ \A q \in C : Dry(e, q)
  <2> HIDE DEF e
  <2> QED BY <1>1, <1>2 DEF Idles, Steady
<1> HIDE DEF e
<1>4. CASE e.fifo[r] = <<>>
  <2>1. Sound(no, F) /\ Still(no, e) /\ Stored(no) = Stored(e) /\ no.active = e.active
    BY <1>1, AnswerIsSound
  <2> HIDE DEF no
  <2>2. Keeps(no, e, F) /\ Steady(no, e, R)
    BY <2>1 DEF Keeps, Still, Steady
  <2>3. Reclaims(no, d, F, R)
    BY <1>1, <1>3, <2>1, <2>2, ThenReclaims
  <2>4. \A q \in C : no.active[q] = Nil
    BY <1>3, <2>1 DEF Dry
  <2>5. end = no
    BY <1>4
  <2> HIDE DEF end
  <2> QED BY <2>3, <2>4, <2>5
        DEF end, e, v, popped, no, whole, drop, swap, settled, released, ReclaimFrom,
            ReclaimVictim, OrCopied, MoveWhole, Victim, Popped
<1>5. CASE e.fifo[r] # <<>>
  <2>1. /\ Sound(popped, F \cup {v}) /\ Keeps(popped, e, F) /\ popped.active = e.active
        /\ v \notin F /\ v \in Segments /\ popped.region[v] = r /\ popped.valid = e.valid
        /\ popped.free = e.free
    BY <1>1, <1>5, PopVictimIsSound
  <2>2. \A q \in C : Dry(popped, q)
    BY <1>3, <2>1 DEF Dry
  <2>3. Copying(k, popped, F, v, R, C)
    BY <1>5, <2>1, <2>2 DEF e, Copies
  <2> HIDE DEF popped, v
  <2>4. Steady(popped, d, R) /\ Keeps(popped, d, F)
    BY <1>1, <1>3, <2>1, KeepsInTurn DEF Steady
  <2>5. ASSUME NEW z, Sound(z, F), Keeps(z, popped, F), z.active = popped.active
        PROVE  Reclaims(z, d, F, R) /\ \A q \in C : z.active[q] = Nil
    <3>1. Steady(z, popped, R)
      BY <2>5 DEF Steady
    <3>2. Reclaims(z, d, F, R)
      BY <2>4, <2>5, <3>1, ThenReclaims
    <3> QED BY <2>2, <2>5, <3>2 DEF Dry
  <2>6. CASE popped.valid[v] = 0
    <3>1. popped.valid[v] = 0 /\ TRUE \in BOOLEAN
      BY <2>1, <2>6
    <3>2. Sound(released, F) /\ Keeps(released, popped, F) /\ released.active = popped.active
      <4>1. \A x \in BOOLEAN :
              LET z == Answer(Release(popped, r, v), x)
              IN Sound(z, F) /\ Keeps(z, popped, F) /\ z.active = popped.active /\ z.ok = x
        <5> HIDE DEF released
        <5> QED BY <2>1, <3>1, ReleaseKeeps
      <4> QED BY <4>1, Zenon
    <3>3. end = released
      BY <1>5, <2>6
    <3> HIDE DEF end, released
    <3>4. Reclaims(end, d, F, R) /\ \A q \in C : end.active[q] = Nil
      BY <2>5, <3>2, <3>3
    <3> QED BY <3>4
        DEF end, e, v, popped, no, whole, drop, swap, settled, released, ReclaimFrom,
            ReclaimVictim, OrCopied, MoveWhole, Victim, Popped
  <2>7. CASE popped.valid[v] # 0 /\ whole.ok
    <3>1. CASE popped.valid[v] # SegBlocks
      <4>1. ~whole.ok
        <5>1. Answer(popped, FALSE).ok = FALSE
          BY <2>1, AnswerIsSound
        <5> QED BY <3>1, <5>1
      <4> QED BY <2>7, <4>1
    <3>2. CASE popped.valid[v] = SegBlocks /\ r = "cold"
      <4>1. whole = drop
        BY <3>2
      <4>2. Sound(drop, F) /\ Keeps(drop, popped, F) /\ drop.active = popped.active
        BY <2>1, <3>2, DropWholeIsSound
      <4>3. end = drop
        BY <1>5, <2>7, <4>1
      <4> HIDE DEF end, drop, whole
      <4>4. Reclaims(end, d, F, R) /\ \A q \in C : end.active[q] = Nil
        BY <2>5, <4>2, <4>3
      <4> QED BY <4>4
        DEF end, e, v, popped, no, whole, drop, swap, settled, released, ReclaimFrom,
            ReclaimVictim, OrCopied, MoveWhole, Victim, Popped
    <3>3. CASE popped.valid[v] = SegBlocks /\ r # "cold"
      <4>1. whole = swap
        BY <3>3
      <4>2. NextRegion[r] \in Regions /\ r # NextRegion[r]
        BY <3>3 DEF NextRegion, Regions
      <4>4. CASE popped.free[NextRegion[r]] = <<>>
        <5>1. swap = Answer(popped, FALSE)
          BY <4>4, Zenon DEF Exchange
        <5>2. Answer(popped, FALSE).ok = FALSE
          BY <2>1, AnswerIsSound
        <5> QED BY <2>7, <4>1, <5>1, <5>2
      <4>5. CASE popped.free[NextRegion[r]] # <<>>
        <5>1. Sound(swap, F) /\ Keeps(swap, popped, F) /\ swap.active = popped.active
          BY <2>1, <4>2, <4>5, SwapIsSound
        <5>2. end = swap
          BY <1>5, <2>7, <4>1
        <5> HIDE DEF end, swap, whole
        <5>4. Reclaims(end, d, F, R) /\ \A q \in C : end.active[q] = Nil
          BY <2>5, <5>1, <5>2
        <5> QED BY <5>4
        DEF end, e, v, popped, no, whole, drop, swap, settled, released, ReclaimFrom,
            ReclaimVictim, OrCopied, MoveWhole, Victim, Popped
      <4> QED BY <4>4, <4>5
    <3> QED BY <3>1, <3>2, <3>3
  <2>8. CASE popped.valid[v] # 0 /\ ~whole.ok
    <3>1. k.region[v] = r /\ Sound(k, F \cup {v}) /\ Keeps(k, popped, F) /\ Steady(k, popped, R)
      BY <2>1, <2>3 DEF Copying
    <3>2. Sound(settled, F) /\ Keeps(settled, k, F) /\ settled.active = k.active
      BY <2>1, <3>1, SettleIsSound
    <3>3. end = settled
      BY <1>5, <2>8
    <3> HIDE DEF end, settled, whole
    <3>4. Keeps(settled, popped, F) /\ Steady(settled, popped, R)
      BY <3>1, <3>2, KeepsInTurn DEF Steady
    <3>5. Reclaims(settled, d, F, R)
      BY <2>4, <3>2, <3>4, ThenReclaims
    <3>6. \A q \in C : settled.active[q] = Nil
      BY <2>3, <3>2 DEF Copying, Dry
    <3>7. Reclaims(end, d, F, R) /\ \A q \in C : end.active[q] = Nil
      BY <3>3, <3>5, <3>6
    <3> QED BY <3>7
        DEF end, e, v, popped, no, whole, drop, swap, settled, released, ReclaimFrom,
            ReclaimVictim, OrCopied, MoveWhole, Victim, Popped
  <2> QED BY <2>6, <2>7, <2>8
<1> QED BY <1>4, <1>5

(* reclaim_from_cold, which leaves a dry cold region without active        *)
(* segment.                                                                *)
LEMMA ReclaimFromColdIsSound ==
  ASSUME NEW d, NEW F, Sound(d, F)
  PROVE  LET e == ReclaimFromCold(d)
         IN /\ Reclaims(e, d, F, {"fwlog", "hot"})
            /\ Dry(d, "cold") => Reclaims(e, d, F, {"fwlog", "hot"} \cup {"cold"})
<1> DEFINE R == {"fwlog", "hot"}
           r == "cold"
           end == ReclaimFromCold(d)
<1>1. r \in Regions /\ R \subseteq Regions /\ NextRegion[r] = r
  BY DEF Regions, NextRegion
<1>2. ASSUME NEW C, C \subseteq {r}, \A q \in C : Dry(d, q)
      PROVE  Reclaims(end, d, F, R) /\ \A q \in C : end.active[q] = Nil
  <2> DEFINE e == WithVictim(d, r)
             v == Head(e.fifo[r])
             popped == PopVictim(e, r)
             k == CopyFromCold(popped, v)
  <2>1. Copies(k, d, F, r, R, C)
    <3>1. v \notin F /\ Sound(popped, F \cup {v}) /\ (\A q \in C : Dry(popped, q))
            => Copying(CopyFromCold(popped, v), popped, F, v, R, C)
      <4> HIDE DEF popped, v
      <4> QED BY <1>2, CopyColdIsSound
    <3> QED BY <1>1, <3>1, Zenon DEF Copies
  <2>2. end = ReclaimFrom(d, r, k)
    BY Zenon DEF ReclaimFromCold, Victim, Popped
  <2> HIDE DEF k, R, r, end
  <2> QED BY <1>1, <1>2, <2>1, <2>2, ReclaimIsSound
<1>3. Reclaims(end, d, F, R)
  <2> DEFINE C == {}
  <2>1. C \subseteq {r} /\ \A q \in C : Dry(d, q)
    OBVIOUS
  <2> HIDE DEF end, R, r, C
  <2> QED BY <1>2, <2>1
<1>4. Dry(d, "cold") => end.active["cold"] = Nil
  <2> HIDE DEF end
  <2> QED BY <1>2
<1> HIDE DEF end
<1>5. Dry(d, "cold") => Reclaims(end, d, F, R \cup {"cold"})
  BY <1>3, <1>4 DEF Reclaims, Steady
<1> QED BY <1>3, <1>5 DEF end

(* The copy of a hot victim, which may force a reclaim of cold.            *)
LEMMA CopyHotIsSound ==
  ASSUME NEW d, NEW F, NEW v, v \notin F, Sound(d, F \cup {v})
  PROVE  Copying(CopyFromHot(d, v), d, F, v, {"fwlog", "hot"}, {})
<1> DEFINE R == {"fwlog", "hot"}
           C == {}
           start == Answer(d, TRUE)
<1>1. /\ Sound(start, F \cup {v}) /\ Still(start, d) /\ Stored(start) = Stored(d)
      /\ start.active = d.active
  BY AnswerIsSound
<1>2. Copying(start, d, F, v, R, C)
  <2> HIDE DEF start
  <2> QED BY <1>1 DEF Copying, Keeps, Still, Steady
<1>3. ASSUME NEW e, NEW i \in Slots, Copying(e, d, F, v, R, C)
      PROVE  Copying(OneTurn("hot", e, v, i), d, F, v, R, C)
  <2> DEFINE to == "cold"
             sealed == SealFull(e, to)
             f == ReclaimFromCold(sealed)
             x == EnsureActive(e, to, f)
  <2>1. CASE ~(e.ok /\ e.slot[v][i] # Nil)
    BY <1>3, <2>1 DEF OneTurn
  <2>2. CASE e.ok /\ e.slot[v][i] # Nil
    <3>1. Sound(e, F \cup {v}) /\ to \in Regions /\ R \subseteq Regions /\ to \notin R
      BY <1>3 DEF Copying, Regions
    <3> HIDE DEF sealed
    <3>2. Sound(sealed, F \cup {v}) /\ sealed.active[to] = Nil /\ sealed.free[to] = <<>>
            => Reclaims(f, sealed, F \cup {v}, R \cup {to})
      <4> HIDE DEF f
      <4>1. Sound(sealed, F \cup {v}) /\ Dry(sealed, "cold")
              => Reclaims(ReclaimFromCold(sealed), sealed, F \cup {v}, {"fwlog", "hot"} \cup {"cold"})
        BY ReclaimFromColdIsSound
      <4> QED BY <4>1 DEF Dry, f
    <3>3. x = IF sealed.active[to] # Nil THEN Answer(sealed, TRUE)
              ELSE IF sealed.free[to] = <<>> THEN OpenFree(f, to)
              ELSE OpenFree(Answer(sealed, TRUE), to)
      BY DEF EnsureActive, sealed
    <3>4. OneTurn("hot", e, v, i) = MoveBlock(x, v, i, to)
      BY <2>2 DEF OneTurn, Migrate, sealed
    <3>5. Reclaims(x, e, F \cup {v}, R) /\ (x.ok => Ready(x, to))
      <4> HIDE DEF R, f, x, to
      <4> QED BY <3>1, <3>2, <3>3, EnsureIsSound DEF sealed
    <3>6. C \subseteq {to} /\ \A q \in C : Dry(x, q)
      OBVIOUS
    <3> HIDE DEF x, R, to, C
    <3>7. Copying(MoveBlock(x, v, i, to), d, F, v, R, C)
      BY <1>3, <2>2, <3>1, <3>5, <3>6, TurnIsSound
    <3> QED BY <3>4, <3>7
  <2> QED BY <2>1, <2>2
<1> DEFINE CopySlot(e, i) ==
             IF e.ok /\ e.slot[v][i] # Nil THEN Migrate(e, v, i, "cold", ReclaimFromCold(SealFull(e, "cold"))) ELSE e
           Copied[i \in 0 .. SegBlocks] ==
             IF i = 0 THEN start ELSE CopySlot(Copied[i - 1], i)
           Is(f) == f = [i \in 0 .. SegBlocks |-> IF i = 0 THEN start ELSE CopySlot(f[i - 1], i)]
<1>4. \A f : Is(f) <=> Turns(f, SegBlocks, "hot", d, v)
  <2>1. \A e, i : OneTurn("hot", e, v, i) = CopySlot(e, i)
    BY DEF OneTurn
  <2> HIDE DEF CopySlot
  <2> QED BY <2>1, Zenon DEF Turns
<1> HIDE DEF R, C
<1>5. /\ \E f : Turns(f, SegBlocks, "hot", d, v)
      /\ \A f : Turns(f, SegBlocks, "hot", d, v) => Copying(f[SegBlocks], d, F, v, R, C)
  BY <1>2, <1>3, CopyLoop
<1>6. Is(Copied)
  BY Zenon, <1>4, <1>5
<1>7. Copying(Copied[SegBlocks], d, F, v, R, C)
  BY Zenon, <1>4, <1>5, <1>6
<1>8. CopyFromHot(d, v) = Copied[SegBlocks]
  BY Zenon DEF CopyFromHot, EachValid
<1> QED BY <1>7, <1>8, Zenon DEF R, C

(* reclaim_from_hot, and force_reclaim of hot.                             *)
LEMMA ReclaimFromHotIsSound ==
  ASSUME NEW d, NEW F, Sound(d, F)
  PROVE  Reclaims(ReclaimFromHot(d), d, F, {"fwlog", "hot"})
<1> DEFINE R == {"fwlog", "hot"}
           C == {}
           r == "hot"
           e == WithVictim(d, r)
           v == Head(e.fifo[r])
           popped == PopVictim(e, r)
           k == CopyFromHot(popped, v)
<1>1. /\ r \in Regions /\ R \subseteq Regions /\ NextRegion[r] = "cold"
      /\ C \subseteq {r} /\ \A q \in C : Dry(d, q)
  BY DEF Regions, NextRegion
<1>2. Copies(k, d, F, r, R, C)
  <2>1. v \notin F /\ Sound(popped, F \cup {v})
          => Copying(CopyFromHot(popped, v), popped, F, v, R, C)
    <3> HIDE DEF popped, v
    <3> QED BY CopyHotIsSound
  <2> QED BY <1>1, <2>1, Zenon DEF Copies
<1>3. ReclaimFromHot(d) = ReclaimFrom(d, r, k)
  BY Zenon DEF ReclaimFromHot, Victim, Popped
<1> HIDE DEF k, R, r, C
<1>4. Reclaims(ReclaimFrom(d, r, k), d, F, R)
  BY <1>1, <1>2, ReclaimIsSound
<1> QED BY <1>3, <1>4 DEF R

LEMMA ForceHotIsSound ==
  ASSUME NEW d, NEW F, Sound(d, F)
  PROVE  Reclaims(ForceHot(d), d, F, {"fwlog", "hot"})
<1> DEFINE R == {"fwlog", "hot"}
           e == ReclaimFromHot(d)
           z == ReclaimFromCold(e)
<1>1. Sound(e, F) /\ Keeps(e, d, F) /\ Steady(e, d, R) /\ Reclaims(e, d, F, R)
  BY ReclaimFromHotIsSound DEF Reclaims
<1> HIDE DEF e
<1>2. Sound(z, F) /\ Keeps(z, e, F) /\ Steady(z, e, R)
  BY <1>1, ReclaimFromColdIsSound DEF Reclaims
<1> HIDE DEF z
<1>3. Reclaims(z, d, F, R)
  BY <1>1, <1>2, ThenReclaims
<1>4. ForceHot(d) = IF e.ok THEN e ELSE z
  BY DEF ForceHot, OrCold, e, z
<1> QED BY <1>1, <1>3, <1>4

(* The copy of a victim of the log, which may force hot and cold.          *)
LEMMA CopyFwlogIsSound ==
  ASSUME NEW d, NEW F, NEW v, v \notin F, Sound(d, F \cup {v})
  PROVE  Copying(CopyFromFwlog(d, v), d, F, v, {"fwlog"}, {})
<1> DEFINE R == {"fwlog"}
           C == {}
           start == Answer(d, TRUE)
<1>1. /\ Sound(start, F \cup {v}) /\ Still(start, d) /\ Stored(start) = Stored(d)
      /\ start.active = d.active
  BY AnswerIsSound
<1>2. Copying(start, d, F, v, R, C)
  <2> HIDE DEF start
  <2> QED BY <1>1 DEF Copying, Keeps, Still, Steady
<1>3. ASSUME NEW e, NEW i \in Slots, Copying(e, d, F, v, R, C)
      PROVE  Copying(OneTurn("fwlog", e, v, i), d, F, v, R, C)
  <2> DEFINE to == "hot"
             sealed == SealFull(e, to)
             f == ForceHot(sealed)
             x == EnsureActive(e, to, f)
  <2>1. CASE ~(e.ok /\ e.slot[v][i] # Nil)
    BY <1>3, <2>1 DEF OneTurn
  <2>2. CASE e.ok /\ e.slot[v][i] # Nil
    <3>1. Sound(e, F \cup {v}) /\ to \in Regions /\ R \subseteq Regions /\ to \notin R
      BY <1>3 DEF Copying, Regions
    <3> HIDE DEF sealed
    <3>2. Sound(sealed, F \cup {v}) /\ sealed.active[to] = Nil /\ sealed.free[to] = <<>>
            => Reclaims(f, sealed, F \cup {v}, R \cup {to})
      <4> HIDE DEF f
      <4>1. Sound(sealed, F \cup {v})
              => Reclaims(ForceHot(sealed), sealed, F \cup {v}, {"fwlog", "hot"})
        BY ForceHotIsSound
      <4>2. {"fwlog", "hot"} = R \cup {to}
        OBVIOUS
      <4> QED BY <4>1, <4>2 DEF f
    <3>3. x = IF sealed.active[to] # Nil THEN Answer(sealed, TRUE)
              ELSE IF sealed.free[to] = <<>> THEN OpenFree(f, to)
              ELSE OpenFree(Answer(sealed, TRUE), to)
      BY DEF EnsureActive, sealed
    <3>4. OneTurn("fwlog", e, v, i) = MoveBlock(x, v, i, to)
      BY <2>2 DEF OneTurn, Migrate, sealed
    <3>5. Reclaims(x, e, F \cup {v}, R) /\ (x.ok => Ready(x, to))
      <4> HIDE DEF R, f, x, to
      <4> QED BY <3>1, <3>2, <3>3, EnsureIsSound DEF sealed
    <3>6. C \subseteq {to} /\ \A q \in C : Dry(x, q)
      OBVIOUS
    <3> HIDE DEF x, R, to, C
    <3>7. Copying(MoveBlock(x, v, i, to), d, F, v, R, C)
      BY <1>3, <2>2, <3>1, <3>5, <3>6, TurnIsSound
    <3> QED BY <3>4, <3>7
  <2> QED BY <2>1, <2>2
<1> DEFINE CopySlot(e, i) ==
             IF e.ok /\ e.slot[v][i] # Nil THEN Migrate(e, v, i, "hot", ForceHot(SealFull(e, "hot"))) ELSE e
           Copied[i \in 0 .. SegBlocks] ==
             IF i = 0 THEN start ELSE CopySlot(Copied[i - 1], i)
           Is(f) == f = [i \in 0 .. SegBlocks |-> IF i = 0 THEN start ELSE CopySlot(f[i - 1], i)]
<1>4. \A f : Is(f) <=> Turns(f, SegBlocks, "fwlog", d, v)
  <2>1. \A e, i : OneTurn("fwlog", e, v, i) = CopySlot(e, i)
    BY DEF OneTurn
  <2> HIDE DEF CopySlot
  <2> QED BY <2>1, Zenon DEF Turns
<1> HIDE DEF R, C
<1>5. /\ \E f : Turns(f, SegBlocks, "fwlog", d, v)
      /\ \A f : Turns(f, SegBlocks, "fwlog", d, v) => Copying(f[SegBlocks], d, F, v, R, C)
  BY <1>2, <1>3, CopyLoop
<1>6. Is(Copied)
  BY Zenon, <1>4, <1>5
<1>7. Copying(Copied[SegBlocks], d, F, v, R, C)
  BY Zenon, <1>4, <1>5, <1>6
<1>8. CopyFromFwlog(d, v) = Copied[SegBlocks]
  BY Zenon DEF CopyFromFwlog, EachValid
<1> QED BY <1>7, <1>8, Zenon DEF R, C

(* reclaim_from_fwlog, and force_reclaim of the log.                       *)
LEMMA ReclaimFromFwlogIsSound ==
  ASSUME NEW d, NEW F, Sound(d, F)
  PROVE  Reclaims(ReclaimFromFwlog(d), d, F, {"fwlog"})
<1> DEFINE R == {"fwlog"}
           C == {}
           r == "fwlog"
           e == WithVictim(d, r)
           v == Head(e.fifo[r])
           popped == PopVictim(e, r)
           k == CopyFromFwlog(popped, v)
<1>1. /\ r \in Regions /\ R \subseteq Regions /\ NextRegion[r] = "hot"
      /\ C \subseteq {r} /\ \A q \in C : Dry(d, q)
  BY DEF Regions, NextRegion
<1>2. Copies(k, d, F, r, R, C)
  <2>1. v \notin F /\ Sound(popped, F \cup {v})
          => Copying(CopyFromFwlog(popped, v), popped, F, v, R, C)
    <3> HIDE DEF popped, v
    <3> QED BY CopyFwlogIsSound
  <2> QED BY <1>1, <2>1, Zenon DEF Copies
<1>3. ReclaimFromFwlog(d) = ReclaimFrom(d, r, k)
  BY Zenon DEF ReclaimFromFwlog, Victim, Popped
<1> HIDE DEF k, R, r, C
<1>4. Reclaims(ReclaimFrom(d, r, k), d, F, R)
  BY <1>1, <1>2, ReclaimIsSound
<1> QED BY <1>3, <1>4 DEF R

LEMMA ForceFwlogIsSound ==
  ASSUME NEW d, NEW F, Sound(d, F)
  PROVE  Reclaims(ForceFwlog(d), d, F, {"fwlog"})
<1> DEFINE R == {"fwlog"}
           e == ReclaimFromFwlog(d)
           z == ForceHot(e)
<1>1. Sound(e, F) /\ Keeps(e, d, F) /\ Steady(e, d, R) /\ Reclaims(e, d, F, R)
  BY ReclaimFromFwlogIsSound DEF Reclaims
<1> HIDE DEF e
<1>2. Sound(z, F) /\ Keeps(z, e, F) /\ Steady(z, e, R)
  BY <1>1, ForceHotIsSound DEF Reclaims, Steady
<1> HIDE DEF z
<1>3. Reclaims(z, d, F, R)
  BY <1>1, <1>2, ThenReclaims
<1>4. ForceFwlog(d) = IF e.ok THEN e ELSE z
  BY DEF ForceFwlog, e, z
<1> QED BY <1>1, <1>3, <1>4

(* ensure_active_segment of the log, which may force all three.            *)
LEMMA EnsureFwlogIsSound ==
  ASSUME NEW d, NEW F, Sound(d, F)
  PROVE  LET x == OpenLog(d)
         IN Sound(x, F) /\ Keeps(x, d, F) /\ (x.ok => Ready(x, "fwlog"))
<1> DEFINE r == "fwlog"
           R == {}
           sealed == SealFull(d, r)
           f == ForceFwlog(sealed)
           x == OpenLog(d)
<1>1. r \in Regions /\ R \subseteq Regions /\ r \notin R /\ {"fwlog"} = R \cup {r}
  BY DEF Regions
<1>2. x = IF sealed.active[r] # Nil THEN Answer(sealed, TRUE)
          ELSE IF sealed.free[r] = <<>> THEN OpenFree(f, r)
          ELSE OpenFree(Answer(sealed, TRUE), r)
  BY DEF EnsureActive, OpenLog
<1>3. Sound(sealed, F) => Reclaims(f, sealed, F, R \cup {r})
  <2> HIDE DEF sealed
  <2> QED BY <1>1, ForceFwlogIsSound
<1> HIDE DEF r, R, f, x
<1>4. Reclaims(x, d, F, R) /\ (x.ok => Ready(x, r))
  BY <1>1, <1>2, <1>3, EnsureIsSound
<1> QED BY <1>4 DEF Reclaims, x, r

(* maybe_run_gc.                                                           *)
LEMMA GCIsSound ==
  ASSUME NEW d, NEW F, Sound(d, F)
  PROVE  Sound(MaybeRunGC(d), F) /\ Keeps(MaybeRunGC(d), d, F)
<1> DEFINE Fine(x) == Sound(x, F) /\ Keeps(x, d, F)
           no == Answer(d, FALSE)
           hot == IF NeedsGC(d, "hot", 15) THEN ReclaimFromHot(d) ELSE no
           cold == IF ~hot.ok /\ NeedsGC(hot, "cold", 15) THEN ReclaimFromCold(hot) ELSE hot
           fwlog == IF ~cold.ok /\ NeedsGC(cold, "fwlog", 150) THEN ReclaimFromFwlog(cold) ELSE cold
           last == IF ~fwlog.ok /\ NeedsGC(fwlog, "hot", 50) THEN ReclaimFromHot(fwlog) ELSE fwlog
           end == Answer(last, TRUE)
<1>1. MaybeRunGC(d) = end
  BY Zenon DEF MaybeRunGC
<1>2. ASSUME NEW x, Fine(x)
      PROVE  /\ Fine(ReclaimFromHot(x)) /\ Fine(ReclaimFromCold(x)) /\ Fine(ReclaimFromFwlog(x))
             /\ \A y \in BOOLEAN : Fine(Answer(x, y))
  <2>1. \A z : Sound(z, F) /\ Keeps(z, x, F) => Fine(z)
    BY <1>2, KeepsInTurn
  <2>2. /\ Reclaims(ReclaimFromHot(x), x, F, {"fwlog", "hot"})
        /\ Reclaims(ReclaimFromCold(x), x, F, {"fwlog", "hot"})
        /\ Reclaims(ReclaimFromFwlog(x), x, F, {"fwlog"})
    BY <1>2, ReclaimFromHotIsSound, ReclaimFromColdIsSound, ReclaimFromFwlogIsSound
  <2>3. ASSUME NEW y \in BOOLEAN PROVE Fine(Answer(x, y))
    <3>1. /\ Sound(Answer(x, y), F) /\ Still(Answer(x, y), x)
          /\ Stored(Answer(x, y)) = Stored(x)
      BY <1>2, AnswerIsSound
    <3>2. Keeps(Answer(x, y), x, F)
      BY <3>1 DEF Keeps, Still
    <3> QED BY <2>1, <3>1, <3>2
  <2> HIDE DEF Fine
  <2> QED BY <2>1, <2>2, <2>3 DEF Reclaims
<1>3. Fine(d)
  BY DEF Keeps
<1> HIDE DEF Fine
<1>4. Fine(no)
  BY <1>2, <1>3
<1>5. Fine(hot)
  BY <1>2, <1>3, <1>4
<1> HIDE DEF hot
<1>6. Fine(cold)
  BY <1>2, <1>5
<1> HIDE DEF cold
<1>7. Fine(fwlog)
  BY <1>2, <1>6
<1> HIDE DEF fwlog
<1>8. Fine(last)
  BY <1>2, <1>7
<1> HIDE DEF last
<1>9. Fine(end)
  BY <1>2, <1>8
<1> QED BY <1>1, <1>9 DEF Fine

-----------------------------------------------------------------------------
(* The specification.                                                      *)

(* initialize_regions gives away every segment.                            *)
LEMMA ShareFacts ==
  /\ Share.fwlog \in Nat /\ Share.hot \in Nat /\ Share.cold \in Nat
  /\ Share.fwlog + Share.hot + Share.cold = TotalSegments
<1> DEFINE fwlog == AtLeastOne(RoundPercent(TotalSegments, 5))
           rest == TotalSegments - fwlog
           hot == AtLeastOne(RoundPercent(rest, 50))
           taken == IF hot = rest THEN 1 ELSE 0
<1>1. TotalSegments \in Nat /\ TotalSegments >= 3
  BY CacheFacts
<1>2. fwlog \in Nat /\ fwlog <= TotalSegments - 2
  <2> DEFINE q == (2 * TotalSegments * 5 + 100) \div 200
  <2>1. q \in Nat /\ 200 * q <= 10 * TotalSegments + 100
    BY <1>1
  <2>2. fwlog = IF q < 1 THEN 1 ELSE q
    BY DEF AtLeastOne, RoundPercent
  <2> HIDE DEF q, fwlog
  <2> QED BY <1>1, <2>1, <2>2
<1> HIDE DEF fwlog
<1>3. rest \in Nat /\ rest >= 2 /\ fwlog + rest = TotalSegments
  BY <1>1, <1>2
<1> HIDE DEF rest
<1>4. hot \in Nat /\ hot >= 1 /\ hot <= rest
  <2> DEFINE q == (2 * rest * 50 + 100) \div 200
  <2>1. q \in Nat /\ 200 * q <= 100 * rest + 100
    BY <1>3
  <2>2. hot = IF q < 1 THEN 1 ELSE q
    BY DEF AtLeastOne, RoundPercent
  <2> HIDE DEF q, hot
  <2> QED BY <1>3, <2>1, <2>2
<1> HIDE DEF hot
<1>5. taken \in {0, 1} /\ (taken = 1 => hot = rest)
  OBVIOUS
<1> HIDE DEF taken
<1>6. Share = [fwlog |-> fwlog, hot |-> hot - taken, cold |-> rest - hot + taken]
  BY Zenon DEF Share, fwlog, rest, hot, taken
<1>7. /\ fwlog \in Nat /\ hot - taken \in Nat /\ rest - hot + taken \in Nat
      /\ fwlog + (hot - taken) + (rest - hot + taken) = TotalSegments
  BY <1>2, <1>3, <1>4, <1>5
<1>8. Share.fwlog = fwlog /\ Share.hot = hot - taken /\ Share.cold = rest - hot + taken
  BY <1>6
<1> QED BY <1>7, <1>8

(* Each to one region.                                                     *)
LEMMA SegmentsAreSharedOut ==
  /\ \A r \in Regions :
       /\ Share[r] \in Nat /\ FirstOf[r] \in Nat /\ FirstOf[r] >= 1
       /\ SegmentsOf(r) \subseteq Segments
  /\ \A s \in Segments : \E r \in Regions : s \in SegmentsOf(r)
  /\ \A r, q \in Regions : r # q => SegmentsOf(r) \cap SegmentsOf(q) = {}
<1> DEFINE A == Share.fwlog
           B == Share.hot
           C == Share.cold
<1>1. A \in Nat /\ B \in Nat /\ C \in Nat /\ A + B + C = TotalSegments
  BY ShareFacts
<1>2. FirstOf.fwlog = 1 /\ FirstOf.hot = 1 + A /\ FirstOf.cold = 1 + A + B
  BY DEF FirstOf
<1>3. /\ SegmentsOf("fwlog") = 1 .. 1 + A - 1
      /\ SegmentsOf("hot") = 1 + A .. 1 + A + B - 1
      /\ SegmentsOf("cold") = 1 + A + B .. 1 + A + B + C - 1
  BY <1>2 DEF SegmentsOf
<1> HIDE DEF A, B, C
<1>4. \A s : s \in SegmentsOf("fwlog") <=> s \in Int /\ 1 <= s /\ s <= A
  BY <1>1, <1>3
<1>5. \A s : s \in SegmentsOf("hot") <=> s \in Int /\ A < s /\ s <= A + B
  BY <1>1, <1>3
<1>6. \A s : s \in SegmentsOf("cold") <=> s \in Int /\ A + B < s /\ s <= TotalSegments
  BY <1>1, <1>3
<1>7. \A s : s \in Segments <=> s \in Int /\ 1 <= s /\ s <= TotalSegments
  BY <1>1, CacheFacts DEF Segments
<1>8. \A r \in Regions : r = "fwlog" \/ r = "hot" \/ r = "cold"
  BY DEF Regions
<1>9. "fwlog" \in Regions /\ "hot" \in Regions /\ "cold" \in Regions
  BY DEF Regions
<1>10. \A r \in Regions : Share[r] \in Nat /\ FirstOf[r] \in Nat /\ FirstOf[r] >= 1
  BY <1>1, <1>2, <1>8 DEF A, B, C
<1>11. \A r \in Regions : SegmentsOf(r) \subseteq Segments
  BY <1>1, <1>4, <1>5, <1>6, <1>7, <1>8
<1>12. ASSUME NEW s \in Segments PROVE \E r \in Regions : s \in SegmentsOf(r)
  <2>1. s \in Int /\ 1 <= s /\ s <= TotalSegments
    BY <1>7
  <2>2. s <= A \/ (A < s /\ s <= A + B) \/ A + B < s
    BY <1>1, <2>1
  <2> QED BY <1>4, <1>5, <1>6, <1>9, <2>1, <2>2
<1>13. ASSUME NEW r \in Regions, NEW q \in Regions, r # q, NEW s \in SegmentsOf(r), s \in SegmentsOf(q)
       PROVE  FALSE
  <2>1. ~(s \in SegmentsOf("fwlog") /\ s \in SegmentsOf("hot"))
    BY <1>1, <1>4, <1>5
  <2>2. ~(s \in SegmentsOf("fwlog") /\ s \in SegmentsOf("cold"))
    BY <1>1, <1>4, <1>6
  <2>3. ~(s \in SegmentsOf("hot") /\ s \in SegmentsOf("cold"))
    BY <1>1, <1>5, <1>6
  <2> QED BY <1>8, <1>13, <2>1, <2>2, <2>3
<1> QED BY <1>10, <1>11, <1>12, <1>13

(* The free list of a region is the segments it was given.                 *)
LEMMA FreeAtFirst ==
  ASSUME NEW r \in Regions, NEW x, x = [i \in 1 .. Share[r] |-> FirstOf[r] + i - 1]
  PROVE  x \in Seq(Segments) /\ Once(x) /\ Range(x) = SegmentsOf(r)
<1>1. Share[r] \in Nat /\ FirstOf[r] \in Nat /\ SegmentsOf(r) \subseteq Segments
  BY SegmentsAreSharedOut
<1> DEFINE n == Share[r]
           a == FirstOf[r]
<1>2. SegmentsOf(r) = a .. a + n - 1
  BY DEF SegmentsOf
<1>3. n \in Nat /\ a \in Nat
  BY <1>1
<1>4. x = [i \in 1 .. n |-> a + i - 1]
  OBVIOUS
<1> HIDE DEF n, a
<1>5. DOMAIN x = 1 .. n /\ \A i \in 1 .. n : x[i] = a + i - 1
  BY <1>4
<1>6. \A i \in 1 .. n : i \in Nat /\ a + i - 1 \in a .. a + n - 1
  BY <1>3
<1>7. x \in Seq(Segments)
  <2>1. \A i \in 1 .. n : x[i] \in Segments
    BY <1>1, <1>2, <1>5, <1>6
  <2>2. x \in [1 .. n -> Segments]
    BY <1>4, <2>1
  <2> QED BY <1>3, <2>2, SeqDef
<1>8. Once(x)
  <2>1. \A i, j \in 1 .. n : a + i - 1 = a + j - 1 => i = j
    BY <1>3
  <2>2. \A i, j \in 1 .. n : x[i] = x[j] => a + i - 1 = a + j - 1
    BY <1>5
  <2>3. \A i, j \in 1 .. n : x[i] = x[j] => i = j
    BY <2>1, <2>2, Zenon
  <2>4. DOMAIN x = 1 .. n
    BY <1>5
  <2> QED BY <2>3, <2>4, Zenon DEF Once
<1>9. \A s \in a .. a + n - 1 : s - a + 1 \in 1 .. n /\ x[s - a + 1] = s
  <2> SUFFICES ASSUME NEW s \in a .. a + n - 1 PROVE s - a + 1 \in 1 .. n /\ x[s - a + 1] = s
    OBVIOUS
  <2>1. s - a + 1 \in 1 .. n /\ a + (s - a + 1) - 1 = s
    BY <1>3
  <2> QED BY <1>5, <2>1
<1>10. Range(x) = a .. a + n - 1
  <2>1. \A s : s \in Range(x) <=> \E i \in 1 .. n : x[i] = s
    BY <1>5, Zenon DEF Range
  <2>2. \A i \in 1 .. n : x[i] \in a .. a + n - 1
    BY <1>5, <1>6
  <2>3. \A s \in a .. a + n - 1 : \E i \in 1 .. n : x[i] = s
    BY <1>9
  <2>4. ASSUME NEW s \in Range(x) PROVE s \in a .. a + n - 1
    <3>1. PICK i \in 1 .. n : x[i] = s
      BY <2>1
    <3> QED BY <2>2, <3>1
  <2>5. \A s \in a .. a + n - 1 : s \in Range(x)
    BY <2>1, <2>3
  <2> QED BY <2>4, <2>5
<1> QED BY <1>2, <1>7, <1>8, <1>10

(* The first state.                                                        *)
LEMMA InitIsSound ==
  ASSUME FWInit
  PROVE  Sound(c, {})
<1>1. /\ c.slot = [s \in Segments |-> [i \in Slots |-> Nil]]
      /\ c.fill = [s \in Segments |-> 0] /\ c.valid = [s \in Segments |-> 0]
      /\ c.where = [b \in Blocks |-> Nil]
      /\ c.free = [r \in Regions |-> [i \in 1 .. Share[r] |-> FirstOf[r] + i - 1]]
      /\ c.fifo = [r \in Regions |-> <<>>] /\ c.active = [r \in Regions |-> Nil]
      /\ c.region = [s \in Segments |-> CHOOSE r \in Regions : s \in SegmentsOf(r)]
      /\ c.count = [r \in Regions |-> 0] /\ c.drive = {} /\ c.ok = TRUE
      /\ DOMAIN c = CacheFields
  BY DEF FWInit, CacheFields
<1>2. \A s \in Segments : c.region[s] \in Regions /\ s \in SegmentsOf(c.region[s])
  <2> SUFFICES ASSUME NEW s \in Segments
               PROVE  c.region[s] \in Regions /\ s \in SegmentsOf(c.region[s])
    OBVIOUS
  <2>1. \E r \in Regions : s \in SegmentsOf(r)
    BY SegmentsAreSharedOut
  <2>2. c.region[s] = CHOOSE r \in Regions : s \in SegmentsOf(r)
    BY <1>1
  <2> QED BY <2>1, <2>2, Zenon
<1>3. \A r \in Regions : {s \in Segments : c.region[s] = r} = SegmentsOf(r)
  BY <1>2, SegmentsAreSharedOut
<1>4. \A r \in Regions :
        c.free[r] \in Seq(Segments) /\ Once(c.free[r]) /\ Range(c.free[r]) = SegmentsOf(r)
  BY <1>1, FreeAtFirst
<1>5. /\ c.free = [r \in Regions |-> c.free[r]] /\ c.region = [s \in Segments |-> c.region[s]]
      /\ \A r \in Regions : c.fifo[r] = <<>> /\ c.active[r] = Nil
  BY <1>1
<1>6. CacheTypes(c)
  <2>1. c.slot \in [Segments -> [Slots -> Blocks \cup {Nil}]]
    BY <1>1
  <2>2. c.fill \in [Segments -> 0 .. SegBlocks]
    BY <1>1, CacheFacts
  <2>3. /\ c.valid \in [Segments -> Nat] /\ c.where \in [Blocks -> (Segments \X Slots) \cup {Nil}]
        /\ c.count \in [Regions -> Int] /\ c.active \in [Regions -> Segments \cup {Nil}]
    BY <1>1
  <2>4. c.free \in [Regions -> Seq(Segments)] /\ c.region \in [Segments -> Regions]
    BY <1>2, <1>4, <1>5
  <2>5. c.fifo \in [Regions -> Seq(Segments)]
    BY <1>1
  <2> QED BY <1>1, <2>1, <2>2, <2>3, <2>4, <2>5 DEF CacheTypes
<1>7. Homes(c, {})
  <2>1. Range(<<>>) = {} /\ Once(<<>>)
    BY DEF Range, Once
  <2>2. \A s \in Segments, r \in Regions : s \in Range(c.free[r]) <=> c.region[s] = r
    BY <1>3, <1>4
  <2>3. \A s \in Segments : s # Nil
    BY CacheFacts
  <2>4. \A s \in Segments, r \in Regions : Home(c, {}, s, r)
    BY <1>5, <2>1, <2>2, <2>3 DEF Home
  <2> QED BY <1>4, <1>5, <2>1, <2>4 DEF Homes
<1>8. \A s \in Segments, i \in Slots : c.slot[s][i] = Nil
  BY <1>1
<1>9. Room(c)
  <2>1. \A r \in Regions : Range(c.free[r]) \subseteq Segments
    BY <1>4, SegmentsAreSharedOut
  <2> QED BY <1>8, <2>1 DEF Room
<1>10. Indexed(c)
  BY <1>1, <1>8 DEF Indexed
<1>11. Counted(c)
  <2>1. /\ \A s \in Segments : Filled(c, s) = {} /\ c.valid[s] = 0
        /\ \A r \in Regions : Pages(c, r) = {} /\ c.count[r] = 0
    BY <1>1, <1>8 DEF Filled, Pages
  <2> QED BY <2>1, FS_EmptySet DEF Counted
<1>12. Labelled(c)
  <2> SUFFICES ASSUME NEW r \in Regions PROVE Cardinality(SegmentsOf(r)) = Share[r]
    BY <1>3 DEF Labelled
  <2> DEFINE n == Share[r]
             a == FirstOf[r]
  <2>1. n \in Nat /\ a \in Nat
    BY SegmentsAreSharedOut
  <2>2. SegmentsOf(r) = a .. a + n - 1
    BY DEF SegmentsOf
  <2> HIDE DEF n, a
  <2>3. a + n - 1 \in Int /\ a \in Int
    BY <2>1
  <2>4. Cardinality(a .. a + n - 1) = IF a > a + n - 1 THEN 0 ELSE (a + n - 1) - a + 1
    BY <2>3, FS_Interval
  <2>5. (IF a > a + n - 1 THEN 0 ELSE (a + n - 1) - a + 1) = n
    BY <2>1
  <2> QED BY <2>2, <2>4, <2>5 DEF n
<1> QED BY <1>6, <1>7, <1>9, <1>10, <1>11, <1>12 DEF Sound

(* Every step keeps the invariant, and every block that was stored.        *)
LEMMA StepIsSound ==
  ASSUME Sound(c, {}), [FWNext]_fwVars
  PROVE  Sound(c', {}) /\ Stored(c) \subseteq Stored(c')
<1> DEFINE opened == OpenLog(c)
<1>1. Sound(opened, {}) /\ Keeps(opened, c, {}) /\ (opened.ok => Ready(opened, "fwlog"))
  BY EnsureFwlogIsSound
<1>2. ASSUME NEW b \in Blocks, AppendHost(b)
      PROVE  Sound(c', {}) /\ Stored(c) \subseteq Stored(c')
  <2> DEFINE m == Invalidate(opened, b)
             s == opened.active["fwlog"]
             p == PlaceBlock(m, s, b)
  <2>1. opened.ok /\ c' = p
    BY <1>2 DEF AppendHost
  <2> HIDE DEF opened
  <2>2. s # Nil /\ opened.fill[s] < SegBlocks /\ Stored(c) \subseteq Stored(opened)
    BY <1>1, <2>1 DEF Ready, Keeps
  <2>3. /\ Sound(m, {}) /\ m.where[b] = Nil /\ b \notin m.drive
        /\ Stored(opened) \subseteq Stored(m) \cup {b}
        /\ m.active = opened.active /\ m.fill = opened.fill
    BY <1>1, InvalidateIsSound
  <2> HIDE DEF m
  <2>4. s = m.active["fwlog"] /\ m.fill[s] < SegBlocks /\ "fwlog" \in Regions
    BY <2>2, <2>3 DEF Regions
  <2>5. Sound(p, {}) /\ Stored(p) = Stored(m) \cup {b}
    <3> HIDE DEF s
    <3> QED BY <2>2, <2>3, <2>4, PlaceIsSound
  <2> HIDE DEF p
  <2> QED BY <2>1, <2>2, <2>3, <2>5
<1>3. CASE Throw
  <2>1. c' = opened
    BY <1>3 DEF Throw
  <2> HIDE DEF opened
  <2> QED BY <1>1, <2>1 DEF Keeps
<1>4. CASE RunGC
  BY <1>4, GCIsSound DEF RunGC, Keeps
<1>5. CASE UNCHANGED fwVars
  BY <1>5 DEF fwVars
<1> QED BY <1>2, <1>3, <1>4, <1>5 DEF FWNext

(* The inductive invariant of the hot/cold cache: in every reachable state *)
(* each segment is in one place of the region it is counted for, the       *)
(* mapping and the slots agree, free segments are empty, and the counts    *)
(* are exact. It holds through every forced reclaim in the middle of a     *)
(* copy.                                                                   *)
THEOREM FairyWrenInvariance == FWSpec => []Sound(c, {})
<1>1. FWInit => Sound(c, {})
  BY InitIsSound
<1>2. Sound(c, {}) /\ [FWNext]_fwVars => Sound(c, {})'
  BY StepIsSound
<1> QED BY <1>1, <1>2, PTL DEF FWSpec

(* The mapping names a slot that holds the block, every valid slot is the  *)
(* one its block is mapped to, and no cached block is mapped below: forced *)
(* and nested reclaims neither lose a block from the index nor reset a     *)
(* slot it names (fairywren_cache.cpp, migrate_block and                   *)
(* copy_valid_blocks).                                                     *)
THEOREM IndexStaysExact == FWSpec => []IndexExact
<1>1. Sound(c, {}) => IndexExact
  BY DEF Sound, Indexed, IndexExact, InCache
<1> QED BY <1>1, FairyWrenInvariance, PTL

(* The count of valid blocks of a region is that of its segments, whatever *)
(* blocks and segments were moved between regions: the underflow that      *)
(* fairywren_cache.cpp:276 throws on cannot occur.                         *)
THEOREM CountsStayExact == FWSpec => []RegionCountsExact
<1>1. Sound(c, {}) => RegionCountsExact
  BY DEF Sound, Counted, Pages, RegionCountsExact
<1> QED BY <1>1, FairyWrenInvariance, PTL

(* The three places of a region add up to the segments it was given.       *)
LEMMA ListsPartition ==
  ASSUME NEW d, Sound(d, {}), NEW r \in Regions
  PROVE  Len(d.free[r]) + Len(d.fifo[r]) + (IF d.active[r] = Nil THEN 0 ELSE 1) = Share[r]
<1> DEFINE A == Range(d.free[r])
           B == Range(d.fifo[r])
           C == IF d.active[r] = Nil THEN {} ELSE {d.active[r]}
           L == {s \in Segments : d.region[s] = r}
<1>1. /\ d.free[r] \in Seq(Segments) /\ d.fifo[r] \in Seq(Segments)
      /\ Once(d.free[r]) /\ Once(d.fifo[r]) /\ d.active[r] \in Segments \cup {Nil}
      /\ Cardinality(L) = Share[r]
  BY DEF Sound, CacheTypes, Homes, Labelled
<1>2. /\ IsFiniteSet(A) /\ Cardinality(A) = Len(d.free[r])
      /\ IsFiniteSet(B) /\ Cardinality(B) = Len(d.fifo[r])
      /\ A \subseteq Segments /\ B \subseteq Segments
  BY <1>1, DistinctCount, RangeOfSeq DEF Once
<1>3. IsFiniteSet(C) /\ Cardinality(C) = (IF d.active[r] = Nil THEN 0 ELSE 1) /\ C \subseteq Segments
  BY <1>1, FS_EmptySet, FS_Singleton
<1>4. A \cap B = {} /\ (A \cup B) \cap C = {} /\ L = A \cup B \cup C
  <2>1. \A s \in Segments : Home(d, {}, s, r) /\ s # Nil
    BY CacheFacts DEF Sound, Homes
  <2>2. \A s \in Segments : s \in C <=> s = d.active[r]
    BY <2>1
  <2> HIDE DEF A, B, C
  <2>3. \A s \in Segments : /\ s \in L <=> s \in A \/ s \in B \/ s \in C
                            /\ ~(s \in A /\ s \in B) /\ ~(s \in A /\ s \in C) /\ ~(s \in B /\ s \in C)
    BY <2>1, <2>2 DEF Home, A, B
  <2> QED BY <1>2, <1>3, <2>3
<1> HIDE DEF A, B, C, L
<1>5. /\ IsFiniteSet(A \cup B)
      /\ Cardinality(A \cup B) = Cardinality(A) + Cardinality(B) - Cardinality(A \cap B)
  BY <1>2, FS_Union
<1>6. Cardinality((A \cup B) \cup C)
        = Cardinality(A \cup B) + Cardinality(C) - Cardinality((A \cup B) \cap C)
  BY <1>3, <1>5, FS_Union
<1>7. Cardinality({}) = 0 /\ Len(d.free[r]) \in Nat /\ Len(d.fifo[r]) \in Nat
  BY <1>1, FS_EmptySet, LenProperties
<1>8. /\ Cardinality(A \cup B) = Len(d.free[r]) + Len(d.fifo[r])
      /\ Share[r] = Cardinality(A \cup B) + Cardinality(C)
  <2>1. Cardinality(A \cap B) = 0 /\ Cardinality((A \cup B) \cap C) = 0
    BY <1>4, <1>7
  <2>2. Share[r] = Cardinality((A \cup B) \cup C)
    BY <1>1, <1>4
  <2>3. Cardinality(C) \in Nat /\ Cardinality(A) \in Nat /\ Cardinality(B) \in Nat
    BY <1>2, <1>3, <1>7
  <2>4. Cardinality(A \cup B) = Cardinality(A) + Cardinality(B)
    BY <1>5, <2>1, <2>3
  <2>5. Cardinality((A \cup B) \cup C) = Cardinality(A \cup B) + Cardinality(C)
    BY <1>6, <2>1, <2>3, <2>4
  <2> QED BY <1>2, <2>2, <2>4, <2>5
<1> QED BY <1>3, <1>8

(* A segment is free, closed or active in exactly one region, the one it   *)
(* is counted for, and the exchanges of garbage collection leave every     *)
(* region the number of segments initialize_regions gave it.               *)
THEOREM SegmentsStayShared == FWSpec => []SegmentsShared
<1>1. ASSUME Sound(c, {}) PROVE SegmentsShared
  <2>1. ASSUME NEW s \in Segments
        PROVE  {q \in Regions : s \in ToSet(c.free[q])} \cup {q \in Regions : s \in ToSet(c.fifo[q])}
                 \cup {q \in Regions : s = c.active[q]} = {c.region[s]}
    <3>1. \A q : ToSet(c.free[q]) = Range(c.free[q]) /\ ToSet(c.fifo[q]) = Range(c.fifo[q])
      BY DEF ToSet, Range
    <3>2. c.region[s] \in Regions /\ \A q \in Regions : Home(c, {}, s, q)
      BY <1>1 DEF Sound, CacheTypes, Homes
    <3>3. \A q \in Regions : (s \in ToSet(c.free[q]) \/ s \in ToSet(c.fifo[q]) \/ s = c.active[q])
                               <=> q = c.region[s]
      BY <3>1, <3>2 DEF Home
    <3> QED BY <3>2, <3>3
  <2>2. \A r \in Regions : Cardinality({s \in Segments : c.region[s] = r}) = Share[r]
    BY <1>1 DEF Sound, Labelled
  <2>3. \A r \in Regions :
          Len(c.free[r]) + Len(c.fifo[r]) + (IF c.active[r] = Nil THEN 0 ELSE 1) = Share[r]
    BY <1>1, ListsPartition
  <2> QED BY <2>1, <2>2, <2>3 DEF SegmentsShared
<1> QED BY <1>1, FairyWrenInvariance, PTL

(* No step loses a block: what was in the cache or on the cold drive       *)
(* before a write, a forced reclaim or a collection is in one of them      *)
(* after it.                                                               *)
THEOREM NothingIsDropped == FWSpec => NothingDropped
<1>1. Sound(c, {}) /\ [FWNext]_fwVars => [InCache \cup c.drive \subseteq InCache' \cup c'.drive]_fwVars
  BY StepIsSound DEF Stored, InCache
<1> QED BY <1>1, FairyWrenInvariance, PTL DEF FWSpec, NothingDropped
=============================================================================
