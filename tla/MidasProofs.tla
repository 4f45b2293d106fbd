---------------------------- MODULE MidasProofs ----------------------------
(***************************************************************************)
(* The safety properties of MidasCache on its engine, for every geometry,  *)
(* every set of configurations and keys: the page table and the out-of-    *)
(* band areas agree, the slots of the cached keys are the lbas with a      *)
(* page, every segment has one place and a label that fits it, the counts  *)
(* of the groups add up, and the hot filter knows what is hot.             *)
(***************************************************************************)
EXTENDS MidasCache, Containers, FiniteSetTheorems, TLAPS

-----------------------------------------------------------------------------
(* The inductive invariant.                                                *)

Fields ==
  {"page", "inv", "where", "gnum", "active", "queue", "total", "size", "free", "naive",
   "mida", "vp", "hf", "hotLbas", "coldTw", "commit", "watch", "err", "moved", "refused",
   "stop"}

Open == [seg : SegIds \cup {Nil}, off : 0 .. PPS]

EngineOK(d) ==
  /\ DOMAIN d = Fields
  /\ d.page \in [SegIds -> [PageNos -> Lbas \cup {Nil}]]
  /\ d.where \in [Lbas -> (SegIds \X PageNos) \cup {Nil}]
  /\ d.gnum \in [SegIds -> Groups \cup {Nil}]
  /\ d.active \in [Groups -> Open]
  /\ d.queue \in [Groups -> SUBSET SegIds]
  /\ d.free \in SUBSET SegIds
  /\ d.naive \in 1 .. MaxNaive /\ d.mida \in BOOLEAN

(* No segment is in two places, and none is in no place.  Segment v, if it *)
(* is one, is being emptied: it is in no place, or the active one of group *)
(* own.                                                                    *)
Apart(d, v, own) ==
  /\ \A q, r \in Groups : q # r => d.queue[q] \cap d.queue[r] = {}
  /\ \A q \in Groups : d.queue[q] \cap d.free = {}
  /\ \A g \in Groups : d.active[g].seg \notin d.free
  /\ \A g, q \in Groups : d.active[g].seg \notin d.queue[q]
  /\ \A g, h \in Groups : d.active[g].seg = d.active[h].seg /\ d.active[g].seg # Nil => g = h
  /\ v \in SegIds => /\ v \notin d.free /\ \A q \in Groups : v \notin d.queue[q]
                     /\ \A g \in Groups : d.active[g].seg = v <=> g = own
  /\ \A s \in SegIds : \/ s = v \/ s \in d.free
                       \/ \E q \in Groups : s \in d.queue[q]
                       \/ \E g \in Groups : d.active[g].seg = s

(* Where nothing was written there is nothing.                             *)
Blank(d, own) ==
  /\ \A s \in d.free, i \in PageNos : d.page[s][i] = Nil
  /\ \A g \in Groups \ {own} : d.active[g].seg # Nil =>
       \A i \in PageNos : i > d.active[g].off => d.page[d.active[g].seg][i] = Nil

(* The labels that queue q, and the chain of groups, may hold.             *)
Chain(d) == (IF d.naive = 1 /\ d.mida THEN 0 ELSE d.naive) .. GroupNum(d) - 1

(* A single group has the naive chain behind it.                           *)
ChainOn(d) == d.naive = 1 => d.mida

Labelled(d, J) ==
  /\ \A g \in Groups : d.active[g].seg # Nil => /\ d.gnum[d.active[g].seg] = g
                                                /\ g < GroupNum(d)
  /\ \A q \in Groups : \A s \in d.queue[q] :
       IF q < d.naive THEN d.gnum[s] = q
       ELSE q = d.naive /\ IF s \in J THEN d.gnum[s] = q - 1 ELSE d.gnum[s] \in Chain(d)
  /\ J \subseteq d.queue[d.naive]
  /\ d.active[d.naive].seg # Nil

Placed(d, v, own, J) ==
  EngineOK(d) /\ Apart(d, v, own) /\ Blank(d, own) /\ Labelled(d, J)

(* Table and pages agree, but for pages of v up to n, whose lbas are       *)
(* elsewhere now.                                                          *)
Agree(d, v, n) ==
  /\ \A s \in SegIds, i \in PageNos :
       d.page[s][i] # Nil /\ (s = v => i > n) => d.where[d.page[s][i]] = <<s, i>>
  /\ \A l \in Lbas : d.where[l] # Nil =>
       /\ d.page[d.where[l][1]][d.where[l][2]] = l
       /\ d.where[l][1] = v => d.where[l][2] > n

Present(d) == {l \in Lbas : d.where[l] # Nil}

(* The hot filter, while the pages of v up to n are outdated.              *)
HotIn(d, v, g, n) ==
  /\ d.hf \in [Lbas -> 0 .. HotVal]
  /\ d.hotLbas = Cardinality({l \in Lbas : d.hf[l] = HotVal})
  /\ \A s \in SegIds \ {v}, i \in PageNos :
       d.page[s][i] # Nil /\ d.gnum[s] = 0 => d.hf[d.page[s][i]] = HotVal
  /\ v \in SegIds /\ g = 0 =>
       \A i \in PageNos : i > n /\ d.page[v][i] # Nil => d.hf[d.page[v][i]] = HotVal

(* TOTAL_GNUM.  The groups below first have a queue of their own and the   *)
(* right counts; the others share queue naive, and have together as many   *)
(* as it holds.  Group over has one more, for a segment that is in no      *)
(* queue any more; group lost has given its segments away but not its      *)
(* count.                                                                  *)
Counts(d, first, over, lost) ==
  /\ d.total \in [Groups -> Int]
  /\ SumOver(d.total, first .. GroupNum(d) - 1) =
       Cardinality(d.queue[d.naive]) + (IF over \in first .. GroupNum(d) - 1 THEN 1 ELSE 0)
  /\ \A h \in Groups : h < first /\ h # lost =>
       d.total[h] = Cardinality(d.queue[h]) + (IF h = over THEN 1 ELSE 0)
  /\ \A h \in Groups : h >= GroupNum(d) => d.total[h] = 0
  /\ first = 0 => d.queue[0] = {}

First(d) == IF d.naive = 1 /\ d.mida THEN 0 ELSE d.naive

Balanced(d) == Counts(d, First(d), Nil, Nil)

(* What every procedure of the engine keeps.                               *)
Sound(d) == Placed(d, Nil, Nil, {}) /\ Agree(d, Nil, 0) /\ HotIn(d, Nil, Nil, 0)

EngineInv(d) ==
  Sound(d) /\ ChainOn(d) /\ d.vp = Cardinality(Present(d)) /\ Balanced(d)

MidasInv ==
  Running => /\ EngineInv(e)
             /\ slotOf \in [Keys -> Lbas \cup {Nil}]
             /\ KeysStored

-----------------------------------------------------------------------------
(* The constants, and the engine as a record.                              *)

LEMMA Sorts ==
  /\ PPS \in Nat /\ PPS >= 1 /\ SegNum \in Nat /\ NaiveN \in Nat /\ NaiveN >= 2
  /\ MaxNaive \in Nat /\ MaxNaive >= 1 /\ LbaNum \in Nat /\ LbaNum >= 1
  /\ Nil \notin SegIds /\ Nil \notin Lbas /\ Nil \notin Groups
  /\ Nil \notin SegIds \X PageNos
  /\ 0 \in Groups /\ 1 \in Groups /\ Groups \subseteq Nat
  /\ IsFiniteSet(Lbas)
<1>1. /\ PPS \in Nat /\ PPS >= 1 /\ SegNum \in Nat /\ NaiveN \in Nat /\ NaiveN >= 2
      /\ MaxNaive \in Nat /\ MaxNaive >= 1 /\ LbaNum \in Nat /\ LbaNum >= 1
  BY MidasAssumption
<1>2. /\ Nil \notin SegIds /\ Nil \notin Lbas /\ Nil \notin Groups
      /\ Nil \notin SegIds \X PageNos
  BY NilAssumption
<1>3. 0 \in Groups /\ 1 \in Groups /\ Groups \subseteq Nat
  BY <1>1 DEF Groups
<1>4. IsFiniteSet(Lbas)
  BY <1>1, FS_Interval DEF Lbas
<1> QED BY <1>1, <1>2, <1>3, <1>4

(* Agreement is about pages and table only, and the filter's about what it *)
(* counts and the labels.                                                  *)
LEMMA SameTable ==
  ASSUME NEW d, NEW r, NEW v, NEW n, Agree(d, v, n), r.page = d.page, r.where = d.where
  PROVE  Agree(r, v, n) /\ Present(r) = Present(d)
BY DEF Agree, Present

LEMMA SameFilter ==
  ASSUME NEW d, NEW r, NEW v, NEW g, NEW n, HotIn(d, v, g, n),
         r.page = d.page, r.gnum = d.gnum, r.hf = d.hf, r.hotLbas = d.hotLbas
  PROVE  HotIn(r, v, g, n)
BY DEF HotIn

LEMMA AgreeAt ==
  ASSUME NEW d, NEW v, NEW n, Agree(d, v, n), NEW s \in SegIds, NEW i \in PageNos,
         d.page[s][i] # Nil, s = v => i > n
  PROVE  d.where[d.page[s][i]] = <<s, i>>
BY DEF Agree

LEMMA StopStops ==
  ASSUME NEW d, DOMAIN d = Fields, NEW why \in Reasons
  PROVE  Stopped(Stop(d, why))
<1>1. why # Nil
  BY NilAssumption
<1> QED BY <1>1 DEF Stop, Stopped, Fields

(* What an operation on segments and pages leaves alone.                   *)
Unmoved(r, d) ==
  /\ r.vp = d.vp /\ r.naive = d.naive /\ r.mida = d.mida
  /\ r.stop = d.stop /\ r.refused = d.refused /\ r.hf = d.hf /\ r.hotLbas = d.hotLbas

LEMMA SealFields ==
  ASSUME NEW d, DOMAIN d = Fields, NEW g, NEW q
  PROVE  LET r == Seal(d, g, q)
         IN /\ DOMAIN r = Fields /\ r.page = d.page /\ r.where = d.where /\ r.gnum = d.gnum
            /\ r.active = d.active /\ r.free = d.free /\ Unmoved(r, d)
            /\ r.queue = [d.queue EXCEPT ![q] = @ \cup {d.active[g].seg}]
            /\ r.total = [d.total EXCEPT ![g] = @ + 1]
BY DEF Seal, Fields, Unmoved

(* The lowest free segment is opened for group g.                          *)
LEMMA OpenFields ==
  ASSUME NEW d, DOMAIN d = Fields, NEW g, d.free \in SUBSET SegIds, ~Stopped(OpenActive(d, g))
  PROVE  LET r == OpenActive(d, g)
             s == Min(d.free)
         IN /\ DOMAIN r = Fields /\ r.page = d.page /\ r.where = d.where
            /\ r.queue = d.queue /\ r.total = d.total /\ Unmoved(r, d)
            /\ s \in d.free /\ r.free = d.free \ {s}
            /\ r.gnum = [d.gnum EXCEPT ![s] = g]
            /\ r.active = [d.active EXCEPT ![g] = [seg |-> s, off |-> 0]]
<1>1. d.free # {}
  BY Zenon, StopStops DEF OpenActive, Reasons
<1>2. Min(d.free) \in d.free
  <2>1. d.free \in SUBSET Nat
    BY DEF SegIds
  <2>2. \E x \in d.free : \A y \in d.free : x <= y
    BY <1>1, <2>1, LeastElement
  <2> QED BY <2>2 DEF Min
<1> DEFINE s == Min(d.free)
<1>3. OpenActive(d, g) = [d EXCEPT !.free = @ \ {s}, !.gnum[s] = g,
                                   !.active[g] = [seg |-> s, off |-> 0]]
  BY Zenon, <1>1 DEF OpenActive
<1> HIDE DEF s
<1> QED BY <1>2, <1>3 DEF Fields, s, Unmoved

LEMMA OpenTotals ==
  ASSUME NEW d, DOMAIN d = Fields, NEW g, d.free \in SUBSET SegIds, ~Stopped(OpenActive(d, g))
  PROVE  OpenActive(d, g).total = d.total /\ OpenActive(d, g).queue = d.queue
<1> DEFINE r == OpenActive(d, g)
           s == Min(d.free)
<1>1. /\ DOMAIN r = Fields /\ r.page = d.page /\ r.where = d.where
      /\ r.queue = d.queue /\ r.total = d.total /\ Unmoved(r, d)
      /\ s \in d.free /\ r.free = d.free \ {s}
      /\ r.gnum = [d.gnum EXCEPT ![s] = g]
      /\ r.active = [d.active EXCEPT ![g] = [seg |-> s, off |-> 0]]
  BY ZenonT(60), OpenFields
<1> HIDE DEF r
<1> QED BY <1>1 DEF r

LEMMA EraseFields ==
  ASSUME NEW d, DOMAIN d = Fields, NEW s, NEW g
  PROVE  LET r == Erase(d, s, g)
         IN /\ DOMAIN r = Fields /\ r.where = d.where /\ r.active = d.active
            /\ r.queue = d.queue /\ Unmoved(r, d)
            /\ r.free = d.free \cup {s} /\ r.gnum = [d.gnum EXCEPT ![s] = Nil]
            /\ r.page = [d.page EXCEPT ![s] = [i \in PageNos |-> Nil]]
            /\ r.total = [d.total EXCEPT ![g] = @ - 1]
BY DEF Erase, Fields, Unmoved

(* What the hot filter does is of no concern to pages and segments.        *)
Same(r, d) ==
  /\ DOMAIN r = DOMAIN d /\ r.page = d.page /\ r.where = d.where /\ r.gnum = d.gnum
  /\ r.active = d.active /\ r.queue = d.queue /\ r.total = d.total
  /\ r.free = d.free /\ r.naive = d.naive
  /\ r.mida = d.mida /\ r.vp = d.vp /\ r.stop = d.stop /\ r.refused = d.refused

LEMMA FilterIsApart ==
  ASSUME NEW d, DOMAIN d = Fields, NEW lba, NEW g, NEW young
  PROVE  Same(HfOverwrite(d, lba, g, young), d) /\ Same(HfCopied(d, lba, g), d)
<1>1. Same(CountUp(d, lba), d)
  BY DEF Same, CountUp, Fields
<1>2. Same(CountDown(d, lba), d)
  BY DEF Same, CountDown, Fields
<1>3. Same([d EXCEPT !.coldTw = @ - 1], d) /\ Same(d, d)
  BY DEF Same, Fields
<1>4. Same([CountDown(d, lba) EXCEPT !.hf[lba] = @ - 1], d)
  BY DEF Same, CountDown, Fields
<1>5. Same(HfOverwrite(d, lba, g, young), d)
  BY <1>1, <1>2, <1>3 DEF HfOverwrite
<1>6. Same(HfCopied(d, lba, g), d)
  BY <1>2, <1>3, <1>4 DEF HfCopied
<1> QED BY <1>5, <1>6

-----------------------------------------------------------------------------
(* Placed and Agree say nothing of the other fields.                       *)
LEMMA SameKeepsPlaced ==
  ASSUME NEW d, NEW r, NEW v, NEW own, NEW J, NEW n, Same(r, d)
  PROVE  /\ Placed(d, v, own, J) => Placed(r, v, own, J)
         /\ Agree(d, v, n) => Agree(r, v, n)
         /\ Present(r) = Present(d)
<1>1. GroupNum(r) = GroupNum(d) /\ Chain(r) = Chain(d)
  BY DEF Same, GroupNum, Chain
<1>2. EngineOK(d) => EngineOK(r)
  BY DEF Same, EngineOK
<1>3. Apart(d, v, own) => Apart(r, v, own)
  BY DEF Same, Apart
<1>4. Blank(d, own) => Blank(r, own)
  BY DEF Same, Blank
<1>5. Labelled(d, J) => Labelled(r, J)
  BY <1>1 DEF Same, Labelled
<1>6. (Agree(d, v, n) => Agree(r, v, n)) /\ Present(r) = Present(d)
  BY DEF Same, Agree, Present
<1> QED BY <1>2, <1>3, <1>4, <1>5, <1>6 DEF Placed

LEMMA GroupsOf ==
  ASSUME NEW d, EngineOK(d)
  PROVE  /\ d.naive \in Groups /\ d.naive \in Nat /\ d.naive >= 1 /\ d.naive <= MaxNaive
         /\ GroupNum(d) \in Nat /\ GroupNum(d) > d.naive
         /\ \A g \in Nat : g < GroupNum(d) => g \in Groups
         /\ Chain(d) \subseteq Groups
<1>1. d.naive \in Nat /\ d.naive >= 1 /\ d.naive <= MaxNaive
  BY Sorts DEF EngineOK
<1>2. /\ GroupNum(d) = d.naive + NaiveN \/ GroupNum(d) = d.naive + 1
  BY DEF GroupNum
<1>3. GroupNum(d) \in Nat /\ GroupNum(d) > d.naive /\ GroupNum(d) <= MaxNaive + NaiveN
  BY <1>1, <1>2, Sorts
<1>4. \A g \in Nat : g < GroupNum(d) => g \in Groups
  BY <1>3, Sorts DEF Groups
<1>5. d.naive \in Groups
  BY <1>1, <1>3, <1>4
<1>6. Chain(d) \subseteq Groups
  BY <1>1, <1>3, <1>4 DEF Chain
<1> QED BY <1>1, <1>3, <1>4, <1>5, <1>6

-----------------------------------------------------------------------------
(* Counts.                                                                 *)

LEMMA QueueCount ==
  ASSUME NEW d, EngineOK(d), NEW q \in Groups
  PROVE  IsFiniteSet(d.queue[q]) /\ Cardinality(d.queue[q]) \in Nat
<1>1. IsFiniteSet(SegIds)
  BY Sorts, FS_Interval DEF SegIds
<1>2. d.queue[q] \in SUBSET SegIds
  BY DEF EngineOK
<1> QED BY <1>1, <1>2, FS_Subset, FS_CardinalityType

LEMMA DisjointCount ==
  ASSUME NEW S, IsFiniteSet(S), NEW T, IsFiniteSet(T), S \cap T = {}
  PROVE  IsFiniteSet(S \cup T) /\ Cardinality(S \cup T) = Cardinality(S) + Cardinality(T)
<1>1. /\ IsFiniteSet(S \cup T)
      /\ Cardinality(S \cup T) = Cardinality(S) + Cardinality(T) - Cardinality(S \cap T)
  BY FS_Union
<1>2. Cardinality(S \cap T) = 0 /\ Cardinality(S) \in Nat /\ Cardinality(T) \in Nat
  BY FS_EmptySet, FS_CardinalityType
<1> DEFINE a == Cardinality(S)
           b == Cardinality(T)
           u == Cardinality(S \cup T)
           c == Cardinality(S \cap T)
<1>3. u = a + b - c /\ c = 0 /\ a \in Nat /\ b \in Nat
  BY <1>1, <1>2
<1> HIDE DEF a, b, c, u
<1>4. u = a + b
  BY <1>3
<1> QED BY <1>1, <1>4 DEF a, b, u

LEMMA PartCount ==
  ASSUME NEW S, IsFiniteSet(S), NEW T, T \subseteq S
  PROVE  /\ IsFiniteSet(T) /\ Cardinality(T) \in Nat
         /\ Cardinality(S \ T) = Cardinality(S) - Cardinality(T)
<1>1. S \cap T = T /\ IsFiniteSet(T)
  BY FS_Subset
<1>2. Cardinality(S \ T) = Cardinality(S) - Cardinality(S \cap T)
  BY FS_Difference
<1> QED BY <1>1, <1>2, FS_CardinalityType

LEMMA QueueCountChanges ==
  ASSUME NEW d, EngineOK(d), NEW q \in Groups, NEW s
  PROVE  /\ s \notin d.queue[q] =>
              Cardinality(d.queue[q] \cup {s}) = Cardinality(d.queue[q]) + 1
         /\ s \in d.queue[q] =>
              Cardinality(d.queue[q] \ {s}) = Cardinality(d.queue[q]) - 1
<1> DEFINE S == d.queue[q]
<1>1. IsFiniteSet(S)
  BY QueueCount
<1> HIDE DEF S
<1>2. s \notin S => Cardinality(S \cup {s}) = Cardinality(S) + 1
  BY <1>1, FS_AddElement
<1>3. s \in S => Cardinality(S \ {s}) = Cardinality(S) - 1
  BY <1>1, FS_RemoveElement
<1> QED BY <1>2, <1>3 DEF S

LEMMA FirstOf ==
  ASSUME NEW d, EngineOK(d)
  PROVE  /\ First(d) \in {0, d.naive} /\ First(d) \in Nat /\ First(d) <= d.naive
         /\ First(d) < GroupNum(d) /\ Chain(d) = First(d) .. GroupNum(d) - 1
         /\ \A h \in First(d) .. GroupNum(d) - 1 : h \in Groups
BY GroupsOf DEF First, Chain

LEMMA SameCounts ==
  ASSUME NEW d, NEW r, NEW first, NEW over, NEW lost, Counts(d, first, over, lost),
         r.total = d.total, r.queue = d.queue, r.naive = d.naive, r.mida = d.mida
  PROVE  Counts(r, first, over, lost)
BY DEF Counts, GroupNum

(* One group's count changes with its queue, or is put right by it.        *)
Moved(r, d, g, q, x, y) ==
  /\ r.naive = d.naive /\ r.mida = d.mida /\ r.total = [d.total EXCEPT ![g] = @ + x]
  /\ \A p \in Groups : p # q => r.queue[p] = d.queue[p]
  /\ Cardinality(r.queue[q]) = Cardinality(d.queue[q]) + y

Charged(g, over, now, x, y) ==
  \/ now = over /\ x = y
  \/ over = Nil /\ now = g /\ x = y + 1
  \/ over = g /\ now = Nil /\ x = y - 1

LEMMA CountsChange ==
  ASSUME NEW d, NEW r, NEW first, NEW over, NEW lost, NEW now, NEW g \in Groups,
         NEW q \in Groups, NEW x \in Int, NEW y \in Int,
         EngineOK(d), Counts(d, first, over, lost), first \in {0, d.naive},
         g < GroupNum(d), g # lost, q = IF g >= first THEN d.naive ELSE g,
         Moved(r, d, g, q, x, y), Charged(g, over, now, x, y)
  PROVE  Counts(r, first, now, lost)
<1> DEFINE n == d.naive
           top == GroupNum(d) - 1
           S == first .. top
           One(o, T) == IF o \in T THEN 1 ELSE 0
<1>m. /\ r.naive = d.naive /\ r.mida = d.mida /\ r.total = [d.total EXCEPT ![g] = @ + x]
      /\ \A p \in Groups : p # q => r.queue[p] = d.queue[p]
      /\ Cardinality(r.queue[q]) = Cardinality(d.queue[q]) + y
  BY DEF Moved
<1>c. \/ now = over /\ x = y
      \/ over = Nil /\ now = g /\ x = y + 1
      \/ over = g /\ now = Nil /\ x = y - 1
  BY DEF Charged
<1> USE <1>m, <1>c
<1>1. /\ n \in Nat /\ n >= 1 /\ n \in Groups /\ top \in Nat /\ n <= top /\ g <= top
      /\ GroupNum(d) = top + 1 /\ g \in Nat /\ first \in Nat /\ first <= n
      /\ GroupNum(r) = GroupNum(d) /\ Groups \subseteq Nat /\ 0 \in Groups
      /\ \A h \in S : h \in Groups
  <2>1. n \in Nat /\ n >= 1 /\ n \in Groups /\ GroupNum(d) \in Nat /\ GroupNum(d) > n
    BY GroupsOf
  <2>2. \A h \in Nat : h < GroupNum(d) => h \in Groups
    BY GroupsOf
  <2>3. GroupNum(r) = GroupNum(d)
    BY DEF GroupNum
  <2>4. g \in Nat /\ Groups \subseteq Nat /\ 0 \in Groups
    BY Sorts
  <2> HIDE DEF n
  <2>5. first \in Nat /\ first <= n
    BY <2>1 DEF n
  <2> QED BY <2>1, <2>2, <2>3, <2>4, <2>5
<1>2. /\ d.total \in [Groups -> Int]
      /\ SumOver(d.total, S) = Cardinality(d.queue[n]) + One(over, S)
      /\ \A h \in Groups : h < first /\ h # lost =>
           d.total[h] = Cardinality(d.queue[h]) + (IF h = over THEN 1 ELSE 0)
      /\ \A h \in Groups : h >= GroupNum(d) => d.total[h] = 0
      /\ first = 0 => d.queue[0] = {}
  BY DEF Counts
<1>3. Nil \notin S /\ Nil \notin Groups
  BY <1>1, Sorts
<1>4. /\ r.total \in [Groups -> Int] /\ r.total[g] = d.total[g] + x
      /\ \A h \in Groups : h # g => r.total[h] = d.total[h]
  BY <1>2
<1>5. \A h \in Groups : Cardinality(d.queue[h]) \in Nat
  BY QueueCount
<1> HIDE DEF n, top
<1>6. CASE g >= first
  <2>1. g \in S /\ q = n
    BY <1>1, <1>6 DEF n
  <2>2. IsFiniteSet(S) /\ Ints(d.total, S) /\ Ints(r.total, S) /\ SameOn(d.total, r.total, S \ {g})
    <3>1. IsFiniteSet(S)
      <4>1. first \in Int /\ top \in Int
        BY <1>1
      <4> HIDE DEF top
      <4> QED BY ONLY <4>1, FS_Interval
    <3> QED BY <1>1, <1>2, <1>4, <3>1 DEF Ints, SameOn
  <2> HIDE DEF S
  <2>3. SumOver(r.total, S) = SumOver(d.total, S) - d.total[g] + r.total[g]
    BY ONLY SMTT(60), ZenonT(60), <2>1, <2>2, SumChangesAt
  <2>4. SumOver(d.total, S) \in Int
    BY <2>2, SumType
  <2>5. Cardinality(r.queue[n]) = Cardinality(d.queue[n]) + y
    BY <2>1
  <2>6. d.total[g] \in Int
    BY <1>2
  <2>7. SumOver(r.total, S) = Cardinality(r.queue[n]) + One(now, S)
    <3>1. SumOver(r.total, S) = SumOver(d.total, S) + x
      BY <1>4, <2>3, <2>4, <2>6
    <3>2. CASE now = over /\ x = y
      BY <1>1, <1>2, <1>5, <2>5, <3>1, <3>2
    <3>3. CASE over = Nil /\ now = g /\ x = y + 1
      BY <1>1, <1>2, <1>3, <1>5, <2>1, <2>5, <3>1, <3>3
    <3>4. CASE over = g /\ now = Nil /\ x = y - 1
      BY <1>1, <1>2, <1>3, <1>5, <2>1, <2>5, <3>1, <3>4
    <3> QED BY <3>2, <3>3, <3>4
  <2>8. \A h \in Groups : h < first /\ h # lost =>
           r.total[h] = Cardinality(r.queue[h]) + (IF h = now THEN 1 ELSE 0)
    <3> SUFFICES ASSUME NEW h \in Groups, h < first, h # lost
                 PROVE  r.total[h] = Cardinality(r.queue[h]) + (IF h = now THEN 1 ELSE 0)
      OBVIOUS
    <3>1. h # g /\ h # q /\ h # Nil
      BY <1>1, <1>3, <1>6, <2>1
    <3>2. r.total[h] = d.total[h] /\ r.queue[h] = d.queue[h]
      BY <1>4, <3>1
    <3>3. h = now <=> h = over
      BY <3>1
    <3> QED BY <1>2, <3>2, <3>3
  <2>9. \A h \in Groups : h >= GroupNum(r) => r.total[h] = 0
    BY <1>1, <1>2, <1>4
  <2>10. first = 0 => r.queue[0] = {}
    BY <1>1, <1>2, <2>1
  <2> QED BY <1>1, <1>4, <2>7, <2>8, <2>9, <2>10 DEF Counts, S, n, top
<1>7. CASE ~(g >= first)
  <2>1. g < first /\ q = g /\ g \notin S /\ q # n /\ first # 0
    BY <1>1, <1>7
  <2>2. IsFiniteSet(S) /\ SameOn(d.total, r.total, S)
    <3>1. IsFiniteSet(S)
      <4>1. first \in Int /\ top \in Int
        BY <1>1
      <4> HIDE DEF top
      <4> QED BY ONLY <4>1, FS_Interval
    <3> QED BY <1>1, <1>4, <2>1, <3>1 DEF SameOn
  <2> HIDE DEF S
  <2>3. SumOver(r.total, S) = SumOver(d.total, S)
    BY <2>2, SumOfSame
  <2>4. One(now, S) = One(over, S)
    BY <1>3, <2>1
  <2>5. SumOver(r.total, S) = Cardinality(r.queue[n]) + One(now, S)
    BY <1>1, <1>2, <2>1, <2>3, <2>4
  <2>6. \A h \in Groups : h < first /\ h # lost =>
           r.total[h] = Cardinality(r.queue[h]) + (IF h = now THEN 1 ELSE 0)
    <3> SUFFICES ASSUME NEW h \in Groups, h < first, h # lost
                 PROVE  r.total[h] = Cardinality(r.queue[h]) + (IF h = now THEN 1 ELSE 0)
      OBVIOUS
    <3>1. h # Nil /\ g # Nil
      BY <1>3
    <3>2. CASE h # g
      <4>1. r.total[h] = d.total[h] /\ r.queue[h] = d.queue[h]
        BY <1>4, <2>1, <3>2
      <4>2. h = now <=> h = over
        BY <3>1, <3>2
      <4> QED BY <1>2, <4>1, <4>2
    <3>3. CASE h = g
      <4>1. d.total[h] = Cardinality(d.queue[h]) + (IF h = over THEN 1 ELSE 0)
        BY <1>2
      <4>2. r.total[h] = d.total[h] + x /\ Cardinality(r.queue[h]) = Cardinality(d.queue[h]) + y
        BY <1>4, <2>1, <3>3
      <4>3. Cardinality(d.queue[h]) \in Nat
        BY <1>5
      <4>4. CASE now = over /\ x = y
        BY <4>1, <4>2, <4>3, <4>4
      <4>5. CASE over = Nil /\ now = g /\ x = y + 1
        BY <3>1, <3>3, <4>1, <4>2, <4>3, <4>5
      <4>6. CASE over = g /\ now = Nil /\ x = y - 1
        BY <3>1, <3>3, <4>1, <4>2, <4>3, <4>6
      <4> QED BY <4>4, <4>5, <4>6
    <3> QED BY <3>2, <3>3
  <2>7. \A h \in Groups : h >= GroupNum(r) => r.total[h] = 0
    BY <1>1, <1>2, <1>4, <2>1
  <2> QED BY <1>1, <1>4, <2>1, <2>5, <2>6, <2>7 DEF Counts, S, n, top
<1> QED BY <1>6, <1>7

(* What an operation that puts segments in the queue of group to keeps,    *)
(* whatever else is amiss with the counts.                                 *)
Tallied(r, d, to) ==
  \A over, lost : to # lost /\ Counts(d, First(d), over, lost) => Counts(r, First(r), over, lost)

LEMMA TallyGoesOn ==
  ASSUME NEW d, NEW r, NEW to
  PROVE  /\ /\ r.total = d.total /\ r.queue = d.queue /\ r.naive = d.naive /\ r.mida = d.mida
            => Tallied(r, d, to)
         /\ \A c : Tallied(r, d, to) /\ Tallied(d, c, to) => Tallied(r, c, to)
BY SameCounts DEF Tallied, First

-----------------------------------------------------------------------------
(* Room in the active segment.                                             *)

(* Group g has an active segment with room, and it is not the one that is  *)
(* being emptied.                                                          *)
Ready(d, v, own, J, g) ==
  /\ Placed(d, v, own, J) /\ g # own
  /\ d.active[g].seg \in SegIds /\ d.active[g].seg # v /\ d.active[g].off \in 0 .. PPS - 1

RoomMade(r, d, v, own, J, g) ==
  /\ Ready(r, v, own, J, g) /\ r.page = d.page /\ r.where = d.where /\ Unmoved(r, d)
  /\ \A p \in Groups : p # QueueOf(d, g) => r.queue[p] = d.queue[p]
  /\ \A t \in SegIds, i \in PageNos : r.page[t][i] # Nil => r.gnum[t] = d.gnum[t]

(* A full active segment is sealed and a free one opened: nothing else     *)
(* moves.                                                                  *)
LEMMA MakeRoomKeepsPlaced ==
  ASSUME NEW d, NEW v, NEW own, NEW J, NEW g \in Groups,
         Placed(d, v, own, J), ChainOn(d), g # own, v \notin SegIds => own \notin Groups,
         d.active[g].seg # Nil, d.active[g].seg # v, ~Stopped(MakeRoom(d, g))
  PROVE  RoomMade(MakeRoom(d, g), d, v, own, J, g)
<1> DEFINE r == MakeRoom(d, g)
           a == d.active[g].seg
           q == QueueOf(d, g)
           m == Seal(d, g, q)
           s == Min(m.free)
<1>1. /\ EngineOK(d) /\ Apart(d, v, own) /\ Blank(d, own) /\ Labelled(d, J)
      /\ DOMAIN d = Fields /\ d.active[g] \in Open /\ d.free \in SUBSET SegIds
      /\ a \in SegIds /\ d.active[g].off \in 0 .. PPS
  <2>1. EngineOK(d) /\ Apart(d, v, own) /\ Blank(d, own) /\ Labelled(d, J)
    BY DEF Placed
  <2>2. DOMAIN d = Fields /\ d.active[g] \in Open /\ d.free \in SUBSET SegIds
    BY <2>1 DEF EngineOK
  <2> QED BY <2>1, <2>2 DEF Open
<1>2. CASE d.active[g].off < PPS
  <2>1. r = d
    BY <1>2 DEF MakeRoom
  <2> QED BY <1>1, <1>2, <2>1, Sorts DEF Unmoved, RoomMade, Ready
<1>3. CASE ~(d.active[g].off < PPS)
  <2>1. r = OpenActive(m, g)
    BY <1>3 DEF MakeRoom
  <2>2. /\ DOMAIN m = Fields /\ m.page = d.page /\ m.where = d.where /\ m.gnum = d.gnum
        /\ m.active = d.active /\ m.free = d.free /\ m.naive = d.naive /\ m.mida = d.mida
        /\ Unmoved(m, d)
        /\ m.queue = [d.queue EXCEPT ![q] = @ \cup {a}]
    <3> HIDE DEF q
    <3> QED BY <1>1 DEF Seal, Fields, Unmoved
  <2> HIDE DEF m
  <2>3. /\ DOMAIN r = Fields /\ r.page = m.page /\ r.where = m.where
        /\ r.queue = m.queue /\ r.naive = m.naive /\ r.mida = m.mida /\ Unmoved(r, m)
        /\ s \in m.free /\ r.free = m.free \ {s}
        /\ r.gnum = [m.gnum EXCEPT ![s] = g]
        /\ r.active = [m.active EXCEPT ![g] = [seg |-> s, off |-> 0]]
    <3>1. m.free \in SUBSET SegIds /\ ~Stopped(OpenActive(m, g))
      BY <1>1, <2>1, <2>2
    <3> HIDE DEF r, q
    <3>2. DOMAIN m = Fields
      BY <2>2
    <3>3. /\ DOMAIN r = Fields /\ r.page = m.page /\ r.where = m.where
          /\ r.queue = m.queue /\ r.total = m.total /\ Unmoved(r, m)
          /\ s \in m.free /\ r.free = m.free \ {s}
          /\ r.gnum = [m.gnum EXCEPT ![s] = g]
          /\ r.active = [m.active EXCEPT ![g] = [seg |-> s, off |-> 0]]
      BY ONLY ZenonT(60), <2>1, <3>1, <3>2, OpenFields
    <3>4. r.naive = m.naive /\ r.mida = m.mida
      BY <3>3 DEF Unmoved
    <3> QED BY <3>3, <3>4
  <2> HIDE DEF r, s
  <2>4. q \in Groups /\ (q = IF g >= d.naive \/ d.naive = 1 THEN d.naive ELSE g)
    BY <1>1, GroupsOf DEF QueueOf
  <2>5. s \in d.free /\ s \in SegIds /\ s # a
    BY <1>1, <2>2, <2>3 DEF Apart
  <2> HIDE DEF a, q
  <2>6. /\ \A p \in Groups : r.queue[p] = IF p = q THEN d.queue[q] \cup {a} ELSE d.queue[p]
        /\ r.free = d.free \ {s}
        /\ \A t \in SegIds : r.gnum[t] = IF t = s THEN g ELSE d.gnum[t]
        /\ \A h \in Groups : r.active[h] = IF h = g THEN [seg |-> s, off |-> 0] ELSE d.active[h]
        /\ \A h \in Groups : r.active[h].seg = IF h = g THEN s ELSE d.active[h].seg
        /\ GroupNum(r) = GroupNum(d) /\ Chain(r) = Chain(d)
    <3>1. \A p \in Groups : r.queue[p] = IF p = q THEN d.queue[q] \cup {a} ELSE d.queue[p]
      BY <1>1, <2>2, <2>3, <2>4 DEF EngineOK
    <3>2. \A t \in SegIds : r.gnum[t] = IF t = s THEN g ELSE d.gnum[t]
      BY <1>1, <2>2, <2>3 DEF EngineOK
    <3>3. \A h \in Groups : r.active[h] = IF h = g THEN [seg |-> s, off |-> 0] ELSE d.active[h]
      BY <1>1, <2>2, <2>3 DEF EngineOK
    <3>4. GroupNum(r) = GroupNum(d) /\ Chain(r) = Chain(d)
      BY <2>2, <2>3 DEF GroupNum, Chain
    <3>5. \A h \in Groups : r.active[h].seg = IF h = g THEN s ELSE d.active[h].seg
      BY <3>3
    <3> QED BY Zenon, <2>2, <2>3, <3>1, <3>2, <3>3, <3>4, <3>5
  <2>7. EngineOK(r)
    <3>1. r.gnum \in [SegIds -> Groups \cup {Nil}]
      BY <1>1, <2>2, <2>3 DEF EngineOK
    <3>2. [seg |-> s, off |-> 0] \in Open
      BY <2>5, Sorts DEF Open
    <3>3. r.active \in [Groups -> Open]
      BY <1>1, <2>2, <2>3, <3>2 DEF EngineOK
    <3>4. r.queue \in [Groups -> SUBSET SegIds]
      BY <1>1, <2>2, <2>3, <2>4 DEF EngineOK, a
    <3> QED BY <1>1, <2>2, <2>3, <3>1, <3>3, <3>4 DEF EngineOK
  <2>8. a = d.active[g].seg /\ a # v /\ a # Nil /\ a \in SegIds
    BY <1>1, Sorts DEF a
  <2>9. Apart(r, v, own)
    <3>1. \A p, o \in Groups : p # o => r.queue[p] \cap r.queue[o] = {}
      BY <1>1, <2>4, <2>6, <2>8 DEF Apart
    <3>2. \A p \in Groups : r.queue[p] \cap r.free = {}
      BY <1>1, <2>4, <2>6, <2>8 DEF Apart
    <3>3. \A h \in Groups : r.active[h].seg \notin r.free
      BY <1>1, <2>6 DEF Apart
    <3>4. \A h, p \in Groups : r.active[h].seg \notin r.queue[p]
      BY <1>1, <2>4, <2>5, <2>6, <2>8 DEF Apart
    <3>5. \A h, k \in Groups : r.active[h].seg = r.active[k].seg /\ r.active[h].seg # Nil => h = k
      BY <1>1, <2>5, <2>6 DEF Apart
    <3>6. v \in SegIds => /\ v \notin r.free /\ \A p \in Groups : v \notin r.queue[p]
                          /\ \A h \in Groups : r.active[h].seg = v <=> h = own
      BY <1>1, <2>4, <2>5, <2>6, <2>8 DEF Apart
    <3>7. \A t \in SegIds : \/ t = v \/ t \in r.free
                            \/ \E p \in Groups : t \in r.queue[p]
                            \/ \E h \in Groups : r.active[h].seg = t
      <4> TAKE t \in SegIds
      <4>1. CASE t = a
        BY <2>4, <2>6, <4>1
      <4>2. CASE t = s
        BY <2>6, <4>2
      <4>3. CASE t # a /\ t # s
        BY <1>1, <2>6, <2>8, <4>3 DEF Apart
      <4> QED BY <4>1, <4>2, <4>3
    <3> QED BY <3>1, <3>2, <3>3, <3>4, <3>5, <3>6, <3>7 DEF Apart
  <2>10. Blank(r, own)
    <3>1. \A t \in r.free, i \in PageNos : r.page[t][i] = Nil
      BY <1>1, <2>2, <2>3, <2>6 DEF Blank
    <3>2. \A h \in Groups \ {own} : r.active[h].seg # Nil =>
            \A i \in PageNos : i > r.active[h].off => r.page[r.active[h].seg][i] = Nil
      <4> TAKE h \in Groups \ {own}
      <4>1. CASE h = g
        BY <1>1, <2>2, <2>3, <2>5, <2>6, <4>1 DEF Blank
      <4>2. CASE h # g
        BY <1>1, <2>2, <2>3, <2>6, <4>2 DEF Blank
      <4> QED BY <4>1, <4>2
    <3> QED BY <3>1, <3>2 DEF Blank
  <2>11. Labelled(r, J)
    <3>1. \A h \in Groups : r.active[h].seg # Nil =>
            r.gnum[r.active[h].seg] = h /\ h < GroupNum(r)
      <4> TAKE h \in Groups
      <4>1. CASE h = g
        BY <1>1, <2>5, <2>6, <2>8, <4>1 DEF Labelled
      <4>2. CASE h # g
        <5>1. d.active[h].seg \in SegIds \cup {Nil} /\ d.active[h].seg # s
          BY <1>1, <2>5 DEF EngineOK, Open, Apart
        <5> QED BY <1>1, <2>6, <4>2, <5>1 DEF Labelled
      <4> QED BY <4>1, <4>2
    <3>2. g < GroupNum(d) /\ d.gnum[a] = g /\ g \in Nat
      BY <1>1, <2>8, Sorts DEF Labelled
    <3>3. r.naive = d.naive /\ d.naive \in Nat /\ d.naive >= 1 /\ GroupNum(d) \in Nat
      BY <1>1, <2>2, <2>3, GroupsOf
    <3>4. IF q < d.naive THEN g = q ELSE q = d.naive /\ g \in Chain(d)
      BY <2>4, <3>2, <3>3 DEF Chain, ChainOn
    <3>5. \A p \in Groups : \A t \in r.queue[p] :
            IF p < r.naive THEN r.gnum[t] = p
            ELSE p = r.naive /\ IF t \in J THEN r.gnum[t] = p - 1 ELSE r.gnum[t] \in Chain(r)
      <4> TAKE p \in Groups
      <4> TAKE t \in r.queue[p]
      <4>1. t \in SegIds /\ t # s
        <5>1. t \in d.queue[p] \/ t = a
          BY <2>6
        <5> QED BY <1>1, <2>5, <2>8, <5>1 DEF EngineOK, Apart
      <4>2. r.gnum[t] = d.gnum[t]
        BY <2>6, <4>1
      <4>3. CASE p = q /\ t = a
        <5>1. a \notin J
          BY <1>1, <2>8, GroupsOf DEF Labelled, Apart
        <5> QED BY <2>6, <3>2, <3>3, <3>4, <4>2, <4>3, <5>1
      <4>4. CASE ~(p = q /\ t = a)
        <5>1. t \in d.queue[p]
          BY <2>6, <4>4
        <5>2. /\ IF p < d.naive THEN d.gnum[t] = p
                 ELSE p = d.naive /\ IF t \in J THEN d.gnum[t] = p - 1 ELSE d.gnum[t] \in Chain(d)
          BY <1>1, <5>1 DEF Labelled
        <5> QED BY <2>6, <3>3, <4>2, <5>2
      <4> QED BY <4>3, <4>4
    <3>6. r.active[r.naive].seg # Nil
      <4>1. d.naive \in Groups /\ d.active[d.naive].seg # Nil /\ s # Nil
        BY <1>1, <2>5, GroupsOf, Sorts DEF Labelled
      <4> QED BY <2>6, <3>3, <4>1
    <3>7. J \subseteq r.queue[r.naive]
      BY <1>1, <2>4, <2>6, <3>3, GroupsOf DEF Labelled
    <3> QED BY <3>1, <3>5, <3>6, <3>7 DEF Labelled
  <2>12. Placed(r, v, own, J)
    BY <2>7, <2>9, <2>10, <2>11 DEF Placed
  <2>13. s # v
    BY <1>1, <2>5 DEF Apart
  <2>14. r.active[g].seg = s /\ r.active[g].off = 0
    BY <2>6
  <2>15. \A t \in SegIds, i \in PageNos : r.page[t][i] # Nil => r.gnum[t] = d.gnum[t]
    BY <1>1, <2>2, <2>3, <2>5, <2>6 DEF Blank
  <2>16. Unmoved(r, d)
    BY <2>2, <2>3 DEF Unmoved
  <2>17. Ready(r, v, own, J, g)
    BY <2>5, <2>12, <2>13, <2>14, Sorts DEF Ready
  <2>18. \A p \in Groups : p # QueueOf(d, g) => r.queue[p] = d.queue[p]
    BY <2>6 DEF q
  <2> QED BY <2>2, <2>3, <2>15, <2>16, <2>17, <2>18 DEF r, RoomMade
<1> QED BY <1>2, <1>3

(* r has lba in the next page of group g's active segment.                 *)
Appended(r, d, g, lba) ==
  LET s == d.active[g].seg
      i == d.active[g].off + 1
  IN /\ i \in PageNos /\ d.page[s][i] = Nil
     /\ \A t \in SegIds, j \in PageNos :
          r.page[t][j] = IF t = s /\ j = i THEN lba ELSE d.page[t][j]
     /\ \A l \in Lbas : r.where[l] = IF l = lba THEN <<s, i>> ELSE d.where[l]

(* A page is appended where nothing was written yet.                       *)
LEMMA AppendKeepsPlaced ==
  ASSUME NEW d, NEW v, NEW own, NEW J, NEW g \in Groups, NEW lba \in Lbas, Ready(d, v, own, J, g)
  PROVE  LET r == AppendPage(d, g, lba)
         IN /\ Placed(r, v, own, J) /\ Appended(r, d, g, lba) /\ Unmoved(r, d)
            /\ r.gnum = d.gnum /\ r.queue = d.queue
<1> DEFINE r == AppendPage(d, g, lba)
           s == d.active[g].seg
           o == d.active[g].off
           i == o + 1
<1>1. /\ EngineOK(d) /\ Apart(d, v, own) /\ Blank(d, own) /\ Labelled(d, J)
      /\ DOMAIN d = Fields /\ d.active[g] \in Open /\ s \in SegIds /\ o \in 0 .. PPS - 1
  <2>1. EngineOK(d) /\ Apart(d, v, own) /\ Blank(d, own) /\ Labelled(d, J)
    BY DEF Placed, Ready
  <2>2. DOMAIN d = Fields /\ d.active[g] \in Open
    BY <2>1 DEF EngineOK
  <2> QED BY <2>1, <2>2 DEF Ready
<1>2. /\ DOMAIN r = Fields /\ r.gnum = d.gnum
      /\ r.queue = d.queue /\ r.naive = d.naive /\ r.mida = d.mida
      /\ Unmoved(r, d) /\ r.free = d.free
      /\ r.page = [d.page EXCEPT ![s] = [@ EXCEPT ![i] = lba]]
      /\ r.where = [d.where EXCEPT ![lba] = <<s, i>>]
      /\ r.active = [d.active EXCEPT ![g] = [@ EXCEPT !.off = i]]
  BY <1>1 DEF AppendPage, Fields, Unmoved
<1>3. i \in PageNos /\ i \in 1 .. PPS /\ i > o
  BY <1>1, Sorts DEF PageNos
<1>4. d.page[s][i] = Nil
  BY <1>1, <1>3, Sorts DEF Blank, Ready
<1> HIDE DEF r
<1>5. /\ d.page \in [SegIds -> [PageNos -> Lbas \cup {Nil}]]
      /\ d.where \in [Lbas -> (SegIds \X PageNos) \cup {Nil}]
      /\ d.active \in [Groups -> Open]
  BY <1>1 DEF EngineOK
<1>6. \A h \in Groups : /\ r.active[h].seg = d.active[h].seg
                        /\ r.active[h].off = IF h = g THEN i ELSE d.active[h].off
                        /\ r.active[h] \in Open
  <2> TAKE h \in Groups
  <2>1. CASE h = g
    <3>1. r.active[h] = [d.active[g] EXCEPT !.off = i]
      BY <1>2, <1>5, <2>1
    <3> HIDE DEF i, o, s
    <3>2. r.active[h].seg = d.active[g].seg /\ r.active[h].off = i
      BY <1>1, <3>1 DEF Open
    <3>3. r.active[h] \in Open
      <4>1. i \in 0 .. PPS
        BY <1>3, Sorts
      <4> QED BY <1>1, <3>1, <4>1 DEF Open
    <3> QED BY <2>1, <3>2, <3>3
  <2>2. CASE h # g
    BY <1>2, <1>5, <2>2
  <2> QED BY <2>1, <2>2
<1> HIDE DEF i, o, s
<1>7. \A t \in SegIds, j \in PageNos :
        r.page[t][j] = IF t = s /\ j = i THEN lba ELSE d.page[t][j]
  BY <1>1, <1>2, <1>3, <1>5
<1>8. \A l \in Lbas : r.where[l] = IF l = lba THEN <<s, i>> ELSE d.where[l]
  BY <1>2, <1>5
<1>9. EngineOK(r)
  <2>1. r.page \in [SegIds -> [PageNos -> Lbas \cup {Nil}]]
    <3>1. [d.page[s] EXCEPT ![i] = lba] \in [PageNos -> Lbas \cup {Nil}]
      BY Zenon, <1>1, <1>5
    <3> QED BY Zenon, <1>2, <1>5, <3>1
  <2>2. r.where \in [Lbas -> (SegIds \X PageNos) \cup {Nil}]
    BY <1>1, <1>2, <1>3, <1>5
  <2>3. r.active \in [Groups -> Open]
    <3>1. r.active = [h \in Groups |-> r.active[h]]
      BY <1>2, <1>5
    <3> QED BY <1>6, <3>1
  <2> QED BY <1>1, <1>2, <2>1, <2>2, <2>3 DEF EngineOK
<1>10. Apart(r, v, own)
  BY <1>1, <1>2, <1>6 DEF Apart
<1>11. Blank(r, own)
  <2>1. s \notin d.free
    BY <1>1 DEF Apart, s
  <2>2. \A t \in r.free, j \in PageNos : r.page[t][j] = Nil
    <3> TAKE t \in r.free, j \in PageNos
    <3>1. t \in d.free /\ t \in SegIds /\ t # s
      BY <1>1, <1>2, <2>1 DEF EngineOK
    <3> QED BY <1>1, <1>7, <3>1 DEF Blank
  <2>3. \A h \in Groups \ {own} : r.active[h].seg # Nil =>
          \A j \in PageNos : j > r.active[h].off => r.page[r.active[h].seg][j] = Nil
    <3> SUFFICES ASSUME NEW h \in Groups \ {own}, r.active[h].seg # Nil,
                        NEW j \in PageNos, j > r.active[h].off
                 PROVE  r.page[r.active[h].seg][j] = Nil
      OBVIOUS
    <3> DEFINE t == d.active[h].seg
    <3>1. t \in SegIds /\ r.active[h].seg = t /\ t # Nil
      BY <1>5, <1>6 DEF Open
    <3>2. d.active[h].off \in Nat /\ j \in Nat
      BY <1>5, Sorts DEF Open, PageNos
    <3>3. t = s <=> h = g
      BY <1>1, <3>1 DEF Apart, s
    <3>4. j > d.active[h].off /\ (h = g => j # i)
      BY <1>3, <1>6, <3>2 DEF i, o
    <3>5. d.page[t][j] = Nil
      BY <1>1, <3>1, <3>4 DEF Blank
    <3> HIDE DEF t
    <3> QED BY <1>7, <3>1, <3>3, <3>4, <3>5
  <2> QED BY <2>2, <2>3 DEF Blank
<1>12. Labelled(r, J)
  <2>1. GroupNum(r) = GroupNum(d) /\ Chain(r) = Chain(d)
    BY <1>2 DEF GroupNum, Chain
  <2>2. d.naive \in Groups
    BY <1>1, GroupsOf
  <2> QED BY <1>1, <1>2, <1>6, <2>1, <2>2 DEF Labelled
<1>13. Placed(r, v, own, J)
  BY <1>9, <1>10, <1>11, <1>12 DEF Placed
<1>14. Appended(r, d, g, lba)
  BY <1>3, <1>4, <1>7, <1>8 DEF Appended, s, i, o
<1> QED BY <1>2, <1>13, <1>14 DEF r, Unmoved

(* Agree, but for an lba that is only where it is outdated.                *)
AgreeBut(d, v, n, lba) ==
  /\ \A s \in SegIds, i \in PageNos :
       d.page[s][i] \notin {Nil, lba} /\ (s = v => i > n) => d.where[d.page[s][i]] = <<s, i>>
  /\ \A s \in SegIds, i \in PageNos : d.page[s][i] = lba => s = v /\ ~(i > n)
  /\ \A l \in Lbas \ {lba} : d.where[l] # Nil =>
       /\ d.page[d.where[l][1]][d.where[l][2]] = l
       /\ d.where[l][1] = v => d.where[l][2] > n

LEMMA AppendAgrees ==
  ASSUME NEW d, NEW v, NEW own, NEW J, NEW g \in Groups, NEW lba \in Lbas, NEW n, NEW r,
         Ready(d, v, own, J, g), Appended(r, d, g, lba), AgreeBut(d, v, n, lba)
  PROVE  Agree(r, v, n) /\ Present(r) = Present(d) \cup {lba}
<1> DEFINE s == d.active[g].seg
           i == d.active[g].off + 1
<1>1. /\ i \in PageNos /\ d.page[s][i] = Nil /\ s \in SegIds
      /\ \A t \in SegIds, j \in PageNos :
           r.page[t][j] = IF t = s /\ j = i THEN lba ELSE d.page[t][j]
      /\ \A l \in Lbas : r.where[l] = IF l = lba THEN <<s, i>> ELSE d.where[l]
  BY DEF Ready, Appended
<1>2. /\ d.page \in [SegIds -> [PageNos -> Lbas \cup {Nil}]]
      /\ d.where \in [Lbas -> (SegIds \X PageNos) \cup {Nil}]
  BY DEF Ready, Placed, EngineOK
<1>3. s # v
  BY DEF Ready
<1> HIDE DEF s, i
<1>4. \A t \in SegIds, j \in PageNos :
        r.page[t][j] # Nil /\ (t = v => j > n) => r.where[r.page[t][j]] = <<t, j>>
  <2> SUFFICES ASSUME NEW t \in SegIds, NEW j \in PageNos, r.page[t][j] # Nil, t = v => j > n
               PROVE  r.where[r.page[t][j]] = <<t, j>>
    OBVIOUS
  <2>1. CASE t = s /\ j = i
    BY <1>1, <2>1
  <2>2. CASE ~(t = s /\ j = i)
    <3>1. r.page[t][j] = d.page[t][j] /\ d.page[t][j] \in Lbas
      BY <1>1, <1>2, <2>2
    <3>2. d.page[t][j] # lba
      BY DEF AgreeBut
    <3>3. d.where[d.page[t][j]] = <<t, j>>
      BY <3>1, <3>2, Sorts DEF AgreeBut
    <3> DEFINE l == d.page[t][j]
    <3>4. l \in Lbas /\ l # lba /\ d.where[l] = <<t, j>> /\ r.page[t][j] = l
      BY <3>1, <3>2, <3>3
    <3> HIDE DEF l
    <3>5. r.where[l] = <<t, j>>
      BY <1>1, <3>4
    <3> QED BY <3>4, <3>5
  <2> QED BY <2>1, <2>2
<1>5. \A l \in Lbas : r.where[l] # Nil =>
        /\ r.page[r.where[l][1]][r.where[l][2]] = l
        /\ r.where[l][1] = v => r.where[l][2] > n
  <2> SUFFICES ASSUME NEW l \in Lbas, r.where[l] # Nil
               PROVE  /\ r.page[r.where[l][1]][r.where[l][2]] = l
                      /\ r.where[l][1] = v => r.where[l][2] > n
    OBVIOUS
  <2>1. CASE l = lba
    BY <1>1, <1>3, <2>1
  <2>2. CASE l # lba
    <3>1. r.where[l] = d.where[l] /\ d.where[l] \in SegIds \X PageNos
      BY <1>1, <1>2, <2>2
    <3>2. /\ d.page[d.where[l][1]][d.where[l][2]] = l
          /\ d.where[l][1] = v => d.where[l][2] > n
      BY <2>2, <3>1 DEF AgreeBut
    <3>3. ~(d.where[l][1] = s /\ d.where[l][2] = i)
      BY <1>1, <3>2, Sorts
    <3> QED BY <1>1, <3>1, <3>2, <3>3
  <2> QED BY <2>1, <2>2
<1>6. Present(r) = Present(d) \cup {lba}
  <2>1. <<s, i>> # Nil
    BY <1>1, Sorts
  <2> QED BY <1>1, <2>1 DEF Present
<1> QED BY <1>4, <1>5, <1>6 DEF Agree

(* A free segment is opened for a group without one.                       *)
LEMMA OpenKeepsPlaced ==
  ASSUME NEW d, NEW v, NEW own, NEW J, NEW g \in Groups,
         Placed(d, v, own, J), d.active[g].seg = Nil, g < GroupNum(d), ~Stopped(OpenActive(d, g))
  PROVE  LET r == OpenActive(d, g)
         IN /\ Placed(r, v, own, J)
            /\ r.active[g].seg \in SegIds /\ r.active[g].seg # v
            /\ r.page = d.page /\ r.where = d.where /\ Unmoved(r, d)
            /\ \A t \in SegIds, i \in PageNos : r.page[t][i] # Nil => r.gnum[t] = d.gnum[t]
<1> DEFINE r == OpenActive(d, g)
           s == Min(d.free)
<1>1. /\ EngineOK(d) /\ Apart(d, v, own) /\ Blank(d, own) /\ Labelled(d, J)
      /\ DOMAIN d = Fields /\ d.free \in SUBSET SegIds
  <2>1. EngineOK(d) /\ Apart(d, v, own) /\ Blank(d, own) /\ Labelled(d, J)
    BY DEF Placed
  <2> QED BY <2>1 DEF EngineOK
<1>2. /\ DOMAIN r = Fields /\ r.page = d.page /\ r.where = d.where
      /\ r.queue = d.queue /\ Unmoved(r, d)
      /\ s \in d.free /\ r.free = d.free \ {s}
      /\ r.gnum = [d.gnum EXCEPT ![s] = g]
      /\ r.active = [d.active EXCEPT ![g] = [seg |-> s, off |-> 0]]
  BY <1>1, OpenFields
<1> HIDE DEF r, s
<1>3. r.naive = d.naive /\ r.mida = d.mida
  BY <1>2 DEF Unmoved
<1>4. s \in SegIds /\ s # Nil
  BY <1>1, <1>2, Sorts
<1>5. /\ \A t \in SegIds : r.gnum[t] = IF t = s THEN g ELSE d.gnum[t]
      /\ \A h \in Groups : r.active[h] = IF h = g THEN [seg |-> s, off |-> 0] ELSE d.active[h]
      /\ \A h \in Groups : r.active[h].seg = IF h = g THEN s ELSE d.active[h].seg
      /\ GroupNum(r) = GroupNum(d) /\ Chain(r) = Chain(d)
  <2>1. \A t \in SegIds : r.gnum[t] = IF t = s THEN g ELSE d.gnum[t]
    BY <1>1, <1>2 DEF EngineOK
  <2>2. \A h \in Groups : r.active[h] = IF h = g THEN [seg |-> s, off |-> 0] ELSE d.active[h]
    BY <1>1, <1>2 DEF EngineOK
  <2>3. GroupNum(r) = GroupNum(d) /\ Chain(r) = Chain(d)
    BY <1>3 DEF GroupNum, Chain
  <2> QED BY <2>1, <2>2, <2>3
<1>6. EngineOK(r)
  <2>1. r.gnum \in [SegIds -> Groups \cup {Nil}]
    BY <1>1, <1>2 DEF EngineOK
  <2>2. [seg |-> s, off |-> 0] \in Open
    BY <1>4, Sorts DEF Open
  <2>3. r.active \in [Groups -> Open]
    BY <1>1, <1>2, <2>2 DEF EngineOK
  <2> QED BY <1>1, <1>2, <1>3, <2>1, <2>3 DEF EngineOK
<1>7. Apart(r, v, own)
  <2>1. v \in SegIds => v # s
    BY <1>1, <1>2 DEF Apart
  <2>2. \A h \in Groups : r.active[h].seg \notin r.free
    BY <1>1, <1>2, <1>5 DEF Apart
  <2>3. \A h, q \in Groups : r.active[h].seg \notin r.queue[q]
    BY <1>1, <1>2, <1>5 DEF Apart
  <2>4. \A h, k \in Groups : r.active[h].seg = r.active[k].seg /\ r.active[h].seg # Nil => h = k
    BY <1>1, <1>2, <1>5 DEF Apart
  <2>5. v \in SegIds => /\ v \notin r.free /\ \A p \in Groups : v \notin r.queue[p]
                        /\ \A h \in Groups : r.active[h].seg = v <=> h = own
    BY <1>1, <1>2, <1>5, <2>1, Sorts DEF Apart
  <2>6. \A t \in SegIds : \/ t = v \/ t \in r.free
                          \/ \E p \in Groups : t \in r.queue[p]
                          \/ \E h \in Groups : r.active[h].seg = t
    <3> TAKE t \in SegIds
    <3>1. CASE t = s
      BY <1>5, <3>1
    <3>2. CASE t # s
      <4>1. \A h \in Groups : d.active[h].seg = t => r.active[h].seg = t
        BY <1>5, Sorts
      <4> QED BY <1>1, <1>2, <3>2, <4>1 DEF Apart
    <3> QED BY <3>1, <3>2
  <2>7. \A p, q \in Groups : p # q => r.queue[p] \cap r.queue[q] = {}
    BY <1>1, <1>2 DEF Apart
  <2>8. \A p \in Groups : r.queue[p] \cap r.free = {}
    BY <1>1, <1>2 DEF Apart
  <2> QED BY <2>2, <2>3, <2>4, <2>5, <2>6, <2>7, <2>8 DEF Apart
<1>8. Blank(r, own)
  BY <1>1, <1>2, <1>4, <1>5 DEF Blank
<1>9. Labelled(r, J)
  <2>1. \A h \in Groups : r.active[h].seg # Nil =>
          r.gnum[r.active[h].seg] = h /\ h < GroupNum(r)
    <3> TAKE h \in Groups
    <3>1. CASE h = g
      BY <1>4, <1>5, <3>1
    <3>2. CASE h # g
      <4>1. d.active[h].seg \in SegIds \cup {Nil} /\ d.active[h].seg # s
        BY <1>1, <1>2 DEF EngineOK, Open, Apart
      <4> QED BY <1>1, <1>5, <3>2, <4>1 DEF Labelled
    <3> QED BY <3>1, <3>2
  <2>2. \A p \in Groups : \A t \in r.queue[p] : t \in SegIds /\ r.gnum[t] = d.gnum[t]
    BY <1>1, <1>2, <1>5 DEF EngineOK, Apart
  <2>3. d.naive \in Groups
    BY <1>1, GroupsOf
  <2>4. r.active[r.naive].seg # Nil
    BY <1>1, <1>3, <1>4, <1>5, <2>3 DEF Labelled
  <2> QED BY <1>1, <1>2, <1>3, <1>5, <2>1, <2>2, <2>4 DEF Labelled
<1>10. Placed(r, v, own, J)
  BY <1>6, <1>7, <1>8, <1>9 DEF Placed
<1>11. s # v
  BY <1>1, <1>2, <1>4 DEF Apart
<1>12. \A t \in SegIds, i \in PageNos : r.page[t][i] # Nil => r.gnum[t] = d.gnum[t]
  BY <1>1, <1>2, <1>5 DEF Blank
<1> QED BY <1>2, <1>4, <1>5, <1>10, <1>11, <1>12 DEF r

(* A segment is taken out of its queue, to be emptied.                     *)
LEMMA TakeKeepsPlaced ==
  ASSUME NEW d, NEW r, Placed(d, Nil, Nil, {}), NEW q \in Groups, NEW v \in d.queue[q],
         DOMAIN r = Fields, r.page = d.page, r.where = d.where, r.gnum = d.gnum,
         r.active = d.active, r.free = d.free, r.naive = d.naive, r.mida = d.mida,
         r.queue = [d.queue EXCEPT ![q] = @ \ {v}]
  PROVE  Placed(r, v, Nil, {}) /\ v \in SegIds /\ (Agree(d, Nil, 0) => Agree(r, v, 0))
<1>1. EngineOK(d) /\ Apart(d, Nil, Nil) /\ Blank(d, Nil) /\ Labelled(d, {})
  BY DEF Placed
<1>2. v \in SegIds
  BY <1>1 DEF EngineOK
<1>3. \A p \in Groups : r.queue[p] = IF p = q THEN d.queue[p] \ {v} ELSE d.queue[p]
  BY Zenon, <1>1 DEF EngineOK
<1>4. GroupNum(r) = GroupNum(d) /\ Chain(r) = Chain(d)
  BY DEF GroupNum, Chain
<1>5. EngineOK(r)
  <2>1. r.queue \in [Groups -> SUBSET SegIds]
    BY <1>1 DEF EngineOK
  <2> QED BY <1>1, <2>1 DEF EngineOK
<1>6. Apart(r, v, Nil)
  <2>1. v \notin d.free /\ \A p \in Groups : v \notin r.queue[p]
    BY <1>1, <1>3 DEF Apart
  <2>2. \A g \in Groups : d.active[g].seg # v
    BY <1>1 DEF Apart
  <2>3. \A s \in SegIds : \/ s = v \/ s \in r.free
                          \/ \E p \in Groups : s \in r.queue[p]
                          \/ \E g \in Groups : r.active[g].seg = s
    <3> TAKE s \in SegIds
    <3>1. \/ s = v \/ s \in d.free
          \/ \E p \in Groups : s \in d.queue[p]
          \/ \E g \in Groups : d.active[g].seg = s
      BY <1>1, Sorts DEF Apart
    <3>2. ASSUME NEW p \in Groups, s \in d.queue[p], s # v
          PROVE  s \in r.queue[p]
      BY <1>3, <3>2
    <3> QED BY <3>1, <3>2
  <2>4. /\ \A p, o \in Groups : p # o => r.queue[p] \cap r.queue[o] = {}
        /\ \A p \in Groups : r.queue[p] \cap r.free = {}
        /\ \A g, p \in Groups : r.active[g].seg \notin r.queue[p]
    BY <1>1, <1>3 DEF Apart
  <2> QED BY <1>1, <2>1, <2>2, <2>3, <2>4, Sorts DEF Apart
<1>7. Blank(r, Nil)
  BY <1>1 DEF Blank
<1>8. Labelled(r, {})
  BY <1>1, <1>3, <1>4 DEF Labelled
<1>9. Placed(r, v, Nil, {})
  BY <1>5, <1>6, <1>7, <1>8 DEF Placed
<1>10. Agree(d, Nil, 0) => Agree(r, v, 0)
  <2> SUFFICES ASSUME Agree(d, Nil, 0) PROVE Agree(r, v, 0)
    OBVIOUS
  <2>1. \A l \in Lbas : d.where[l] # Nil => d.where[l] \in SegIds \X PageNos
    BY <1>1 DEF EngineOK
  <2>2. \A s \in SegIds : s # Nil
    BY Sorts
  <2>3. \A l \in Lbas : d.where[l] # Nil => d.where[l][2] > 0
    BY <2>1, Sorts DEF PageNos
  <2>4. \A s \in SegIds, i \in PageNos : d.page[s][i] # Nil => d.where[d.page[s][i]] = <<s, i>>
    BY <2>2, AgreeAt
  <2>5. \A l \in Lbas : d.where[l] # Nil => d.page[d.where[l][1]][d.where[l][2]] = l
    BY DEF Agree
  <2>6. \A s \in SegIds, i \in PageNos : r.page[s][i] # Nil => r.where[r.page[s][i]] = <<s, i>>
    BY <2>4
  <2> QED BY SMTT(60), ZenonT(60), <2>3, <2>5, <2>6 DEF Agree
<1> QED BY <1>2, <1>9, <1>10

(* The segment that was emptied is free again.                             *)
LEMMA EraseKeepsPlaced ==
  ASSUME NEW d, NEW r, NEW v \in SegIds, NEW own, NEW J, Placed(d, v, own, J),
         own = d.naive => FALSE,
         DOMAIN r = Fields, r.where = d.where, r.naive = d.naive, r.mida = d.mida,
         r.queue = d.queue, r.free = d.free \cup {v}, r.gnum = [d.gnum EXCEPT ![v] = Nil],
         r.page = [d.page EXCEPT ![v] = [i \in PageNos |-> Nil]],
         r.active = [h \in Groups |-> IF h = own THEN NotActive ELSE d.active[h]]
  PROVE  Placed(r, Nil, Nil, J) /\ (Agree(d, v, PPS) => Agree(r, Nil, 0))
<1>1. EngineOK(d) /\ Apart(d, v, own) /\ Blank(d, own) /\ Labelled(d, J)
  BY DEF Placed
<1>2. /\ \A t \in SegIds : r.gnum[t] = IF t = v THEN Nil ELSE d.gnum[t]
      /\ \A t \in SegIds, i \in PageNos : r.page[t][i] = IF t = v THEN Nil ELSE d.page[t][i]
      /\ \A h \in Groups : r.active[h].seg = IF h = own THEN Nil ELSE d.active[h].seg
      /\ \A h \in Groups : h # own => r.active[h] = d.active[h]
      /\ GroupNum(r) = GroupNum(d) /\ Chain(r) = Chain(d)
  <2>1. \A t \in SegIds : r.gnum[t] = IF t = v THEN Nil ELSE d.gnum[t]
    BY <1>1 DEF EngineOK
  <2>2. \A t \in SegIds, i \in PageNos : r.page[t][i] = IF t = v THEN Nil ELSE d.page[t][i]
    BY <1>1 DEF EngineOK
  <2>3. GroupNum(r) = GroupNum(d) /\ Chain(r) = Chain(d)
    BY DEF GroupNum, Chain
  <2> QED BY <2>1, <2>2, <2>3 DEF NotActive
<1>3. EngineOK(r)
  <2>1. r.gnum \in [SegIds -> Groups \cup {Nil}]
    BY <1>1 DEF EngineOK
  <2>2. r.page \in [SegIds -> [PageNos -> Lbas \cup {Nil}]]
    BY <1>1 DEF EngineOK
  <2>3. r.active \in [Groups -> Open]
    <3>1. NotActive \in Open
      BY Sorts DEF NotActive, Open
    <3> QED BY <1>1, <3>1 DEF EngineOK
  <2> QED BY <1>1, <2>1, <2>2, <2>3 DEF EngineOK
<1>4. Apart(r, Nil, Nil)
  <2>1. \A h \in Groups : r.active[h].seg # v
    BY <1>1, <1>2, Sorts DEF Apart
  <2>2. \A h \in Groups : r.active[h].seg \notin r.free
    <3>1. Nil \notin d.free
      BY <1>1, Sorts DEF EngineOK
    <3> QED BY <1>1, <1>2, <2>1, <3>1 DEF Apart
  <2>3. \A h, q \in Groups : r.active[h].seg \notin r.queue[q]
    <3>1. \A q \in Groups : Nil \notin d.queue[q]
      BY <1>1, Sorts DEF EngineOK
    <3> QED BY <1>1, <1>2, <3>1 DEF Apart
  <2>4. \A s \in SegIds : \/ s \in r.free
                          \/ \E q \in Groups : s \in r.queue[q]
                          \/ \E h \in Groups : r.active[h].seg = s
    <3> TAKE s \in SegIds
    <3>1. CASE s = v
      BY <3>1
    <3>2. CASE s # v
      <4>1. ASSUME NEW h \in Groups, d.active[h].seg = s
            PROVE  r.active[h].seg = s \/ s = v
        <5>1. CASE h = own
          BY <1>1, <4>1, <5>1 DEF Apart
        <5> QED BY <1>2, <4>1, <5>1
      <4> QED BY <1>1, <3>2, <4>1 DEF Apart
    <3> QED BY <3>1, <3>2
  <2>5. \A g, h \in Groups : r.active[g].seg = r.active[h].seg /\ r.active[g].seg # Nil => g = h
    BY <1>1, <1>2 DEF Apart
  <2>6. \A q \in Groups : r.queue[q] \cap r.free = {}
    BY <1>1 DEF Apart
  <2> QED BY <1>1, <2>2, <2>3, <2>4, <2>5, <2>6, Sorts DEF Apart
<1>5. Blank(r, Nil)
  <2>1. \A s \in r.free, i \in PageNos : r.page[s][i] = Nil
    BY <1>1, <1>2 DEF Blank, EngineOK
  <2>2. \A g \in Groups : r.active[g].seg # Nil =>
          \A i \in PageNos : i > r.active[g].off => r.page[r.active[g].seg][i] = Nil
    <3> TAKE g \in Groups
    <3>1. CASE g = own
      BY <1>2, <3>1
    <3>2. CASE g # own
      BY <1>1, <1>2, <3>2 DEF Blank, EngineOK, Open
    <3> QED BY <3>1, <3>2
  <2> QED BY <2>1, <2>2, Sorts DEF Blank
<1>6. Labelled(r, J)
  <2>1. \A h \in Groups : d.active[h].seg = v => h = own
    BY <1>1 DEF Apart
  <2>2. \A q \in Groups : \A s \in r.queue[q] : s \in SegIds /\ r.gnum[s] = d.gnum[s]
    BY <1>1, <1>2 DEF EngineOK, Apart
  <2>3. \A h \in Groups : d.active[h].seg \in SegIds \cup {Nil}
    BY <1>1 DEF EngineOK, Open
  <2>4. \A h \in Groups : r.active[h].seg # Nil =>
          r.gnum[r.active[h].seg] = h /\ h < GroupNum(r)
    BY <1>1, <1>2, <2>1, <2>3 DEF Labelled
  <2>5. d.naive \in Groups
    BY <1>1, GroupsOf
  <2> QED BY <1>1, <1>2, <2>2, <2>4, <2>5 DEF Labelled
<1>7. Placed(r, Nil, Nil, J)
  BY <1>3, <1>4, <1>5, <1>6 DEF Placed
<1>8. ASSUME Agree(d, v, PPS) PROVE Agree(r, Nil, 0)
  <2>1. \A l \in Lbas : d.where[l] # Nil => /\ d.where[l][1] \in SegIds /\ d.where[l][1] # v
                                            /\ d.where[l][2] \in PageNos
    <3> SUFFICES ASSUME NEW l \in Lbas, d.where[l] # Nil
                 PROVE  d.where[l][1] \in SegIds /\ d.where[l][1] # v /\ d.where[l][2] \in PageNos
      OBVIOUS
    <3>1. d.where[l] \in SegIds \X PageNos
      BY <1>1 DEF EngineOK
    <3>2. ~(d.where[l][2] > PPS)
      BY <3>1, Sorts DEF PageNos
    <3> QED BY <1>8, <3>1, <3>2 DEF Agree
  <2>2. \A s \in SegIds, i \in PageNos : r.page[s][i] # Nil => r.where[r.page[s][i]] = <<s, i>>
    <3> SUFFICES ASSUME NEW s \in SegIds, NEW i \in PageNos, r.page[s][i] # Nil
                 PROVE  r.where[r.page[s][i]] = <<s, i>>
      OBVIOUS
    <3>1. s # v /\ r.page[s][i] = d.page[s][i]
      BY <1>2
    <3>2. d.where[d.page[s][i]] = <<s, i>>
      BY <1>8, <3>1, AgreeAt
    <3> QED BY <1>1, <1>2, <3>1, <3>2
  <2>3. \A l \in Lbas : r.where[l] # Nil =>
          r.page[r.where[l][1]][r.where[l][2]] = l /\ r.where[l][1] # Nil
    BY <1>2, <1>8, <2>1, Sorts DEF Agree
  <2> QED BY <2>2, <2>3 DEF Agree
<1> QED BY <1>7, <1>8

-----------------------------------------------------------------------------
(* A sealed segment is counted.                                            *)
LEMMA RoomKeepsCounts ==
  ASSUME NEW d, NEW v, NEW own, NEW J, NEW g \in Groups,
         Placed(d, v, own, J), ChainOn(d), d.active[g].seg # Nil, ~Stopped(MakeRoom(d, g))
  PROVE  Tallied(MakeRoom(d, g), d, g)
<1> DEFINE r == MakeRoom(d, g)
           a == d.active[g].seg
           q == QueueOf(d, g)
           m == Seal(d, g, q)
<1>1. /\ EngineOK(d) /\ DOMAIN d = Fields /\ d.free \in SUBSET SegIds
      /\ d.queue \in [Groups -> SUBSET SegIds] /\ g < GroupNum(d)
      /\ \A p \in Groups : a \notin d.queue[p]
  BY DEF Placed, EngineOK, Apart, Labelled
<1>2. CASE d.active[g].off < PPS
  <2>1. r = d
    BY <1>2 DEF MakeRoom
  <2> QED BY <2>1, TallyGoesOn
<1>3. CASE ~(d.active[g].off < PPS)
  <2>1. r = OpenActive(m, g)
    BY <1>3 DEF MakeRoom
  <2>2. /\ DOMAIN m = Fields /\ m.free = d.free /\ Unmoved(m, d)
        /\ m.queue = [d.queue EXCEPT ![q] = @ \cup {a}]
        /\ m.total = [d.total EXCEPT ![g] = @ + 1]
    <3> HIDE DEF q
    <3> QED BY <1>1 DEF Seal, Fields, Unmoved
  <2> HIDE DEF m
  <2>3. r.queue = m.queue /\ r.total = m.total /\ Unmoved(r, m)
    <3> DEFINE s == Min(m.free)
    <3>1. m.free \in SUBSET SegIds /\ ~Stopped(OpenActive(m, g))
      BY <1>1, <2>1, <2>2
    <3> HIDE DEF r, q
    <3>2. /\ DOMAIN r = Fields /\ r.page = m.page /\ r.where = m.where
          /\ r.queue = m.queue /\ r.total = m.total /\ Unmoved(r, m)
          /\ s \in m.free /\ r.free = m.free \ {s}
          /\ r.gnum = [m.gnum EXCEPT ![s] = g]
          /\ r.active = [m.active EXCEPT ![g] = [seg |-> s, off |-> 0]]
      BY ONLY ZenonT(60), <2>1, <2>2, <3>1, OpenFields
    <3> QED BY <3>2
  <2> HIDE DEF r
  <2>4. /\ r.naive = d.naive /\ r.mida = d.mida /\ First(r) = First(d)
        /\ r.queue = [d.queue EXCEPT ![q] = @ \cup {a}]
        /\ r.total = [d.total EXCEPT ![g] = @ + 1]
    BY <2>2, <2>3 DEF Unmoved, First
  <2>5. q \in Groups /\ q = IF g >= First(d) THEN d.naive ELSE g
    <3>1. d.naive \in Groups /\ d.naive \in Nat /\ g \in Nat
      BY <1>1, GroupsOf, Sorts
    <3> QED BY <3>1 DEF QueueOf, First, ChainOn
  <2>6. /\ \A p \in Groups : p # q => r.queue[p] = d.queue[p]
        /\ r.queue[q] = d.queue[q] \cup {a} /\ a \notin d.queue[q]
    BY <1>1, <2>4, <2>5
  <2> HIDE DEF q
  <2>7. Cardinality(r.queue[q]) = Cardinality(d.queue[q]) + 1
    <3>1. Cardinality(d.queue[q] \cup {a}) = Cardinality(d.queue[q]) + 1
      <4> HIDE DEF a
      <4> QED BY <1>1, <2>5, <2>6, QueueCountChanges
    <3> QED BY <2>6, <3>1
  <2>8. /\ First(d) \in {0, d.naive} /\ Moved(r, d, g, q, 1, 1)
        /\ \A over : Charged(g, over, over, 1, 1)
    BY <1>1, <2>4, <2>6, <2>7, FirstOf DEF Moved, Charged
  <2>9. ASSUME NEW over, NEW lost, g # lost, Counts(d, First(d), over, lost)
        PROVE  Counts(r, First(r), over, lost)
    <3>1. Counts(r, First(d), over, lost)
      <4>1. 1 \in Int
        OBVIOUS
      <4> QED BY ONLY Zenon, <1>1, <2>5, <2>8, <2>9, <4>1, g \in Groups, CountsChange
    <3> QED BY <2>4, <3>1
  <2> QED BY <2>9 DEF Tallied, r
<1> QED BY <1>2, <1>3

-----------------------------------------------------------------------------
(* The copy loops: the pages of segment v, of group g, are appended to     *)
(* group to.                                                               *)

(* After n turns of the loop that started in d0.                           *)
Copying(d, d0, v, own, J, g, to, n) ==
  /\ Placed(d, v, own, J) /\ Agree(d, v, n) /\ HotIn(d, v, g, n)
  /\ ChainOn(d)
  /\ Present(d) = Present(d0) /\ d.page[v] = d0.page[v]
  /\ d.vp = d0.vp /\ d.naive = d0.naive /\ d.mida = d0.mida
  /\ d.stop = d0.stop /\ d.refused = d0.refused
  /\ \A p \in Groups : p # QueueOf(d0, to) => d.queue[p] = d0.queue[p]
  /\ d.active[to].seg # Nil /\ d.active[to].seg # v
  /\ Tallied(d, d0, to)

LEMMA RoomWhileCopying ==
  ASSUME NEW d, NEW d0, NEW v \in SegIds, NEW own, NEW J, NEW g, NEW to \in Groups, NEW n,
         to # own, Copying(d, d0, v, own, J, g, to, n), ~Stopped(MakeRoom(d, to))
  PROVE  LET r == MakeRoom(d, to)
         IN Copying(r, d0, v, own, J, g, to, n) /\ Ready(r, v, own, J, to)
<1> DEFINE r == MakeRoom(d, to)
<1>1. /\ Placed(d, v, own, J) /\ Agree(d, v, n) /\ HotIn(d, v, g, n)
      /\ ChainOn(d)
      /\ d.active[to].seg # Nil /\ d.active[to].seg # v
  BY DEF Copying
<1>2. /\ Placed(r, v, own, J)
      /\ r.active[to].seg \in SegIds /\ r.active[to].seg # v /\ r.active[to].off \in 0 .. PPS - 1
      /\ r.page = d.page /\ r.where = d.where /\ Unmoved(r, d)
      /\ \A t \in SegIds, i \in PageNos : r.page[t][i] # Nil => r.gnum[t] = d.gnum[t]
      /\ \A p \in Groups : p # QueueOf(d, to) => r.queue[p] = d.queue[p]
  BY <1>1, MakeRoomKeepsPlaced DEF RoomMade, Ready
<1> HIDE DEF r
<1>3. Ready(r, v, own, J, to)
  BY <1>2 DEF Ready
<1>4. Agree(r, v, n) /\ Present(r) = Present(d)
  BY <1>1, <1>2, SameTable
<1>5. HotIn(r, v, g, n)
  BY <1>1, <1>2 DEF HotIn, Unmoved
<1>6. \A p \in Groups : p # QueueOf(d0, to) => r.queue[p] = d0.queue[p]
  BY <1>2 DEF Copying, QueueOf
<1>7. Tallied(r, d0, to)
  <2>1. Tallied(r, d, to)
    BY <1>1, RoomKeepsCounts DEF r
  <2> QED BY <2>1, TallyGoesOn DEF Copying
<1>8. Copying(r, d0, v, own, J, g, to, n)
  BY <1>1, <1>2, <1>4, <1>5, <1>6, <1>7, Sorts DEF Copying, Unmoved, ChainOn
<1> QED BY <1>3, <1>8 DEF r

(* A page that is gone is passed over.                                     *)
LEMMA PassOver ==
  ASSUME NEW d, NEW d0, NEW v \in SegIds, NEW own, NEW J, NEW g, NEW to \in Groups,
         NEW i \in PageNos, Copying(d, d0, v, own, J, g, to, i - 1), d.page[v][i] = Nil
  PROVE  Copying(d, d0, v, own, J, g, to, i)
<1>1. \A j \in PageNos : (j > i - 1 /\ j # i <=> j > i) /\ (j = i => j > i - 1)
  BY DEF PageNos
<1>2. Agree(d, v, i)
  <2>1. \A l \in Lbas : d.where[l] # Nil => d.where[l] \in SegIds \X PageNos
    BY DEF Copying, Placed, EngineOK
  <2>2. \A l \in Lbas : d.where[l] # Nil /\ d.where[l][1] = v => d.where[l][2] # i
    BY Sorts DEF Copying, Agree
  <2>3. Agree(d, v, i - 1)
    BY DEF Copying
  <2>4. \A s \in SegIds, j \in PageNos :
          d.page[s][j] # Nil /\ (s = v => j > i) => d.where[d.page[s][j]] = <<s, j>>
    BY <1>1, <2>3 DEF Agree
  <2>5. \A l \in Lbas : d.where[l] # Nil =>
          /\ d.page[d.where[l][1]][d.where[l][2]] = l
          /\ d.where[l][1] = v => d.where[l][2] > i
    BY <1>1, <2>1, <2>2, <2>3 DEF Agree
  <2> QED BY <2>4, <2>5 DEF Agree
<1>3. HotIn(d, v, g, i)
  BY <1>1 DEF Copying, HotIn
<1> QED BY <1>2, <1>3 DEF Copying

(* The only page of lba that is not outdated is the one to be copied.      *)
LEMMA OnlyPage ==
  ASSUME NEW d, NEW v \in SegIds, NEW i \in PageNos, Agree(d, v, i - 1), d.page[v][i] # Nil
  PROVE  /\ d.where[d.page[v][i]] = <<v, i>>
         /\ \A s \in SegIds, j \in PageNos : d.page[s][j] = d.page[v][i] => s = v /\ ~(j > i)
<1>1. \A j \in PageNos : j > i => j > i - 1 /\ j # i
  BY DEF PageNos
<1>2. i > i - 1
  BY DEF PageNos
<1>3. d.where[d.page[v][i]] = <<v, i>>
  BY <1>2 DEF Agree
<1>4. ASSUME NEW s \in SegIds, NEW j \in PageNos, d.page[s][j] = d.page[v][i],
             ~(s = v /\ ~(j > i))
      PROVE  FALSE
  <2>1. d.where[d.page[s][j]] = <<s, j>>
    BY <1>1, <1>4 DEF Agree
  <2> QED BY <1>1, <1>3, <1>4, <2>1
<1> QED BY <1>3, <1>4

(* The page is appended; c differs from d by what the hot filter did.      *)
LEMMA MoveOn ==
  ASSUME NEW d, NEW d0, NEW v \in SegIds, NEW own, NEW J, NEW g, NEW to \in Groups,
         NEW i \in PageNos, NEW c, NEW x, to # own, to # 0,
         Copying(d, d0, v, own, J, g, to, i - 1), Ready(d, v, own, J, to), d.page[v][i] # Nil,
         Same(c, d), HotIn(c, v, g, i)
  PROVE  Copying([AppendPage(c, to, d.page[v][i]) EXCEPT !.moved = x],
                 d0, v, own, J, g, to, i)
<1> DEFINE lba == d.page[v][i]
           a == AppendPage(c, to, lba)
           r == [a EXCEPT !.moved = x]
<1>1. lba \in Lbas
  BY DEF Copying, Placed, EngineOK
<1>2. /\ c.page = d.page /\ c.where = d.where /\ c.active = d.active /\ c.queue = d.queue
      /\ c.vp = d.vp /\ c.naive = d.naive /\ c.mida = d.mida
      /\ c.stop = d.stop /\ c.refused = d.refused
  BY DEF Same
<1>3. Ready(c, v, own, J, to) /\ Present(c) = Present(d)
  <2>1. Placed(c, v, own, J) /\ Present(c) = Present(d)
    BY SameKeepsPlaced DEF Copying
  <2> QED BY <1>2, <2>1 DEF Ready
<1>4. /\ \A s \in SegIds, j \in PageNos : d.page[s][j] = lba => s = v /\ ~(j > i)
      /\ d.where[lba] = <<v, i>>
  <2>1. Agree(d, v, i - 1)
    BY DEF Copying
  <2> QED BY <2>1, OnlyPage
<1>5. AgreeBut(c, v, i, lba)
  <2>1. \A j \in PageNos : j > i => j > i - 1
    BY DEF PageNos
  <2>2. Agree(d, v, i - 1) /\ \A l \in Lbas : d.where[l] # Nil => d.where[l] \in SegIds \X PageNos
    BY DEF Copying, Placed, EngineOK
  <2>3. \A j \in PageNos : j > i - 1 => j > i \/ j = i
    BY DEF PageNos
  <2>4. \A l \in Lbas \ {lba} : d.where[l] # Nil /\ d.where[l][1] = v => d.where[l][2] # i
    BY <2>2 DEF Agree
  <2>5. \A l \in Lbas \ {lba} : d.where[l] # Nil =>
          /\ d.page[d.where[l][1]][d.where[l][2]] = l
          /\ d.where[l][1] = v => d.where[l][2] > i
    BY <2>2, <2>3, <2>4 DEF Agree
  <2>6. \A s \in SegIds, j \in PageNos :
          d.page[s][j] \notin {Nil, lba} /\ (s = v => j > i) => d.where[d.page[s][j]] = <<s, j>>
    BY <2>1, <2>2 DEF Agree
  <2>7. \A s \in SegIds, j \in PageNos : c.page[s][j] = lba => s = v /\ ~(j > i)
    BY <1>2, <1>4
  <2>8. \A l \in Lbas \ {lba} : c.where[l] # Nil =>
          /\ c.page[c.where[l][1]][c.where[l][2]] = l
          /\ c.where[l][1] = v => c.where[l][2] > i
    BY <1>2, <2>5
  <2>9. \A s \in SegIds, j \in PageNos :
          c.page[s][j] \notin {Nil, lba} /\ (s = v => j > i) => c.where[c.page[s][j]] = <<s, j>>
    BY <1>2, <2>6
  <2> HIDE DEF lba
  <2> QED BY Zenon, <2>7, <2>8, <2>9 DEF AgreeBut
<1> HIDE DEF lba
<1>6. /\ Placed(a, v, own, J) /\ Appended(a, c, to, lba) /\ Unmoved(a, c)
      /\ a.gnum = c.gnum /\ a.queue = c.queue
  BY <1>1, <1>3, AppendKeepsPlaced
<1>7. Agree(a, v, i) /\ Present(a) = Present(c) \cup {lba}
  <2> HIDE DEF a
  <2> QED BY <1>1, <1>3, <1>5, <1>6, AppendAgrees
<1>8. lba \in Present(d)
  <2>1. <<v, i>> # Nil
    BY Sorts
  <2> QED BY <1>1, <1>4, <2>1 DEF Present
<1>9. a.active[to].seg = c.active[to].seg
  <2>1. DOMAIN c = Fields /\ c.active \in [Groups -> Open]
    BY <1>3 DEF Ready, Placed, EngineOK
  <2> QED BY <2>1 DEF AppendPage, Fields, Open
<1>10. a.page[v] = d.page[v]
  <2>1. DOMAIN c = Fields /\ c.active[to].seg # v
    BY <1>3 DEF Ready, Placed, EngineOK
  <2>2. a.page = [c.page EXCEPT ![c.active[to].seg] = [@ EXCEPT ![c.active[to].off + 1] = lba]]
    BY <2>1 DEF AppendPage, Fields
  <2>3. DOMAIN c.page = SegIds
    BY <1>3 DEF Ready, Placed, EngineOK
  <2> HIDE DEF a
  <2> QED BY <1>2, <2>1, <2>2, <2>3
<1>11. HotIn(a, v, g, i)
  <2>1. c.gnum[c.active[to].seg] = to /\ c.active[to].seg \in SegIds /\ c.active[to].seg # v
    BY <1>3, Sorts DEF Ready, Placed, Labelled
  <2>2. \A t \in SegIds, j \in PageNos : a.page[t][j] = c.page[t][j] \/ a.gnum[t] = to
    BY <1>6, <2>1 DEF Appended
  <2> HIDE DEF a
  <2> QED BY <1>2, <1>6, <1>10, <2>2 DEF HotIn, Unmoved
<1>12. DOMAIN a = Fields
  BY <1>6 DEF Placed, EngineOK
<1> HIDE DEF a
<1>13. /\ Same(r, a) /\ r.hf = a.hf /\ r.hotLbas = a.hotLbas /\ r.page = a.page
       /\ r.active = a.active /\ r.gnum = a.gnum /\ r.queue = a.queue
       /\ r.vp = a.vp /\ r.naive = a.naive /\ r.mida = a.mida
       /\ r.stop = a.stop /\ r.refused = a.refused
  BY <1>12 DEF Same, Fields
<1> HIDE DEF r
<1>14. Placed(r, v, own, J) /\ Agree(r, v, i) /\ Present(r) = Present(a)
  BY <1>6, <1>7, <1>13, SameKeepsPlaced
<1>15. HotIn(r, v, g, i)
  BY <1>11, <1>13 DEF HotIn
<1>16. /\ Present(r) = Present(d0) /\ r.page[v] = d0.page[v]
       /\ r.vp = d0.vp /\ r.naive = d0.naive /\ r.mida = d0.mida
       /\ r.stop = d0.stop /\ r.refused = d0.refused
  BY <1>2, <1>3, <1>6, <1>7, <1>8, <1>10, <1>13, <1>14 DEF Unmoved, Copying
<1>17. r.active[to].seg # Nil /\ r.active[to].seg # v
  BY <1>2, <1>9, <1>13, Sorts DEF Ready
<1>18. ChainOn(r)
  BY <1>2, <1>6, <1>13 DEF Unmoved, Copying, ChainOn
<1>19. \A p \in Groups : p # QueueOf(d0, to) => r.queue[p] = d0.queue[p]
  BY <1>2, <1>6, <1>13 DEF Copying
<1>20. Tallied(r, d0, to)
  <2>1. /\ r.total = d.total /\ r.queue = d.queue /\ r.naive = d.naive /\ r.mida = d.mida
    <3>1. a.total = c.total
      <4>1. DOMAIN c = Fields
        BY <1>3 DEF Ready, Placed, EngineOK
      <4> QED BY <4>1 DEF a, AppendPage, Fields
    <3> QED BY <1>2, <1>6, <1>13, <3>1 DEF Same, Unmoved
  <2>2. Tallied(r, d, to) /\ Tallied(d, d0, to)
    BY <2>1, TallyGoesOn DEF Copying
  <2> QED BY <2>2, TallyGoesOn
<1>21. Copying(r, d0, v, own, J, g, to, i)
  BY <1>14, <1>15, <1>16, <1>17, <1>18, <1>19, <1>20 DEF Copying
<1> QED BY <1>21 DEF r, a, lba

(* The second test of the filter, the hot penalty, is never made of a page *)
(* that is not hot: group 0 holds no other.                                *)
LEMMA FilterWhileCopying ==
  ASSUME NEW d, NEW v \in SegIds, NEW g, NEW i \in PageNos, DOMAIN d = Fields,
         d.page \in [SegIds -> [PageNos -> Lbas \cup {Nil}]],
         Agree(d, v, i - 1), HotIn(d, v, g, i - 1), d.page[v][i] # Nil
  PROVE  HotIn(HfCopied(d, d.page[v][i], g), v, g, i) /\ HotIn(d, v, g, i)
<1> DEFINE lba == d.page[v][i]
<1>1. lba \in Lbas
  OBVIOUS
<1>2. /\ d.hf \in [Lbas -> 0 .. HotVal] /\ HotVal \in Nat /\ HotVal >= 2
      /\ d.hotLbas = Cardinality({l \in Lbas : d.hf[l] = HotVal})
  BY MidasAssumption DEF HotIn
<1>3. HotIn(d, v, g, i)
  <2>1. \A j \in PageNos : j > i => j > i - 1
    BY DEF PageNos
  <2> QED BY <2>1 DEF HotIn
<1>4. /\ \A s \in SegIds, j \in PageNos : d.page[s][j] = lba => s = v /\ ~(j > i)
  BY OnlyPage
<1>5. g = 0 => d.hf[lba] = HotVal
  <2>1. i > i - 1
    BY DEF PageNos
  <2> QED BY <2>1 DEF HotIn
<1> HIDE DEF lba
<1> DEFINE H == {l \in Lbas : d.hf[l] = HotVal}
(* Any record that has less for lba, and counts.                           *)
<1>6. ASSUME NEW r, NEW n \in 0 .. HotVal - 1, r.page = d.page, r.gnum = d.gnum,
             r.hf = [d.hf EXCEPT ![lba] = n],
             r.hotLbas = IF d.hf[lba] = HotVal THEN d.hotLbas - 1 ELSE d.hotLbas
      PROVE  HotIn(r, v, g, i)
  <2>1. n \in 0 .. HotVal /\ n # HotVal
    BY <1>2
  <2>2. \A l \in Lbas : r.hf[l] = IF l = lba THEN n ELSE d.hf[l]
    BY <1>2, <1>6
  <2>3. r.hf \in [Lbas -> 0 .. HotVal]
    BY Zenon, <1>2, <1>6, <2>1
  <2>4. {l \in Lbas : r.hf[l] = HotVal} = H \ {lba}
    BY <2>1, <2>2
  <2>5. IsFiniteSet(H)
    BY Sorts, FS_Subset
  <2>6. r.hotLbas = Cardinality(H \ {lba})
    <3>1. Cardinality(H \ {lba}) = IF lba \in H THEN Cardinality(H) - 1 ELSE Cardinality(H)
      BY Zenon, <2>5, FS_RemoveElement
    <3> QED BY <1>1, <1>2, <1>6, <3>1
  <2>7. \A s \in SegIds \ {v}, j \in PageNos :
          r.page[s][j] # Nil /\ r.gnum[s] = 0 => r.hf[r.page[s][j]] = HotVal
    <3> SUFFICES ASSUME NEW s \in SegIds \ {v}, NEW j \in PageNos, d.page[s][j] # Nil,
                        d.gnum[s] = 0
                 PROVE  r.hf[d.page[s][j]] = HotVal
      BY <1>6
    <3>1. d.page[s][j] \in Lbas /\ d.page[s][j] # lba
      BY <1>4
    <3> QED BY <1>3, <2>2, <3>1 DEF HotIn
  <2>8. g = 0 => \A j \in PageNos : j > i /\ r.page[v][j] # Nil => r.hf[r.page[v][j]] = HotVal
    <3> SUFFICES ASSUME g = 0, NEW j \in PageNos, j > i, d.page[v][j] # Nil
                 PROVE  r.hf[d.page[v][j]] = HotVal
      BY <1>6
    <3>1. d.page[v][j] \in Lbas /\ d.page[v][j] # lba
      BY <1>4
    <3> QED BY <1>3, <2>2, <3>1 DEF HotIn
  <2> QED BY Zenon, <2>3, <2>4, <2>6, <2>7, <2>8 DEF HotIn
<1>7. d.hf[lba] \in 0 .. HotVal
  BY <1>1, <1>2
<1>8. HotIn(HfCopied(d, lba, g), v, g, i)
  <2>1. CASE d.coldTw > 0
    <3> DEFINE r == [d EXCEPT !.coldTw = @ - 1]
    <3>1. r.page = d.page /\ r.gnum = d.gnum /\ r.hf = d.hf /\ r.hotLbas = d.hotLbas
      BY DEF Fields
    <3>2. HfCopied(d, lba, g) = r
      BY <2>1 DEF HfCopied
    <3> HIDE DEF r
    <3> QED BY Zenon, <1>3, <3>1, <3>2 DEF HotIn
  <2>2. CASE ~(d.coldTw > 0) /\ d.hf[lba] = 0
    BY <1>3, <2>2 DEF HfCopied
  <2> DEFINE down == CountDown(d, lba)
  <2>3. CASE ~(d.coldTw > 0) /\ d.hf[lba] # 0
    <3>1. /\ DOMAIN down = Fields /\ down.page = d.page /\ down.gnum = d.gnum
          /\ down.hf = [d.hf EXCEPT ![lba] = d.hf[lba] - 1]
          /\ down.hotLbas = IF d.hf[lba] = HotVal THEN d.hotLbas - 1 ELSE d.hotLbas
      BY <1>1, <1>2 DEF CountDown, Fields
    <3> HIDE DEF down
    <3>2. d.hf[lba] - 1 \in 0 .. HotVal - 1
      <4> DEFINE k == d.hf[lba]
      <4>1. k \in 0 .. HotVal /\ k # 0
        BY <1>7, <2>3
      <4> HIDE DEF k
      <4>2. k - 1 \in 0 .. HotVal - 1
        BY <1>2, <4>1
      <4> QED BY <4>2 DEF k
    <3>3. CASE g # 0
      <4>1. HfCopied(d, lba, g) = down
        BY <2>3, <3>3 DEF HfCopied, down
      <4> QED BY <1>6, <3>1, <3>2, <4>1
    <3>4. CASE g = 0
      <4> DEFINE r == [down EXCEPT !.hf[lba] = @ - 1]
                 n == d.hf[lba] - 2
      <4>1. HfCopied(d, lba, g) = r
        BY <2>3, <3>4 DEF HfCopied, down
      <4>2. n \in 0 .. HotVal - 1 /\ d.hf[lba] - 1 - 1 = n
        BY <1>2, <1>5, <3>4
      <4> HIDE DEF n
      <4>3. down.hf[lba] = d.hf[lba] - 1
        BY <1>1, <1>2, <3>1
      <4>4. r.hf = [d.hf EXCEPT ![lba] = n]
        <5>1. r.hf = [down.hf EXCEPT ![lba] = down.hf[lba] - 1]
          BY <3>1 DEF Fields
        <5> HIDE DEF r
        <5> QED BY <3>1, <4>2, <4>3, <5>1
      <4>5. r.page = d.page /\ r.gnum = d.gnum /\ r.hotLbas = down.hotLbas
        BY <3>1 DEF Fields
      <4> HIDE DEF r
      <4> QED BY <1>6, <3>1, <4>1, <4>2, <4>4, <4>5
    <3> QED BY <3>3, <3>4
  <2> QED BY <2>1, <2>2, <2>3
<1> QED BY <1>3, <1>8 DEF lba

(* One turn of either loop.                                                *)
LEMMA CopyStep ==
  ASSUME NEW d, NEW d0, NEW v \in SegIds, NEW own, NEW J, NEW g, NEW to \in Groups,
         NEW i \in PageNos, to # own, to # 0, Copying(d, d0, v, own, J, g, to, i - 1)
  PROVE  /\ LET r == CopyPage(d, v, g, to, i)
            IN Stopped(r) \/ Copying(r, d0, v, own, J, g, to, i)
         /\ LET r == MovePage(d, v, to, i)
            IN Stopped(r) \/ Copying(r, d0, v, own, J, g, to, i)
<1> DEFINE room == MakeRoom(d, to)
           lba == d.page[v][i]
           counted == IF g \in {0, 1} THEN HfCopied(room, lba, g) ELSE room
           R(x, c) == [AppendPage(c, to, lba) EXCEPT !.moved = x]
<1>1. CASE Stopped(room) \/ Stopped(d)
  <2>1. Stopped(CopyPage(d, v, g, to, i)) /\ Stopped(MovePage(d, v, to, i))
    BY <1>1 DEF CopyPage, MovePage
  <2> QED BY <2>1
<1>2. CASE ~Stopped(room) /\ ~Stopped(d)
  <2>1. Copying(room, d0, v, own, J, g, to, i - 1) /\ Ready(room, v, own, J, to)
    BY <1>2, RoomWhileCopying
  <2>2. room.page[v][i] = lba
    BY <2>1 DEF Copying
  <2> HIDE DEF room, lba
  <2>3. CASE lba = Nil
    <3>1. Copying(room, d0, v, own, J, g, to, i)
      BY <2>1, <2>2, <2>3, PassOver
    <3>2. CopyPage(d, v, g, to, i) = room /\ MovePage(d, v, to, i) = room
      BY <1>2, <2>3 DEF CopyPage, MovePage, room, lba
    <3> QED BY <3>1, <3>2
  <2>4. CASE lba # Nil
    <3>1. /\ DOMAIN room = Fields /\ room.page \in [SegIds -> [PageNos -> Lbas \cup {Nil}]]
          /\ Agree(room, v, i - 1) /\ HotIn(room, v, g, i - 1)
      BY <2>1 DEF Copying, Placed, EngineOK
    <3>2. HotIn(HfCopied(room, lba, g), v, g, i) /\ HotIn(room, v, g, i)
      BY <2>2, <2>4, <3>1, FilterWhileCopying
    <3>3. Same(counted, room) /\ Same(room, room)
      <4>1. Same(HfCopied(room, lba, g), room)
        BY Zenon, <3>1, FilterIsApart
      <4> QED BY <4>1 DEF Same
    <3>4. HotIn(counted, v, g, i)
      BY <3>2
    <3> HIDE DEF counted
    <3>5. \A c \in {counted, room} : \A x : Copying(R(x, c), d0, v, own, J, g, to, i)
      <4> TAKE c \in {counted, room}
      <4> TAKE x
      <4>1. Same(c, room) /\ HotIn(c, v, g, i)
        BY <3>2, <3>3, <3>4
      <4>2. R(x, c) = [AppendPage(c, to, room.page[v][i]) EXCEPT !.moved = x]
        BY <2>2
      <4> HIDE DEF R
      <4>3. room.page[v][i] # Nil
        BY <2>2, <2>4
      <4>4. Copying([AppendPage(c, to, room.page[v][i]) EXCEPT !.moved = x],
                    d0, v, own, J, g, to, i)
        BY Zenon, <2>1, <4>1, <4>3, MoveOn
      <4> QED BY <4>2, <4>4
    <3>6. \E x, y : /\ CopyPage(d, v, g, to, i) = R(x, counted)
                    /\ MovePage(d, v, to, i) = R(y, room)
      BY Zenon, <1>2, <2>4 DEF CopyPage, MovePage, room, lba, counted
    <3> HIDE DEF R
    <3> QED BY <3>5, <3>6
  <2> QED BY <2>3, <2>4
<1> QED BY <1>1, <1>2

(* The loops, as the functions the model writes them as.                   *)
CopyTurns(f, d0, v, g, to, n) ==
  f = [i \in 0 .. n |-> IF i = 0 THEN d0 ELSE CopyPage(f[i - 1], v, g, to, i)]

MoveTurns(f, d0, v, to, n) ==
  f = [i \in 0 .. n |-> IF i = 0 THEN d0 ELSE MovePage(f[i - 1], v, to, i)]

LEMMA LoopsUnfold ==
  ASSUME NEW d0, NEW v, NEW g, NEW to, NEW n \in Nat
  PROVE  /\ LET F[i \in 0 .. n] == IF i = 0 THEN d0 ELSE CopyPage(F[i - 1], v, g, to, i)
            IN CopyTurns(F, d0, v, g, to, n)
         /\ LET F[i \in 0 .. n] == IF i = 0 THEN d0 ELSE MovePage(F[i - 1], v, to, i)
            IN MoveTurns(F, d0, v, to, n)
<1> DEFINE Is(f, m) == f = [i \in 0 .. m |-> IF i = 0 THEN d0 ELSE CopyPage(f[i - 1], v, g, to, i)]
           Has(f, m) == f = [i \in 0 .. m |-> IF i = 0 THEN d0 ELSE MovePage(f[i - 1], v, to, i)]
<1>1. \A m \in Nat : (\E f : Is(f, m)) /\ (\E f : Has(f, m))
  <2> DEFINE T == {m \in Nat : (\E f : Is(f, m)) /\ (\E f : Has(f, m))}
  <2>1. 0 \in T
    <3>1. Is([i \in 0 .. 0 |-> d0], 0) /\ Has([i \in 0 .. 0 |-> d0], 0)
      OBVIOUS
    <3> QED BY Zenon, <3>1
  <2>2. \A m \in T : m + 1 \in T
    <3> TAKE m \in T
    <3>1. m \in Nat /\ \A i \in 0 .. m + 1 : i # 0 => i - 1 \in 0 .. m
      OBVIOUS
    <3>2. PICK f : Is(f, m)
      OBVIOUS
    <3>3. PICK h : Has(h, m)
      OBVIOUS
    <3> DEFINE f1 == [i \in 0 .. m + 1 |-> IF i = 0 THEN d0 ELSE CopyPage(f[i - 1], v, g, to, i)]
               h1 == [i \in 0 .. m + 1 |-> IF i = 0 THEN d0 ELSE MovePage(h[i - 1], v, to, i)]
    <3>4. \A i \in 0 .. m : f1[i] = f[i] /\ h1[i] = h[i]
      BY <3>1, <3>2, <3>3
    <3>5. Is(f1, m + 1) /\ Has(h1, m + 1)
      BY Zenon, <3>1, <3>4
    <3>6. \E x, y : Is(x, m + 1) /\ Has(y, m + 1)
      <4> HIDE DEF Is, Has, f1, h1
      <4> QED BY <3>5
    <3> HIDE DEF Is, Has
    <3> QED BY <3>1, <3>6
  <2> HIDE DEF T
  <2>3. T = Nat
    BY Zenon, <2>1, <2>2, ByInduction DEF T
  <2> QED BY Zenon, <2>3 DEF T
<1> DEFINE F[i \in 0 .. n] == IF i = 0 THEN d0 ELSE CopyPage(F[i - 1], v, g, to, i)
           G[i \in 0 .. n] == IF i = 0 THEN d0 ELSE MovePage(G[i - 1], v, to, i)
<1>2. Is(F, n) /\ Has(G, n)
  BY Zenon, <1>1
<1> HIDE DEF F, G
<1>3. CopyTurns(F, d0, v, g, to, n) /\ MoveTurns(G, d0, v, to, n)
  BY <1>2 DEF CopyTurns, MoveTurns
<1> QED BY Zenon, <1>3 DEF F, G

LEMMA CopyLoop ==
  ASSUME NEW d0, NEW v \in SegIds, NEW own, NEW J, NEW g, NEW to \in Groups, NEW n \in 0 .. PPS,
         to # own, to # 0, Stopped(d0) \/ Copying(d0, d0, v, own, J, g, to, 0)
  PROVE  /\ LET F[i \in 0 .. n] == IF i = 0 THEN d0 ELSE CopyPage(F[i - 1], v, g, to, i)
            IN Stopped(F[n]) \/ Copying(F[n], d0, v, own, J, g, to, n)
         /\ LET F[i \in 0 .. n] == IF i = 0 THEN d0 ELSE MovePage(F[i - 1], v, to, i)
            IN Stopped(F[n]) \/ Copying(F[n], d0, v, own, J, g, to, n)
<1> DEFINE Is(f, m) == CopyTurns(f, d0, v, g, to, m)
           Has(f, m) == MoveTurns(f, d0, v, to, m)
           Good(d, m) == Stopped(d) \/ Copying(d, d0, v, own, J, g, to, m)
<1>2. Good(d0, 0)
  OBVIOUS
<1>3. \A d : \A i \in PageNos : Good(d, i - 1) =>
        Good(CopyPage(d, v, g, to, i), i) /\ Good(MovePage(d, v, to, i), i)
  <2> SUFFICES ASSUME NEW d, NEW i \in PageNos, Good(d, i - 1)
               PROVE  Good(CopyPage(d, v, g, to, i), i) /\ Good(MovePage(d, v, to, i), i)
    OBVIOUS
  <2>1. CASE Stopped(d)
    BY <2>1 DEF CopyPage, MovePage
  <2>2. CASE Copying(d, d0, v, own, J, g, to, i - 1)
    BY <2>2, CopyStep
  <2> QED BY <2>1, <2>2
<1> HIDE DEF Good
<1>4. \A i \in 0 .. n : i # 0 => i \in PageNos /\ i - 1 \in 0 .. n
  BY Sorts DEF PageNos
<1>5. \A f : Is(f, n) \/ Has(f, n) => Good(f[n], n)
  <2> SUFFICES ASSUME NEW f, Is(f, n) \/ Has(f, n)
               PROVE  Good(f[n], n)
    OBVIOUS
  <2> DEFINE T == {m \in Nat : m \in 0 .. n => Good(f[m], m)}
  <2>1. 0 \in T
    BY <1>2, Sorts DEF CopyTurns, MoveTurns
  <2>2. \A m \in T : m + 1 \in T
    <3> SUFFICES ASSUME NEW m \in T, m + 1 \in 0 .. n PROVE Good(f[m + 1], m + 1)
      OBVIOUS
    <3>1. m + 1 # 0 /\ m + 1 \in PageNos /\ m \in 0 .. n /\ (m + 1) - 1 = m
      BY <1>4
    <3>2. Good(f[m], m)
      BY <3>1
    <3>3. \/ f[m + 1] = CopyPage(f[m], v, g, to, m + 1)
          \/ f[m + 1] = MovePage(f[m], v, to, m + 1)
      BY <3>1 DEF CopyTurns, MoveTurns
    <3> DEFINE i == m + 1
    <3>4. i \in PageNos /\ i - 1 = m
      BY <3>1
    <3> HIDE DEF i
    <3>5. Good(CopyPage(f[m], v, g, to, i), i) /\ Good(MovePage(f[m], v, to, i), i)
      BY <1>3, <3>2, <3>4
    <3> QED BY <3>3, <3>5 DEF i
  <2> HIDE DEF T
  <2>3. T = Nat
    BY Zenon, <2>1, <2>2, ByInduction DEF T
  <2>4. n \in Nat /\ n \in 0 .. n
    BY Sorts
  <2> QED BY <2>3, <2>4 DEF T
<1>6. n \in Nat
  BY Sorts
<1> DEFINE F[i \in 0 .. n] == IF i = 0 THEN d0 ELSE CopyPage(F[i - 1], v, g, to, i)
           G[i \in 0 .. n] == IF i = 0 THEN d0 ELSE MovePage(G[i - 1], v, to, i)
<1>7. Is(F, n) /\ Has(G, n)
  BY ZenonT(60), <1>6, LoopsUnfold
<1>8. Good(F[n], n) /\ Good(G[n], n)
  <2> HIDE DEF F, G
  <2> QED BY <1>5, <1>7
<1> QED BY <1>8 DEF Good

-----------------------------------------------------------------------------
(* Garbage collection.                                                     *)

(* No page is lost or found, and no write refused; and right counts stay   *)
(* right.                                                                  *)
Held(r, d) == Present(r) = Present(d) /\ r.vp = d.vp /\ r.refused = d.refused

Kept(r, d) == Held(r, d) /\ (Balanced(d) => Balanced(r))

LEMMA SameBalance ==
  ASSUME NEW d, NEW r, r.total = d.total, r.queue = d.queue, r.naive = d.naive, r.mida = d.mida
  PROVE  Balanced(d) => Balanced(r)
BY SameCounts DEF Balanced, First

(* The counts, while a segment of group g is out of queue q to be          *)
(* emptied.                                                                *)
LEMMA CountsOut ==
  ASSUME NEW d, NEW r, NEW q \in Groups, NEW v \in d.queue[q], EngineOK(d), Labelled(d, {}),
         Balanced(d), d.gnum[v] \in Groups, d.gnum[v] < GroupNum(d),
         r.total = d.total, r.naive = d.naive, r.mida = d.mida,
         r.queue = [d.queue EXCEPT ![q] = @ \ {v}]
  PROVE  Counts(r, First(d), d.gnum[v], Nil)
<1> DEFINE g == d.gnum[v]
           first == First(d)
<1>1. Counts(d, first, Nil, Nil) /\ (first = 0 => d.queue[0] = {})
  BY DEF Balanced, Counts
<1>2. /\ first \in {0, d.naive} /\ first \in Nat /\ first <= d.naive
      /\ Chain(d) = first .. GroupNum(d) - 1
  BY FirstOf
<1>3. q = IF g >= first THEN d.naive ELSE g
  <2>1. IF q < d.naive THEN g = q ELSE q = d.naive /\ g \in Chain(d)
    BY DEF Labelled
  <2>2. q \in Nat /\ d.naive \in Nat /\ GroupNum(d) \in Nat
    BY Sorts, GroupsOf
  <2>3. q < d.naive => first # 0 \/ q # 0
    BY <1>1
  <2>4. CASE q < d.naive
    <3>1. first = d.naive
      <4>1. CASE d.naive = 1
        <5>1. q = 0
          BY <2>2, <2>4, <4>1
        <5>2. first # 0
          BY <1>1, <5>1
        <5> QED BY <1>2, <5>2
      <4>2. CASE d.naive # 1
        BY <4>2 DEF First
      <4> QED BY <4>1, <4>2
    <3> QED BY <2>1, <2>2, <2>4, <3>1
  <2>5. CASE ~(q < d.naive)
    BY <1>2, <2>1, <2>2, <2>5
  <2> QED BY <2>4, <2>5
<1>4. Moved(r, d, g, q, 0, -1) /\ Charged(g, Nil, g, 0, -1)
  <2>1. d.total \in [Groups -> Int]
    BY DEF Balanced, Counts
  <2>2. r.total = [d.total EXCEPT ![g] = @ + 0]
    BY <2>1
  <2>3. Cardinality(r.queue[q]) = Cardinality(d.queue[q]) + (-1)
    <3>1. r.queue[q] = d.queue[q] \ {v}
      BY DEF EngineOK
    <3>2. Cardinality(d.queue[q] \ {v}) = Cardinality(d.queue[q]) - 1
      BY QueueCountChanges
    <3> QED BY <3>1, <3>2, QueueCount
  <2> QED BY <2>2, <2>3 DEF Moved, Charged
<1>5. 0 \in Int /\ -1 \in Int /\ g # Nil
  BY Sorts
<1> HIDE DEF first, g
<1> QED BY ONLY Zenon, <1>1, <1>2, <1>3, <1>4, <1>5, EngineOK(d), g \in Groups,
        g < GroupNum(d), q \in Groups, CountsChange DEF first, g

(* It is counted out when it is returned.                                  *)
LEMMA CountsBack ==
  ASSUME NEW d, NEW r, NEW g \in Groups, EngineOK(d), Counts(d, First(d), g, Nil),
         g < GroupNum(d), r.total = [d.total EXCEPT ![g] = @ - 1],
         r.naive = d.naive, r.mida = d.mida, r.queue = d.queue
  PROVE  Balanced(r)
<1> DEFINE q == IF g >= First(d) THEN d.naive ELSE g
           first == First(d)
<1>1. first \in {0, d.naive} /\ q \in Groups
  BY FirstOf, GroupsOf
<1>2. Moved(r, d, g, q, -1, 0) /\ Charged(g, g, Nil, -1, 0)
  <2>1. d.total \in [Groups -> Int]
    BY DEF Counts
  <2>2. r.total = [d.total EXCEPT ![g] = @ + (-1)]
    BY <2>1
  <2>3. Cardinality(r.queue[q]) = Cardinality(d.queue[q]) + 0
    BY <1>1, QueueCount
  <2> QED BY <2>2, <2>3 DEF Moved, Charged
<1>3. 0 \in Int /\ -1 \in Int /\ g # Nil /\ q = IF g >= first THEN d.naive ELSE g
  BY Sorts
<1>4. Counts(d, first, g, Nil)
  OBVIOUS
<1> HIDE DEF first, q
<1>5. Counts(r, first, Nil, Nil)
  BY ONLY Zenon, <1>1, <1>2, <1>3, <1>4, EngineOK(d), g \in Groups, g < GroupNum(d),
     CountsChange
<1> QED BY <1>5 DEF Balanced, First, first

(* What the copy loop of do_gc starts from: the group that the victim is   *)
(* of, the one its pages go to, and the engine before the first page.      *)
GCTo(d, g) == IF g < GroupNum(d) - 1 THEN g + 1 ELSE g

GCTaken(d, q, v) == [d EXCEPT !.queue[q] = @ \ {v}, !.commit = @ \cup {q}]

GCReady(d, q, v) ==
  LET to == GCTo(d, d.gnum[v])
      taken == GCTaken(d, q, v)
  IN IF taken.active[to].seg # Nil THEN taken
     ELSE IF taken.total[to] # 0 THEN Stop(taken, "group in use")
     ELSE OpenActive(taken, to)

GCStarts(d, q, v, g, to, taken, ready) ==
  /\ v \in SegIds /\ g \in Groups /\ g < GroupNum(d)
  /\ to \in Groups /\ to # 0 /\ to # Nil
  /\ DOMAIN taken = Fields /\ taken.page = d.page /\ taken.where = d.where
  /\ taken.gnum = d.gnum /\ taken.active = d.active /\ taken.free = d.free
  /\ Unmoved(taken, d)
  /\ taken.queue = [d.queue EXCEPT ![q] = @ \ {v}] /\ taken.total = d.total
  /\ \/ Stopped(ready)
     \/ /\ Copying(ready, ready, v, Nil, {}, g, to, 0) /\ Held(ready, taken)
        /\ ready.total = taken.total /\ ready.queue = taken.queue
        /\ ready.naive = taken.naive /\ ready.mida = taken.mida

LEMMA GCMakesReady ==
  ASSUME NEW d, Sound(d), ChainOn(d), NEW q \in Groups, NEW v \in d.queue[q]
  PROVE  GCStarts(d, q, v, d.gnum[v], GCTo(d, d.gnum[v]), GCTaken(d, q, v), GCReady(d, q, v))
<1> DEFINE g == d.gnum[v]
           to == IF g < GroupNum(d) - 1 THEN g + 1 ELSE g
           taken == [d EXCEPT !.queue[q] = @ \ {v}, !.commit = @ \cup {q}]
           ready == IF taken.active[to].seg # Nil THEN taken
                    ELSE IF taken.total[to] # 0 THEN Stop(taken, "group in use")
                    ELSE OpenActive(taken, to)
<1>1. EngineOK(d) /\ Labelled(d, {}) /\ Placed(d, Nil, Nil, {}) /\ Agree(d, Nil, 0)
  BY DEF Sound, Placed
<1>2. v \in SegIds /\ DOMAIN d = Fields
  BY <1>1 DEF EngineOK
<1>3. g \in Groups /\ g \in Nat /\ g < GroupNum(d) /\ GroupNum(d) \in Nat /\ GroupNum(d) >= 2
  <2>1. /\ d.naive \in Nat /\ d.naive >= 1 /\ GroupNum(d) \in Nat /\ GroupNum(d) > d.naive
        /\ Chain(d) \subseteq Groups
    BY <1>1, GroupsOf
  <2>2. IF q < d.naive THEN g = q ELSE g \in Chain(d)
    BY <1>1 DEF Labelled
  <2>3. q \in Nat
    BY Sorts
  <2>4. CASE q < d.naive
    BY <2>1, <2>2, <2>3, <2>4
  <2>5. CASE ~(q < d.naive)
    <3>1. g \in Groups /\ g \in Nat
      BY <2>1, <2>2, <2>5, Sorts
    <3>2. g <= GroupNum(d) - 1
      BY <2>1, <2>2, <2>5 DEF Chain
    <3> QED BY <2>1, <3>1, <3>2
  <2> QED BY <2>4, <2>5
<1>4. to \in Groups /\ to \in Nat /\ to < GroupNum(d) /\ to # 0 /\ to # Nil
  <2>1. to \in Nat /\ to < GroupNum(d) /\ to # 0
    <3> HIDE DEF g
    <3> QED BY <1>3
  <2> HIDE DEF to
  <2> QED BY <1>1, <2>1, GroupsOf, Sorts
<1> HIDE DEF g, to
<1>5. /\ DOMAIN taken = Fields /\ taken.page = d.page /\ taken.where = d.where
      /\ taken.gnum = d.gnum /\ taken.active = d.active /\ taken.free = d.free
      /\ taken.naive = d.naive /\ taken.mida = d.mida /\ Unmoved(taken, d)
      /\ taken.queue = [d.queue EXCEPT ![q] = @ \ {v}] /\ taken.total = d.total
  BY <1>2 DEF Fields, Unmoved
<1> HIDE DEF taken
<1>6. Placed(taken, v, Nil, {}) /\ Agree(taken, v, 0)
  BY <1>1, <1>5, TakeKeepsPlaced
<1>7. HotIn(taken, v, g, 0)
  <2>1. \A s \in SegIds : s # Nil
    BY Sorts
  <2> QED BY <1>2, <1>5, <2>1 DEF Sound, HotIn, Unmoved, g
<1>8. /\ ChainOn(taken) /\ GroupNum(taken) = GroupNum(d) /\ Present(taken) = Present(d)
      /\ taken.vp = d.vp /\ taken.refused = d.refused
  BY <1>5 DEF ChainOn, GroupNum, Present, Unmoved
<1>9. \/ Stopped(ready)
      \/ /\ Copying(ready, ready, v, Nil, {}, g, to, 0) /\ Held(ready, taken)
         /\ ready.total = taken.total /\ ready.queue = taken.queue
         /\ ready.naive = taken.naive /\ ready.mida = taken.mida
  <2>1. CASE taken.active[to].seg # Nil
    <3>1. ready = taken
      BY <2>1
    <3>2. taken.active[to].seg # v
      BY <1>2, <1>4, <1>6 DEF Placed, Apart
    <3> HIDE DEF ready
    <3>3. Tallied(ready, ready, to)
      BY TallyGoesOn
    <3> QED BY <1>6, <1>7, <1>8, <2>1, <3>1, <3>2, <3>3 DEF Copying, Held
  <2>2. CASE taken.active[to].seg = Nil /\ taken.total[to] # 0
    <3>1. ready = Stop(taken, "group in use")
      BY <2>2
    <3> QED BY Zenon, <1>5, <3>1, StopStops DEF Reasons
  <2>3. CASE taken.active[to].seg = Nil /\ taken.total[to] = 0 /\ ~Stopped(ready)
    <3>1. ready = OpenActive(taken, to)
      BY <2>3
    <3> HIDE DEF ready
    <3>2. /\ Placed(ready, v, Nil, {})
          /\ ready.active[to].seg \in SegIds /\ ready.active[to].seg # v
          /\ ready.page = taken.page /\ ready.where = taken.where /\ Unmoved(ready, taken)
          /\ \A t \in SegIds, i \in PageNos :
               ready.page[t][i] # Nil => ready.gnum[t] = taken.gnum[t]
      BY <1>4, <1>6, <1>8, <2>3, <3>1, OpenKeepsPlaced
    <3>3. Agree(ready, v, 0) /\ Held(ready, taken) /\ ChainOn(ready)
      <4>1. Agree(ready, v, 0) /\ Present(ready) = Present(taken)
        BY <1>6, <3>2, SameTable
      <4> QED BY <1>8, <3>2, <4>1 DEF Held, Unmoved, ChainOn
    <3>4. HotIn(ready, v, g, 0)
      BY <1>7, <3>2 DEF HotIn, Unmoved
    <3>5. ready.total = taken.total /\ ready.queue = taken.queue
      <4>1. taken.free \in SUBSET SegIds
        BY <1>6 DEF Placed, EngineOK
      <4> QED BY <1>5, <2>3, <3>1, <4>1, OpenTotals
    <3>6. Tallied(ready, ready, to)
      BY TallyGoesOn
    <3> QED BY <3>2, <3>3, <3>4, <3>5, <3>6, Sorts DEF Copying, Unmoved
  <2> QED BY Zenon, <2>1, <2>2, <2>3
<1> HIDE DEF ready
<1>10. GCStarts(d, q, v, g, to, taken, ready)
  BY ONLY Zenon, <1>2, <1>3, <1>4, <1>5, <1>9 DEF GCStarts
<1> QED BY Zenon, <1>10 DEF g, to, taken, ready, GCTo, GCTaken, GCReady

LEMMA DoGCIsSound ==
  ASSUME NEW d, Sound(d), ChainOn(d), NEW q \in Groups, NEW v \in d.queue[q]
  PROVE  LET r == DoGC(d, q, v)
         IN Stopped(r) \/ (Sound(r) /\ ChainOn(r) /\ Kept(r, d))
<1> DEFINE g == d.gnum[v]
           to == IF g < GroupNum(d) - 1 THEN g + 1 ELSE g
           taken == [d EXCEPT !.queue[q] = @ \ {v}, !.commit = @ \cup {q}]
           ready == IF taken.active[to].seg # Nil THEN taken
                    ELSE IF taken.total[to] # 0 THEN Stop(taken, "group in use")
                    ELSE OpenActive(taken, to)
           Copied[i \in 0 .. PPS] ==
             IF i = 0 THEN ready ELSE CopyPage(Copied[i - 1], v, g, to, i)
           c == Copied[PPS]
           r == Erase(c, v, g)
<1>1. EngineOK(d) /\ Labelled(d, {})
  BY DEF Sound, Placed
<1>2. v \in SegIds /\ DOMAIN d = Fields
  BY <1>1 DEF EngineOK
<1>3. /\ g = d.gnum[v] /\ to = GCTo(d, g) /\ taken = GCTaken(d, q, v)
      /\ ready = GCReady(d, q, v)
  BY DEF GCTo, GCTaken, GCReady
<1> HIDE DEF g, to, taken, ready
<1>6. GCStarts(d, q, v, g, to, taken, ready)
  BY Zenon, <1>3, GCMakesReady
<1>4. to \in Groups /\ to # 0 /\ to # Nil
  BY Zenon, <1>6 DEF GCStarts
<1>5. /\ Unmoved(taken, d) /\ taken.queue = [d.queue EXCEPT ![q] = @ \ {v}]
      /\ taken.total = d.total /\ taken.where = d.where
  BY Zenon, <1>6 DEF GCStarts
<1>9. \/ Stopped(ready)
      \/ /\ Copying(ready, ready, v, Nil, {}, g, to, 0) /\ Held(ready, taken)
         /\ ready.total = taken.total /\ ready.queue = taken.queue
         /\ ready.naive = taken.naive /\ ready.mida = taken.mida
  BY Zenon, <1>6 DEF GCStarts
<1>8. /\ ChainOn(taken) /\ Present(taken) = Present(d)
      /\ taken.vp = d.vp /\ taken.refused = d.refused
      /\ taken.naive = d.naive /\ taken.mida = d.mida
  BY <1>5 DEF ChainOn, Present, Unmoved
<1>10. Stopped(c) \/ Copying(c, ready, v, Nil, {}, g, to, PPS)
  <2>1. PPS \in 0 .. PPS /\ Nil \notin Groups
    BY Sorts
  <2> QED BY ZenonT(60), <1>2, <1>4, <1>9, <2>1, CopyLoop
<1>11. DoGC(d, q, v) = IF Stopped(c) THEN c ELSE r
  BY DEF DoGC, ready, taken, to, g
<1>12. CASE Stopped(c)
  BY <1>11, <1>12
<1>13. CASE ~Stopped(c)
  <2>1. Copying(c, ready, v, Nil, {}, g, to, PPS)
    BY <1>10, <1>13
  <2>2. /\ Held(ready, taken) /\ ready.total = taken.total /\ ready.queue = taken.queue
        /\ ready.naive = taken.naive /\ ready.mida = taken.mida
    <3>1. ~Stopped(ready)
      BY <1>13, <2>1 DEF Copying, Stopped
    <3> QED BY <1>9, <3>1
  <2> HIDE DEF c
  <2>3. /\ Placed(c, v, Nil, {}) /\ Agree(c, v, PPS) /\ HotIn(c, v, g, PPS) /\ ChainOn(c)
        /\ DOMAIN c = Fields
    BY <2>1 DEF Copying, Placed, EngineOK
  <2>4. /\ DOMAIN r = Fields /\ r.where = c.where /\ r.active = c.active
        /\ r.queue = c.queue /\ Unmoved(r, c)
        /\ r.free = c.free \cup {v} /\ r.gnum = [c.gnum EXCEPT ![v] = Nil]
        /\ r.page = [c.page EXCEPT ![v] = [i \in PageNos |-> Nil]]
        /\ r.total = [c.total EXCEPT ![g] = @ - 1]
    BY <2>3 DEF Erase, Fields, Unmoved
  <2> HIDE DEF r
  <2>5. r.active = [h \in Groups |-> IF h = Nil THEN NotActive ELSE c.active[h]]
    <3>1. c.active \in [Groups -> Open]
      BY <2>3 DEF Placed, EngineOK
    <3> QED BY <2>4, <3>1, Sorts
  <2>6. r.naive = c.naive /\ r.mida = c.mida /\ Nil # c.naive
    BY <2>3, <2>4, GroupsOf, Sorts DEF Unmoved, Placed
  <2>7. Placed(r, Nil, Nil, {}) /\ Agree(r, Nil, 0)
    BY <1>2, <2>3, <2>4, <2>5, <2>6, EraseKeepsPlaced
  <2>8. HotIn(r, Nil, Nil, 0)
    <3>1. /\ \A s \in SegIds, i \in PageNos : r.page[s][i] = IF s = v THEN Nil ELSE c.page[s][i]
          /\ \A s \in SegIds : s # v => r.gnum[s] = c.gnum[s]
      BY <2>3, <2>4 DEF Placed, EngineOK
    <3> QED BY <2>3, <2>4, <3>1, Sorts DEF HotIn, Unmoved
  <2>9. Held(r, d) /\ ChainOn(r)
    BY <1>8, <2>1, <2>2, <2>4, <2>6 DEF Held, Copying, Unmoved, Present, ChainOn
  <2>10. ASSUME Balanced(d)
         PROVE  Balanced(r)
    <3>1. Counts(taken, First(d), g, Nil)
      <4>1. d.gnum[v] \in Groups /\ d.gnum[v] < GroupNum(d)
        BY Zenon, <1>3, <1>6 DEF GCStarts
      <4> QED BY <1>1, <1>5, <1>8, <2>10, <4>1, CountsOut DEF g
    <3>2. First(ready) = First(d) /\ First(c) = First(d) /\ GroupNum(c) = GroupNum(d)
      BY <1>8, <2>1, <2>2 DEF First, Copying, GroupNum
    <3>3. Counts(ready, First(ready), g, Nil)
      BY <2>2, <3>1, <3>2, SameCounts
    <3>4. Counts(c, First(c), g, Nil)
      BY <1>4, <2>1, <3>3 DEF Copying, Tallied
    <3>5. EngineOK(c)
      BY <2>3 DEF Placed
    <3>6. g \in Groups /\ g < GroupNum(d)
      BY Zenon, <1>6 DEF GCStarts
    <3> QED BY <2>4, <2>6, <3>2, <3>4, <3>5, <3>6, CountsBack
  <2> QED BY <1>11, <1>13, <2>7, <2>8, <2>9, <2>10 DEF Sound, Kept
<1> QED BY <1>12, <1>13

-----------------------------------------------------------------------------
(* Writes.                                                                 *)

(* The filter counts an lba that no page holds for the moment.             *)
LEMMA FilterOnOverwrite ==
  ASSUME NEW d, NEW lba \in Lbas, NEW g, NEW young, DOMAIN d = Fields, HotIn(d, Nil, Nil, 0),
         \A s \in SegIds, j \in PageNos : d.page[s][j] # lba,
         d.page \in [SegIds -> [PageNos -> Lbas \cup {Nil}]]
  PROVE  HotIn(HfOverwrite(d, lba, g, young), Nil, Nil, 0)
<1>1. /\ d.hf \in [Lbas -> 0 .. HotVal] /\ HotVal \in Nat /\ HotVal >= 2
      /\ d.hotLbas = Cardinality({l \in Lbas : d.hf[l] = HotVal})
  BY MidasAssumption DEF HotIn
<1> DEFINE H == {l \in Lbas : d.hf[l] = HotVal}
           k == d.hf[lba]
<1>2. IsFiniteSet(H) /\ Cardinality(H) \in Nat
  BY Sorts, FS_Subset, FS_CardinalityType
<1>3. ASSUME NEW r, NEW n \in 0 .. HotVal, r.page = d.page, r.gnum = d.gnum,
             r.hf = [d.hf EXCEPT ![lba] = n],
             r.hotLbas = Cardinality(IF n = HotVal THEN H \cup {lba} ELSE H \ {lba})
      PROVE  HotIn(r, Nil, Nil, 0)
  <2>1. \A l \in Lbas : r.hf[l] = IF l = lba THEN n ELSE d.hf[l]
    BY <1>1, <1>3
  <2>2. r.hf \in [Lbas -> 0 .. HotVal]
    BY <1>1, <1>3
  <2>3. {l \in Lbas : r.hf[l] = HotVal} = IF n = HotVal THEN H \cup {lba} ELSE H \ {lba}
    BY <2>1
  <2>4. \A s \in SegIds \ {Nil}, j \in PageNos :
          r.page[s][j] # Nil /\ r.gnum[s] = 0 => r.hf[r.page[s][j]] = HotVal
    <3> SUFFICES ASSUME NEW s \in SegIds \ {Nil}, NEW j \in PageNos, d.page[s][j] # Nil,
                        d.gnum[s] = 0
                 PROVE  r.hf[d.page[s][j]] = HotVal
      BY <1>3
    <3>1. d.page[s][j] \in Lbas /\ d.page[s][j] # lba
      OBVIOUS
    <3> QED BY <2>1, <3>1 DEF HotIn
  <2> QED BY Zenon, <1>3, <2>2, <2>3, <2>4, Sorts DEF HotIn
<1>4. k \in 0 .. HotVal
  BY <1>1
<1>5. HotIn(CountUp(d, lba), Nil, Nil, 0)
  <2>1. CASE d.hf[lba] >= HotVal
    BY <2>1 DEF CountUp
  <2>2. CASE ~(d.hf[lba] >= HotVal)
    <3> DEFINE r == CountUp(d, lba)
    <3>1. /\ r.page = d.page /\ r.gnum = d.gnum /\ r.hf = [d.hf EXCEPT ![lba] = k + 1]
          /\ r.hotLbas = IF k + 1 = HotVal THEN d.hotLbas + 1 ELSE d.hotLbas
      BY <1>1, <2>2 DEF CountUp, Fields
    <3> HIDE DEF r
    <3>2. k \notin {HotVal} /\ lba \notin H
      BY <1>1, <2>2
    <3>3. k + 1 \in 0 .. HotVal
      <4>1. ~(k >= HotVal)
        BY <2>2
      <4> HIDE DEF k
      <4> QED BY <1>1, <1>4, <4>1
    <3>4. Cardinality(H \cup {lba}) = Cardinality(H) + 1 /\ H \ {lba} = H
      <4> HIDE DEF H
      <4>1. Cardinality(H \cup {lba}) = Cardinality(H) + 1
        BY <1>2, <3>2, FS_AddElement
      <4> QED BY <3>2, <4>1
    <3>5. d.hotLbas = Cardinality(H)
      BY <1>1
    <3> HIDE DEF k, H
    <3>6. r.hotLbas = Cardinality(IF k + 1 = HotVal THEN H \cup {lba} ELSE H \ {lba})
      BY <3>1, <3>4, <3>5
    <3> QED BY Zenon, <1>3, <3>1, <3>3, <3>6 DEF r, k, H
  <2> QED BY <2>1, <2>2
<1>6. ASSUME d.hf[lba] > 0 PROVE HotIn(CountDown(d, lba), Nil, Nil, 0)
  <2> DEFINE r == CountDown(d, lba)
  <2>1. /\ r.page = d.page /\ r.gnum = d.gnum /\ r.hf = [d.hf EXCEPT ![lba] = k - 1]
        /\ r.hotLbas = IF k = HotVal THEN d.hotLbas - 1 ELSE d.hotLbas
    BY <1>1 DEF CountDown, Fields
  <2> HIDE DEF r
  <2>2. k = HotVal <=> lba \in H
    OBVIOUS
  <2>3. k > 0
    BY <1>6
  <2> HIDE DEF k
  <2>4. k - 1 \in 0 .. HotVal /\ k - 1 # HotVal
    BY <1>1, <1>4, <2>3
  <2>5. Cardinality(H \ {lba}) = IF lba \in H THEN Cardinality(H) - 1 ELSE Cardinality(H)
    BY Zenon, <1>2, FS_RemoveElement
  <2>6. r.hotLbas = Cardinality(IF k - 1 = HotVal THEN H \cup {lba} ELSE H \ {lba})
    BY <1>1, <2>1, <2>2, <2>4, <2>5
  <2> QED BY Zenon, <1>3, <2>1, <2>4, <2>6 DEF r
<1>7. HotIn([d EXCEPT !.coldTw = @ - 1], Nil, Nil, 0)
  <2> DEFINE r == [d EXCEPT !.coldTw = @ - 1]
  <2>1. r.page = d.page /\ r.gnum = d.gnum /\ r.hf = d.hf /\ r.hotLbas = d.hotLbas
    BY DEF Fields
  <2> HIDE DEF r
  <2>2. HotIn(r, Nil, Nil, 0)
    BY <2>1 DEF HotIn
  <2> QED BY <2>2 DEF r
<1> QED BY <1>5, <1>6, <1>7 DEF HfOverwrite

(* The old page of lba, if there is one, is invalid, and nothing else has  *)
(* changed.                                                                *)
LEMMA Invalidated ==
  ASSUME NEW d, Sound(d), NEW lba \in Lbas, NEW young, d.where[lba] # Nil
  PROVE  LET old == d.where[lba]
             c == [d EXCEPT !.page[old[1]][old[2]] = Nil, !.inv[old[1]] = @ + 1]
             r == HfOverwrite(c, lba, d.gnum[old[1]], young)
         IN /\ Placed(r, Nil, Nil, {}) /\ AgreeBut(r, Nil, 0, lba) /\ HotIn(r, Nil, Nil, 0)
            /\ Present(r) = Present(d) /\ r.vp = d.vp /\ r.naive = d.naive /\ r.mida = d.mida
            /\ r.stop = d.stop /\ r.refused = d.refused
            /\ r.total = d.total /\ r.queue = d.queue
<1> DEFINE old == d.where[lba]
           s == old[1]
           i == old[2]
           c == [d EXCEPT !.page[s][i] = Nil, !.inv[s] = @ + 1]
           r == HfOverwrite(c, lba, d.gnum[s], young)
<1>1. /\ Placed(d, Nil, Nil, {}) /\ Agree(d, Nil, 0) /\ HotIn(d, Nil, Nil, 0)
      /\ EngineOK(d) /\ Apart(d, Nil, Nil) /\ Blank(d, Nil) /\ Labelled(d, {})
  BY DEF Sound, Placed
<1>2. DOMAIN d = Fields /\ d.page \in [SegIds -> [PageNos -> Lbas \cup {Nil}]]
  BY <1>1 DEF EngineOK
<1>3. s \in SegIds /\ i \in PageNos /\ d.where[lba] = <<s, i>>
  BY <1>1 DEF EngineOK
<1>4. d.page[s][i] = lba
  BY <1>1, <1>3 DEF Agree
<1> HIDE DEF s, i, old
<1>5. /\ DOMAIN c = Fields /\ c.where = d.where /\ c.gnum = d.gnum /\ c.active = d.active
      /\ c.queue = d.queue /\ c.free = d.free /\ Unmoved(c, d)
      /\ c.page = [d.page EXCEPT ![s] = [@ EXCEPT ![i] = Nil]] /\ c.total = d.total
  BY <1>2 DEF Fields, Unmoved
<1> HIDE DEF c
<1>6. \A t \in SegIds, j \in PageNos :
        c.page[t][j] = IF t = s /\ j = i THEN Nil ELSE d.page[t][j]
  BY <1>2, <1>3, <1>5
<1>7. \A t \in SegIds, j \in PageNos : c.page[t][j] # lba
  <2>1. \A t \in SegIds, j \in PageNos : d.page[t][j] = lba => d.where[lba] = <<t, j>>
    BY Sorts, <1>1 DEF Agree
  <2> QED BY <1>3, <1>6, <2>1, Sorts
<1>8. EngineOK(c)
  <2>1. c.page \in [SegIds -> [PageNos -> Lbas \cup {Nil}]]
    <3>1. [d.page[s] EXCEPT ![i] = Nil] \in [PageNos -> Lbas \cup {Nil}]
      BY <1>2, <1>3
    <3> QED BY <1>2, <1>3, <1>5, <3>1
  <2> QED BY <1>1, <1>5, <2>1 DEF EngineOK, Unmoved
<1>9. Placed(c, Nil, Nil, {})
  <2>1. GroupNum(c) = GroupNum(d) /\ Chain(c) = Chain(d) /\ c.naive = d.naive
    BY <1>5 DEF GroupNum, Chain, Unmoved
  <2>2. Apart(c, Nil, Nil)
    BY <1>1, <1>5 DEF Apart
  <2>3. Labelled(c, {})
    BY <1>1, <1>5, <2>1 DEF Labelled
  <2>4. Blank(c, Nil)
    <3>1. \A t \in c.free, j \in PageNos : c.page[t][j] = Nil
      BY <1>1, <1>5, <1>6 DEF Blank, EngineOK
    <3>2. \A h \in Groups : c.active[h].seg # Nil =>
            \A j \in PageNos : j > c.active[h].off => c.page[c.active[h].seg][j] = Nil
      <4> SUFFICES ASSUME NEW h \in Groups, c.active[h].seg # Nil, NEW j \in PageNos,
                          j > c.active[h].off
                   PROVE  c.page[c.active[h].seg][j] = Nil
        OBVIOUS
      <4>1. c.active[h] = d.active[h] /\ c.active[h].seg \in SegIds
        BY <1>1, <1>5 DEF EngineOK, Open
      <4>2. h # Nil /\ h \in Groups \ {Nil}
        BY Sorts
      <4>3. d.page[c.active[h].seg][j] = Nil
        BY <1>1, <4>1, <4>2 DEF Blank
      <4> QED BY <1>6, <4>1, <4>3
    <3> QED BY <3>1, <3>2 DEF Blank
  <2> QED BY <1>8, <2>2, <2>3, <2>4 DEF Placed
<1>10. HotIn(c, Nil, Nil, 0)
  BY <1>1, <1>5, <1>6 DEF HotIn, Unmoved
<1>11. HotIn(r, Nil, Nil, 0)
  BY Zenon, <1>5, <1>7, <1>8, <1>10, FilterOnOverwrite DEF EngineOK
<1>12. Same(r, c)
  BY <1>5, FilterIsApart
<1> HIDE DEF r
<1>13. Placed(r, Nil, Nil, {}) /\ Present(r) = Present(c)
  BY <1>9, <1>12, SameKeepsPlaced
<1>14. AgreeBut(r, Nil, 0, lba)
  <2>1. \A l \in Lbas \ {lba} : d.where[l] # Nil => d.where[l] # <<s, i>>
    BY <1>1, <1>4, <1>3 DEF Agree
  <2>2. \A l \in Lbas : d.where[l] # Nil => /\ d.where[l][1] \in SegIds /\ d.where[l][2] \in PageNos
                                            /\ d.where[l] = <<d.where[l][1], d.where[l][2]>>
    BY <1>1 DEF EngineOK
  <2>3. \A l \in Lbas \ {lba} : c.where[l] # Nil =>
          c.page[c.where[l][1]][c.where[l][2]] = l /\ c.where[l][1] # Nil
    <3> SUFFICES ASSUME NEW l \in Lbas \ {lba}, d.where[l] # Nil
                 PROVE  c.page[d.where[l][1]][d.where[l][2]] = l /\ d.where[l][1] # Nil
      BY <1>5
    <3>1. d.page[d.where[l][1]][d.where[l][2]] = l
      BY <1>1 DEF Agree
    <3> QED BY <1>6, <2>1, <2>2, <3>1, Sorts
  <2>4. \A t \in SegIds, j \in PageNos :
          c.page[t][j] \notin {Nil, lba} => c.where[c.page[t][j]] = <<t, j>>
    <3> SUFFICES ASSUME NEW t \in SegIds, NEW j \in PageNos, c.page[t][j] \notin {Nil, lba}
                 PROVE  c.where[c.page[t][j]] = <<t, j>>
      OBVIOUS
    <3>1. c.page[t][j] = d.page[t][j] /\ t # Nil
      BY <1>6, Sorts
    <3>2. d.where[d.page[t][j]] = <<t, j>>
      BY <1>1, <3>1, AgreeAt
    <3> QED BY <1>5, <3>1, <3>2
  <2> QED BY <1>7, <1>12, <2>3, <2>4 DEF AgreeBut, Same
<1>15. /\ Present(r) = Present(d) /\ r.vp = d.vp /\ r.naive = d.naive /\ r.mida = d.mida
       /\ r.stop = d.stop /\ r.refused = d.refused
       /\ r.total = d.total /\ r.queue = d.queue
  BY <1>5, <1>12, <1>13 DEF Same, Unmoved, Present
<1> QED BY Zenon, <1>11, <1>13, <1>14, <1>15 DEF r, c, s, i, old

(* After a write, unless there was no room for it, the page is there.      *)
LEMMA WriteIsSound ==
  ASSUME NEW d, Sound(d), ChainOn(d), ~Stopped(d), NEW lba \in Lbas, NEW young
  PROVE  LET r == Write(d, lba, young)
         IN \/ Stopped(r) \/ r.refused = TRUE
            \/ /\ Sound(r) /\ ChainOn(r)
               /\ Present(r) = Present(d) \cup {lba}
               /\ r.vp = IF lba \in Present(d) THEN d.vp ELSE d.vp + 1
               /\ Balanced(d) => Balanced(r)
<1> DEFINE old == d.where[lba]
           p == IF old = Nil THEN d
                ELSE HfOverwrite([d EXCEPT !.page[old[1]][old[2]] = Nil, !.inv[old[1]] = @ + 1],
                                 lba, d.gnum[old[1]], young)
           g == UserGroup(p, lba)
           m == MakeRoom(p, g)
           a == AppendPage(m, g, lba)
           r == Write(d, lba, young)
<1>1. /\ Placed(d, Nil, Nil, {}) /\ Agree(d, Nil, 0) /\ HotIn(d, Nil, Nil, 0) /\ EngineOK(d)
  BY DEF Sound, Placed
<1>2. /\ Placed(p, Nil, Nil, {}) /\ AgreeBut(p, Nil, 0, lba) /\ HotIn(p, Nil, Nil, 0)
      /\ Present(p) = Present(d) /\ p.vp = d.vp /\ p.naive = d.naive /\ p.mida = d.mida
      /\ p.stop = d.stop /\ p.refused = d.refused
      /\ p.total = d.total /\ p.queue = d.queue
  <2>1. CASE old = Nil
    <3>1. p = d
      BY <2>1
    <3>2. AgreeBut(d, Nil, 0, lba)
      <4>1. \A l \in Lbas : d.where[l] # Nil => d.where[l][1] # Nil
        BY <1>1, Sorts DEF EngineOK
      <4>2. \A s \in SegIds, i \in PageNos : d.page[s][i] # lba
        <5> SUFFICES ASSUME NEW s \in SegIds, NEW i \in PageNos, d.page[s][i] = lba
                     PROVE  FALSE
          OBVIOUS
        <5>1. s # Nil /\ lba # Nil /\ <<s, i>> # Nil
          BY Sorts
        <5>2. d.where[lba] = <<s, i>>
          BY Zenon, <1>1, <5>1 DEF Agree
        <5> QED BY <2>1, <5>1, <5>2
      <4>3. \A s \in SegIds, i \in PageNos :
              d.page[s][i] \notin {Nil, lba} => d.where[d.page[s][i]] = <<s, i>>
        BY <1>1, Sorts DEF Agree
      <4>4. \A l \in Lbas \ {lba} : d.where[l] # Nil => d.page[d.where[l][1]][d.where[l][2]] = l
        BY <1>1 DEF Agree
      <4> QED BY <4>1, <4>2, <4>3, <4>4 DEF AgreeBut
    <3> HIDE DEF p
    <3> QED BY <1>1, <3>1, <3>2
  <2>2. CASE old # Nil
    <3> DEFINE c == [d EXCEPT !.page[old[1]][old[2]] = Nil, !.inv[old[1]] = @ + 1]
               x == HfOverwrite(c, lba, d.gnum[old[1]], young)
    <3>1. /\ Placed(x, Nil, Nil, {}) /\ AgreeBut(x, Nil, 0, lba) /\ HotIn(x, Nil, Nil, 0)
          /\ Present(x) = Present(d) /\ x.vp = d.vp /\ x.naive = d.naive /\ x.mida = d.mida
          /\ x.stop = d.stop /\ x.refused = d.refused
          /\ x.total = d.total /\ x.queue = d.queue
      BY ZenonT(60), <2>2, Invalidated
    <3>2. p = x
      BY Zenon, <2>2
    <3> HIDE DEF x, p
    <3> QED BY Zenon, <3>1, <3>2
  <2> QED BY Zenon, <2>1, <2>2
<1>3. r = IF p.hf[lba] \notin 0 .. HotVal THEN Stop(p, "filter range")
          ELSE IF p.active[g].seg = Nil THEN Stop(p, "no active segment")
          ELSE IF p.active[g].off = PPS /\ p.free = {}
          THEN [Seal(p, g, QueueOf(p, g)) EXCEPT !.refused = TRUE]
          ELSE IF old = Nil THEN [a EXCEPT !.vp = @ + 1] ELSE a
  BY DEF Write
<1>4. g \in {0, 1} /\ g \in Groups /\ g # Nil /\ (g = 0 => p.hf[lba] >= HotVal)
  <2> HIDE DEF p
  <2> QED BY Sorts DEF UserGroup
<1> HIDE DEF p, g, r
<1>5. DOMAIN p = Fields /\ p.active \in [Groups -> Open] /\ EngineOK(p)
  BY <1>2 DEF Placed, EngineOK
<1>6. CASE p.hf[lba] \notin 0 .. HotVal \/ p.active[g].seg = Nil
  <2>1. r = Stop(p, "filter range") \/ r = Stop(p, "no active segment")
    BY Zenon, <1>3, <1>6
  <2> QED BY Zenon, <1>5, <2>1, StopStops DEF Reasons, r
<1>7. CASE ~(p.hf[lba] \notin 0 .. HotVal \/ p.active[g].seg = Nil)
           /\ p.active[g].off = PPS /\ p.free = {}
  <2> DEFINE x == Seal(p, g, QueueOf(p, g))
  <2>1. DOMAIN x = Fields
    BY Zenon, <1>5, SealFields
  <2>2. r = [x EXCEPT !.refused = TRUE]
    BY Zenon, <1>3, <1>7
  <2> HIDE DEF x
  <2>3. r.refused = TRUE
    BY <2>1, <2>2 DEF Fields
  <2> QED BY <2>3 DEF r
<1>8. CASE p.hf[lba] \in 0 .. HotVal /\ p.active[g].seg # Nil
           /\ ~(p.active[g].off = PPS /\ p.free = {})
  <2>1. r = IF old = Nil THEN [a EXCEPT !.vp = @ + 1] ELSE a
    BY Zenon, <1>3, <1>8
  <2>2. ~Stopped(MakeRoom(p, g))
    <3>1. CASE p.active[g].off < PPS
      BY <1>2, <3>1 DEF MakeRoom, Stopped
    <3>2. CASE ~(p.active[g].off < PPS)
      <4> DEFINE x == Seal(p, g, QueueOf(p, g))
                 s == Min(x.free)
                 y == [x EXCEPT !.free = @ \ {s}, !.gnum[s] = g, !.active[g] = [seg |-> s, off |-> 0]]
      <4>1. p.free # {}
        <5>1. p.active[g].off \in 0 .. PPS
          BY <1>4, <1>5 DEF Open
        <5> QED BY <1>8, <3>2, <5>1, Sorts
      <4>2. DOMAIN x = Fields /\ x.free = p.free /\ x.stop = p.stop
        <5> DEFINE q == QueueOf(p, g)
        <5> HIDE DEF q
        <5>1. LET z == Seal(p, g, q) IN DOMAIN z = Fields /\ z.free = p.free /\ z.stop = p.stop
          BY <1>5 DEF Seal, Fields
        <5> QED BY <5>1 DEF q
      <4> HIDE DEF x
      <4>3. MakeRoom(p, g) = y
        BY Zenon, <3>2, <4>1, <4>2 DEF MakeRoom, OpenActive, x
      <4>4. y.stop = x.stop
        <5> HIDE DEF s
        <5> QED BY <4>2 DEF Fields
      <4> HIDE DEF y
      <4> QED BY <1>2, <4>2, <4>3, <4>4 DEF Stopped
    <3> QED BY <3>1, <3>2
  <2>3. ChainOn(p) /\ p.active[g].seg # Nil
    BY <1>2, <1>8 DEF ChainOn
  <2>4. /\ Placed(m, Nil, Nil, {})
        /\ m.active[g].seg \in SegIds /\ m.active[g].seg # Nil /\ m.active[g].off \in 0 .. PPS - 1
        /\ m.page = p.page /\ m.where = p.where /\ Unmoved(m, p)
        /\ \A t \in SegIds, i \in PageNos : m.page[t][i] # Nil => m.gnum[t] = p.gnum[t]
    <3>1. Nil \notin SegIds /\ Nil \notin Groups
      BY Sorts
    <3>2. /\ g \in Groups /\ Placed(p, Nil, Nil, {}) /\ ChainOn(p) /\ g # Nil
          /\ (Nil \notin SegIds => Nil \notin Groups) /\ p.active[g].seg # Nil
          /\ ~Stopped(MakeRoom(p, g)) /\ m = MakeRoom(p, g)
      BY <1>2, <1>4, <2>2, <2>3, <3>1
    <3> HIDE DEF m
    <3>3. RoomMade(MakeRoom(p, g), p, Nil, Nil, {}, g)
      BY <3>2, MakeRoomKeepsPlaced
    <3> HIDE DEF m
    <3> QED BY <3>2, <3>3 DEF RoomMade, Ready
  <2>4a. Tallied(m, p, g)
    BY <1>2, <1>4, <2>2, <2>3, RoomKeepsCounts
  <2> HIDE DEF m
  <2>5. Ready(m, Nil, Nil, {}, g)
    BY <1>4, <2>4 DEF Ready
  <2>6. AgreeBut(m, Nil, 0, lba) /\ Present(m) = Present(p)
    BY SMTT(60), <1>2, <2>4 DEF AgreeBut, Present
  <2>7. Placed(a, Nil, Nil, {}) /\ Appended(a, m, g, lba) /\ Unmoved(a, m)
        /\ a.gnum = m.gnum /\ a.queue = m.queue
    BY <1>4, <2>5, AppendKeepsPlaced
  <2> HIDE DEF a
  <2>8. Agree(a, Nil, 0) /\ Present(a) = Present(m) \cup {lba}
    BY <1>4, <2>5, <2>6, <2>7, AppendAgrees
  <2>9. HotIn(a, Nil, Nil, 0)
    <3>1. m.gnum[m.active[g].seg] = g
      BY <1>4, <2>4 DEF Placed, Labelled
    <3>2. \A t \in SegIds, j \in PageNos :
            \/ a.page[t][j] = m.page[t][j]
            \/ a.page[t][j] = lba /\ a.gnum[t] = g
      BY <2>4, <2>7, <3>1 DEF Appended
    <3>3. g = 0 => p.hf[lba] = HotVal
      <4>1. p.hf[lba] >= HotVal /\ p.hf[lba] \in 0 .. HotVal /\ HotVal \in Nat => p.hf[lba] = HotVal
        OBVIOUS
      <4> QED BY <1>4, <1>8, <4>1, MidasAssumption
    <3>4. a.hf = p.hf /\ a.hotLbas = p.hotLbas
      BY <2>4, <2>7 DEF Unmoved
    <3>5. \A s \in SegIds \ {Nil}, i \in PageNos :
            a.page[s][i] # Nil /\ a.gnum[s] = 0 => a.hf[a.page[s][i]] = HotVal
      <4> SUFFICES ASSUME NEW s \in SegIds, NEW i \in PageNos, a.page[s][i] # Nil, a.gnum[s] = 0
                   PROVE  a.hf[a.page[s][i]] = HotVal
        OBVIOUS
      <4>1. CASE a.page[s][i] = lba /\ a.gnum[s] = g
        BY <3>3, <3>4, <4>1
      <4>2. CASE a.page[s][i] = m.page[s][i]
        BY <1>2, <2>4, <2>7, <3>4, <4>2, Sorts DEF HotIn
      <4> QED BY <3>2, <4>1, <4>2
    <3> QED BY <1>2, <3>4, <3>5, Sorts DEF HotIn
  <2>10. a.vp = d.vp /\ ChainOn(a) /\ DOMAIN a = Fields
    BY <1>2, <2>3, <2>4, <2>7 DEF Unmoved, ChainOn, Placed, EngineOK
  <2>11. Present(a) = Present(d) \cup {lba} /\ (lba \in Present(d) <=> old # Nil)
    BY <1>2, <2>6, <2>8 DEF Present
  <2>11a. Balanced(d) => Balanced(a)
    <3>1. Balanced(d) => Balanced(p)
      BY <1>2, SameBalance
    <3>2. Balanced(p) => Balanced(m)
      BY <1>4, <2>4a DEF Tallied, Balanced
    <3>3. a.total = m.total
      <4>1. DOMAIN m = Fields
        BY <2>4 DEF Placed, EngineOK
      <4> QED BY <4>1 DEF a, AppendPage, Fields
    <3>4. Balanced(m) => Balanced(a)
      BY <2>7, <3>3, SameBalance DEF Unmoved
    <3> QED BY <3>1, <3>2, <3>4
  <2>12. CASE old # Nil
    <3>1. r = a
      BY <2>1, <2>12
    <3> QED BY <2>7, <2>8, <2>9, <2>10, <2>11, <2>12, <2>11a, <3>1 DEF Sound, r
  <2>13. CASE old = Nil
    <3> DEFINE x == [a EXCEPT !.vp = @ + 1]
    <3>1. /\ r = x /\ x.vp = d.vp + 1
          /\ DOMAIN x = DOMAIN a /\ x.page = a.page /\ x.where = a.where /\ x.gnum = a.gnum
          /\ x.active = a.active /\ x.queue = a.queue /\ x.free = a.free /\ x.naive = a.naive
          /\ x.mida = a.mida /\ x.hf = a.hf /\ x.hotLbas = a.hotLbas /\ x.total = a.total
      BY <2>1, <2>10, <2>13 DEF Fields
    <3> HIDE DEF x
    <3>2. GroupNum(x) = GroupNum(a) /\ Chain(x) = Chain(a)
      BY <3>1 DEF GroupNum, Chain
    <3>3. Placed(x, Nil, Nil, {})
      <4>1. EngineOK(x) /\ Apart(x, Nil, Nil)
        BY <2>7, <3>1 DEF Placed, EngineOK, Apart
      <4>2. Blank(x, Nil)
        BY <2>7, <3>1 DEF Placed, Blank
      <4>3. Labelled(x, {})
        BY <2>7, <3>1, <3>2 DEF Placed, Labelled
      <4> QED BY <4>1, <4>2, <4>3 DEF Placed
    <3>4. Agree(x, Nil, 0) /\ Present(x) = Present(a)
      BY <2>8, <3>1 DEF Agree, Present
    <3>5. HotIn(x, Nil, Nil, 0) /\ ChainOn(x)
      BY <2>9, <2>10, <3>1 DEF HotIn, ChainOn
    <3>6. Balanced(d) => Balanced(x)
      BY <2>11a, <3>1, SameBalance
    <3> QED BY <2>11, <2>13, <3>1, <3>3, <3>4, <3>5, <3>6 DEF Sound, r
  <2> QED BY Zenon, <2>12, <2>13
<1> QED BY Zenon, <1>6, <1>7, <1>8

-----------------------------------------------------------------------------
(* Changes of the configuration that move no page.                         *)

Rearranged(r, d) ==
  /\ r.page = d.page /\ r.where = d.where /\ r.hf = d.hf /\ r.hotLbas = d.hotLbas
  /\ r.vp = d.vp /\ r.refused = d.refused /\ r.stop = d.stop
  /\ \A s \in SegIds : r.gnum[s] = 0 => d.gnum[s] = 0

LEMMA RearrangedIsSound ==
  ASSUME NEW d, NEW r, Agree(d, Nil, 0), HotIn(d, Nil, Nil, 0), Rearranged(r, d),
         Placed(r, Nil, Nil, {})
  PROVE  Sound(r) /\ Held(r, d) /\ r.stop = d.stop
<1>1. Agree(r, Nil, 0)
  BY DEF Rearranged, Agree
<1>2. HotIn(r, Nil, Nil, 0)
  BY Sorts DEF Rearranged, HotIn
<1>3. Held(r, d) /\ r.stop = d.stop
  BY DEF Rearranged, Held, Present
<1> QED BY <1>1, <1>2, <1>3 DEF Sound

(* With the chain off every group is counted by itself.                    *)
LEMMA BalancedAlone ==
  ASSUME NEW d, EngineOK(d), d.mida = FALSE
  PROVE  Balanced(d) <=>
           /\ d.total \in [Groups -> Int]
           /\ \A h \in Groups : d.total[h] = IF h <= d.naive THEN Cardinality(d.queue[h]) ELSE 0
<1> DEFINE n == d.naive
<1>1. /\ n \in Groups /\ n \in Nat /\ n >= 1 /\ First(d) = n /\ GroupNum(d) = n + 1
      /\ n .. GroupNum(d) - 1 = n .. n
  BY GroupsOf DEF First, GroupNum
<1>2. \A h \in Groups : h \in Nat /\ h # Nil /\ Cardinality(d.queue[h]) \in Nat
  BY QueueCount, Sorts
<1>3. Nil \notin n .. n
  BY <1>1, Sorts
<1>4. d.total \in [Groups -> Int] => SumOver(d.total, n .. n) = d.total[n]
  <2> HIDE DEF n
  <2> QED BY <1>1, SumOfSingle
<1>5. Balanced(d) <=> Counts(d, n, Nil, Nil)
  BY <1>1 DEF Balanced
<1> DEFINE total == d.total
           count == [h \in Groups |-> Cardinality(d.queue[h])]
<1>6. Balanced(d) <=> /\ total \in [Groups -> Int] /\ total[n] = count[n]
                      /\ \A h \in Groups : h < n => total[h] = count[h]
                      /\ \A h \in Groups : h >= n + 1 => total[h] = 0
  <2>1. Counts(d, n, Nil, Nil) <=>
          /\ total \in [Groups -> Int]
          /\ SumOver(total, n .. n) = count[n] + 0
          /\ \A h \in Groups : h < n => total[h] = count[h] + 0
          /\ \A h \in Groups : h >= n + 1 => total[h] = 0
    <3> HIDE DEF n
    <3>1. d.naive = n /\ n # 0
      BY <1>1 DEF n
    <3> QED BY <1>1, <1>2, <1>3, <3>1 DEF Counts
  <2>2. \A h \in Groups : count[h] + 0 = count[h]
    BY <1>2
  <2> HIDE DEF count, total, n
  <2> QED BY <1>1, <1>4, <1>5, <2>1, <2>2 DEF total
<1>7. \A h \in Groups : count[h] = Cardinality(d.queue[h])
  OBVIOUS
<1>8. \A h \in Groups : /\ h <= n <=> h < n \/ h = n
                        /\ ~(h <= n) <=> h >= n + 1
  BY <1>1, <1>2
<1> HIDE DEF count, total
<1>9. Balanced(d) <=>
        total \in [Groups -> Int] /\ \A h \in Groups : total[h] = IF h <= n THEN count[h] ELSE 0
  <2> HIDE DEF n
  <2> QED BY <1>1, <1>6, <1>8
<1> QED BY <1>7, <1>9 DEF total

LEMMA TotalIsSum ==
  ASSUME NEW d, NEW S
  PROVE  TotalOf(d, S) = SumOver(d.total, S)
BY DEF TotalOf, FoldSet, MapThenFoldSet, SumOver, Partial, Taken

(* What was counted for the chain is counted for its first group; o active *)
(* segments have come to its queue, and the hot segments have left it.     *)
LEMMA CountsOfOne ==
  ASSUME NEW d, NEW r, NEW o \in Nat, EngineOK(d), EngineOK(r), Balanced(d), d.mida,
         r.mida = FALSE, r.naive = d.naive, r.total \in [Groups -> Int],
         r.total[d.naive] = o + SumOver(d.total, d.naive .. GroupNum(d) - 1),
         \A h \in Groups : h > d.naive /\ h < GroupNum(d) => r.total[h] = 0,
         \A h \in Groups : h < d.naive \/ h >= GroupNum(d) => r.total[h] = d.total[h],
         d.naive = 1 => /\ Cardinality(r.queue[1]) = Cardinality(d.queue[1]) + o - d.total[0]
                        /\ Cardinality(r.queue[0]) = d.total[0],
         d.naive # 1 => /\ Cardinality(r.queue[d.naive]) = Cardinality(d.queue[d.naive]) + o
                        /\ \A h \in Groups : h < d.naive => r.queue[h] = d.queue[h]
  PROVE  Balanced(r)
<1> DEFINE n == d.naive
           top == GroupNum(d) - 1
<1>1. /\ n \in Nat /\ n >= 1 /\ n \in Groups /\ top \in Nat /\ n <= top
      /\ GroupNum(d) = top + 1 /\ GroupNum(r) = n + 1 /\ First(r) = n
      /\ First(d) = IF n = 1 THEN 0 ELSE n
      /\ \A h \in 0 .. top : h \in Groups
  <2>1. n \in Nat /\ n >= 1 /\ n \in Groups /\ GroupNum(d) \in Nat /\ GroupNum(d) > n
    BY GroupsOf
  <2>2. \A h \in Nat : h < GroupNum(d) => h \in Groups
    BY GroupsOf
  <2>3. GroupNum(r) = n + 1 /\ First(r) = n /\ First(d) = IF n = 1 THEN 0 ELSE n
    BY DEF GroupNum, First
  <2> HIDE DEF n
  <2> QED BY <2>1, <2>2, <2>3
<1>2. /\ d.total \in [Groups -> Int]
      /\ \A h \in Groups : h < First(d) => d.total[h] = Cardinality(d.queue[h])
      /\ \A h \in Groups : h >= GroupNum(d) => d.total[h] = 0
  <2>1. \A h \in Groups : h # Nil
    BY Sorts
  <2>2. \A h \in Groups : Cardinality(d.queue[h]) \in Nat
    BY QueueCount
  <2> QED BY SMTT(60), ZenonT(60), <2>1, <2>2 DEF Balanced, Counts
<1>3. SumOver(d.total, First(d) .. top) = Cardinality(d.queue[n])
  <2>1. Nil \notin First(d) .. GroupNum(d) - 1
    BY FirstOf, Sorts
  <2> QED BY SMTT(60), ZenonT(60), <1>1, <2>1, QueueCount DEF Balanced, Counts
<1>4. \A h \in Groups : h \in Nat /\ Cardinality(d.queue[h]) \in Nat
                          /\ Cardinality(r.queue[h]) \in Nat
  BY QueueCount, Sorts
<1>5. SumOver(d.total, n .. top) \in Int
  <2>1. Ints(d.total, n .. top) /\ IsFiniteSet(n .. top)
    <3> HIDE DEF top, n
    <3>1. n \in Int /\ top \in Int /\ \A h \in n .. top : h \in 0 .. top
      BY <1>1
    <3>2. IsFiniteSet(n .. top)
      BY ONLY <3>1, FS_Interval
    <3> QED BY <1>1, <1>2, <3>1, <3>2 DEF Ints
  <2> HIDE DEF n, top
  <2> QED BY <2>1, SumType
<1>6. SumOver(r.total, n .. (n + 1) - 1) = r.total[n]
  <2>1. (n + 1) - 1 = n /\ r.total[n] \in Int
    BY <1>1
  <2> HIDE DEF n
  <2> QED BY <1>1, <2>1, SumOfSingle
<1>7. r.total[n] = Cardinality(r.queue[n])
  <2>1. CASE n # 1
    BY <1>1, <1>3, <1>4, <2>1
  <2>2. CASE n = 1
    <3> DEFINE a == First(d)
    <3>1. a = 0 /\ a + 1 = n /\ a \in Nat /\ a <= top
      BY <1>1, <2>2
    <3>2. Ints(d.total, a .. top)
      BY <1>1, <1>2, <3>1 DEF Ints
    <3>6. top \in Nat
      BY <1>1
    <3> HIDE DEF a, top
    <3>3. SumOver(d.total, a .. top) = SumOver(d.total, a + 1 .. top) + d.total[a]
      BY ONLY <3>1, <3>2, <3>6, SumOfInterval
    <3>4. SumOver(d.total, a .. top) = Cardinality(d.queue[n])
      BY <1>3 DEF a
    <3>5. d.total[0] \in Int
      BY <1>2, Sorts
    <3> QED BY <1>1, <1>4, <1>5, <2>2, <3>1, <3>3, <3>4, <3>5
  <2> QED BY <2>1, <2>2
<1>8. \A h \in Groups : h < n => r.total[h] = Cardinality(r.queue[h])
  <2>1. CASE n = 1
    <3>1. \A h \in Groups : h < n => h = 0
      BY <1>4, <2>1
    <3> QED BY <1>1, <2>1, <3>1
  <2>2. CASE n # 1
    BY <1>1, <1>2, <2>2
  <2> QED BY <2>1, <2>2
<1>9. \A h \in Groups : h >= n + 1 => r.total[h] = 0
  <2> SUFFICES ASSUME NEW h \in Groups, h >= n + 1
               PROVE  r.total[h] = 0
    OBVIOUS
  <2>1. h > n /\ h \in Nat
    BY <1>1, <1>4
  <2>2. CASE h < GroupNum(d)
    BY <2>1, <2>2
  <2>3. CASE ~(h < GroupNum(d))
    BY SMTT(60), ZenonT(60), <1>1, <1>2, <2>1, <2>3
  <2> QED BY <2>2, <2>3
<1>10. \A h \in Groups : h # Nil
  BY Sorts
<1>11. Nil \notin n .. (n + 1) - 1
  BY <1>1, <1>10
<1> HIDE DEF n, top
<1>12. Counts(r, n, Nil, Nil)
  <2>1. r.naive = n /\ n # 0
    BY <1>1 DEF n
  <2> QED BY SMTT(60), ZenonT(60), <1>1, <1>4, <1>6, <1>7, <1>8, <1>9, <1>10, <1>11, <2>1 DEF Counts
<1> QED BY <1>1, <1>12 DEF Balanced

(* The chain is turned off: its segments join the last group, the hot ones *)
(* go to a queue of their own.                                             *)
LEMMA MidaOffIsSound ==
  ASSUME NEW d, Sound(d), ~Stopped(d), ChainOn(d), d.mida
  PROVE  LET r == MidaOff(d)
         IN Stopped(r) \/ (Sound(r) /\ Kept(r, d) /\ r.mida = FALSE /\ ~Stopped(r))
<1> DEFINE n == d.naive
           chain == {g \in n + 1 .. n + NaiveN - 1 : d.active[g].seg # Nil}
           opened == {d.active[g].seg : g \in chain}
           inQueue == d.queue[n] \cup opened
           hot == IF n = 1 THEN {s \in d.queue[1] : d.gnum[s] = 0} ELSE {}
           act == [g \in Groups |-> IF g \in chain THEN NotActive ELSE d.active[g]]
           gn == [s \in SegIds |-> IF s \in inQueue /\ d.gnum[s] > n THEN n ELSE d.gnum[s]]
           iv == [s \in SegIds |-> IF s \in opened THEN PPS \div 2 ELSE d.inv[s]]
           tot == [g \in Groups |->
                    IF g = n THEN Cardinality(opened) + TotalOf(d, n .. n + NaiveN - 1)
                    ELSE IF g \in n + 1 .. n + NaiveN - 1 THEN 0 ELSE d.total[g]]
           qu == [g \in Groups |->
                   IF g = n THEN inQueue \ hot
                   ELSE IF g = 0 THEN d.queue[0] \cup hot ELSE d.queue[g]]
           r == [d EXCEPT !.mida = FALSE, !.active = act, !.gnum = gn, !.inv = iv,
                          !.total = tot, !.queue = qu]
<1>1. /\ EngineOK(d) /\ Apart(d, Nil, Nil) /\ Blank(d, Nil) /\ Labelled(d, {})
      /\ DOMAIN d = Fields /\ d.queue \in [Groups -> SUBSET SegIds]
      /\ d.gnum \in [SegIds -> Groups \cup {Nil}] /\ d.active \in [Groups -> Open]
  <2>1. EngineOK(d) /\ Apart(d, Nil, Nil) /\ Blank(d, Nil) /\ Labelled(d, {})
    BY DEF Sound, Placed
  <2> QED BY <2>1 DEF EngineOK
<1>2. MidaOff(d) = IF n = 1 /\ d.total[0] # Cardinality(hot) THEN Stop(r, "hot count") ELSE r
  BY DEF MidaOff
<1>3. n \in Groups /\ n \in Nat /\ n >= 1 /\ n <= MaxNaive /\ GroupNum(d) = n + NaiveN
  BY <1>1, GroupsOf DEF GroupNum
<1> HIDE DEF act, gn, iv, tot, qu, n
<1>4. /\ DOMAIN r = Fields /\ r.page = d.page /\ r.where = d.where /\ r.free = d.free
      /\ r.naive = n /\ r.mida = FALSE /\ r.active = act /\ r.gnum = gn /\ r.queue = qu
      /\ r.total = tot
      /\ r.hf = d.hf /\ r.hotLbas = d.hotLbas /\ r.vp = d.vp /\ r.refused = d.refused
      /\ r.stop = d.stop
  BY <1>1 DEF Fields, n
<1> HIDE DEF r
<1>5. CASE n = 1 /\ d.total[0] # Cardinality(hot)
  <2>1. MidaOff(d) = Stop(r, "hot count")
    BY Zenon, <1>2, <1>5
  <2> QED BY Zenon, <1>4, <2>1, StopStops DEF Reasons
<1>6. CASE ~(n = 1 /\ d.total[0] # Cardinality(hot))
  <2>1. \A g \in chain : g \in Groups /\ g \in Nat /\ g > n /\ d.active[g].seg \in SegIds
    <3>1. \A g \in n + 1 .. n + NaiveN - 1 : g \in Nat /\ g > n /\ g < GroupNum(d)
      BY <1>3, Sorts
    <3>2. \A g \in chain : g \in Groups
      BY <1>1, <3>1, GroupsOf
    <3> QED BY <1>1, <3>1, <3>2 DEF Open
  <2>2. \A g \in Groups : d.active[g].seg # Nil /\ g \notin chain => g \in Nat /\ g <= n
    <3>1. \A g \in Groups : d.active[g].seg # Nil => g < n + NaiveN
      BY <1>1, <1>3 DEF Labelled
    <3>2. \A g \in Nat : g < n + NaiveN /\ ~(g <= n) => g \in n + 1 .. n + NaiveN - 1
      BY <1>3, Sorts
    <3> QED BY Zenon, <3>1, <3>2, Sorts
  <2>3. opened \subseteq SegIds /\ inQueue \subseteq SegIds /\ hot \subseteq inQueue
    BY <1>1, <1>3, <2>1
  <2> HIDE DEF chain
  <2>4. /\ \A s \in opened : \E g \in Groups : g \in chain /\ s = d.active[g].seg /\ s # Nil
        /\ \A g \in chain : d.active[g].seg \in opened
    BY <2>1, Sorts
  <2> HIDE DEF opened
  <2>5. /\ \A q \in Groups : r.queue[q] = IF q = n THEN inQueue \ hot
                                          ELSE IF q = 0 THEN d.queue[0] \cup hot ELSE d.queue[q]
        /\ \A s \in SegIds : r.gnum[s] = IF s \in inQueue /\ d.gnum[s] > n THEN n ELSE d.gnum[s]
        /\ \A g \in Groups : r.active[g] = IF g \in chain THEN NotActive ELSE d.active[g]
        /\ \A g \in Groups : r.active[g].seg = IF g \in chain THEN Nil ELSE d.active[g].seg
    <3>1. \A q \in Groups : r.queue[q] = IF q = n THEN inQueue \ hot
                                         ELSE IF q = 0 THEN d.queue[0] \cup hot ELSE d.queue[q]
      BY <1>4 DEF qu
    <3>2. \A s \in SegIds : r.gnum[s] = IF s \in inQueue /\ d.gnum[s] > n THEN n ELSE d.gnum[s]
      BY <1>4 DEF gn
    <3>3. \A g \in Groups : r.active[g] = IF g \in chain THEN NotActive ELSE d.active[g]
      BY <1>4 DEF act
    <3>4. \A g \in Groups : r.active[g].seg = IF g \in chain THEN Nil ELSE d.active[g].seg
      BY <3>3 DEF NotActive
    <3> QED BY <3>1, <3>2, <3>3, <3>4
  <2>6. \A q \in Groups : d.queue[q] \cap opened = {} /\ (q # n => d.queue[q] \cap inQueue = {})
    <3>1. \A q \in Groups : d.queue[q] \cap opened = {}
      BY <1>1, <2>4 DEF Apart
    <3>2. \A q \in Groups : q # n => d.queue[q] \cap d.queue[n] = {}
      BY <1>1, <1>3 DEF Apart
    <3> QED BY <3>1, <3>2
  <2>7. opened \cap d.free = {} /\ inQueue \cap d.free = {}
    BY <1>1, <1>3, <2>4 DEF Apart
  <2>8. \A g \in Groups \ chain : d.active[g].seg \notin inQueue
    <3>1. \A g \in Groups \ chain : d.active[g].seg \notin opened
      BY <1>1, <2>4 DEF Apart
    <3> QED BY <1>1, <1>3, <3>1 DEF Apart
  <2>9. Nil \notin inQueue
    BY <2>3, Sorts
  <2>10. \A s \in hot : s \in d.queue[1] /\ n = 1 /\ d.gnum[s] = 0
    OBVIOUS
  <2>11. \A s \in d.queue[n] : s \in opened \/ s \in d.queue[n]
    OBVIOUS
  <2>12. \A s \in d.queue[n] \ hot : d.gnum[s] \in Nat /\ (d.gnum[s] > n \/ d.gnum[s] = n)
    <3> SUFFICES ASSUME NEW s \in d.queue[n] \ hot
                 PROVE  d.gnum[s] \in Nat /\ (d.gnum[s] > n \/ d.gnum[s] = n)
      OBVIOUS
    <3>1. d.gnum[s] \in Chain(d)
      BY <1>1, <1>3 DEF Labelled, n
    <3>2. CASE n = 1
      <4>1. d.gnum[s] # 0
        BY <3>2
      <4> DEFINE k == d.gnum[s]
      <4>2. k \in 0 .. GroupNum(d) - 1 /\ k # 0
        BY <3>1, <3>2, <4>1 DEF Chain, n
      <4> HIDE DEF k
      <4>3. k \in Nat /\ (k > n \/ k = n)
        BY <1>3, <3>2, <4>2, Sorts
      <4> QED BY <4>3 DEF k
    <3>3. CASE n # 1
      <4> DEFINE k == d.gnum[s]
      <4>2. k \in n .. GroupNum(d) - 1
        BY <3>1, <3>3 DEF Chain, n
      <4> HIDE DEF k
      <4>3. k \in Nat /\ (k > n \/ k = n)
        BY <1>3, <4>2, Sorts
      <4> QED BY <4>3 DEF k
    <3> QED BY <3>2, <3>3
  <2>13. \A s \in opened : d.gnum[s] \in Nat /\ d.gnum[s] > n
    <3> SUFFICES ASSUME NEW s \in opened
                 PROVE  d.gnum[s] \in Nat /\ d.gnum[s] > n
      OBVIOUS
    <3>1. PICK g \in Groups : g \in chain /\ s = d.active[g].seg /\ s # Nil
      BY <2>4
    <3>2. d.gnum[s] = g
      BY <1>1, <3>1 DEF Labelled
    <3> QED BY <2>1, <3>1, <3>2
  <2> HIDE DEF inQueue, hot
  <2>14. inQueue = d.queue[n] \cup opened
    BY DEF inQueue
  <2>15. EngineOK(r)
    <3>1. r.gnum \in [SegIds -> Groups \cup {Nil}]
      BY <1>1, <1>3, <1>4 DEF gn
    <3>2. r.active \in [Groups -> Open]
      <4>1. NotActive \in Open
        BY Sorts DEF NotActive, Open
      <4> QED BY <1>1, <1>4, <4>1 DEF act
    <3>3. r.queue \in [Groups -> SUBSET SegIds]
      <4>1. 0 \in Groups
        BY Sorts
      <4> QED BY <1>1, <1>3, <1>4, <2>3, <4>1 DEF qu
    <3> QED BY Zenon, <1>1, <1>4, <3>1, <3>2, <3>3 DEF EngineOK, n
  <2>16. Apart(r, Nil, Nil)
    <3>1. \A p, q \in Groups : p # q => r.queue[p] \cap r.queue[q] = {}
      <4>1. \A p, q \in Groups : p # q => d.queue[p] \cap d.queue[q] = {}
        BY <1>1 DEF Apart
      <4>2. \A q \in Groups : q \notin {n, 0} => r.queue[q] = d.queue[q]
        BY <2>5
      <4>3. /\ \A q \in Groups : q # n => d.queue[q] \cap inQueue = {} /\ d.queue[q] \cap hot = {}
        BY <2>3, <2>6
      <4>4. n # 0
        BY <1>3
      <4> QED BY <1>3, <2>5, <4>1, <4>2, <4>3, <4>4
    <3>2. \A q \in Groups : r.queue[q] \cap r.free = {}
      <4>1. \A q \in Groups : d.queue[q] \cap d.free = {}
        BY <1>1 DEF Apart
      <4> QED BY <1>4, <2>3, <2>5, <2>7, <4>1
    <3>3. \A g \in Groups : r.active[g].seg \notin r.free
      <4>1. Nil \notin d.free
        BY <1>1, Sorts DEF EngineOK
      <4> QED BY <1>1, <1>4, <2>5, <4>1 DEF Apart
    <3>4. \A g, q \in Groups : r.active[g].seg \notin r.queue[q]
      <4>1. \A g, q \in Groups : d.active[g].seg \notin d.queue[q]
        BY <1>1 DEF Apart
      <4>2. \A q \in Groups : Nil \notin d.queue[q]
        BY Zenon, <1>1, Sorts
      <4> QED BY <2>3, <2>5, <2>8, <2>9, <4>1, <4>2
    <3>5. \A g, h \in Groups : r.active[g].seg = r.active[h].seg /\ r.active[g].seg # Nil => g = h
      BY <1>1, <2>5 DEF Apart
    <3>6. \A s \in SegIds : \/ s \in r.free
                            \/ \E q \in Groups : s \in r.queue[q]
                            \/ \E g \in Groups : r.active[g].seg = s
      <4> TAKE s \in SegIds
      <4>1. \/ s \in d.free
            \/ \E q \in Groups : s \in d.queue[q]
            \/ \E g \in Groups : d.active[g].seg = s
        BY Zenon, <1>1, Sorts DEF Apart
      <4>2. CASE s \in d.free
        BY <1>4, <4>2
      <4>3. CASE s \in inQueue
        <5>1. CASE s \in hot
          BY <1>3, <2>5, <2>10, <5>1, Sorts
        <5>2. CASE s \notin hot
          BY <1>3, <2>5, <4>3, <5>2
        <5> QED BY <5>1, <5>2
      <4>4. ASSUME NEW q \in Groups, s \in d.queue[q], s \notin inQueue
            PROVE  s \in r.queue[q]
        BY <2>5, <2>14, <4>4
      <4>5. ASSUME NEW g \in Groups, d.active[g].seg = s, s \notin inQueue
            PROVE  r.active[g].seg = s
        <5>1. g \notin chain
          BY <2>4, <2>14, <4>5
        <5> QED BY <2>5, <4>5, <5>1
      <4> QED BY <4>1, <4>2, <4>3, <4>4, <4>5
    <3> QED BY <3>1, <3>2, <3>3, <3>4, <3>5, <3>6, Sorts DEF Apart
  <2>17. Blank(r, Nil)
    BY <1>1, <1>4, <2>5 DEF Blank
  <2>18. Labelled(r, {})
    <3>1. GroupNum(r) = n + 1 /\ n \in Chain(r) /\ n + 1 \in Nat
      <4>1. Chain(r) = n .. (n + 1) - 1
        BY <1>4 DEF GroupNum, Chain
      <4> QED BY <1>3, <1>4, <4>1 DEF GroupNum
    <3>2. \A g \in Groups : r.active[g].seg # Nil =>
            r.gnum[r.active[g].seg] = g /\ g < GroupNum(r)
      <4> SUFFICES ASSUME NEW g \in Groups, r.active[g].seg # Nil
                   PROVE  r.gnum[r.active[g].seg] = g /\ g < GroupNum(r)
        OBVIOUS
      <4>1. g \notin chain /\ r.active[g].seg = d.active[g].seg /\ d.active[g].seg # Nil
        BY <2>5
      <4>2. d.active[g].seg \in SegIds /\ d.active[g].seg \notin inQueue
        BY <1>1, <2>8, <4>1 DEF Open
      <4>3. d.gnum[d.active[g].seg] = g
        BY <1>1, <4>1 DEF Labelled
      <4>4. g <= n /\ g \in Nat
        BY <2>2, <4>1
      <4> QED BY <1>3, <2>5, <3>1, <4>1, <4>2, <4>3, <4>4
    <3>3. \A q \in Groups : \A s \in r.queue[q] :
            IF q < n THEN r.gnum[s] = q ELSE q = n /\ r.gnum[s] \in Chain(r)
      <4> TAKE q \in Groups
      <4> TAKE s \in r.queue[q]
      <4>1. q \in Nat /\ ~(n < n)
        BY <1>3, Sorts
      <4>2. CASE q = n
        <5>1. s \in inQueue /\ s \notin hot /\ s \in SegIds
          BY <2>3, <2>5, <4>2
        <5>2. d.gnum[s] \in Nat /\ (d.gnum[s] > n \/ d.gnum[s] = n)
          BY <2>12, <2>13, <2>14, <5>1
        <5>3. r.gnum[s] = n
          BY <2>5, <5>1, <5>2
        <5> QED BY <3>1, <4>1, <4>2, <5>3
      <4>3. CASE q # n /\ s \in d.queue[q]
        <5>1. s \notin inQueue /\ s \in SegIds
          BY <1>1, <2>6, <4>3
        <5>2. r.gnum[s] = d.gnum[s]
          BY <2>5, <5>1
        <5>3. q < n /\ d.gnum[s] = q
          BY <1>1, <1>3, <4>1, <4>3 DEF Labelled, n
        <5> QED BY <5>2, <5>3
      <4>4. CASE q # n /\ s \notin d.queue[q]
        <5>1. q = 0 /\ s \in hot
          BY <2>5, <4>4
        <5>2. d.gnum[s] = 0 /\ s \in SegIds /\ 0 < n /\ ~(0 > n)
          BY <1>3, <2>3, <2>10, <5>1
        <5>3. r.gnum[s] = 0
          BY <2>5, <5>2
        <5> QED BY <5>1, <5>2, <5>3
      <4> QED BY <4>2, <4>3, <4>4
    <3>4. r.active[n].seg # Nil
      <4>1. n \notin chain
        BY <1>3, <2>1
      <4> QED BY <1>1, <1>3, <2>5, <4>1 DEF Labelled, n
    <3> QED BY <1>4, <3>2, <3>3, <3>4 DEF Labelled
  <2>19. Rearranged(r, d)
    BY <1>3, <1>4, <2>5 DEF Rearranged
  <2>20. Placed(r, Nil, Nil, {})
    BY <2>15, <2>16, <2>17, <2>18 DEF Placed
  <2>21. MidaOff(d) = r
    BY Zenon, <1>2, <1>6
  <2>22. Balanced(d) => Balanced(r)
    <3> SUFFICES ASSUME Balanced(d) PROVE Balanced(r)
      OBVIOUS
    <3> DEFINE o == Cardinality(opened)
    <3>1. IsFiniteSet(opened) /\ IsFiniteSet(inQueue) /\ IsFiniteSet(hot) /\ IsFiniteSet(d.queue[n])
      <4>1. IsFiniteSet(SegIds)
        BY Sorts, FS_Interval DEF SegIds
      <4>2. opened \subseteq SegIds /\ hot \subseteq SegIds /\ d.queue[n] \subseteq SegIds
        BY <1>1, <1>3, <2>3
      <4> QED BY <2>3, <4>1, <4>2, FS_Subset
    <3>2. o \in Nat /\ Cardinality(hot) \in Nat /\ Cardinality(d.queue[n]) \in Nat
      BY <3>1, FS_CardinalityType
    <3>3. Cardinality(inQueue) = Cardinality(d.queue[n]) + o
      <4> DEFINE Q == d.queue[n]
      <4>1. Q \cap opened = {} /\ inQueue = Q \cup opened /\ IsFiniteSet(Q)
        BY <1>3, <2>6, <2>14, <3>1
      <4> HIDE DEF Q
      <4>2. Cardinality(inQueue) = Cardinality(Q) + Cardinality(opened)
        BY <3>1, <4>1, DisjointCount
      <4> QED BY <4>2 DEF Q
    <3>4. Cardinality(inQueue \ hot) = Cardinality(inQueue) - Cardinality(hot)
      BY <2>3, <3>1, PartCount
    <3>5. /\ d.total \in [Groups -> Int]
          /\ First(d) = 0 => d.queue[0] = {}
      BY DEF Balanced, Counts
    <3>6. \A g \in Groups : r.total[g] =
            IF g = n THEN o + SumOver(d.total, n .. n + NaiveN - 1)
            ELSE IF g \in n + 1 .. n + NaiveN - 1 THEN 0 ELSE d.total[g]
      BY <1>4, TotalIsSum DEF tot
    <3>7. SumOver(d.total, n .. n + NaiveN - 1) \in Int
      <4> DEFINE top == n + NaiveN - 1
      <4>1. n \in Nat /\ top \in Nat /\ n <= top
        BY <1>3, Sorts
      <4>2. \A h \in n .. top : h \in Groups
        <5>1. \A h \in n .. top : h \in Nat /\ h < GroupNum(d)
          BY <1>3, Sorts
        <5> HIDE DEF top
        <5> QED BY <1>1, <5>1, GroupsOf
      <4> HIDE DEF top
      <4>3. Ints(d.total, n .. top)
        BY <3>5, <4>2 DEF Ints
      <4> QED BY <4>1, <4>3, SumOfInterval DEF top
    <3>8. r.total \in [Groups -> Int]
      <4>1. \A g \in Groups : r.total[g] \in Int
        BY <3>2, <3>5, <3>6, <3>7
      <4>2. r.total = [g \in Groups |-> r.total[g]]
        BY <1>4 DEF tot
      <4> QED BY <4>1, <4>2
    <3>9. n = 1 => /\ Cardinality(r.queue[1]) = Cardinality(d.queue[1]) + o - d.total[0]
                   /\ Cardinality(r.queue[0]) = d.total[0]
      <4> SUFFICES ASSUME n = 1
                   PROVE  /\ Cardinality(r.queue[1]) = Cardinality(d.queue[1]) + o - d.total[0]
                          /\ Cardinality(r.queue[0]) = d.total[0]
        OBVIOUS
      <4>1. First(d) = 0 /\ d.total[0] = Cardinality(hot)
        BY <1>6 DEF First, n
      <4>2. r.queue[1] = inQueue \ hot /\ r.queue[0] = hot
        <5>1. d.queue[0] = {}
          BY <3>5, <4>1
        <5>2. 0 \in Groups /\ 1 \in Groups /\ 0 # n
          BY Sorts
        <5>3. r.queue[1] = inQueue \ hot
          BY <2>5, <5>2
        <5>4. r.queue[0] = d.queue[0] \cup hot
          BY <2>5, <5>2
        <5> QED BY <5>1, <5>3, <5>4
      <4> QED BY <3>2, <3>3, <3>4, <4>1, <4>2
    <3>10. n # 1 => /\ Cardinality(r.queue[n]) = Cardinality(d.queue[n]) + o
                    /\ \A h \in Groups : h < n => r.queue[h] = d.queue[h]
      <4> SUFFICES ASSUME n # 1
                   PROVE  /\ Cardinality(r.queue[n]) = Cardinality(d.queue[n]) + o
                          /\ \A h \in Groups : h < n => r.queue[h] = d.queue[h]
        OBVIOUS
      <4>1. hot = {}
        BY <2>10
      <4>2. \A q \in Groups : r.queue[q] = IF q = n THEN inQueue ELSE d.queue[q]
        BY <2>5, <4>1
      <4>3. r.queue[n] = inQueue
        BY <1>3, <4>2
      <4>4. \A h \in Groups : h < n => h # n
        BY <1>3
      <4> HIDE DEF o
      <4> QED BY <3>3, <4>2, <4>3, <4>4
    <3>11. /\ r.total[n] = o + SumOver(d.total, n .. GroupNum(d) - 1)
           /\ \A h \in Groups : h > n /\ h < GroupNum(d) => r.total[h] = 0
           /\ \A h \in Groups : h < n \/ h >= GroupNum(d) => r.total[h] = d.total[h]
      <4>1. \A h \in Groups : h \in Nat
        BY Sorts
      <4>2. GroupNum(d) - 1 = n + NaiveN - 1
        BY <1>3, Sorts
      <4>3. \A h \in Groups :
              /\ h > n /\ h < GroupNum(d) => h # n /\ h \in n + 1 .. n + NaiveN - 1
              /\ h < n \/ h >= GroupNum(d) => h # n /\ h \notin n + 1 .. n + NaiveN - 1
        BY <1>3, <4>1, Sorts
      <4> HIDE DEF o
      <4> QED BY <1>3, <3>6, <4>2, <4>3
    <3> HIDE DEF o
    <3>12. /\ r.mida = FALSE /\ r.naive = d.naive /\ n = d.naive
      BY <1>4 DEF n
    <3> QED BY ONLY <1>1, <2>15, <3>2, <3>8, <3>9, <3>10, <3>11, <3>12, d.mida, Balanced(d),
            CountsOfOne
  <2> QED BY <1>4, <2>19, <2>20, <2>21, <2>22, RearrangedIsSound DEF Stopped, Sound, Kept
<1> QED BY Zenon, <1>5, <1>6

LEMMA OpenIsSound ==
  ASSUME NEW d, Sound(d), NEW g \in Groups, d.active[g].seg = Nil, g < GroupNum(d)
  PROVE  LET r == OpenActive(d, g)
         IN Stopped(r) \/ (Sound(r) /\ Kept(r, d) /\ Unmoved(r, d))
<1> DEFINE r == OpenActive(d, g)
<1> SUFFICES ASSUME ~Stopped(r) PROVE Sound(r) /\ Kept(r, d) /\ Unmoved(r, d)
  OBVIOUS
<1>1. Placed(d, Nil, Nil, {}) /\ Agree(d, Nil, 0) /\ HotIn(d, Nil, Nil, 0)
  BY DEF Sound
<1>2. /\ Placed(r, Nil, Nil, {})
      /\ r.page = d.page /\ r.where = d.where /\ Unmoved(r, d)
      /\ \A t \in SegIds, i \in PageNos : r.page[t][i] # Nil => r.gnum[t] = d.gnum[t]
  BY <1>1, OpenKeepsPlaced
<1>a. r.total = d.total /\ r.queue = d.queue
  <2>1. DOMAIN d = Fields /\ d.free \in SUBSET SegIds
    BY <1>1 DEF Placed, EngineOK
  <2> QED BY <2>1, OpenTotals
<1> HIDE DEF r
<1>3. Agree(r, Nil, 0) /\ Kept(r, d)
  <2>1. Agree(r, Nil, 0) /\ Present(r) = Present(d)
    BY <1>1, <1>2, SameTable
  <2>2. Balanced(d) => Balanced(r)
    BY <1>2, <1>a, SameBalance DEF Unmoved
  <2> QED BY <1>2, <2>1, <2>2 DEF Held, Kept, Unmoved
<1>4. HotIn(r, Nil, Nil, 0)
  BY <1>1, <1>2, Sorts DEF HotIn, Unmoved
<1> QED BY <1>2, <1>3, <1>4 DEF Sound

(* The last group takes a higher number.                                   *)
LEMMA GroupSplitIsSound ==
  ASSUME NEW d, Sound(d), ~Stopped(d), d.mida = FALSE,
         NEW last \in 1 .. MaxNaive, last > d.naive
  PROVE  LET r == GroupSplit(d, last)
         IN Stopped(r) \/ (Sound(r) /\ Kept(r, d) /\ r.naive = last /\ r.mida = FALSE)
<1> DEFINE old == d.naive
           a == d.active[old].seg
           qu == [g \in Groups |-> IF g = last THEN d.queue[old]
                                   ELSE IF g \in old .. last - 1 THEN {} ELSE d.queue[g]]
           tot == [g \in Groups |-> IF g = last THEN Cardinality(d.queue[old])
                                    ELSE IF g \in old .. last - 1 THEN 0 ELSE d.total[g]]
           act == [g \in Groups |-> IF g = last THEN d.active[old]
                                    ELSE IF g = old THEN NotActive ELSE d.active[g]]
           gn == [s \in SegIds |-> IF s \in d.queue[old] \cup {a} THEN last ELSE d.gnum[s]]
           m == [d EXCEPT !.naive = last, !.queue = qu, !.total = tot, !.active = act, !.gnum = gn]
           wrong == \/ d.mida
                    \/ d.active[last].seg # Nil
                    \/ \E s \in d.queue[old] : d.gnum[s] # old
                    \/ \E g \in old + 1 .. last - 1 : d.active[g].seg # Nil
<1>1. /\ EngineOK(d) /\ Apart(d, Nil, Nil) /\ Blank(d, Nil) /\ Labelled(d, {})
      /\ DOMAIN d = Fields /\ d.queue \in [Groups -> SUBSET SegIds]
      /\ d.gnum \in [SegIds -> Groups \cup {Nil}] /\ d.active \in [Groups -> Open]
  <2>1. EngineOK(d) /\ Apart(d, Nil, Nil) /\ Blank(d, Nil) /\ Labelled(d, {})
    BY DEF Sound, Placed
  <2> QED BY <2>1 DEF EngineOK
<1>2. GroupSplit(d, last) =
        IF wrong THEN Stop(m, "split") ELSE IF old = 1 THEN OpenActive(m, 1) ELSE m
  BY DEF GroupSplit
<1>3. /\ old \in Groups /\ old \in Nat /\ old >= 1 /\ GroupNum(d) = old + 1 /\ last \in Nat
      /\ last > old /\ last # old /\ last # 1
  BY <1>1, GroupsOf, Sorts DEF GroupNum
<1>4. last \in Groups
  BY <1>3, Sorts DEF Groups
<1> HIDE DEF act, gn, tot, qu, wrong, old
<1>5. /\ DOMAIN m = Fields /\ m.page = d.page /\ m.where = d.where /\ m.free = d.free
      /\ m.naive = last /\ m.mida = d.mida /\ m.active = act /\ m.gnum = gn /\ m.queue = qu
      /\ m.total = tot
      /\ m.hf = d.hf /\ m.hotLbas = d.hotLbas /\ m.vp = d.vp /\ m.refused = d.refused
      /\ m.stop = d.stop
  BY <1>1 DEF Fields
<1> HIDE DEF m
<1>6. CASE wrong
  <2>1. GroupSplit(d, last) = Stop(m, "split")
    BY <1>2, <1>6
  <2> QED BY Zenon, <1>5, <2>1, StopStops DEF Reasons
<1>7. CASE ~wrong
  <2>1. /\ \A q \in Groups : m.queue[q] = IF q = last THEN d.queue[old]
                                          ELSE IF q \in old .. last - 1 THEN {} ELSE d.queue[q]
        /\ \A g \in Groups : m.active[g] = IF g = last THEN d.active[old]
                                           ELSE IF g = old THEN NotActive ELSE d.active[g]
        /\ \A g \in Groups : m.active[g].seg = IF g = last THEN a
                                               ELSE IF g = old THEN Nil ELSE d.active[g].seg
        /\ \A s \in SegIds : m.gnum[s] = IF s \in d.queue[old] \cup {a} THEN last ELSE d.gnum[s]
    <3>1. \A q \in Groups : m.queue[q] = IF q = last THEN d.queue[old]
                                         ELSE IF q \in old .. last - 1 THEN {} ELSE d.queue[q]
      BY <1>5 DEF qu
    <3>2. \A g \in Groups : m.active[g] = IF g = last THEN d.active[old]
                                          ELSE IF g = old THEN NotActive ELSE d.active[g]
      BY <1>5 DEF act
    <3>3. \A s \in SegIds : m.gnum[s] = IF s \in d.queue[old] \cup {a} THEN last ELSE d.gnum[s]
      BY <1>5 DEF gn
    <3>4. \A g \in Groups : m.active[g].seg = IF g = last THEN a
                                              ELSE IF g = old THEN Nil ELSE d.active[g].seg
      BY <3>2 DEF NotActive
    <3> QED BY <3>1, <3>2, <3>3, <3>4
  <2>2. a \in SegIds /\ a # Nil
    BY <1>1, <1>3, Sorts DEF Labelled, Open, old
  <2>3. d.active[last].seg = Nil
    BY <1>7 DEF wrong
  <2>4. \A q \in Groups : /\ q \in Nat
                          /\ q < old => q \notin old .. last - 1 /\ q # last /\ q # old /\ q < last
                          /\ q > old => d.queue[q] = {}
                          /\ q < old \/ q = old \/ q > old
    <3>1. Groups \subseteq Nat
      BY Sorts
    <3>2. \A q \in Groups : q > old => d.queue[q] = {}
      BY <1>1, <1>3, <3>1 DEF Labelled, old
    <3> QED BY <1>3, <3>1, <3>2
  <2>5. \A g \in Groups : d.active[g].seg # Nil => g < old \/ g = old
    BY <1>1, <1>3, <2>4 DEF Labelled
  <2>6. EngineOK(m)
    <3>1. m.gnum \in [SegIds -> Groups \cup {Nil}]
      BY <1>1, <1>4, <1>5 DEF gn
    <3>2. m.active \in [Groups -> Open]
      <4>1. NotActive \in Open
        BY Sorts DEF NotActive, Open
      <4> QED BY <1>1, <1>3, <1>5, <4>1 DEF act
    <3>3. m.queue \in [Groups -> SUBSET SegIds]
      BY <1>1, <1>3, <1>5 DEF qu
    <3> QED BY <1>1, <1>5, <3>1, <3>2, <3>3 DEF EngineOK
  <2>7. \A q \in Groups : q # last => m.queue[q] = IF q < old THEN d.queue[q] ELSE {}
    <3> TAKE q \in Groups
    <3>1. CASE q < old
      BY <2>1, <2>4, <3>1
    <3>2. CASE q = old
      <4>1. old \in old .. last - 1 /\ ~(old < old)
        BY <1>3
      <4> QED BY <2>1, <3>2, <4>1
    <3>3. CASE q > old
      BY Zenon, <1>3, <2>1, <2>4, <3>3
    <3> QED BY <2>4, <3>1, <3>2, <3>3
  <2> HIDE DEF a
  <2>8. a = d.active[old].seg
    BY DEF a
  <2>9. Apart(m, Nil, Nil)
    <3>1. \A p, q \in Groups : p # q => m.queue[p] \cap m.queue[q] = {}
      <4>1. \A p, q \in Groups : p # q => d.queue[p] \cap d.queue[q] = {}
        BY <1>1 DEF Apart
      <4>2. m.queue[last] = d.queue[old]
        BY <1>4, <2>1
      <4> QED BY <1>3, <2>4, <2>7, <4>1, <4>2
    <3>2. \A q \in Groups : m.queue[q] \cap m.free = {}
      BY <1>1, <1>3, <1>5, <2>1 DEF Apart
    <3>3. \A g \in Groups : m.active[g].seg \notin m.free
      <4>1. Nil \notin d.free
        BY <1>1, Sorts DEF EngineOK
      <4> QED BY <1>1, <1>3, <1>5, <2>1, <2>8, <4>1 DEF Apart
    <3>4. \A g, q \in Groups : m.active[g].seg \notin m.queue[q]
      <4>1. \A g, q \in Groups : d.active[g].seg \notin d.queue[q] /\ Nil \notin d.queue[q]
        BY <1>1, Sorts DEF Apart
      <4> SUFFICES ASSUME NEW g \in Groups, NEW q \in Groups
                   PROVE  m.active[g].seg \notin m.queue[q]
        OBVIOUS
      <4>2. m.active[g].seg \in {Nil, d.active[old].seg, d.active[g].seg}
        BY <2>1, <2>8
      <4>3. m.queue[q] \in {{}, d.queue[old], d.queue[q]}
        BY <2>1
      <4> QED BY <1>3, <4>1, <4>2, <4>3
    <3>5. \A g, h \in Groups : m.active[g].seg = m.active[h].seg /\ m.active[g].seg # Nil => g = h
      <4>1. \A g, h \in Groups : d.active[g].seg = d.active[h].seg /\ d.active[g].seg # Nil => g = h
        BY <1>1 DEF Apart
      <4>2. \A g \in Groups : m.active[g].seg # Nil =>
              \/ g = last /\ m.active[g].seg = d.active[old].seg
              \/ g # last /\ g # old /\ m.active[g].seg = d.active[g].seg
        BY <2>1, <2>8
      <4> QED BY <1>3, <4>1, <4>2
    <3>6. \A s \in SegIds : \/ s \in m.free
                            \/ \E q \in Groups : s \in m.queue[q]
                            \/ \E g \in Groups : m.active[g].seg = s
      <4> TAKE s \in SegIds
      <4>1. \/ s \in d.free
            \/ \E q \in Groups : s \in d.queue[q]
            \/ \E g \in Groups : d.active[g].seg = s
        BY <1>1, Sorts DEF Apart
      <4>2. ASSUME NEW q \in Groups, s \in d.queue[q]
            PROVE  \E p \in Groups : s \in m.queue[p]
        <5>1. CASE q = old
          BY <1>4, <2>1, <4>2, <5>1
        <5>2. CASE q # old
          <6>1. q < old /\ q # last
            BY <2>4, <4>2, <5>2
          <6> QED BY <2>7, <4>2, <6>1
        <5> QED BY <5>1, <5>2
      <4>3. ASSUME NEW g \in Groups, d.active[g].seg = s
            PROVE  \E h \in Groups : m.active[h].seg = s
        <5>1. CASE g = old
          BY <1>4, <2>1, <2>8, <4>3, <5>1
        <5>2. CASE g # old
          <6>1. g # last
            BY <2>3, <4>3, Sorts
          <6> QED BY <2>1, <4>3, <5>2, <6>1
        <5> QED BY <5>1, <5>2
      <4> QED BY <1>5, <4>1, <4>2, <4>3
    <3> QED BY Zenon, <3>1, <3>2, <3>3, <3>4, <3>5, <3>6, Sorts DEF Apart
  <2>10. Blank(m, Nil)
    <3>1. \A g \in Groups : m.active[g].seg # Nil => \E h \in Groups : m.active[g] = d.active[h]
      BY <1>3, <2>1
    <3> QED BY <1>1, <1>5, <3>1, Sorts DEF Blank
  <2>11. Labelled(m, {})
    <3>1. GroupNum(m) = last + 1 /\ last \in Chain(m) /\ \A g \in Nat : g < last => g < last + 1
      <4>1. GroupNum(m) = last + 1
        BY <1>5 DEF GroupNum
      <4>2. Chain(m) = last .. (last + 1) - 1
        BY <1>3, <1>5, <4>1 DEF Chain
      <4> QED BY <1>3, <4>1, <4>2
    <3>2. \A g \in Groups : m.active[g].seg # Nil =>
            m.gnum[m.active[g].seg] = g /\ g < GroupNum(m)
      <4> SUFFICES ASSUME NEW g \in Groups, m.active[g].seg # Nil
                   PROVE  m.gnum[m.active[g].seg] = g /\ g < GroupNum(m)
        OBVIOUS
      <4>1. CASE g = last
        <5>1. m.active[g].seg = a /\ m.gnum[a] = last
          BY <2>1, <2>2, <4>1
        <5> QED BY <1>3, <3>1, <4>1, <5>1
      <4>2. CASE g # last
        <5> DEFINE b == d.active[g].seg
        <5>1. g # old /\ m.active[g].seg = b /\ b # Nil /\ b \in SegIds
          BY <1>1, <2>1, <4>2 DEF Open
        <5>2. g < old
          BY <2>5, <5>1
        <5>3. b \notin d.queue[old] /\ b # a
          BY <1>1, <1>3, <2>8, <5>1 DEF Apart
        <5>4. d.gnum[b] = g
          BY <1>1, <5>1 DEF Labelled
        <5> HIDE DEF b
        <5>5. m.gnum[b] = g
          BY <2>1, <5>1, <5>3, <5>4
        <5> QED BY <2>4, <3>1, <5>1, <5>2, <5>5
      <4> QED BY <4>1, <4>2
    <3>3. \A q \in Groups : \A s \in m.queue[q] :
            IF q < last THEN m.gnum[s] = q ELSE q = last /\ m.gnum[s] \in Chain(m)
      <4> TAKE q \in Groups
      <4> TAKE s \in m.queue[q]
      <4>1. CASE q = last
        <5>1. s \in d.queue[old] /\ s \in SegIds /\ ~(last < last)
          BY <1>1, <1>3, <2>1, <4>1
        <5> QED BY <2>1, <3>1, <4>1, <5>1
      <4>2. CASE q # last
        <5>1. q < old /\ s \in d.queue[q] /\ s \in SegIds /\ q < last /\ q # old
          BY <1>1, <2>4, <2>7, <4>2
        <5>2. s \notin d.queue[old] /\ s # a
          BY <1>1, <1>3, <2>8, <5>1 DEF Apart
        <5>3. d.gnum[s] = q
          BY <1>1, <5>1 DEF Labelled, old
        <5> QED BY <2>1, <5>1, <5>2, <5>3
      <4> QED BY <4>1, <4>2
    <3> QED BY <1>4, <1>5, <2>1, <2>2, <3>2, <3>3 DEF Labelled
  <2>12. Rearranged(m, d)
    <3>1. \A s \in SegIds : m.gnum[s] = 0 => d.gnum[s] = 0
      BY <1>3, <2>1
    <3> QED BY <1>5, <3>1 DEF Rearranged
  <2>13. Placed(m, Nil, Nil, {})
    BY <2>6, <2>9, <2>10, <2>11 DEF Placed
  <2>a. ASSUME Balanced(d)
        PROVE  Balanced(m)
    <3>1. /\ d.total \in [Groups -> Int]
          /\ \A h \in Groups : d.total[h] = IF h <= old THEN Cardinality(d.queue[h]) ELSE 0
      BY <1>1, <2>a, BalancedAlone DEF old
    <3>2. \A h \in Groups : m.total[h] = IF h = last THEN Cardinality(d.queue[old])
                                          ELSE IF h \in old .. last - 1 THEN 0 ELSE d.total[h]
      BY <1>5 DEF tot
    <3>3. Cardinality(d.queue[old]) \in Nat /\ Cardinality({}) = 0
      BY <1>1, <1>3, QueueCount, FS_EmptySet
    <3>4. m.total \in [Groups -> Int]
      <4>1. \A h \in Groups : m.total[h] \in Int
        BY <3>1, <3>2, <3>3
      <4>2. m.total = [h \in Groups |-> m.total[h]]
        BY <1>5 DEF tot
      <4> QED BY <4>1, <4>2
    <3>5. \A h \in Groups : m.total[h] = IF h <= last THEN Cardinality(m.queue[h]) ELSE 0
      <4> TAKE h \in Groups
      <4>1. CASE h = last
        BY <1>3, <2>1, <3>2, <4>1
      <4>2. CASE h < old
        <5>1. h # last /\ h \notin old .. last - 1 /\ h <= old /\ h <= last /\ h \in Nat
          BY <1>3, <2>4, <4>2
        <5>2. m.queue[h] = d.queue[h] /\ m.total[h] = d.total[h]
          BY <2>1, <3>2, <5>1
        <5> QED BY <3>1, <5>1, <5>2
      <4>3. CASE h \in old .. last - 1
        <5>1. h # last /\ h <= last
          BY <1>3, <4>3
        <5> QED BY <2>1, <3>2, <3>3, <4>3, <5>1
      <4>4. CASE h # last /\ ~(h < old) /\ h \notin old .. last - 1
        <5>1. ~(h <= old) /\ ~(h <= last)
          BY <1>3, <2>4, <4>4
        <5> QED BY <3>1, <3>2, <4>4, <5>1
      <4> QED BY <4>1, <4>2, <4>3, <4>4
    <3> QED BY <1>5, <2>6, <3>4, <3>5, BalancedAlone
  <2>14. Sound(m) /\ Kept(m, d)
    <3>1. Sound(m) /\ Held(m, d)
      BY <2>12, <2>13, RearrangedIsSound DEF Sound
    <3> QED BY <2>a, <3>1 DEF Kept
  <2>15. CASE old # 1
    <3>1. GroupSplit(d, last) = m
      BY <1>2, <1>7, <2>15
    <3> QED BY <1>5, <2>14, <3>1
  <2>16. CASE old = 1
    <3> DEFINE r == OpenActive(m, 1)
    <3>1. GroupSplit(d, last) = r
      BY <1>2, <1>7, <2>16
    <3>2. m.active[1].seg = Nil /\ 1 \in Groups
      BY <1>3, <2>1, <2>16
    <3>3. 1 < GroupNum(m)
      BY <1>3, <1>5 DEF GroupNum
    <3>4. Stopped(r) \/ (Sound(r) /\ Kept(r, m) /\ Unmoved(r, m))
      BY <2>14, <3>2, <3>3, OpenIsSound
    <3> HIDE DEF r
    <3> QED BY <1>5, <2>14, <3>1, <3>4 DEF Held, Kept, Unmoved
  <2> QED BY Zenon, <2>15, <2>16
<1> QED BY Zenon, <1>6, <1>7

-----------------------------------------------------------------------------
(* Merging groups.                                                         *)

(* Beyond the last page that was written there is none to be outdated.     *)
LEMMA AgreeToTheEnd ==
  ASSUME NEW d, NEW v \in SegIds, NEW n, EngineOK(d), Agree(d, v, n),
         \A i \in PageNos : i > n => d.page[v][i] = Nil
  PROVE  Agree(d, v, PPS)
<1>1. \A l \in Lbas : d.where[l] # Nil => /\ d.where[l] \in SegIds \X PageNos
                                          /\ d.page[d.where[l][1]][d.where[l][2]] = l
                                          /\ d.where[l][1] = v => d.where[l][2] > n
  BY DEF EngineOK, Agree
<1>2. \A l \in Lbas : d.where[l] # Nil => d.where[l][1] # v
  BY <1>1, Sorts
<1>3. \A s \in SegIds, i \in PageNos :
        d.page[s][i] # Nil /\ (s = v => i > PPS) => d.where[d.page[s][i]] = <<s, i>>
  <2> SUFFICES ASSUME NEW s \in SegIds, NEW i \in PageNos, d.page[s][i] # Nil, s # v
               PROVE  d.where[d.page[s][i]] = <<s, i>>
    BY Sorts DEF PageNos
  <2> QED BY DEF Agree
<1> QED BY <1>1, <1>2, <1>3 DEF Agree

(* Group g, not the last, has no active segment any more.                  *)
Merged(r, d, J, g) ==
  /\ Placed(r, Nil, Nil, J) /\ Agree(r, Nil, 0) /\ HotIn(r, Nil, Nil, 0) /\ Held(r, d)
  /\ r.naive = d.naive /\ r.mida = d.mida /\ r.stop = d.stop
  /\ r.active[g].seg = Nil
  /\ \A p \in Groups : p # d.naive => r.queue[p] = d.queue[p]
  /\ Tallied(r, d, d.naive)

(* The segment whose pages active_merge moves is in no place but its own.  *)
LEMMA MergeStarts ==
  ASSUME NEW d, NEW J, NEW g \in Groups, g # d.naive, g # 0, d.active[g].seg # Nil,
         Placed(d, Nil, Nil, J), Agree(d, Nil, 0), HotIn(d, Nil, Nil, 0), ChainOn(d)
  PROVE  LET s == d.active[g].seg
             to == d.naive
         IN s \in SegIds /\ to \in Groups /\ to # 0 /\ to # g /\ Copying(d, d, s, g, J, g, to, 0)
<1> DEFINE s == d.active[g].seg
           to == d.naive
<1>1. /\ EngineOK(d) /\ Apart(d, Nil, Nil) /\ Blank(d, Nil) /\ Labelled(d, J)
      /\ s \in SegIds \cup {Nil}
  <2>1. EngineOK(d) /\ Apart(d, Nil, Nil) /\ Blank(d, Nil) /\ Labelled(d, J)
    BY DEF Placed
  <2> QED BY <2>1 DEF EngineOK, Open
<1>2. s # Nil /\ s \in SegIds /\ to \in Groups /\ to # 0 /\ to # g
  BY <1>1, GroupsOf
<1> HIDE DEF s, to
<1>3. Copying(d, d, s, g, J, g, to, 0)
  <2>1. Apart(d, s, g)
    <3>1. s \notin d.free /\ \A q \in Groups : s \notin d.queue[q]
      BY <1>1 DEF Apart, s
    <3>2. \A h \in Groups : d.active[h].seg = s <=> h = g
      BY <1>1, <1>2 DEF Apart, s
    <3> QED BY <1>1, <3>1, <3>2, Sorts DEF Apart
  <2>2. Placed(d, s, g, J)
    <3>1. Blank(d, g)
      BY <1>1, Sorts DEF Blank
    <3> QED BY <1>1, <2>1, <3>1 DEF Placed
  <2>3. Agree(d, s, 0)
    <3>1. \A l \in Lbas : d.where[l] # Nil => d.where[l][2] > 0
      BY <1>1, Sorts DEF EngineOK, PageNos
    <3>2. \A t \in SegIds : t # Nil
      BY Sorts
    <3> QED BY <3>1, <3>2 DEF Agree
  <2>4. HotIn(d, s, g, 0)
    BY Sorts DEF HotIn
  <2>5. d.active[to].seg # Nil /\ d.active[to].seg # s
    <3>1. d.active[to].seg # Nil
      BY <1>1 DEF Labelled, to
    <3> QED BY <1>1, <1>2, <3>1 DEF Apart, s
  <2>6. Tallied(d, d, to)
    BY TallyGoesOn
  <2> QED BY <2>2, <2>3, <2>4, <2>5, <2>6 DEF Copying
<1> QED BY <1>2, <1>3 DEF s, to

LEMMA ActiveMergeIsSound ==
  ASSUME NEW d, NEW J, NEW g \in Groups, g # d.naive, g # 0,
         Placed(d, Nil, Nil, J), Agree(d, Nil, 0), HotIn(d, Nil, Nil, 0), ChainOn(d)
  PROVE  Stopped(ActiveMerge(d, g)) \/ Merged(ActiveMerge(d, g), d, J, g)
<1> DEFINE s == d.active[g].seg
           n == d.active[g].off
           to == d.naive
           c == MovePages(d, s, to, n)
           r == ReturnActive(c, g, s)
<1>1. /\ EngineOK(d) /\ Apart(d, Nil, Nil) /\ Blank(d, Nil) /\ Labelled(d, J)
      /\ s \in SegIds \cup {Nil} /\ n \in 0 .. PPS
  <2>1. EngineOK(d) /\ Apart(d, Nil, Nil) /\ Blank(d, Nil) /\ Labelled(d, J)
    BY DEF Placed
  <2> QED BY <2>1 DEF EngineOK, Open
<1>2. ActiveMerge(d, g) = IF s = Nil THEN d ELSE IF Stopped(c) THEN c ELSE r
  BY DEF ActiveMerge
<1>3. CASE s = Nil
  <2>1. ActiveMerge(d, g) = d /\ d.active[g].seg = Nil
    BY <1>2, <1>3
  <2>2. Tallied(d, d, d.naive)
    BY TallyGoesOn
  <2> QED BY <2>1, <2>2 DEF Merged, Held
<1>4. CASE s # Nil
  <2>1. to \in Groups /\ to # 0 /\ s \in SegIds /\ to # g
    BY <1>1, <1>4, GroupsOf
  <2> HIDE DEF s, n, to
  <2>2. Copying(d, d, s, g, J, g, to, 0)
    BY <1>4, MergeStarts DEF s, to
  <2>3. Stopped(c) \/ Copying(c, d, s, g, J, g, to, n)
    BY Zenon, <1>1, <2>1, <2>2, CopyLoop DEF MovePages
  <2>4. CASE Stopped(c)
    BY <1>2, <1>4, <2>4
  <2>5. CASE ~Stopped(c)
    <3>1. Copying(c, d, s, g, J, g, to, n)
      BY <2>3, <2>5
    <3>2. ActiveMerge(d, g) = r
      BY <1>2, <1>4, <2>5
    <3> HIDE DEF c
    <3>3. /\ Placed(c, s, g, J) /\ Agree(c, s, n) /\ HotIn(c, s, g, n) /\ EngineOK(c)
          /\ c.page[s] = d.page[s] /\ c.naive = to /\ c.mida = d.mida
          /\ Present(c) = Present(d) /\ c.vp = d.vp /\ c.refused = d.refused /\ c.stop = d.stop
      BY <3>1 DEF Copying, Placed, to
    <3>4. \A i \in PageNos : i > n => c.page[s][i] = Nil
      BY <1>1, <1>4, <3>3, Sorts DEF Blank, s, n
    <3>5. Agree(c, s, PPS)
      BY <2>1, <3>3, <3>4, AgreeToTheEnd
    <3>6. /\ DOMAIN r = Fields /\ r.where = c.where /\ r.naive = c.naive /\ r.mida = c.mida
          /\ r.queue = c.queue /\ r.free = c.free \cup {s} /\ r.gnum = [c.gnum EXCEPT ![s] = Nil]
          /\ r.page = [c.page EXCEPT ![s] = [i \in PageNos |-> Nil]]
          /\ r.active = [c.active EXCEPT ![g] = NotActive]
          /\ r.hf = c.hf /\ r.hotLbas = c.hotLbas
          /\ r.vp = c.vp /\ r.refused = c.refused /\ r.stop = c.stop
          /\ r.total = c.total
      <4>1. DOMAIN c = Fields
        BY <3>3 DEF EngineOK
      <4> QED BY <4>1 DEF Fields, ReturnActive
    <3> HIDE DEF r
    <3>7. r.active = [h \in Groups |-> IF h = g THEN NotActive ELSE c.active[h]]
      BY <3>3, <3>6 DEF EngineOK
    <3>8. g = c.naive => FALSE
      BY <2>1, <3>3
    <3>9. Placed(r, Nil, Nil, J) /\ Agree(r, Nil, 0)
      BY <2>1, <3>3, <3>5, <3>6, <3>7, <3>8, EraseKeepsPlaced
    <3>10. HotIn(r, Nil, Nil, 0)
      <4>1. /\ \A t \in SegIds, i \in PageNos : r.page[t][i] = IF t = s THEN Nil ELSE c.page[t][i]
            /\ \A t \in SegIds : t # s => r.gnum[t] = c.gnum[t]
        BY <2>1, <3>3, <3>6 DEF EngineOK
      <4> QED BY <3>3, <3>6, <4>1, Sorts DEF HotIn
    <3>11. Held(r, d)
      BY <3>3, <3>6 DEF Held, Present
    <3>12. r.active[g].seg = Nil
      BY <3>7 DEF NotActive
    <3>13. \A p \in Groups : p # d.naive => r.queue[p] = d.queue[p]
      <4>1. QueueOf(d, to) = d.naive
        BY <1>1, GroupsOf DEF QueueOf, to
      <4> QED BY <3>1, <3>6, <4>1 DEF Copying
    <3>14. Tallied(r, d, to)
      <4>1. Tallied(c, d, to) /\ Tallied(r, c, to)
        BY <3>1, <3>6, TallyGoesOn DEF Copying
      <4> QED BY <4>1, TallyGoesOn
    <3> QED BY <3>2, <3>3, <3>6, <3>9, <3>10, <3>11, <3>12, <3>13, <3>14 DEF Merged, to
  <2> QED BY <2>4, <2>5
<1> QED BY <1>3, <1>4

(* The count of the group before the last is added to that of the last.    *)
LEMMA JoinedCounts ==
  ASSUME NEW d, EngineOK(d), Apart(d, Nil, Nil), Balanced(d), d.naive # 1,
         NEW g \in Groups, g = d.naive - 1,
         NEW m, m.naive = d.naive, m.mida = d.mida,
         m.queue = [d.queue EXCEPT ![d.naive] = @ \cup d.queue[g], ![g] = {}],
         m.total = [d.total EXCEPT ![d.naive] = @ + d.total[g]]
  PROVE  Counts(m, d.naive, Nil, g)
<1> DEFINE n == d.naive
           top == GroupNum(d) - 1
           S == n .. top
<1>1. /\ n \in Nat /\ n >= 2 /\ n \in Groups /\ top \in Nat /\ n <= top
      /\ GroupNum(d) = top + 1 /\ GroupNum(m) = GroupNum(d)
      /\ Groups \subseteq Nat /\ g < n /\ g # n /\ First(d) = n
      /\ \A h \in S : h \in Groups
  <2>1. n \in Nat /\ n >= 2 /\ n \in Groups /\ GroupNum(d) \in Nat /\ GroupNum(d) > n
    BY GroupsOf
  <2>2. \A h \in Nat : h < GroupNum(d) => h \in Groups
    BY GroupsOf
  <2>3. GroupNum(m) = GroupNum(d)
    BY DEF GroupNum
  <2>4. First(d) = n
    BY DEF First
  <2> HIDE DEF n
  <2>5. g = n - 1
    BY DEF n
  <2> QED BY <2>1, <2>2, <2>3, <2>4, <2>5, Sorts
<1>2. /\ d.total \in [Groups -> Int]
      /\ SumOver(d.total, S) = Cardinality(d.queue[n]) + (IF Nil \in S THEN 1 ELSE 0)
      /\ \A h \in Groups : h < n /\ h # Nil =>
           d.total[h] = Cardinality(d.queue[h]) + (IF h = Nil THEN 1 ELSE 0)
      /\ \A h \in Groups : h >= GroupNum(d) => d.total[h] = 0
  BY <1>1 DEF Balanced, Counts
<1>3. Nil \notin Groups /\ Nil \notin S
  BY <1>1, Sorts
<1>4. /\ IsFiniteSet(d.queue[n]) /\ Cardinality(d.queue[n]) \in Nat
      /\ IsFiniteSet(d.queue[g]) /\ Cardinality(d.queue[g]) \in Nat
  BY <1>1, QueueCount
<1>5. d.queue \in [Groups -> SUBSET SegIds] /\ d.queue[n] \cap d.queue[g] = {}
  BY <1>1 DEF EngineOK, Apart
<1> HIDE DEF n, top
<1>6. \A h \in Groups : h < n => d.total[h] = Cardinality(d.queue[h])
  <2> SUFFICES ASSUME NEW h \in Groups, h < n
               PROVE  d.total[h] = Cardinality(d.queue[h])
    OBVIOUS
  <2>1. h # Nil /\ Cardinality(d.queue[h]) \in Nat
    BY <1>3, QueueCount
  <2> QED BY <1>2, <2>1
<1>7. /\ m.total = [d.total EXCEPT ![n] = @ + d.total[g]]
      /\ m.queue = [d.queue EXCEPT ![n] = @ \cup d.queue[g], ![g] = {}]
  BY DEF n
<1>8. /\ m.total \in [Groups -> Int] /\ m.total[n] = d.total[n] + d.total[g]
      /\ \A h \in Groups : h # n => m.total[h] = d.total[h]
  <2>1. d.total[n] + d.total[g] \in Int
    BY <1>1, <1>2
  <2> DEFINE x == d.total[n] + d.total[g]
  <2>2. m.total = [d.total EXCEPT ![n] = x]
    BY <1>7
  <2> HIDE DEF x
  <2>3. x \in Int
    BY <2>1 DEF x
  <2>4. /\ m.total \in [Groups -> Int] /\ m.total[n] = x
        /\ \A h \in Groups : h # n => m.total[h] = d.total[h]
    <3> DEFINE f == d.total
    <3>1. f \in [Groups -> Int] /\ m.total = [f EXCEPT ![n] = x] /\ n \in Groups
      BY <1>1, <1>2, <2>2
    <3> HIDE DEF f
    <3>2. /\ m.total \in [Groups -> Int] /\ m.total[n] = x
          /\ \A h \in Groups : h # n => m.total[h] = f[h]
      BY SMTT(60), ZenonT(60), <2>3, <3>1
    <3> QED BY <3>2 DEF f
  <2> QED BY <2>4 DEF x
<1>9. /\ m.queue[n] = d.queue[n] \cup d.queue[g]
      /\ \A h \in Groups : h # n /\ h # g => m.queue[h] = d.queue[h]
  BY <1>1, <1>5, <1>7
<1>10. Cardinality(m.queue[n]) = Cardinality(d.queue[n]) + Cardinality(d.queue[g])
  <2> DEFINE A == d.queue[n]
             B == d.queue[g]
  <2>1. IsFiniteSet(A) /\ IsFiniteSet(B) /\ A \cap B = {} /\ m.queue[n] = A \cup B
    BY <1>4, <1>5, <1>9
  <2> HIDE DEF A, B
  <2>2. Cardinality(A \cup B) = Cardinality(A) + Cardinality(B)
    BY <2>1, DisjointCount
  <2> QED BY <2>1, <2>2 DEF A, B
<1>11. n \in S /\ IsFiniteSet(S) /\ Ints(d.total, S) /\ Ints(m.total, S)
       /\ SameOn(d.total, m.total, S \ {n})
  <2>1. IsFiniteSet(S)
    <3>1. n \in Int /\ top \in Int
      BY <1>1
    <3> QED BY ONLY <3>1, FS_Interval
  <2> QED BY <1>1, <1>2, <1>8, <2>1 DEF Ints, SameOn
<1> HIDE DEF S
<1>12. SumOver(m.total, S) = SumOver(d.total, S) - d.total[n] + m.total[n]
  <2> DEFINE A == d.total
             B == m.total
  <2>1. n \in S /\ IsFiniteSet(S) /\ Ints(A, S) /\ Ints(B, S) /\ SameOn(A, B, S \ {n})
    BY <1>11
  <2> HIDE DEF A, B
  <2>2. SumOver(B, S) = SumOver(A, S) - A[n] + B[n]
    BY ONLY <2>1, SumChangesAt
  <2> QED BY <2>2 DEF A, B
<1>13. SumOver(m.total, S) = Cardinality(m.queue[n])
  <2>1. SumOver(d.total, S) = Cardinality(d.queue[n]) /\ d.total[g] = Cardinality(d.queue[g])
    BY <1>1, <1>2, <1>3, <1>4, <1>6
  <2>2. d.total[n] \in Int /\ d.total[g] \in Int
    BY <1>1, <1>2
  <2> QED BY <1>4, <1>8, <1>10, <1>12, <2>1, <2>2
<1>14. \A h \in Groups : h < n /\ h # g => m.total[h] = Cardinality(m.queue[h])
  <2> SUFFICES ASSUME NEW h \in Groups, h < n, h # g
               PROVE  m.total[h] = Cardinality(m.queue[h])
    OBVIOUS
  <2>1. h # n
    BY <1>1
  <2>2. m.total[h] = d.total[h] /\ m.queue[h] = d.queue[h]
    BY <1>8, <1>9, <2>1
  <2> QED BY <1>6, <2>2
<1>15. \A h \in Groups : h >= GroupNum(m) => m.total[h] = 0
  BY <1>1, <1>2, <1>8
<1>16. /\ SumOver(m.total, n .. GroupNum(m) - 1) =
            Cardinality(m.queue[m.naive]) + (IF Nil \in n .. GroupNum(m) - 1 THEN 1 ELSE 0)
       /\ \A h \in Groups : h < n /\ h # g =>
            m.total[h] = Cardinality(m.queue[h]) + (IF h = Nil THEN 1 ELSE 0)
  <2>1. Cardinality(m.queue[n]) \in Nat
    BY <1>4, <1>10
  <2>2. \A h \in Groups : h < n /\ h # g => h # Nil /\ m.total[h] \in Int
    BY <1>3, <1>8
  <2>3. n .. GroupNum(m) - 1 = S /\ m.naive = n
    BY <1>1 DEF S, n, top
  <2>4. \A h \in Groups : h < n /\ h # g =>
          m.total[h] = Cardinality(m.queue[h]) + (IF h = Nil THEN 1 ELSE 0)
    <3> SUFFICES ASSUME NEW h \in Groups, h < n, h # g
                 PROVE  m.total[h] = Cardinality(m.queue[h]) + (IF h = Nil THEN 1 ELSE 0)
      OBVIOUS
    <3>1. h # Nil /\ m.total[h] \in Int /\ m.total[h] = Cardinality(m.queue[h])
      BY <1>14, <2>2
    <3> QED BY <3>1
  <2>5. SumOver(m.total, S) = Cardinality(m.queue[n]) + (IF Nil \in S THEN 1 ELSE 0)
    BY <1>3, <1>13, <2>1
  <2> QED BY <2>3, <2>4, <2>5
<1>17. n # 0
  BY <1>1
<1> QED BY ONLY Zenon, <1>8, <1>15, <1>16, <1>17 DEF Counts, n

Joined(r, d, g) ==
  /\ Placed(r, Nil, Nil, d.queue[g]) /\ Agree(r, Nil, 0) /\ HotIn(r, Nil, Nil, 0)
  /\ Held(r, d) /\ r.naive = d.naive /\ r.mida = d.mida
  /\ r.active[g].seg = Nil /\ r.queue[g] = {}
  /\ Balanced(d) => Counts(r, d.naive, Nil, g)

JoinStart(d, g) ==
  [d EXCEPT !.queue[d.naive] = @ \cup d.queue[g], !.queue[g] = {},
            !.total[d.naive] = @ + d.total[g]]

JoinBegun(m, d, g) ==
  /\ g \in Groups /\ g \in Nat /\ g >= 1 /\ g < d.naive /\ g = d.naive - 1
  /\ d.naive \in Groups /\ d.naive \in Nat /\ d.naive >= 2
  /\ Join(d) = ActiveMerge(m, g)
  /\ DOMAIN m = Fields /\ m.page = d.page /\ m.where = d.where /\ m.gnum = d.gnum
  /\ m.active = d.active /\ m.free = d.free /\ Unmoved(m, d)
  /\ m.queue = [d.queue EXCEPT ![d.naive] = @ \cup d.queue[g], ![g] = {}]
  /\ m.total = [d.total EXCEPT ![d.naive] = @ + d.total[g]]
  /\ m.naive = d.naive /\ m.mida = d.mida /\ m.vp = d.vp /\ m.refused = d.refused
  /\ m.stop = d.stop
  /\ \A q \in Groups : m.queue[q] = IF q = d.naive THEN d.queue[d.naive] \cup d.queue[g]
                                    ELSE IF q = g THEN {} ELSE d.queue[q]
  /\ Placed(m, Nil, Nil, d.queue[g]) /\ Agree(m, Nil, 0) /\ HotIn(m, Nil, Nil, 0) /\ ChainOn(m)

(* Merging begins with the queue of the group before the last.             *)
LEMMA JoinStarts ==
  ASSUME NEW d, Sound(d), ChainOn(d), d.naive # 1
  PROVE  JoinBegun(JoinStart(d, d.naive - 1), d, d.naive - 1)
<1> DEFINE n == d.naive
           g == n - 1
           J == d.queue[g]
           m == JoinStart(d, g)
<1>1. /\ EngineOK(d) /\ Apart(d, Nil, Nil) /\ Blank(d, Nil) /\ Labelled(d, {})
      /\ DOMAIN d = Fields /\ d.queue \in [Groups -> SUBSET SegIds]
      /\ Agree(d, Nil, 0) /\ HotIn(d, Nil, Nil, 0)
  <2>1. EngineOK(d) /\ Apart(d, Nil, Nil) /\ Blank(d, Nil) /\ Labelled(d, {})
    BY DEF Sound, Placed
  <2> QED BY <2>1 DEF EngineOK, Sound
<1>2. n \in Groups /\ n \in Nat /\ n >= 2 /\ g \in Nat /\ g >= 1 /\ g < n /\ g \in Groups
  <2>1. n \in Groups /\ n \in Nat /\ n >= 2 /\ n < GroupNum(d) /\ GroupNum(d) \in Nat
    BY <1>1, GroupsOf
  <2>2. g \in Nat /\ g < GroupNum(d) /\ g >= 1 /\ g < n
    BY <2>1
  <2> QED BY <1>1, <2>1, <2>2, GroupsOf
<1>3. Join(d) = ActiveMerge(m, g)
  BY DEF Join, JoinStart
<1> HIDE DEF g, n, J
<1>4. /\ DOMAIN m = Fields /\ m.page = d.page /\ m.where = d.where /\ m.gnum = d.gnum
      /\ m.active = d.active /\ m.free = d.free /\ Unmoved(m, d)
      /\ m.queue = [d.queue EXCEPT ![n] = @ \cup d.queue[g], ![g] = {}]
      /\ m.total = [d.total EXCEPT ![n] = @ + d.total[g]]
  BY <1>1 DEF Fields, Unmoved, JoinStart, n
<1> HIDE DEF m
<1>5. /\ m.naive = n /\ m.mida = d.mida /\ m.vp = d.vp /\ m.refused = d.refused
      /\ m.stop = d.stop /\ m.hf = d.hf /\ m.hotLbas = d.hotLbas
      /\ GroupNum(m) = GroupNum(d) /\ Chain(m) = Chain(d)
  BY <1>4 DEF Unmoved, GroupNum, Chain, n
<1>6. \A q \in Groups : m.queue[q] = IF q = n THEN d.queue[n] \cup J
                                     ELSE IF q = g THEN {} ELSE d.queue[q]
  BY <1>1, <1>2, <1>4 DEF J
<1>7. EngineOK(m)
  <2>1. m.queue \in [Groups -> SUBSET SegIds]
    BY <1>1, <1>2, <1>4
  <2> QED BY <1>1, <1>4, <1>5, <2>1 DEF EngineOK, n
<1>8. Apart(m, Nil, Nil)
  <2>1. \A q, p \in Groups : q # p => m.queue[q] \cap m.queue[p] = {}
    <3>1. \A q, p \in Groups : q # p => d.queue[q] \cap d.queue[p] = {}
      BY <1>1 DEF Apart
    <3> SUFFICES ASSUME NEW q \in Groups, NEW p \in Groups, q # p
                 PROVE  m.queue[q] \cap m.queue[p] = {}
      OBVIOUS
    <3> QED BY <1>2, <1>6, <3>1 DEF J
  <2>2. \A q \in Groups : m.queue[q] \cap m.free = {}
    BY <1>1, <1>2, <1>4, <1>6 DEF Apart, J
  <2>3. \A h, q \in Groups : m.active[h].seg \notin m.queue[q]
    BY <1>1, <1>2, <1>4, <1>6 DEF Apart, J
  <2>4. \A s \in SegIds : \A q \in Groups : s \in d.queue[q] => \E p \in Groups : s \in m.queue[p]
    BY <1>2, <1>6 DEF J
  <2>5. \A s \in SegIds : \/ s \in m.free
                          \/ \E q \in Groups : s \in m.queue[q]
                          \/ \E h \in Groups : m.active[h].seg = s
    <3>1. \A s \in SegIds : \/ s \in d.free
                            \/ \E q \in Groups : s \in d.queue[q]
                            \/ \E h \in Groups : d.active[h].seg = s
      BY <1>1, Sorts DEF Apart
    <3>2. m.free = d.free /\ m.active = d.active
      BY <1>4
    <3> SUFFICES ASSUME NEW s \in SegIds, s \notin d.free, \A h \in Groups : d.active[h].seg # s
                 PROVE  \E q \in Groups : s \in m.queue[q]
      BY <3>2
    <3> QED BY <2>4, <3>1
  <2>6. \A h \in Groups : m.active[h].seg \notin m.free
    BY <1>1, <1>4 DEF Apart
  <2>7. \A h, k \in Groups : m.active[h].seg = m.active[k].seg /\ m.active[h].seg # Nil => h = k
    BY <1>1, <1>4 DEF Apart
  <2> QED BY <2>1, <2>2, <2>3, <2>5, <2>6, <2>7, Sorts DEF Apart
<1>9. Blank(m, Nil)
  BY <1>1, <1>4 DEF Blank
<1>10. Labelled(m, J)
  <2>1. \A h \in Groups : m.active[h].seg # Nil =>
          m.gnum[m.active[h].seg] = h /\ h < GroupNum(m)
    BY <1>1, <1>4, <1>5 DEF Labelled
  <2>2. \A q \in Groups : \A s \in m.queue[q] :
          IF q < n THEN m.gnum[s] = q
          ELSE q = n /\ IF s \in J THEN m.gnum[s] = q - 1 ELSE m.gnum[s] \in Chain(m)
    <3> TAKE q \in Groups
    <3> TAKE s \in m.queue[q]
    <3>1. CASE q = n
      <4>1. ~(n < n) /\ q - 1 = g
        BY <1>2, <3>1 DEF g
      <4>2. CASE s \in J
        <5>1. d.gnum[s] = g
          BY <1>1, <1>2, <4>2 DEF Labelled, J, n
        <5> QED BY <1>4, <3>1, <4>1, <4>2, <5>1
      <4>3. CASE s \notin J
        <5>1. s \in d.queue[n]
          BY <1>2, <1>6, <3>1, <4>3
        <5>2. d.gnum[s] \in Chain(d)
          BY <1>1, <1>2, <5>1 DEF Labelled, n
        <5> QED BY <1>4, <1>5, <3>1, <4>1, <4>3, <5>2
      <4> QED BY <4>2, <4>3
    <3>2. CASE q # n
      <4>1. q # g /\ s \in d.queue[q]
        BY <1>6, <3>2
      <4>2. IF q < n THEN d.gnum[s] = q ELSE q = n
        BY <1>1, <4>1 DEF Labelled, n
      <4> QED BY <1>4, <3>2, <4>2
    <3> QED BY <3>1, <3>2
  <2>3. J \subseteq m.queue[n] /\ m.active[n].seg # Nil
    BY <1>1, <1>2, <1>4, <1>6 DEF Labelled, n
  <2> QED BY <1>5, <2>1, <2>2, <2>3 DEF Labelled
<1>11. Placed(m, Nil, Nil, J)
  BY <1>7, <1>8, <1>9, <1>10 DEF Placed
<1>12. Agree(m, Nil, 0) /\ HotIn(m, Nil, Nil, 0) /\ ChainOn(m)
  <2>1. Agree(m, Nil, 0)
    BY <1>1, <1>4, SameTable
  <2>2. HotIn(m, Nil, Nil, 0)
    BY <1>1, <1>4, SameFilter DEF Unmoved
  <2> QED BY <1>1, <1>2, <1>4, <1>5, <2>1, <2>2 DEF ChainOn
<1>13. JoinBegun(m, d, g)
  BY Zenon, <1>2, <1>3, <1>4, <1>5, <1>6, <1>11, <1>12 DEF JoinBegun, g, n, J
<1> QED BY <1>13 DEF m, g, n

(* The group before the last joins it: its queue does, and the pages of    *)
(* its open segment are appended.                                          *)
LEMMA JoinIsSound ==
  ASSUME NEW d, Sound(d), ChainOn(d), d.naive # 1
  PROVE  LET g == d.naive - 1
         IN /\ g \in Groups /\ g >= 1
            /\ Stopped(Join(d)) \/ Joined(Join(d), d, g)
<1> DEFINE n == d.naive
           g == n - 1
           J == d.queue[g]
           m == JoinStart(d, g)
<1>0. JoinBegun(m, d, g)
  BY JoinStarts
<1> HIDE DEF g, n, J, m
<1>1. EngineOK(d) /\ Apart(d, Nil, Nil)
  BY DEF Sound, Placed
<1>2. n \in Groups /\ n \in Nat /\ n >= 2 /\ g \in Nat /\ g >= 1 /\ g < n /\ g \in Groups
  BY <1>0 DEF JoinBegun, n
<1>3. Join(d) = ActiveMerge(m, g)
  BY <1>0 DEF JoinBegun
<1>4. m.where = d.where /\ m.total = [d.total EXCEPT ![n] = @ + d.total[g]]
      /\ m.queue = [d.queue EXCEPT ![n] = @ \cup d.queue[g], ![g] = {}]
  BY <1>0 DEF JoinBegun, n
<1>5. /\ m.naive = n /\ m.mida = d.mida /\ m.vp = d.vp /\ m.refused = d.refused
      /\ m.stop = d.stop
  BY <1>0 DEF JoinBegun, n
<1>6. \A q \in Groups : m.queue[q] = IF q = n THEN d.queue[n] \cup J
                                     ELSE IF q = g THEN {} ELSE d.queue[q]
  BY <1>0 DEF JoinBegun, n, J
<1>7. Placed(m, Nil, Nil, J)
  BY <1>0 DEF JoinBegun, J
<1>8. Agree(m, Nil, 0) /\ HotIn(m, Nil, Nil, 0) /\ ChainOn(m)
  BY <1>0 DEF JoinBegun
<1>9. Stopped(Join(d)) \/ Merged(Join(d), m, J, g)
  <2>1. g # m.naive /\ g # 0
    BY <1>2, <1>5
  <2> QED BY <1>2, <1>3, <1>7, <1>8, <2>1, ActiveMergeIsSound
<1>10. Merged(Join(d), m, J, g) => Joined(Join(d), d, g)
  <2> DEFINE r == Join(d)
  <2> HIDE DEF r
  <2> SUFFICES ASSUME Merged(r, m, J, g)
               PROVE  Joined(r, d, g)
    BY DEF r
  <2>1. Held(r, d)
    BY <1>4, <1>5 DEF Merged, Held, Present
  <2>2. r.queue[g] = {}
    BY <1>2, <1>5, <1>6 DEF Merged
  <2>3. Balanced(d) => Counts(r, n, Nil, g)
    <3> SUFFICES ASSUME Balanced(d) PROVE Counts(r, n, Nil, g)
      OBVIOUS
    <3>1. Counts(m, n, Nil, g)
      <4>1. g = n - 1
        BY DEF g
      <4> QED BY <1>1, <1>2, <1>4, <1>5, <4>1, JoinedCounts DEF n
    <3>2. First(m) = n /\ First(r) = n /\ n # g
      BY <1>2, <1>5 DEF First, Merged
    <3>3. Tallied(r, m, n)
      BY <1>5 DEF Merged
    <3> QED BY <3>1, <3>2, <3>3 DEF Tallied
  <2> QED BY <1>5, <2>1, <2>2, <2>3 DEF Merged, Joined, J, n
<1> QED BY <1>2, <1>9, <1>10 DEF g, n, J

(* The counts move down with the groups.                                   *)
CountedDown(r, d, g, top) ==
  /\ r.naive = g /\ r.mida = d.mida
  /\ r.queue = [h \in Groups |-> IF h = g THEN d.queue[d.naive]
                                 ELSE IF h = d.naive THEN {} ELSE d.queue[h]]
  /\ top = IF d.mida THEN d.naive + NaiveN ELSE d.naive
  /\ r.total = [[h \in Groups |-> IF h \in g .. top - 1 THEN d.total[h + 1]
                                  ELSE d.total[h]] EXCEPT ![top] = 0]

LEMMA DownCounts ==
  ASSUME NEW d, EngineOK(d), NEW g \in Groups, g = d.naive - 1, d.naive # 1,
         Counts(d, d.naive, Nil, g), NEW r, NEW top, CountedDown(r, d, g, top)
  PROVE  Counts(r, g, Nil, Nil)
<1> USE DEF CountedDown
<1> DEFINE n == d.naive
           c == GroupNum(r) - 1
<1>1. /\ n \in Groups /\ n \in Nat /\ n >= 2 /\ g \in Nat /\ g >= 1 /\ g + 1 = n
      /\ GroupNum(d) \in Nat /\ GroupNum(r) = GroupNum(d) - 1
      /\ c \in Nat /\ c >= g /\ c + 1 = GroupNum(d) - 1 /\ GroupNum(r) = c + 1
      /\ top \in Groups /\ top \in Nat /\ c < top /\ (top = c + 1 \/ top = c + 2)
      /\ GroupNum(d) = c + 2
  <2>1. n \in Groups /\ n \in Nat /\ n >= 2 /\ GroupNum(d) \in Nat /\ n \in 1 .. MaxNaive
        /\ d.mida \in BOOLEAN
    BY GroupsOf DEF EngineOK
  <2>2. /\ GroupNum(d) = n + (IF d.mida THEN NaiveN ELSE 1)
        /\ GroupNum(r) = g + (IF d.mida THEN NaiveN ELSE 1)
        /\ top = IF d.mida THEN n + NaiveN ELSE n
    BY DEF GroupNum
  <2>3. NaiveN \in Nat /\ NaiveN >= 2 /\ MaxNaive \in Nat /\ Groups = 0 .. MaxNaive + NaiveN
    BY Sorts DEF Groups
  <2> HIDE DEF n
  <2>4. g = n - 1
    BY DEF n
  <2> DEFINE G == GroupNum(d)
             H == GroupNum(r)
  <2>5. /\ G \in Nat
        /\ d.mida => G = n + NaiveN /\ H = g + NaiveN /\ top = n + NaiveN
        /\ ~d.mida => G = n + 1 /\ H = g + 1 /\ top = n
    BY <2>1, <2>2
  <2> HIDE DEF G, H
  <2>6. n <= MaxNaive /\ n \in Nat /\ n >= 2 /\ g = n - 1 /\ NaiveN \in Nat /\ NaiveN >= 2
        /\ MaxNaive \in Nat
    BY <2>1, <2>3, <2>4
  <2>7. /\ g \in Nat /\ g >= 1 /\ g + 1 = n /\ H = G - 1 /\ G \in Nat
        /\ H - 1 \in Nat /\ H - 1 >= g /\ (H - 1) + 1 = G - 1 /\ H = (H - 1) + 1
        /\ top \in Nat /\ top >= 0 /\ top <= MaxNaive + NaiveN
        /\ H - 1 < top /\ (top = (H - 1) + 1 \/ top = (H - 1) + 2)
        /\ G = (H - 1) + 2
    <3>1. CASE d.mida
      <4>1. G = n + NaiveN /\ H = g + NaiveN /\ top = n + NaiveN
        BY <2>5, <3>1
      <4> QED BY ONLY <2>6, <4>1
    <3>2. CASE ~d.mida
      BY <2>5, <2>6, <3>2
    <3> QED BY <3>1, <3>2
  <2>8. top \in Groups
    BY <2>3, <2>7
  <2> QED BY <2>1, <2>7, <2>8 DEF G, H
<1>2. /\ d.total \in [Groups -> Int]
      /\ SumOver(d.total, n .. GroupNum(d) - 1) =
           Cardinality(d.queue[n]) + (IF Nil \in n .. GroupNum(d) - 1 THEN 1 ELSE 0)
      /\ \A h \in Groups : h < n /\ h # g =>
           d.total[h] = Cardinality(d.queue[h]) + (IF h = Nil THEN 1 ELSE 0)
      /\ \A h \in Groups : h >= GroupNum(d) => d.total[h] = 0
  BY DEF Counts
<1>3. /\ \A h \in Groups : h \in Nat
      /\ Nil \notin Groups /\ \A h \in Nat : h <= top => h \in Groups
  <2>1. MaxNaive \in Nat /\ NaiveN \in Nat /\ Groups = 0 .. MaxNaive + NaiveN
        /\ Nil \notin Groups /\ \A h \in Groups : h \in Nat
    BY Sorts DEF Groups
  <2> QED BY ONLY <1>1, <2>1
<1>4. /\ \A h \in Groups : r.total[h] = IF h = top THEN 0
                                         ELSE IF h \in g .. top - 1 THEN d.total[h + 1]
                                         ELSE d.total[h]
      /\ DOMAIN r.total = Groups /\ r.total = [h \in Groups |-> r.total[h]]
  BY <1>1
<1>5. r.queue[g] = d.queue[n] /\ \A h \in Groups : h < g => r.queue[h] = d.queue[h]
  BY <1>1, <1>3
<1> HIDE DEF n, c
<1>6. r.total \in [Groups -> Int]
  <2>1. \A h \in Groups : h \in g .. top - 1 => h + 1 \in Groups
    BY <1>1, <1>3
  <2>2. \A h \in Groups : r.total[h] \in Int
    BY <1>2, <1>4, <2>1
  <2> QED BY ONLY Zenon, <1>4, <2>2
<1>7. \A h \in g .. c : h \in Groups /\ h + 1 \in Groups /\ r.total[h] = d.total[h + 1]
  <2> SUFFICES ASSUME NEW h \in g .. c
               PROVE  h \in Groups /\ h + 1 \in Groups /\ r.total[h] = d.total[h + 1]
    OBVIOUS
  <2>1. h \in Nat /\ h + 1 \in Nat /\ h + 1 <= top /\ h # top /\ h \in g .. top - 1 /\ h <= top
    BY <1>1
  <2> QED BY <1>3, <1>4, <2>1
<1>8. SumOver(r.total, g .. c) = SumOver(d.total, n .. GroupNum(d) - 1)
  <2> DEFINE A == d.total
             B == r.total
  <2>1. \A i \in g .. c : B[i] = A[i + 1]
    BY <1>7
  <2>2. Ints(A, g + 1 .. c + 1)
    <3>1. \A i \in g + 1 .. c + 1 : i \in Nat /\ i <= top
      BY <1>1
    <3> QED BY <1>2, <1>3, <3>1 DEF Ints
  <2>3. g \in Nat /\ c \in Nat /\ g <= c /\ g + 1 = n /\ c + 1 = GroupNum(d) - 1
    BY <1>1
  <2> HIDE DEF A, B
  <2>4. SumOver(B, g .. c) = SumOver(A, g + 1 .. c + 1)
    <3>1. Shifted(A, B, g, c)
      BY <2>1 DEF Shifted
    <3> QED BY ONLY <2>2, <2>3, <3>1, SumShifts
  <2> QED BY <2>3, <2>4 DEF A, B
<1>9. \A h \in Groups : h >= GroupNum(r) => r.total[h] = 0
  <2> SUFFICES ASSUME NEW h \in Groups, h >= GroupNum(r)
               PROVE  r.total[h] = 0
    OBVIOUS
  <2>1. h \in Nat /\ h >= c + 1
    BY <1>1, <1>3
  <2>2. CASE h = top
    BY <1>4, <2>2
  <2>3. CASE h # top /\ h \in g .. top - 1
    <3>1. h + 1 \in Groups /\ h + 1 >= GroupNum(d)
      <4>1. h + 1 \in Nat /\ h + 1 <= top /\ h + 1 >= GroupNum(d)
        BY <1>1, <2>1, <2>3
      <4> QED BY <1>3, <4>1
    <3> QED BY <1>2, <1>4, <2>3, <3>1
  <2>4. CASE h # top /\ h \notin g .. top - 1
    <3>1. h >= GroupNum(d)
      BY <1>1, <2>1, <2>4
    <3> QED BY <1>2, <1>4, <2>4, <3>1
  <2> QED BY <2>2, <2>3, <2>4
<1>10. \A h \in Groups : h < g => r.total[h] = Cardinality(r.queue[h]) + (IF h = Nil THEN 1 ELSE 0)
  <2> SUFFICES ASSUME NEW h \in Groups, h < g
               PROVE  r.total[h] = Cardinality(r.queue[h]) + (IF h = Nil THEN 1 ELSE 0)
    OBVIOUS
  <2>1. h \in Nat /\ h < n /\ h # g /\ h # top /\ h \notin g .. top - 1
    BY <1>1, <1>3
  <2>2. r.total[h] = d.total[h] /\ r.queue[h] = d.queue[h]
    BY <1>4, <1>5, <2>1
  <2> QED BY <1>2, <2>1, <2>2
<1>11. SumOver(r.total, g .. GroupNum(r) - 1) =
         Cardinality(r.queue[r.naive]) + (IF Nil \in g .. GroupNum(r) - 1 THEN 1 ELSE 0)
  <2>1. Nil \notin n .. GroupNum(d) - 1 /\ Nil \notin g .. c
    <3>1. \A i \in n .. GroupNum(d) - 1 : i \in Nat /\ i <= top
      BY <1>1
    <3>2. \A i \in g .. c : i \in Nat /\ i <= top
      BY <1>1
    <3> QED BY <1>3, <3>1, <3>2
  <2>2. Cardinality(d.queue[n]) \in Nat
    BY <1>1, QueueCount
  <2>3. SumOver(r.total, g .. c) = Cardinality(d.queue[n])
    BY <1>2, <1>8, <2>1, <2>2
  <2>4. r.queue[r.naive] = d.queue[n]
    BY <1>5
  <2> QED BY <2>1, <2>2, <2>3, <2>4 DEF c
<1>12. g # 0
  BY <1>1
<1>13. \A h \in Groups : h < g /\ h # Nil =>
         r.total[h] = Cardinality(r.queue[h]) + (IF h = Nil THEN 1 ELSE 0)
  BY <1>10
<1> QED BY ONLY Zenon, <1>6, <1>9, <1>11, <1>12, <1>13 DEF Counts

(* The last group, and the chain behind it, move down by one.              *)
LEMMA MoveDownIsSound ==
  ASSUME NEW d, NEW J, Placed(d, Nil, Nil, J), Agree(d, Nil, 0), HotIn(d, Nil, Nil, 0),
         d.naive # 1, d.naive = 2 => d.mida,
         NEW g \in Groups, g = d.naive - 1, d.active[g].seg = Nil, d.queue[g] = {}
  PROVE  LET r == MoveDown(d, J)
         IN /\ Sound(r) /\ Held(r, d) /\ r.naive = g /\ r.mida = d.mida /\ r.stop = d.stop
            /\ Counts(d, d.naive, Nil, g) => Counts(r, g, Nil, Nil)
<1> DEFINE n == d.naive
           top == IF d.mida THEN n + NaiveN ELSE n
           Down(f) == [h \in Groups |-> IF h \in g .. top - 1 THEN f[h + 1] ELSE f[h]]
           qu == [h \in Groups |-> IF h = g THEN d.queue[n]
                                   ELSE IF h = n THEN {} ELSE d.queue[h]]
           gn == [s \in SegIds |->
                   IF s \in d.queue[n] \ J \/ \E h \in n .. top : s = d.active[h].seg
                   THEN d.gnum[s] - 1 ELSE d.gnum[s]]
           act == [Down(d.active) EXCEPT ![top] = NotActive]
           tot == [Down(d.total) EXCEPT ![top] = 0]
           r == [d EXCEPT !.naive = g, !.queue = qu, !.gnum = gn, !.total = tot,
                          !.active = act, !.size[g] = @ + d.size[n] + 1]
<1>1. /\ EngineOK(d) /\ Apart(d, Nil, Nil) /\ Blank(d, Nil) /\ Labelled(d, J)
      /\ DOMAIN d = Fields /\ d.queue \in [Groups -> SUBSET SegIds]
      /\ d.gnum \in [SegIds -> Groups \cup {Nil}] /\ d.active \in [Groups -> Open]
  <2>1. EngineOK(d) /\ Apart(d, Nil, Nil) /\ Blank(d, Nil) /\ Labelled(d, J)
    BY DEF Placed
  <2> QED BY <2>1 DEF EngineOK
<1>2. /\ n \in Groups /\ n \in Nat /\ n >= 2 /\ n <= MaxNaive
      /\ g \in Nat /\ g >= 1 /\ g < n /\ g + 1 = n /\ n - 1 = g
  <2>1. n \in Groups /\ n \in Nat /\ n >= 2 /\ n <= MaxNaive
    BY <1>1, GroupsOf
  <2> QED BY <2>1
<1>3. top \in Groups /\ top \in Nat /\ top >= n /\ top <= GroupNum(d)
      /\ (d.mida => GroupNum(d) = n + NaiveN) /\ (~d.mida => GroupNum(d) = n + 1)
      /\ (d.mida => top = n + NaiveN) /\ (~d.mida => top = n)
  BY <1>1, <1>2, Sorts DEF GroupNum, Groups, EngineOK
<1>4. MoveDown(d, J) = r
  <2>1. n - 1 = g
    BY <1>2
  <2> QED BY <2>1 DEF MoveDown
<1> HIDE DEF qu, gn, act, tot, n
<1>5. /\ DOMAIN r = Fields /\ r.page = d.page /\ r.where = d.where /\ r.free = d.free
      /\ r.naive = g /\ r.mida = d.mida /\ r.active = act /\ r.gnum = gn /\ r.queue = qu
      /\ r.total = tot /\ r.hf = d.hf /\ r.hotLbas = d.hotLbas /\ r.vp = d.vp /\ r.refused = d.refused
      /\ r.stop = d.stop
  BY <1>1 DEF Fields
<1> HIDE DEF r
<1>6. \A h \in Groups : r.queue[h] = IF h = g THEN d.queue[n]
                                     ELSE IF h = n THEN {} ELSE d.queue[h]
  BY <1>5 DEF qu
<1>7. \A h \in Groups : h \in Nat /\ (h < g \/ h = g \/ h > g)
  BY <1>2, Sorts
(* Behind the chain there is no active segment.                            *)
<1>8. \A h \in Groups : h > top => d.active[h].seg = Nil
  <2> SUFFICES ASSUME NEW h \in Groups, h > top, d.active[h].seg # Nil PROVE FALSE
    OBVIOUS
  <2>1. h < GroupNum(d)
    BY <1>1 DEF Labelled
  <2> QED BY <1>1, <1>2, <1>3, <1>7, <2>1, Sorts DEF EngineOK
<1>9. d.mida => d.active[top].seg = Nil
  <2> SUFFICES ASSUME d.mida, d.active[top].seg # Nil PROVE FALSE
    OBVIOUS
  <2>1. top < GroupNum(d)
    BY <1>1, <1>3 DEF Labelled
  <2> QED BY <1>3, <2>1
<1> HIDE DEF top
(* What is active now was active before, one group on.                     *)
<1>10. \A h \in Groups : h < g => r.active[h] = d.active[h]
  <2> SUFFICES ASSUME NEW h \in Groups, h < g PROVE r.active[h] = d.active[h]
    OBVIOUS
  <2>1. h \notin g .. top - 1 /\ h # top
    BY <1>2, <1>3, <1>7
  <2> QED BY <1>5, <2>1 DEF act
<1>11. \A h \in Groups : h >= g /\ h < top => h + 1 \in Groups /\ r.active[h] = d.active[h + 1]
  <2> SUFFICES ASSUME NEW h \in Groups, h >= g, h < top
               PROVE  h + 1 \in Groups /\ r.active[h] = d.active[h + 1]
    OBVIOUS
  <2>1. h \in g .. top - 1 /\ h # top /\ h + 1 \in 0 .. top
    BY <1>2, <1>3, <1>7
  <2>2. h + 1 \in Groups
    BY <1>3, <2>1, Sorts DEF Groups
  <2> QED BY <1>5, <2>1, <2>2 DEF act
<1>12. \A h \in Groups : h >= top => r.active[h].seg = Nil
  <2> SUFFICES ASSUME NEW h \in Groups, h >= top PROVE r.active[h].seg = Nil
    OBVIOUS
  <2>1. CASE h = top
    BY <1>3, <1>5, <2>1 DEF act, NotActive
  <2>2. CASE h # top
    <3>1. h \notin g .. top - 1 /\ h > top
      BY <1>2, <1>3, <1>7, <2>2
    <3>2. r.active[h] = d.active[h]
      BY <1>5, <2>2, <3>1 DEF act
    <3> QED BY <1>8, <3>1, <3>2
  <2> QED BY <2>1, <2>2
<1>13. \A h \in Groups : r.active[h].seg # Nil =>
         /\ r.active[h].seg \in SegIds
         /\ \/ h < g /\ r.active[h] = d.active[h]
            \/ h >= g /\ h < top /\ h + 1 \in Groups /\ r.active[h] = d.active[h + 1]
  <2> SUFFICES ASSUME NEW h \in Groups, r.active[h].seg # Nil
               PROVE  /\ r.active[h].seg \in SegIds
                      /\ \/ h < g /\ r.active[h] = d.active[h]
                         \/ h >= g /\ h < top /\ h + 1 \in Groups /\ r.active[h] = d.active[h + 1]
    OBVIOUS
  <2>1. CASE h < g
    <3>1. r.active[h] = d.active[h]
      BY <1>10, <2>1
    <3> QED BY <1>1, <2>1, <3>1 DEF Open
  <2>2. CASE ~(h < g)
    <3>1. h >= g /\ h < top
      BY <1>2, <1>3, <1>7, <1>12, <2>2
    <3>2. h + 1 \in Groups /\ r.active[h] = d.active[h + 1]
      BY <1>11, <3>1
    <3> QED BY <1>1, <3>1, <3>2 DEF Open
  <2> QED BY <2>1, <2>2
<1>14. \A k \in Groups : d.active[k].seg # Nil =>
         \E h \in Groups : r.active[h] = d.active[k]
  <2> SUFFICES ASSUME NEW k \in Groups, d.active[k].seg # Nil
               PROVE  \E h \in Groups : r.active[h] = d.active[k]
    OBVIOUS
  <2>1. k # g
    OBVIOUS
  <2>2. CASE k < g
    BY <1>10, <2>2
  <2>3. CASE k > g
    <3>1. ~(k > top)
      BY <1>8
    <3>2. k - 1 \in Nat /\ k - 1 >= g /\ k - 1 < top /\ (k - 1) + 1 = k /\ k - 1 <= MaxNaive + NaiveN
      BY <1>2, <1>3, <1>7, <2>3, <3>1, Sorts DEF Groups
    <3>3. k - 1 \in Groups
      BY <3>2, Sorts DEF Groups
    <3> QED BY <1>11, <3>2, <3>3
  <2> QED BY <1>7, <2>1, <2>2, <2>3
(* The labels follow.                                                      *)
<1>15. /\ GroupNum(d) \in Nat /\ GroupNum(d) > n /\ GroupNum(r) = GroupNum(d) - 1
       /\ Chain(d) = n .. GroupNum(d) - 1
       /\ \A k \in Nat : k >= g /\ k < GroupNum(r) => k \in Chain(r)
  <2>1. GroupNum(d) \in Nat /\ GroupNum(d) > n /\ GroupNum(r) = GroupNum(d) - 1
    <3>1. (d.mida => GroupNum(r) = g + NaiveN) /\ (~d.mida => GroupNum(r) = g + 1)
      BY <1>5 DEF GroupNum
    <3>2. d.mida \in BOOLEAN
      BY <1>1 DEF EngineOK
    <3> QED BY <1>2, <1>3, <3>1, <3>2, Sorts
  <2>2. Chain(d) = n .. GroupNum(d) - 1
    BY <1>2 DEF Chain, n
  <2>3. Chain(r) = (IF g = 1 /\ d.mida THEN 0 ELSE g) .. GroupNum(r) - 1
    BY <1>5 DEF Chain
  <2>4. \A k \in Nat : k >= g /\ k < GroupNum(r) => k \in Chain(r)
    BY <1>2, <2>1, <2>3
  <2> QED BY <2>1, <2>2, <2>4
<1>16. \A s \in d.queue[n] \ J : /\ s \in SegIds
                                 /\ d.gnum[s] \in Nat /\ d.gnum[s] >= n /\ d.gnum[s] < GroupNum(d)
                                 /\ r.gnum[s] = d.gnum[s] - 1
  <2> SUFFICES ASSUME NEW s \in d.queue[n] \ J
               PROVE  /\ s \in SegIds
                      /\ d.gnum[s] \in Nat /\ d.gnum[s] >= n /\ d.gnum[s] < GroupNum(d)
                      /\ r.gnum[s] = d.gnum[s] - 1
    OBVIOUS
  <2>1. s \in SegIds
    BY <1>1, <1>2
  <2>2. d.gnum[s] \in Chain(d)
    BY <1>1, <1>2 DEF Labelled, n
  <2>3. r.gnum[s] = d.gnum[s] - 1
    BY <1>5, <2>1 DEF gn
  <2> DEFINE k == d.gnum[s]
  <2> HIDE DEF k
  <2>4. k \in n .. GroupNum(d) - 1
    BY <1>15, <2>2 DEF k
  <2>5. k \in Nat /\ k >= n /\ k < GroupNum(d)
    BY <1>2, <1>15, <2>4
  <2> QED BY <2>1, <2>3, <2>5 DEF k
<1>17. \A h \in Groups : h >= n /\ d.active[h].seg # Nil =>
         r.gnum[d.active[h].seg] = h - 1 /\ h < GroupNum(d)
  <2> SUFFICES ASSUME NEW h \in Groups, h >= n, d.active[h].seg # Nil
               PROVE  r.gnum[d.active[h].seg] = h - 1 /\ h < GroupNum(d)
    OBVIOUS
  <2>1. d.active[h].seg \in SegIds /\ d.gnum[d.active[h].seg] = h /\ h < GroupNum(d)
    BY <1>1 DEF Labelled, Open
  <2>2. h \in n .. top
    BY <1>2, <1>3, <1>7, <1>8
  <2> QED BY <1>5, <2>1, <2>2 DEF gn
<1>18. \A s \in SegIds : /\ s \notin d.queue[n] \ J
                         /\ \A h \in Groups : h >= n => s # d.active[h].seg
                         => r.gnum[s] = d.gnum[s]
  <2> SUFFICES ASSUME NEW s \in SegIds, s \notin d.queue[n] \ J,
                      \A h \in Groups : h >= n => s # d.active[h].seg
               PROVE  r.gnum[s] = d.gnum[s]
    OBVIOUS
  <2>1. \A h \in n .. top : h \in Groups /\ h >= n
    BY <1>2, <1>3, Sorts DEF Groups
  <2> QED BY <1>5, <2>1 DEF gn
<1>19. \A s \in SegIds : \/ s \in d.queue[n] \ J
                         \/ \E h \in Groups : h >= n /\ s = d.active[h].seg
                         \/ r.gnum[s] = d.gnum[s]
  BY <1>18
<1>20. EngineOK(r)
  <2>1. r.gnum \in [SegIds -> Groups \cup {Nil}]
    <3>1. \A s \in SegIds : r.gnum[s] \in Groups \cup {Nil}
      <4> TAKE s \in SegIds
      <4>1. CASE s \in d.queue[n] \ J
        <5> DEFINE k == d.gnum[s]
        <5>1. k \in Nat /\ k >= n /\ k < GroupNum(d) /\ r.gnum[s] = k - 1
          BY <1>16, <4>1
        <5> HIDE DEF k
        <5>2. k - 1 \in Nat /\ k - 1 < GroupNum(d)
          BY <1>2, <1>15, <5>1
        <5> QED BY <1>1, <5>1, <5>2, GroupsOf
      <4>2. ASSUME NEW h \in Groups, h >= n, s = d.active[h].seg
            PROVE  r.gnum[s] \in Groups
        <5>1. r.gnum[s] = h - 1 /\ h < GroupNum(d)
          BY <1>17, <4>2, Sorts
        <5>2. h - 1 \in Nat /\ h - 1 < GroupNum(d)
          BY <1>2, <1>7, <1>15, <4>2, <5>1
        <5> QED BY <1>1, <5>1, <5>2, GroupsOf
      <4>3. CASE r.gnum[s] = d.gnum[s]
        BY <1>1, <4>3
      <4> QED BY <1>19, <4>1, <4>2, <4>3
    <3>2. r.gnum = [s \in SegIds |-> r.gnum[s]]
      BY <1>5 DEF gn
    <3> HIDE DEF gn
    <3> QED BY <3>1, <3>2
  <2>2. r.active \in [Groups -> Open]
    <3>1. NotActive \in Open
      BY Sorts DEF NotActive, Open
    <3>2. \A h \in Groups : h \in g .. top - 1 => h + 1 \in Groups
      BY <1>2, <1>3, <1>11
    <3>3. Down(d.active) \in [Groups -> Open]
      BY <1>1, <3>2
    <3> QED BY Zenon, <1>5, <3>1, <3>3 DEF act
  <2>3. r.queue \in [Groups -> SUBSET SegIds]
    BY <1>1, <1>2, <1>5 DEF qu
  <2>4. r.naive \in 1 .. MaxNaive
    BY <1>2, <1>5, Sorts
  <2> QED BY <1>1, <1>5, <2>1, <2>2, <2>3, <2>4 DEF EngineOK
<1>21. Apart(r, Nil, Nil)
  <2>1. \A q, p \in Groups : q # p => r.queue[q] \cap r.queue[p] = {}
    <3>1. \A q, p \in Groups : q # p => d.queue[q] \cap d.queue[p] = {}
      BY <1>1 DEF Apart
    <3> SUFFICES ASSUME NEW q \in Groups, NEW p \in Groups, q # p
                 PROVE  r.queue[q] \cap r.queue[p] = {}
      OBVIOUS
    <3> QED BY <1>2, <1>6, <3>1
  <2>2. \A q \in Groups : r.queue[q] \cap r.free = {}
    BY <1>1, <1>2, <1>5, <1>6 DEF Apart
  <2>3. \A h \in Groups : r.active[h].seg \notin r.free
    <3>1. Nil \notin d.free
      BY <1>1, Sorts DEF EngineOK
    <3> QED BY <1>1, <1>5, <1>13, <3>1 DEF Apart
  <2>4. \A h, q \in Groups : r.active[h].seg \notin r.queue[q]
    <3>1. \A h, q \in Groups : d.active[h].seg \notin d.queue[q] /\ Nil \notin d.queue[q]
      BY <1>1, Sorts DEF Apart
    <3>2. \A h, q \in Groups : r.active[h].seg \notin d.queue[q]
      BY <1>13, <3>1
    <3> QED BY <1>2, <1>6, <3>2
  <2>5. \A h, k \in Groups : r.active[h].seg = r.active[k].seg /\ r.active[h].seg # Nil => h = k
    <3> SUFFICES ASSUME NEW h \in Groups, NEW k \in Groups,
                        r.active[h].seg = r.active[k].seg, r.active[h].seg # Nil
                 PROVE  h = k
      OBVIOUS
    <3>1. \A i, j \in Groups : d.active[i].seg = d.active[j].seg /\ d.active[i].seg # Nil => i = j
      BY <1>1 DEF Apart
    <3>2. CASE h < g /\ r.active[h] = d.active[h]
      <4>1. CASE k < g /\ r.active[k] = d.active[k]
        BY <3>1, <3>2, <4>1
      <4>2. CASE k >= g /\ k < top /\ k + 1 \in Groups /\ r.active[k] = d.active[k + 1]
        <5>1. h = k + 1
          BY <3>1, <3>2, <4>2
        <5> QED BY <1>2, <1>7, <3>2, <4>2, <5>1
      <4> QED BY <1>13, <4>1, <4>2
    <3>3. CASE h >= g /\ h < top /\ h + 1 \in Groups /\ r.active[h] = d.active[h + 1]
      <4>1. CASE k < g /\ r.active[k] = d.active[k]
        <5>1. k = h + 1
          BY <3>1, <3>3, <4>1
        <5> QED BY <1>2, <1>7, <3>3, <4>1, <5>1
      <4>2. CASE k >= g /\ k < top /\ k + 1 \in Groups /\ r.active[k] = d.active[k + 1]
        <5>1. h + 1 = k + 1
          BY <3>1, <3>3, <4>2
        <5> QED BY <1>7, <5>1
      <4> QED BY <1>13, <4>1, <4>2
    <3> QED BY <1>13, <3>2, <3>3
  <2>6. \A s \in SegIds : \/ s \in r.free
                          \/ \E q \in Groups : s \in r.queue[q]
                          \/ \E h \in Groups : r.active[h].seg = s
    <3> TAKE s \in SegIds
    <3>1. \/ s \in d.free
          \/ \E q \in Groups : s \in d.queue[q]
          \/ \E h \in Groups : d.active[h].seg = s
      BY <1>1, Sorts DEF Apart
    <3>2. ASSUME NEW q \in Groups, s \in d.queue[q] PROVE \E p \in Groups : s \in r.queue[p]
      <4>1. q # g
        BY <3>2
      <4>2. CASE q = n
        BY <1>6, <3>2, <4>2
      <4>3. CASE q # n
        BY <1>6, <3>2, <4>1, <4>3
      <4> QED BY <4>2, <4>3
    <3>3. ASSUME NEW h \in Groups, d.active[h].seg = s PROVE \E k \in Groups : r.active[k].seg = s
      BY <1>14, <3>3, Sorts
    <3> QED BY <1>5, <3>1, <3>2, <3>3
  <2> QED BY <2>1, <2>2, <2>3, <2>4, <2>5, <2>6, Sorts DEF Apart
<1>22. Blank(r, Nil)
  <2>1. \A h \in Groups : r.active[h].seg # Nil => \E k \in Groups : r.active[h] = d.active[k]
    BY <1>13
  <2> QED BY <1>1, <1>5, <2>1, Sorts DEF Blank
<1>23. Labelled(r, {})
  <2>1. \A h \in Groups : r.active[h].seg # Nil =>
          r.gnum[r.active[h].seg] = h /\ h < GroupNum(r)
    <3> SUFFICES ASSUME NEW h \in Groups, r.active[h].seg # Nil
                 PROVE  r.gnum[r.active[h].seg] = h /\ h < GroupNum(r)
      OBVIOUS
    <3>1. CASE h < g /\ r.active[h] = d.active[h]
      <4> DEFINE b == d.active[h].seg
      <4>1. b \in SegIds /\ b # Nil /\ d.gnum[b] = h
        BY <1>1, <3>1 DEF Labelled, Open
      <4>2. b \notin d.queue[n] /\ \A k \in Groups : k >= n => b # d.active[k].seg
        <5>1. \A k \in Groups : b = d.active[k].seg => k = h
          BY <1>1, <4>1 DEF Apart
        <5>2. ~(h >= n)
          BY <1>2, <1>7, <3>1
        <5> QED BY <1>1, <1>2, <5>1, <5>2 DEF Apart
      <4>3. r.gnum[b] = h
        <5> HIDE DEF b
        <5> QED BY <1>18, <4>1, <4>2
      <4>4. h < GroupNum(r)
        BY <1>2, <1>7, <1>15, <3>1
      <4> QED BY <3>1, <4>3, <4>4
    <3>2. CASE h >= g /\ h < top /\ h + 1 \in Groups /\ r.active[h] = d.active[h + 1]
      <4>1. h + 1 >= n /\ (h + 1) - 1 = h
        BY <1>2, <1>7, <3>2
      <4>2. d.active[h + 1].seg # Nil
        BY <3>2
      <4>3. r.gnum[d.active[h + 1].seg] = h /\ h + 1 < GroupNum(d)
        BY <1>17, <3>2, <4>1, <4>2
      <4>4. h < GroupNum(r)
        BY <1>7, <1>15, <4>3
      <4> QED BY <3>2, <4>3, <4>4
    <3> QED BY <1>13, <3>1, <3>2
  <2>2. \A q \in Groups : \A s \in r.queue[q] :
          IF q < g THEN r.gnum[s] = q ELSE q = g /\ r.gnum[s] \in Chain(r)
    <3> TAKE q \in Groups
    <3> TAKE s \in r.queue[q]
    <3>1. CASE q = g
      <4>1. s \in d.queue[n] /\ s \in SegIds
        BY <1>1, <1>2, <1>6, <3>1
      <4>2. CASE s \in J
        <5>1. d.gnum[s] = g
          BY <1>1, <1>2, <4>1, <4>2 DEF Labelled, n
        <5>2. \A h \in Groups : s # d.active[h].seg
          BY <1>1, <1>2, <4>1 DEF Apart
        <5>3. r.gnum[s] = g
          BY <1>18, <4>1, <4>2, <5>1, <5>2
        <5>4. g \in Chain(r)
          BY <1>2, <1>15
        <5> QED BY <1>2, <3>1, <5>3, <5>4
      <4>3. CASE s \notin J
        <5> DEFINE k == d.gnum[s]
        <5>1. k \in Nat /\ k >= n /\ k < GroupNum(d) /\ r.gnum[s] = k - 1
          BY <1>16, <4>1, <4>3
        <5> HIDE DEF k
        <5>2. k - 1 \in Nat /\ k - 1 >= g /\ k - 1 < GroupNum(r)
          BY <1>2, <1>15, <5>1
        <5>3. r.gnum[s] \in Chain(r)
          BY <1>15, <5>1, <5>2
        <5> QED BY <1>2, <3>1, <5>3
      <4> QED BY <4>2, <4>3
    <3>2. CASE q # g
      <4>1. q # n /\ s \in d.queue[q] /\ s \in SegIds
        BY <1>1, <1>2, <1>6, <3>2
      <4>2. q < n /\ d.gnum[s] = q
        BY <1>1, <4>1 DEF Labelled, n
      <4>3. q < g
        BY <1>2, <1>7, <3>2, <4>2
      <4>4. s \notin d.queue[n] /\ \A h \in Groups : s # d.active[h].seg
        BY <1>1, <1>2, <4>1 DEF Apart
      <4>5. r.gnum[s] = q
        BY <1>18, <4>1, <4>2, <4>4
      <4> QED BY <4>3, <4>5
    <3> QED BY <3>1, <3>2
  <2>3. r.active[g].seg # Nil
    <3>1. g >= g /\ g < top
      BY <1>2, <1>3
    <3>2. r.active[g] = d.active[n]
      BY <1>2, <1>11, <3>1
    <3> QED BY <1>1, <3>2 DEF Labelled, n
  <2> QED BY <1>5, <2>1, <2>2, <2>3 DEF Labelled
<1>24. Rearranged(r, d)
  <2>1. \A s \in SegIds : r.gnum[s] = 0 => d.gnum[s] = 0
    <3> TAKE s \in SegIds
    <3>1. CASE s \in d.queue[n] \ J
      <4> DEFINE k == d.gnum[s]
      <4>1. k \in Nat /\ k >= n /\ r.gnum[s] = k - 1
        BY <1>16, <3>1
      <4> HIDE DEF k
      <4>2. k - 1 # 0
        BY <1>2, <4>1
      <4> QED BY <4>1, <4>2
    <3>2. ASSUME NEW h \in Groups, h >= n, s = d.active[h].seg
          PROVE  r.gnum[s] # 0
      <4>1. r.gnum[s] = h - 1
        BY <1>17, <3>2, Sorts
      <4> QED BY <1>2, <1>7, <3>2, <4>1
    <3> QED BY <1>19, <3>1, <3>2
  <2> QED BY <1>5, <2>1 DEF Rearranged
<1>25. Placed(r, Nil, Nil, {})
  BY <1>20, <1>21, <1>22, <1>23 DEF Placed
<1>26. Sound(r) /\ Held(r, d) /\ r.stop = d.stop
  BY <1>24, <1>25, RearrangedIsSound
<1>27. Counts(d, n, Nil, g) => Counts(r, g, Nil, Nil)
  <2> SUFFICES ASSUME Counts(d, n, Nil, g) PROVE Counts(r, g, Nil, Nil)
    OBVIOUS
  <2>1. EngineOK(d) /\ g = d.naive - 1 /\ d.naive # 1 /\ Counts(d, d.naive, Nil, g)
    BY <1>1 DEF n
  <2>2. CountedDown(r, d, g, top)
    <3>1. /\ r.naive = g /\ r.mida = d.mida
          /\ r.queue = [h \in Groups |-> IF h = g THEN d.queue[d.naive]
                                         ELSE IF h = d.naive THEN {} ELSE d.queue[h]]
      BY <1>5 DEF qu, n
    <3>2. /\ top = IF d.mida THEN d.naive + NaiveN ELSE d.naive
          /\ r.total = [[h \in Groups |-> IF h \in g .. top - 1 THEN d.total[h + 1]
                                          ELSE d.total[h]] EXCEPT ![top] = 0]
      BY <1>5 DEF top, tot, n
    <3> QED BY Zenon, <3>1, <3>2 DEF CountedDown
  <2> QED BY ONLY <2>1, <2>2, g \in Groups, DownCounts
<1> QED BY <1>4, <1>5, <1>26, <1>27 DEF n

(* Back at one group, the hot segments share its queue.                    *)
LEMMA HotMergeIsSound ==
  ASSUME NEW d, Sound(d), d.naive = 1, d.mida
  PROVE  LET r == HotMerge(d)
         IN /\ Sound(r) /\ Held(r, d) /\ r.naive = 1 /\ r.mida = d.mida
            /\ Counts(d, 1, Nil, Nil) => Balanced(r)
<1> DEFINE r == HotMerge(d)
<1>1. /\ EngineOK(d) /\ Apart(d, Nil, Nil) /\ Blank(d, Nil) /\ Labelled(d, {})
      /\ DOMAIN d = Fields /\ d.queue \in [Groups -> SUBSET SegIds]
      /\ Agree(d, Nil, 0) /\ HotIn(d, Nil, Nil, 0)
  <2>1. EngineOK(d) /\ Apart(d, Nil, Nil) /\ Blank(d, Nil) /\ Labelled(d, {})
    BY DEF Sound, Placed
  <2> QED BY <2>1 DEF EngineOK, Sound
<1>2. /\ DOMAIN r = Fields /\ r.page = d.page /\ r.where = d.where /\ r.free = d.free
      /\ r.naive = 1 /\ r.mida = d.mida /\ r.active = d.active /\ r.gnum = d.gnum
      /\ r.hf = d.hf /\ r.hotLbas = d.hotLbas /\ r.vp = d.vp /\ r.refused = d.refused
      /\ r.stop = d.stop
      /\ r.total = d.total
      /\ r.queue = [d.queue EXCEPT ![1] = @ \cup d.queue[0], ![0] = {}]
  BY Zenon, <1>1 DEF HotMerge, Fields
<1> HIDE DEF r
<1>3. \A q \in Groups : r.queue[q] = IF q = 1 THEN d.queue[1] \cup d.queue[0]
                                     ELSE IF q = 0 THEN {} ELSE d.queue[q]
  <2>1. 0 \in Groups /\ 1 \in Groups
    BY Sorts
  <2> QED BY <1>1, <1>2, <2>1
<1>4. 0 \in Groups /\ 1 \in Groups
  BY Sorts
<1>5. EngineOK(r)
  <2>1. r.queue \in [Groups -> SUBSET SegIds]
    BY <1>1, <1>2, <1>4
  <2> QED BY <1>1, <1>2, <2>1 DEF EngineOK
<1>6. Apart(r, Nil, Nil)
  <2>1. \A q, p \in Groups : q # p => r.queue[q] \cap r.queue[p] = {}
    <3>1. \A q, p \in Groups : q # p => d.queue[q] \cap d.queue[p] = {}
      BY <1>1 DEF Apart
    <3> SUFFICES ASSUME NEW q \in Groups, NEW p \in Groups, q # p
                 PROVE  r.queue[q] \cap r.queue[p] = {}
      OBVIOUS
    <3> QED BY <1>3, <1>4, <3>1
  <2>2. \A q \in Groups : r.queue[q] \cap r.free = {}
    BY <1>1, <1>2, <1>3, <1>4 DEF Apart
  <2>3. \A h, q \in Groups : r.active[h].seg \notin r.queue[q]
    <3>1. \A h, q \in Groups : d.active[h].seg \notin d.queue[q]
      BY <1>1 DEF Apart
    <3>2. \A q \in Groups : r.queue[q] \subseteq d.queue[q] \cup d.queue[0]
      BY <1>3
    <3> QED BY <1>2, <1>4, <3>1, <3>2
  <2>4. \A s \in SegIds, q \in Groups : s \in d.queue[q] => \E p \in Groups : s \in r.queue[p]
    BY <1>3, <1>4
  <2>5. \A s \in SegIds : \/ s \in r.free
                          \/ \E q \in Groups : s \in r.queue[q]
                          \/ \E h \in Groups : r.active[h].seg = s
    <3>1. \A s \in SegIds : \/ s \in d.free
                            \/ \E q \in Groups : s \in d.queue[q]
                            \/ \E h \in Groups : d.active[h].seg = s
      BY <1>1, Sorts DEF Apart
    <3> QED BY Zenon, <1>2, <2>4, <3>1
  <2>6. \A h \in Groups : r.active[h].seg \notin r.free
    BY <1>1, <1>2 DEF Apart
  <2>7. \A h, k \in Groups : r.active[h].seg = r.active[k].seg /\ r.active[h].seg # Nil => h = k
    BY <1>1, <1>2 DEF Apart
  <2> QED BY <2>1, <2>2, <2>3, <2>5, <2>6, <2>7, Sorts DEF Apart
<1>7. Blank(r, Nil)
  BY <1>1, <1>2 DEF Blank
<1>8. Labelled(r, {})
  <2>1. GroupNum(r) = GroupNum(d) /\ Chain(r) = Chain(d)
    BY <1>2 DEF GroupNum, Chain
  <2>2. Chain(d) = 0 .. GroupNum(d) - 1 /\ 0 \in Chain(d)
    <3>1. Chain(d) = 0 .. GroupNum(d) - 1
      BY DEF Chain
    <3>2. GroupNum(d) \in Nat /\ GroupNum(d) > 1
      BY <1>1, GroupsOf
    <3> QED BY <3>1, <3>2
  <2>3. \A q \in Groups : \A s \in r.queue[q] :
          IF q < 1 THEN r.gnum[s] = q ELSE q = 1 /\ r.gnum[s] \in Chain(r)
    <3> TAKE q \in Groups
    <3> TAKE s \in r.queue[q]
    <3>1. CASE q = 1
      <4>1. s \in d.queue[1] \/ s \in d.queue[0]
        BY <1>3, <3>1
      <4>2. s \in d.queue[1] => d.gnum[s] \in Chain(d)
        BY <1>1, <1>4 DEF Labelled
      <4>3. s \in d.queue[0] => d.gnum[s] = 0
        BY <1>1, <1>4 DEF Labelled
      <4> QED BY <1>2, <2>1, <2>2, <3>1, <4>1, <4>2, <4>3
    <3>2. CASE q # 1
      <4>1. q # 0 /\ s \in d.queue[q]
        BY <1>3, <3>2
      <4>2. IF q < 1 THEN d.gnum[s] = q ELSE q = 1
        BY <1>1, <4>1 DEF Labelled
      <4> QED BY <1>2, <3>2, <4>2
    <3> QED BY <3>1, <3>2
  <2>4. /\ \A h \in Groups : r.active[h].seg # Nil =>
            r.gnum[r.active[h].seg] = h /\ h < GroupNum(r)
        /\ r.active[1].seg # Nil
    BY <1>1, <1>2, <2>1 DEF Labelled
  <2> QED BY Zenon, <1>2, <2>3, <2>4 DEF Labelled
<1>9. Placed(r, Nil, Nil, {})
  BY <1>5, <1>6, <1>7, <1>8 DEF Placed
<1>10. Rearranged(r, d)
  BY <1>2 DEF Rearranged
<1>11. Counts(d, 1, Nil, Nil) => Balanced(r)
  <2> SUFFICES ASSUME Counts(d, 1, Nil, Nil) PROVE Balanced(r)
    OBVIOUS
  <2> DEFINE top == GroupNum(d) - 1
             f == d.total
  <2>1. /\ top \in Nat /\ top >= 1 /\ GroupNum(r) = GroupNum(d) /\ First(r) = 0
        /\ \A h \in Nat : h <= top => h \in Groups
        /\ Nil \notin Groups /\ \A h \in Groups : h \in Nat /\ 0 \in Nat /\ 1 \in Nat
    <3>1. GroupNum(d) \in Nat /\ GroupNum(d) > 1 /\ \A h \in Nat : h < GroupNum(d) => h \in Groups
      BY <1>1, GroupsOf
    <3>2. GroupNum(r) = GroupNum(d) /\ First(r) = 0
      BY <1>2 DEF GroupNum, First
    <3> QED BY <3>1, <3>2, Sorts
  <2>2. /\ f \in [Groups -> Int]
        /\ SumOver(f, 1 .. top) = Cardinality(d.queue[1]) + (IF Nil \in 1 .. top THEN 1 ELSE 0)
        /\ \A h \in Groups : h < 1 /\ h # Nil =>
             f[h] = Cardinality(d.queue[h]) + (IF h = Nil THEN 1 ELSE 0)
        /\ \A h \in Groups : h >= GroupNum(d) => f[h] = 0
    BY DEF Counts
  <2>3. /\ IsFiniteSet(d.queue[0]) /\ Cardinality(d.queue[0]) \in Nat
        /\ IsFiniteSet(d.queue[1]) /\ Cardinality(d.queue[1]) \in Nat
        /\ d.queue[1] \cap d.queue[0] = {}
    BY <1>1, <1>4, QueueCount DEF Apart
  <2>4. f[0] = Cardinality(d.queue[0]) /\ f[0] \in Int
    <3>1. 0 < 1 /\ 0 # Nil
      BY <1>4, <2>1
    <3> QED BY <1>4, <2>2, <2>3, <3>1
  <2> HIDE DEF top, f
  <2>5. /\ Nil \notin 1 .. top /\ Nil \notin 0 .. top
        /\ \A h \in 0 .. top : h \in Groups
    BY <2>1
  <2>6. SumOver(f, 0 .. top) = SumOver(f, 0 + 1 .. top) + f[0]
    <3>1. Ints(f, 0 .. top) /\ 0 \in Nat /\ top \in Nat /\ 0 <= top
      BY <2>1, <2>2, <2>5 DEF Ints
    <3> QED BY ONLY <3>1, SumOfInterval
  <2>7. Cardinality(r.queue[1]) = Cardinality(d.queue[1]) + Cardinality(d.queue[0])
    <3> DEFINE A == d.queue[1]
               B == d.queue[0]
    <3>1. IsFiniteSet(A) /\ IsFiniteSet(B) /\ A \cap B = {} /\ r.queue[1] = A \cup B
      BY <1>3, <1>4, <2>3
    <3> HIDE DEF A, B
    <3>2. Cardinality(A \cup B) = Cardinality(A) + Cardinality(B)
      BY <3>1, DisjointCount
    <3> QED BY <3>1, <3>2 DEF A, B
  <2>8. SumOver(f, 0 .. top) = Cardinality(r.queue[1])
    <3>1. 0 + 1 = 1
      OBVIOUS
    <3>2. SumOver(f, 1 .. top) = Cardinality(d.queue[1])
      BY <2>2, <2>3, <2>5
    <3> QED BY <2>3, <2>4, <2>6, <2>7, <3>1, <3>2
  <2>9. /\ r.total \in [Groups -> Int]
        /\ SumOver(r.total, 0 .. GroupNum(r) - 1) =
             Cardinality(r.queue[r.naive]) + (IF Nil \in 0 .. GroupNum(r) - 1 THEN 1 ELSE 0)
        /\ \A h \in Groups : h >= GroupNum(r) => r.total[h] = 0
        /\ r.queue[0] = {}
    <3>1. GroupNum(r) - 1 = top /\ r.total = f /\ r.naive = 1
      BY <1>2, <2>1 DEF top, f
    <3>2. Cardinality(r.queue[1]) \in Nat
      BY <2>3, <2>7
    <3> QED BY <1>3, <1>4, <2>1, <2>2, <2>5, <2>8, <3>1, <3>2
  <2>10. \A h \in Groups : ~(h < 0)
    BY <2>1
  <2> QED BY Zenon, <2>1, <2>9, <2>10 DEF Balanced, Counts
<1> QED BY <1>1, <1>2, <1>9, <1>10, <1>11, RearrangedIsSound DEF r

(* One merge.  Two groups are merged only while the chain is on.           *)
MergedDown(r, d) ==
  /\ Sound(r) /\ ChainOn(r) /\ Kept(r, d) /\ r.naive = d.naive - 1 /\ r.mida = d.mida

LEMMA MergeGroupIsSound ==
  ASSUME NEW d, Sound(d), ChainOn(d), d.naive = 2 => d.mida
  PROVE  Stopped(MergeGroup(d)) \/ MergedDown(MergeGroup(d), d)
<1> DEFINE n == d.naive
           g == d.naive - 1
           joined == Join(d)
           down == MoveDown(joined, d.queue[g])
<1>1. EngineOK(d) /\ DOMAIN d = Fields
  BY DEF Sound, Placed, EngineOK
<1>2. MergeGroup(d) = IF g = 0 \/ d.total[g] # Cardinality(d.queue[g]) THEN Stop(d, "merge")
                      ELSE IF Stopped(joined) THEN joined
                      ELSE IF g > 1 THEN down ELSE HotMerge(down)
  BY DEF MergeGroup
<1>3. CASE g = 0 \/ d.total[g] # Cardinality(d.queue[g])
  <2>1. MergeGroup(d) = Stop(d, "merge")
    BY <1>2, <1>3
  <2> QED BY Zenon, <1>1, <2>1, StopStops DEF Reasons
<1>4. CASE ~(g = 0 \/ d.total[g] # Cardinality(d.queue[g])) /\ Stopped(joined)
  BY <1>2, <1>4
<1>5. CASE ~(g = 0 \/ d.total[g] # Cardinality(d.queue[g])) /\ ~Stopped(joined)
  <2>1. d.naive # 1 /\ d.naive \in Nat
    BY <1>1, <1>5, GroupsOf
  <2>2. g \in Groups /\ g >= 1 /\ Joined(joined, d, g)
    BY <1>5, <2>1, JoinIsSound
  <2> HIDE DEF joined
  <2>3. /\ Placed(joined, Nil, Nil, d.queue[g]) /\ Agree(joined, Nil, 0)
        /\ HotIn(joined, Nil, Nil, 0) /\ Held(joined, d)
        /\ joined.naive = d.naive /\ joined.mida = d.mida
        /\ joined.active[g].seg = Nil /\ joined.queue[g] = {}
        /\ Balanced(d) => Counts(joined, joined.naive, Nil, g)
    BY <2>2 DEF Joined
  <2>4. g = joined.naive - 1
    BY <2>3
  <2> HIDE DEF g
  <2>5. /\ Sound(down) /\ Held(down, joined) /\ down.naive = g /\ down.mida = joined.mida
        /\ down.stop = joined.stop
        /\ Counts(joined, joined.naive, Nil, g) => Counts(down, g, Nil, Nil)
    BY <2>1, <2>2, <2>3, <2>4, MoveDownIsSound
  <2> HIDE DEF down
  <2>6. Held(down, d)
    BY <2>3, <2>5 DEF Held
  <2>7. CASE g > 1
    <3>1. ChainOn(down)
      BY <2>1, <2>5, <2>7 DEF ChainOn, g
    <3>2. Kept(down, d)
      <4>1. First(down) = g
        BY <2>1, <2>2, <2>5, <2>7 DEF First
      <4> QED BY <2>3, <2>5, <2>6, <4>1 DEF Kept, Balanced
    <3> QED BY <1>2, <1>5, <2>3, <2>5, <2>7, <3>1, <3>2 DEF MergedDown, g
  <2>8. CASE ~(g > 1)
    <3>1. g = 1 /\ d.naive = 2
      BY <2>1, <2>2, <2>8 DEF g
    <3>2. d.mida /\ down.mida
      BY <2>3, <2>5, <3>1
    <3> DEFINE r == HotMerge(down)
    <3>3. /\ Sound(r) /\ Held(r, down) /\ r.naive = 1 /\ r.mida = down.mida
          /\ Counts(down, 1, Nil, Nil) => Balanced(r)
      BY Zenon, <2>5, <3>1, <3>2, HotMergeIsSound
    <3>4. MergeGroup(d) = r
      BY <1>2, <1>5, <2>8
    <3> HIDE DEF r
    <3>5. Kept(r, d)
      <4>1. Held(r, d)
        BY <2>6, <3>3 DEF Held
      <4>2. Balanced(d) => Balanced(r)
        BY Zenon, <2>3, <2>5, <3>1, <3>3
      <4> QED BY <4>1, <4>2 DEF Kept
    <3>6. r.mida = d.mida /\ r.naive = d.naive - 1
      BY <2>3, <2>5, <3>1, <3>3
    <3>7. MergedDown(r, d)
      BY Zenon, <3>2, <3>3, <3>5, <3>6 DEF MergedDown, ChainOn
    <3> QED BY <3>4, <3>7
  <2> QED BY <2>7, <2>8
<1> QED BY <1>3, <1>4, <1>5

DownTo(r, d, n) ==
  /\ Sound(r) /\ ChainOn(r) /\ Kept(r, d) /\ r.naive = n /\ r.mida = d.mida

MergeTurn(x) == IF Stopped(x) THEN x ELSE MergeGroup(x)

MergeTurns(f, d, k) == f = [i \in 0 .. k |-> IF i = 0 THEN d ELSE MergeTurn(f[i - 1])]

(* The merges, as the function the model writes them as.                   *)
LEMMA MergesUnfold ==
  ASSUME NEW d, NEW n, d.naive - n \in Nat
  PROVE  \E f : MergeTurns(f, d, d.naive - n) /\ MergeDownTo(d, n) = f[d.naive - n]
<1> DEFINE k == d.naive - n
           Turn(x) == IF Stopped(x) THEN x ELSE MergeGroup(x)
           Is(f, m) == f = [i \in 0 .. m |-> IF i = 0 THEN d ELSE Turn(f[i - 1])]
<1>1. k \in Nat
  OBVIOUS
<1> HIDE DEF k
<1>2. \A m \in Nat : \E f : Is(f, m)
  <2> DEFINE T == {m \in Nat : \E f : Is(f, m)}
  <2> HIDE DEF Turn
  <2>1. 0 \in T
    <3>1. \A i \in 0 .. 0 : i = 0
      OBVIOUS
    <3>2. Is([i \in 0 .. 0 |-> d], 0)
      BY <3>1
    <3>3. \E f : Is(f, 0)
      <4> HIDE DEF Is
      <4> QED BY <3>2
    <3> QED BY <3>3
  <2>2. \A m \in T : m + 1 \in T
    <3> TAKE m \in T
    <3>1. m \in Nat /\ \A i \in 0 .. m + 1 : i # 0 => i - 1 \in 0 .. m
      OBVIOUS
    <3>2. PICK f : Is(f, m)
      OBVIOUS
    <3> DEFINE f1 == [i \in 0 .. m + 1 |-> IF i = 0 THEN d ELSE Turn(f[i - 1])]
    <3>3. \A i \in 0 .. m : f1[i] = f[i]
      BY <3>1, <3>2
    <3>4. Is(f1, m + 1)
      BY Zenon, <3>1, <3>3
    <3>5. \E x : Is(x, m + 1)
      <4> HIDE DEF Is, f1
      <4> QED BY <3>4
    <3> HIDE DEF Is
    <3> QED BY <3>1, <3>5
  <2> HIDE DEF T
  <2>3. T = Nat
    BY Zenon, <2>1, <2>2, ByInduction DEF T
  <2> QED BY Zenon, <2>3 DEF T
<1> DEFINE F[i \in 0 .. k] == IF i = 0 THEN d ELSE Turn(F[i - 1])
<1>3. Is(F, k)
  <2> HIDE DEF Turn
  <2> QED BY Zenon, <1>1, <1>2
<1>4. MergeDownTo(d, n) = F[k]
  BY DEF MergeDownTo, k
<1> HIDE DEF F
<1>5. MergeTurns(F, d, k)
  BY Zenon, <1>3 DEF MergeTurns, MergeTurn
<1> QED BY <1>4, <1>5 DEF k

LEMMA MergeDownToIsSound ==
  ASSUME NEW d, Sound(d), ChainOn(d), NEW n \in Nat, n >= 1, n <= d.naive, n = 1 => d.mida
  PROVE  Stopped(MergeDownTo(d, n)) \/ DownTo(MergeDownTo(d, n), d, n)
<1> DEFINE k == d.naive - n
           Good(x, m) == Stopped(x) \/ DownTo(x, d, d.naive - m)
<1>1. k \in Nat /\ d.naive \in Nat
  <2>1. EngineOK(d)
    BY DEF Sound, Placed
  <2> QED BY <2>1, GroupsOf
<1> HIDE DEF k
<1>2. Good(d, 0)
  BY <1>1 DEF DownTo, Held, Kept
<1>3. \A x : \A i \in 1 .. k : Good(x, i - 1) => Good(MergeTurn(x), i)
  <2> SUFFICES ASSUME NEW x, NEW i \in 1 .. k, Good(x, i - 1)
               PROVE  Good(MergeTurn(x), i)
    OBVIOUS
  <2>1. CASE Stopped(x)
    BY <2>1 DEF MergeTurn
  <2>2. CASE ~Stopped(x)
    <3>1. Sound(x) /\ ChainOn(x) /\ Kept(x, d) /\ x.naive = d.naive - (i - 1) /\ x.mida = d.mida
      BY <2>2 DEF DownTo
    <3>2. x.naive = 2 => x.mida
      BY <1>1, <3>1 DEF k
    <3>3. Stopped(MergeGroup(x)) \/ MergedDown(MergeGroup(x), x)
      BY <3>1, <3>2, MergeGroupIsSound
    <3> DEFINE y == MergeGroup(x)
    <3> HIDE DEF y
    <3>4. MergedDown(y, x) => DownTo(y, d, d.naive - i)
      <4> SUFFICES ASSUME MergedDown(y, x) PROVE DownTo(y, d, d.naive - i)
        OBVIOUS
      <4>1. Kept(y, d)
        BY <3>1 DEF MergedDown, Held, Kept
      <4>2. y.naive = d.naive - i
        BY <1>1, <3>1 DEF MergedDown
      <4> QED BY <3>1, <4>1, <4>2 DEF MergedDown, DownTo
    <3> QED BY <2>2, <3>3, <3>4 DEF y, MergeTurn
  <2> QED BY <2>1, <2>2
<1> HIDE DEF Good
<1>4. \A f : MergeTurns(f, d, k) => Good(f[k], k)
  <2> SUFFICES ASSUME NEW f, MergeTurns(f, d, k)
               PROVE  Good(f[k], k)
    OBVIOUS
  <2> DEFINE T == {m \in Nat : m \in 0 .. k => Good(f[m], m)}
  <2>1. 0 \in T
    <3>1. f[0] = d
      BY <1>1 DEF MergeTurns
    <3> QED BY <1>2, <3>1
  <2>2. \A m \in T : m + 1 \in T
    <3> SUFFICES ASSUME NEW m \in T, m + 1 \in 0 .. k PROVE Good(f[m + 1], m + 1)
      OBVIOUS
    <3>1. m + 1 # 0 /\ m + 1 \in 1 .. k /\ m \in 0 .. k /\ (m + 1) - 1 = m
      BY <1>1
    <3>2. Good(f[m], m)
      BY <3>1
    <3>3. f[m + 1] = MergeTurn(f[m])
      BY <3>1 DEF MergeTurns
    <3> DEFINE i == m + 1
    <3>4. i \in 1 .. k /\ i - 1 = m
      BY <3>1
    <3> HIDE DEF i
    <3>5. Good(MergeTurn(f[m]), i)
      BY <1>3, <3>2, <3>4
    <3> QED BY <3>3, <3>5 DEF i
  <2> HIDE DEF T
  <2>3. T = Nat
    BY Zenon, <2>1, <2>2, ByInduction DEF T
  <2>4. k \in 0 .. k
    BY <1>1
  <2> QED BY <1>1, <2>3, <2>4 DEF T
<1>5. \E f : MergeTurns(f, d, k) /\ MergeDownTo(d, n) = f[k]
  BY <1>1, MergesUnfold DEF k
<1>6. d.naive - k = n
  BY <1>1 DEF k
<1> QED BY <1>4, <1>5, <1>6 DEF Good

(* What group g has too much goes to the last group.                       *)
Trim(r, d) == Sound(r) /\ Kept(r, d) /\ r.naive = d.naive /\ r.mida = d.mida

LEMMA MarginCounts ==
  ASSUME NEW d, EngineOK(d), Apart(d, Nil, Nil), d.mida = FALSE, Balanced(d),
         NEW g \in Groups, g < d.naive, NEW m \in SUBSET d.queue[g],
         NEW r, EngineOK(r), r.naive = d.naive, r.mida = FALSE,
         r.queue = [d.queue EXCEPT ![g] = @ \ m, ![d.naive] = @ \cup m],
         r.total = [d.total EXCEPT ![g] = @ - Cardinality(m),
                                   ![d.naive] = @ + Cardinality(m)]
  PROVE  Balanced(r)
<1> DEFINE n == d.naive
           x == Cardinality(m)
<1>1. /\ n \in Groups /\ n \in Nat /\ g # n /\ g <= n /\ d.queue \in [Groups -> SUBSET SegIds]
      /\ d.queue[g] \cap d.queue[n] = {}
  <2>1. n \in Groups /\ n \in Nat /\ g \in Nat
    BY GroupsOf, Sorts
  <2>2. g # n /\ g <= n
    BY <2>1
  <2> QED BY <2>1, <2>2 DEF EngineOK, Apart
<1>2. /\ d.total \in [Groups -> Int]
      /\ \A h \in Groups : d.total[h] = IF h <= n THEN Cardinality(d.queue[h]) ELSE 0
  BY BalancedAlone
<1>3. /\ IsFiniteSet(d.queue[g]) /\ IsFiniteSet(d.queue[n])
      /\ Cardinality(d.queue[g]) \in Nat /\ Cardinality(d.queue[n]) \in Nat
  BY <1>1, QueueCount
<1>4. /\ IsFiniteSet(m) /\ x \in Nat
      /\ Cardinality(d.queue[g] \ m) = Cardinality(d.queue[g]) - x
      /\ Cardinality(d.queue[n] \cup m) = Cardinality(d.queue[n]) + x
  <2> DEFINE A == d.queue[g]
             B == d.queue[n]
  <2>1. IsFiniteSet(A) /\ IsFiniteSet(B) /\ m \subseteq A /\ B \cap m = {}
    BY <1>1, <1>3
  <2> HIDE DEF A, B
  <2>2. /\ IsFiniteSet(m) /\ Cardinality(m) \in Nat
        /\ Cardinality(A \ m) = Cardinality(A) - Cardinality(m)
    BY <2>1, PartCount
  <2>3. Cardinality(B \cup m) = Cardinality(B) + Cardinality(m)
    BY <2>1, <2>2, DisjointCount
  <2> QED BY <2>2, <2>3 DEF A, B, x
<1>5. /\ r.queue[g] = d.queue[g] \ m /\ r.queue[n] = d.queue[n] \cup m
      /\ \A h \in Groups : h # g /\ h # n => r.queue[h] = d.queue[h]
  BY <1>1
<1>6. /\ r.total = [d.total EXCEPT ![g] = @ - x, ![n] = @ + x]
      /\ r.naive = n
  OBVIOUS
<1> HIDE DEF n, x
<1>7. d.total[g] \in Int /\ d.total[n] \in Int
  BY <1>1, <1>2
<1>8. /\ r.total \in [Groups -> Int]
      /\ r.total[g] = d.total[g] - x /\ r.total[n] = d.total[n] + x
      /\ \A h \in Groups : h # g /\ h # n => r.total[h] = d.total[h]
  <2> DEFINE f == d.total
             a == d.total[g] - x
             b == d.total[n] + x
  <2>1. f \in [Groups -> Int] /\ a \in Int /\ b \in Int /\ r.total = [f EXCEPT ![g] = a, ![n] = b]
    BY <1>1, <1>2, <1>4, <1>6, <1>7
  <2> HIDE DEF a, b, f
  <2>2. /\ r.total \in [Groups -> Int] /\ r.total[g] = a /\ r.total[n] = b
        /\ \A h \in Groups : h # g /\ h # n => r.total[h] = f[h]
    BY SMTT(60), ZenonT(60), <1>1, <2>1
  <2> QED BY <2>2 DEF a, b, f
<1>9. \A h \in Groups : r.total[h] = IF h <= n THEN Cardinality(r.queue[h]) ELSE 0
  <2> SUFFICES ASSUME NEW h \in Groups
               PROVE  r.total[h] = IF h <= n THEN Cardinality(r.queue[h]) ELSE 0
    OBVIOUS
  <2>1. CASE h = g
    BY <1>1, <1>2, <1>4, <1>5, <1>8, <2>1
  <2>2. CASE h = n
    <3>1. n <= n /\ d.total[n] = Cardinality(d.queue[n])
      BY <1>1, <1>2
    <3>2. Cardinality(r.queue[n]) = d.total[n] + x
      BY <1>4, <1>5, <3>1
    <3> QED BY <1>8, <2>2, <3>1, <3>2
  <2>3. CASE h # g /\ h # n
    BY <1>2, <1>5, <1>8, <2>3
  <2> QED BY <2>1, <2>2, <2>3
<1> QED BY <1>6, <1>8, <1>9, BalancedAlone

LEMMA MarginIsSound ==
  ASSUME NEW d, Sound(d), d.mida = FALSE, NEW g \in Groups, g < d.naive, NEW r \in MarginResults(d, g)
  PROVE  Stopped(r) \/ Trim(r, d)
<1> DEFINE n == d.naive
           x == d.total[g] - d.size[g]
<1>1. /\ EngineOK(d) /\ Apart(d, Nil, Nil) /\ Blank(d, Nil) /\ Labelled(d, {})
      /\ DOMAIN d = Fields /\ d.queue \in [Groups -> SUBSET SegIds]
      /\ d.gnum \in [SegIds -> Groups \cup {Nil}]
      /\ Agree(d, Nil, 0) /\ HotIn(d, Nil, Nil, 0)
  <2>1. EngineOK(d) /\ Apart(d, Nil, Nil) /\ Blank(d, Nil) /\ Labelled(d, {})
    BY DEF Sound, Placed
  <2> QED BY <2>1 DEF EngineOK, Sound
<1>2. /\ n \in Groups /\ n \in Nat /\ n >= 1 /\ n # g
      /\ GroupNum(d) \in Nat /\ GroupNum(d) > n /\ n \in Chain(d)
  <2>1. n \in Groups /\ n \in Nat /\ n >= 1 /\ n # g /\ GroupNum(d) \in Nat /\ GroupNum(d) > n
    BY <1>1, GroupsOf
  <2> HIDE DEF n
  <2>2. Chain(d) = (IF n = 1 /\ d.mida THEN 0 ELSE n) .. GroupNum(d) - 1
    BY DEF Chain, n
  <2> QED BY <2>1, <2>2
<1>3. CASE x > Cardinality(d.queue[g])
  <2>1. r = Stop(d, "no segment to move")
    BY Zenon, <1>3 DEF MarginResults
  <2> QED BY Zenon, <1>1, <2>1, StopStops DEF Reasons
<1>4. CASE ~(x > Cardinality(d.queue[g]))
  <2>1. PICK m \in kSubset(x, d.queue[g]) :
          r = [d EXCEPT !.queue[g] = @ \ m, !.queue[n] = @ \cup m,
                        !.gnum = [s \in SegIds |-> IF s \in m THEN n ELSE @[s]],
                        !.total[g] = @ - x, !.total[n] = @ + x]
    BY Zenon, <1>4 DEF MarginResults
  <2>2. m \subseteq d.queue[g] /\ Cardinality(m) = x
    BY DEF kSubset
  <2> HIDE DEF n, x
  <2>3. /\ DOMAIN r = Fields /\ r.page = d.page /\ r.where = d.where /\ r.free = d.free
        /\ r.naive = n /\ r.mida = d.mida /\ r.active = d.active
        /\ r.hf = d.hf /\ r.hotLbas = d.hotLbas /\ r.vp = d.vp /\ r.refused = d.refused
        /\ r.stop = d.stop
        /\ r.queue = [d.queue EXCEPT ![g] = @ \ m, ![n] = @ \cup m]
        /\ r.gnum = [s \in SegIds |-> IF s \in m THEN n ELSE d.gnum[s]]
        /\ r.total = [d.total EXCEPT ![g] = @ - x, ![n] = @ + x]
    BY <1>1, <2>1 DEF Fields, n
  <2>4. /\ \A q \in Groups : r.queue[q] = IF q = g THEN d.queue[g] \ m
                                          ELSE IF q = n THEN d.queue[n] \cup m ELSE d.queue[q]
        /\ \A s \in SegIds : r.gnum[s] = IF s \in m THEN n ELSE d.gnum[s]
    BY <1>1, <1>2, <2>3
  <2>5. m \subseteq SegIds /\ \A q \in Groups : q # g => d.queue[q] \cap m = {}
    BY <1>1, <2>2 DEF Apart
  <2>6. EngineOK(r)
    <3>1. r.queue \in [Groups -> SUBSET SegIds]
      BY <1>1, <1>2, <2>3, <2>5
    <3>2. r.gnum \in [SegIds -> Groups \cup {Nil}]
      BY <1>1, <1>2, <2>3
    <3> QED BY <1>1, <2>3, <3>1, <3>2 DEF EngineOK, n
  <2>7. Apart(r, Nil, Nil)
    <3>1. \A q, p \in Groups : q # p => r.queue[q] \cap r.queue[p] = {}
      <4>1. \A q, p \in Groups : q # p => d.queue[q] \cap d.queue[p] = {}
        BY <1>1 DEF Apart
      <4> QED BY <1>2, <2>2, <2>4, <2>5, <4>1
    <3>2. \A q \in Groups : r.queue[q] \cap r.free = {}
      BY <1>1, <1>2, <2>2, <2>3, <2>4 DEF Apart
    <3>3. \A h, q \in Groups : r.active[h].seg \notin r.queue[q]
      <4>1. \A h, q \in Groups : d.active[h].seg \notin d.queue[q]
        BY <1>1 DEF Apart
      <4>2. r.active = d.active
        BY <2>3
      <4> QED BY <1>2, <2>2, <2>4, <4>1, <4>2
    <3>4. \A s \in SegIds, q \in Groups : s \in d.queue[q] => \E p \in Groups : s \in r.queue[p]
      BY <1>2, <2>4
    <3>5. \A s \in SegIds : \/ s \in r.free
                            \/ \E q \in Groups : s \in r.queue[q]
                            \/ \E h \in Groups : r.active[h].seg = s
      <4>1. \A s \in SegIds : \/ s \in d.free
                              \/ \E q \in Groups : s \in d.queue[q]
                              \/ \E h \in Groups : d.active[h].seg = s
        BY <1>1, Sorts DEF Apart
      <4>2. r.active = d.active /\ r.free = d.free
        BY <2>3
      <4> QED BY <3>4, <4>1, <4>2
    <3>6. \A h \in Groups : r.active[h].seg \notin r.free
      BY <1>1, <2>3 DEF Apart
    <3>7. \A h, k \in Groups : r.active[h].seg = r.active[k].seg /\ r.active[h].seg # Nil => h = k
      BY <1>1, <2>3 DEF Apart
    <3> QED BY Zenon, <3>1, <3>2, <3>3, <3>5, <3>6, <3>7, Sorts DEF Apart
  <2>8. Blank(r, Nil)
    BY <1>1, <2>3 DEF Blank
  <2>9. Labelled(r, {})
    <3>1. GroupNum(r) = GroupNum(d) /\ Chain(r) = Chain(d)
      BY <2>3 DEF GroupNum, Chain, n
    <3>2. \A h \in Groups : r.active[h].seg # Nil =>
            r.gnum[r.active[h].seg] = h /\ h < GroupNum(r)
      <4> SUFFICES ASSUME NEW h \in Groups, r.active[h].seg # Nil
                   PROVE  r.gnum[r.active[h].seg] = h /\ h < GroupNum(r)
        OBVIOUS
      <4> DEFINE b == d.active[h].seg
      <4>1. b # Nil /\ b \in SegIds /\ r.active[h].seg = b
        BY <1>1, <2>3 DEF EngineOK, Open
      <4>2. d.gnum[b] = h /\ h < GroupNum(d) /\ b \notin m
        BY <1>1, <2>2, <4>1 DEF Labelled, Apart
      <4> HIDE DEF b
      <4> QED BY <2>4, <3>1, <4>1, <4>2
    <3>3. \A q \in Groups : \A s \in r.queue[q] :
            IF q < n THEN r.gnum[s] = q ELSE q = n /\ r.gnum[s] \in Chain(r)
      <4> TAKE q \in Groups
      <4> TAKE s \in r.queue[q]
      <4>1. \A p \in Groups : \A t \in d.queue[p] :
              IF p < n THEN d.gnum[t] = p ELSE p = n /\ d.gnum[t] \in Chain(d)
        BY <1>1 DEF Labelled, n
      <4>2. CASE s \in m
        <5>1. q = n
          BY <1>2, <2>4, <2>5, <4>2
        <5>2. ~(n < n)
          BY <1>2
        <5> QED BY <1>2, <2>4, <2>5, <3>1, <4>2, <5>1, <5>2
      <4>3. CASE s \notin m
        <5>1. s \in d.queue[q] /\ s \in SegIds
          BY <1>1, <2>4, <4>3
        <5>2. r.gnum[s] = d.gnum[s]
          BY <2>4, <4>3, <5>1
        <5> QED BY <3>1, <4>1, <5>1, <5>2
      <4> QED BY <4>2, <4>3
    <3>4. r.active[n].seg # Nil
      BY <1>1, <2>3 DEF Labelled, n
    <3> QED BY Zenon, <2>3, <3>2, <3>3, <3>4 DEF Labelled
  <2>10. Placed(r, Nil, Nil, {})
    BY <2>6, <2>7, <2>8, <2>9 DEF Placed
  <2>11. Rearranged(r, d)
    <3>1. \A s \in SegIds : r.gnum[s] = 0 => d.gnum[s] = 0
      BY <1>2, <2>4
    <3> QED BY <2>3, <3>1 DEF Rearranged
  <2>12. Sound(r) /\ Held(r, d)
    BY <1>1, <2>10, <2>11, RearrangedIsSound
  <2>13. Balanced(d) => Balanced(r)
    <3> SUFFICES ASSUME Balanced(d) PROVE Balanced(r)
      OBVIOUS
    <3>1. /\ EngineOK(d) /\ Apart(d, Nil, Nil) /\ d.mida = FALSE /\ EngineOK(r)
          /\ r.naive = d.naive /\ r.mida = FALSE
          /\ r.queue = [d.queue EXCEPT ![g] = @ \ m, ![d.naive] = @ \cup m]
          /\ r.total = [d.total EXCEPT ![g] = @ - Cardinality(m), ![d.naive] = @ + Cardinality(m)]
      BY <1>1, <2>2, <2>3, <2>6 DEF n
    <3>2. m \in SUBSET d.queue[g] /\ g \in Groups /\ g < d.naive
      BY <2>2
    <3> QED BY ONLY Zenon, Balanced(d), <3>1, <3>2, MarginCounts
  <2> QED BY <2>3, <2>12, <2>13 DEF Trim, Kept, n
<1> QED BY <1>3, <1>4

LEMMA TrimIsSound ==
  ASSUME NEW d, Sound(d), d.mida = FALSE, NEW g \in Groups, g < d.naive, NEW r \in TrimResults(d, g)
  PROVE  Stopped(r) \/ Trim(r, d)
<1>1. CASE Stopped(d) \/ d.size[g] >= d.total[g]
  <2>1. r = d
    BY <1>1 DEF TrimResults
  <2> QED BY <2>1 DEF Trim, Held, Kept
<1>2. CASE ~(Stopped(d) \/ d.size[g] >= d.total[g])
  <2>1. r \in MarginResults(d, g)
    BY <1>2 DEF TrimResults
  <2> QED BY <2>1, MarginIsSound
<1> QED BY <1>1, <1>2

TrimTurn(S, g) == UNION {TrimResults(y, g) : y \in S}

TrimTurns(f, x, n) == f = [i \in 0 .. n |-> IF i = 0 THEN {x} ELSE TrimTurn(f[i - 1], i - 1)]

(* The groups one after the other, as the function the model writes.       *)
LEMMA TrimsUnfold ==
  ASSUME NEW x, NEW n \in Nat
  PROVE  \E f : TrimTurns(f, x, n) /\ TrimAll(x, n) = f[n]
<1> DEFINE Turn(S, g) == UNION {TrimResults(y, g) : y \in S}
           Is(f, m) == f = [i \in 0 .. m |-> IF i = 0 THEN {x} ELSE Turn(f[i - 1], i - 1)]
<1>1. \A m \in Nat : \E f : Is(f, m)
  <2> DEFINE T == {m \in Nat : \E f : Is(f, m)}
  <2> HIDE DEF Turn
  <2>1. 0 \in T
    <3>1. \A i \in 0 .. 0 : i = 0
      OBVIOUS
    <3>2. Is([i \in 0 .. 0 |-> {x}], 0)
      BY <3>1
    <3>3. \E f : Is(f, 0)
      <4> HIDE DEF Is
      <4> QED BY <3>2
    <3> QED BY <3>3
  <2>2. \A m \in T : m + 1 \in T
    <3> TAKE m \in T
    <3>1. m \in Nat /\ \A i \in 0 .. m + 1 : i # 0 => i - 1 \in 0 .. m
      OBVIOUS
    <3>2. PICK f : Is(f, m)
      OBVIOUS
    <3> DEFINE f1 == [i \in 0 .. m + 1 |-> IF i = 0 THEN {x} ELSE Turn(f[i - 1], i - 1)]
    <3>3. \A i \in 0 .. m : f1[i] = f[i]
      <4>1. \A i \in 0 .. m : f[i] = IF i = 0 THEN {x} ELSE Turn(f[i - 1], i - 1)
        BY Zenon, <3>2
      <4>2. \A i \in 0 .. m : i \in 0 .. m + 1
        BY <3>1
      <4>3. \A i \in 0 .. m : f1[i] = IF i = 0 THEN {x} ELSE Turn(f[i - 1], i - 1)
        BY <4>2
      <4> HIDE DEF f1, Is
      <4> QED BY <4>1, <4>3
    <3>4. Is(f1, m + 1)
      BY Zenon, <3>1, <3>3
    <3>5. \E y : Is(y, m + 1)
      <4> HIDE DEF Is, f1
      <4> QED BY <3>4
    <3> HIDE DEF Is
    <3> QED BY <3>1, <3>5
  <2> HIDE DEF T
  <2>3. T = Nat
    BY Zenon, <2>1, <2>2, ByInduction DEF T
  <2> QED BY Zenon, <2>3 DEF T
<1> DEFINE F[i \in 0 .. n] == IF i = 0 THEN {x} ELSE Turn(F[i - 1], i - 1)
<1>2. Is(F, n)
  <2> HIDE DEF Turn
  <2> QED BY Zenon, <1>1
<1>3. TrimAll(x, n) = F[n]
  BY DEF TrimAll
<1> HIDE DEF F
<1>4. TrimTurns(F, x, n)
  BY Zenon, <1>2 DEF TrimTurns, TrimTurn
<1> QED BY <1>3, <1>4

LEMMA TrimAllIsSound ==
  ASSUME NEW x, Sound(x), x.mida = FALSE, NEW n \in Nat, x.naive = n, NEW r \in TrimAll(x, n)
  PROVE  Stopped(r) \/ Trim(r, x)
<1> DEFINE Good(S) == \A y \in S : Stopped(y) \/ Trim(y, x)
<1>1. Good({x})
  BY DEF Trim, Held, Kept
<1>2. ASSUME NEW S, NEW g \in Nat, g < n, Good(S) PROVE Good(TrimTurn(S, g))
  <2> SUFFICES ASSUME NEW y \in S, NEW z \in TrimResults(y, g)
               PROVE  Stopped(z) \/ Trim(z, x)
    BY DEF TrimTurn
  <2>1. Stopped(y) \/ Trim(y, x)
    BY <1>2
  <2>2. CASE Stopped(y)
    BY <2>2 DEF TrimResults
  <2>3. CASE Trim(y, x)
    <3>1. Sound(y) /\ Kept(y, x) /\ y.naive = n /\ y.mida = x.mida /\ y.mida = FALSE
      BY <2>3 DEF Trim
    <3>2. g \in Groups
      <4>1. EngineOK(x)
        BY DEF Sound, Placed
      <4>2. n <= MaxNaive /\ MaxNaive \in Nat /\ NaiveN \in Nat
        BY <4>1, GroupsOf, Sorts
      <4> QED BY <1>2, <4>2 DEF Groups
    <3>3. Stopped(z) \/ Trim(z, y)
      BY <1>2, <3>1, <3>2, TrimIsSound
    <3> QED BY <3>1, <3>3 DEF Trim, Held, Kept
  <2> QED BY <2>1, <2>2, <2>3
<1> HIDE DEF Good
<1>3. \A f : TrimTurns(f, x, n) => Good(f[n])
  <2> SUFFICES ASSUME NEW f, TrimTurns(f, x, n)
               PROVE  Good(f[n])
    OBVIOUS
  <2> DEFINE T == {m \in Nat : m \in 0 .. n => Good(f[m])}
  <2>1. 0 \in T
    <3>1. f[0] = {x}
      BY DEF TrimTurns
    <3> QED BY <1>1, <3>1
  <2>2. \A m \in T : m + 1 \in T
    <3> SUFFICES ASSUME NEW m \in T, m + 1 \in 0 .. n PROVE Good(f[m + 1])
      OBVIOUS
    <3>1. m + 1 # 0 /\ m \in Nat /\ m < n /\ m \in 0 .. n /\ (m + 1) - 1 = m
      OBVIOUS
    <3>2. Good(f[m])
      BY <3>1
    <3>3. f[m + 1] = TrimTurn(f[m], m)
      BY Zenon, <3>1 DEF TrimTurns
    <3> QED BY <1>2, <3>1, <3>2, <3>3
  <2> HIDE DEF T
  <2>3. T = Nat
    BY Zenon, <2>1, <2>2, ByInduction DEF T
  <2>4. n \in 0 .. n
    OBVIOUS
  <2> QED BY <2>3, <2>4 DEF T
<1>4. \E f : TrimTurns(f, x, n) /\ TrimAll(x, n) = f[n]
  BY TrimsUnfold
<1> QED BY <1>3, <1>4 DEF Good

(* The groups of a new configuration, with the chain off.                  *)
ShapedFor(m, d, last) == Sound(m) /\ Kept(m, d) /\ m.naive = last /\ m.mida = FALSE

LEMMA ShapeIsSound ==
  ASSUME NEW d, Sound(d), ~Stopped(d), d.mida = FALSE, NEW cfg \in Configs
  PROVE  LET last == Len(cfg) - 1
             m == Shape(d, last)
         IN /\ last \in Nat /\ last >= 2 /\ last \in 1 .. MaxNaive
            /\ Stopped(m) \/ ShapedFor(m, d, last)
<1> DEFINE last == Len(cfg) - 1
           m == Shape(d, last)
<1>1. last \in Nat /\ last >= 2 /\ last \in 1 .. MaxNaive
  <2> DEFINE k == Len(cfg)
  <2>1. k \in 3 .. MaxNaive + 1
    BY MidasAssumption
  <2> HIDE DEF k
  <2>2. k - 1 \in Nat /\ k - 1 >= 2 /\ k - 1 \in 1 .. MaxNaive
    BY <2>1, Sorts
  <2> QED BY <2>2 DEF k
<1>2. EngineOK(d) /\ d.naive \in Nat /\ d.naive >= 1
  BY GroupsOf DEF Sound, Placed
<1> HIDE DEF last
<1> DEFINE Shaped(y) == Stopped(y) \/ (Sound(y) /\ Kept(y, d) /\ y.naive = last /\ y.mida = FALSE)
<1>3. Shaped(m)
  <2>1. CASE last < d.naive
    <3>1. m = MergeDownTo(d, last)
      BY <2>1 DEF Shape
    <3>2. ChainOn(d) /\ last >= 1 /\ last <= d.naive /\ last # 1
      BY <1>1, <1>2, <2>1 DEF ChainOn
    <3>3. Stopped(MergeDownTo(d, last)) \/ DownTo(MergeDownTo(d, last), d, last)
      BY <1>1, <3>2, MergeDownToIsSound
    <3> QED BY <3>1, <3>3 DEF DownTo
  <2>2. CASE last > d.naive
    <3>1. m = GroupSplit(d, last)
      BY <1>1, <1>2, <2>2 DEF Shape
    <3>2. Shaped(GroupSplit(d, last))
      BY Zenon, <1>1, <2>2, GroupSplitIsSound
    <3> QED BY <3>1, <3>2
  <2>3. CASE last = d.naive
    <3>1. m = d
      BY <1>2, <2>3 DEF Shape
    <3> QED BY <2>3, <3>1 DEF Held, Kept
  <2> HIDE DEF Shaped, m
  <2> QED BY <1>1, <1>2, <2>1, <2>2, <2>3
<1> QED BY <1>1, <1>3 DEF ShapedFor, last

LEMMA ResizeIsSound ==
  ASSUME NEW m, Sound(m), m.mida = FALSE, NEW cfg \in Configs
  PROVE  Same(Resize(m, cfg), m) /\ ShapedFor(Resize(m, cfg), m, m.naive)
<1> DEFINE x == Resize(m, cfg)
<1>1. Same(x, m) /\ x.hf = m.hf /\ x.hotLbas = m.hotLbas
  <2>1. DOMAIN m = Fields
    BY DEF Sound, Placed, EngineOK
  <2> QED BY <2>1 DEF Resize, Same, Fields
<1> HIDE DEF x
<1>2. Placed(x, Nil, Nil, {}) /\ Agree(x, Nil, 0) /\ Present(x) = Present(m)
  BY <1>1, SameKeepsPlaced DEF Sound
<1>3. HotIn(x, Nil, Nil, 0)
  BY <1>1 DEF Sound, HotIn, Same
<1>4. Balanced(m) => Balanced(x)
  BY <1>1, SameBalance DEF Same
<1> QED BY <1>1, <1>2, <1>3, <1>4 DEF ShapedFor, Sound, Held, Kept, Same, x

LEMMA ConfigIsSound ==
  ASSUME NEW d, Sound(d), ~Stopped(d), d.mida = FALSE, NEW cfg \in Configs,
         NEW r \in ConfigResults(d, cfg)
  PROVE  Stopped(r) \/ (Sound(r) /\ ChainOn(r) /\ Kept(r, d))
<1> DEFINE last == Len(cfg) - 1
           m == Shape(d, last)
           x == Resize(m, cfg)
<1>1. ConfigResults(d, cfg) = IF Stopped(m) THEN {m} ELSE TrimAll(x, last)
  BY DEF ConfigResults
<1>2. last \in Nat /\ last >= 2 /\ (Stopped(m) \/ ShapedFor(m, d, last))
  BY ShapeIsSound
<1> HIDE DEF m, last
<1>3. CASE Stopped(m)
  BY <1>1, <1>3
<1>4. CASE ~Stopped(m)
  <2>1. Sound(m) /\ Kept(m, d) /\ m.naive = last /\ m.mida = FALSE
    BY <1>2, <1>4 DEF ShapedFor
  <2>2. ShapedFor(x, m, last)
    BY <2>1, ResizeIsSound
  <2> HIDE DEF x
  <2>3. Sound(x) /\ Kept(x, m) /\ x.naive = last /\ x.mida = FALSE
    BY <2>2 DEF ShapedFor
  <2>4. r \in TrimAll(x, last)
    BY <1>1, <1>4
  <2>5. Stopped(r) \/ Trim(r, x)
    BY <1>2, <2>3, <2>4, TrimAllIsSound
  <2>6. Trim(r, x) => Sound(r) /\ ChainOn(r) /\ Kept(r, d)
    BY <1>2, <2>1, <2>3 DEF Trim, ChainOn, Held, Kept
  <2> QED BY <2>5, <2>6
<1> QED BY <1>3, <1>4

-----------------------------------------------------------------------------
(* The steps of the cache, on the engine.                                  *)

Carried(r, d) == Sound(r) /\ ChainOn(r) /\ Kept(r, d)

(* Fields that no page, segment or label is in.                            *)
LEMMA OtherFields ==
  ASSUME NEW d, NEW r, Sound(d), ChainOn(d), Same(r, d), r.hf = d.hf, r.hotLbas = d.hotLbas
  PROVE  Carried(r, d)
<1>1. Placed(r, Nil, Nil, {}) /\ Agree(r, Nil, 0) /\ Present(r) = Present(d)
  BY SameKeepsPlaced DEF Sound
<1>2. HotIn(r, Nil, Nil, 0)
  BY DEF Sound, HotIn, Same
<1>3. Balanced(d) => Balanced(r)
  BY SameBalance DEF Same
<1> QED BY <1>1, <1>2, <1>3 DEF Carried, Sound, Held, Kept, Same, ChainOn

LEMMA ApplyIsSound ==
  ASSUME NEW d, Sound(d), ChainOn(d), ~Stopped(d), NEW cfg \in Configs,
         NEW r \in ApplyResults(d, cfg)
  PROVE  Stopped(r) \/ Carried(r, d)
<1> DEFINE off == IF d.mida THEN MidaOff(d) ELSE d
<1>1. PICK x \in IF Stopped(off) THEN {off} ELSE ConfigResults(off, cfg) : r = Watching(x)
  BY DEF ApplyResults
<1>2. CASE Stopped(x)
  BY <1>1, <1>2 DEF Watching
<1>3. CASE ~Stopped(x)
  <2>1. ~Stopped(off) /\ x \in ConfigResults(off, cfg)
    BY <1>1, <1>3
  <2>2. d.mida \in BOOLEAN
    BY DEF Sound, Placed, EngineOK
  <2>3. Sound(off) /\ Kept(off, d) /\ off.mida = FALSE
    <3>1. CASE d.mida
      <4>1. off = MidaOff(d)
        BY <3>1
      <4>2. Stopped(MidaOff(d)) \/
            (Sound(MidaOff(d)) /\ Kept(MidaOff(d), d) /\ MidaOff(d).mida = FALSE)
        BY Zenon, <3>1, MidaOffIsSound
      <4> QED BY <2>1, <4>1, <4>2
    <3>2. CASE ~d.mida
      <4>1. off = d /\ d.mida = FALSE
        BY <2>2, <3>2
      <4> QED BY <4>1 DEF Held, Kept
    <3> QED BY Zenon, <3>1, <3>2
  <2> HIDE DEF off
  <2>4. Sound(x) /\ ChainOn(x) /\ Kept(x, off)
    BY Zenon, <1>3, <2>1, <2>3, ConfigIsSound
  <2>5. Same(r, x) /\ r.hf = x.hf /\ r.hotLbas = x.hotLbas
    <3>1. DOMAIN x = Fields
      BY <2>4 DEF Sound, Placed, EngineOK
    <3> QED BY <1>1, <1>3, <3>1 DEF Watching, Same, Fields
  <2>6. Carried(r, x)
    BY <2>4, <2>5, OtherFields
  <2> QED BY <2>3, <2>4, <2>6 DEF Carried, Held, Kept
<1> QED BY <1>2, <1>3

LEMMA DeclineIsSound ==
  ASSUME NEW d, Sound(d), ChainOn(d)
  PROVE  Carried(Decline(d), d)
<1>1. DOMAIN d = Fields
  BY DEF Sound, Placed, EngineOK
<1>2. Same(Decline(d), d) /\ Decline(d).hf = d.hf /\ Decline(d).hotLbas = d.hotLbas
  BY <1>1 DEF Decline, Same, Fields
<1> QED BY <1>2, OtherFields

(* The counts of a chain that is empty but for its first group.            *)
LEMMA ChainTurnedOn ==
  ASSUME NEW d, EngineOK(d), ChainOn(d), d.mida = FALSE, Balanced(d),
         NEW m, EngineOK(m), m.naive = d.naive, m.mida = TRUE, m.queue = d.queue,
         m.total = d.total
  PROVE  Balanced(m)
<1> DEFINE n == d.naive
           top == GroupNum(m) - 1
           f == d.total
<1>1. /\ n \in Groups /\ n \in Nat /\ n >= 1 /\ n # 1 /\ First(m) = n
      /\ top \in Nat /\ n <= top
      /\ \A h \in Nat : h <= top => h \in Groups
      /\ Nil \notin Groups /\ \A h \in Groups : h \in Nat
  <2>1. n \in Groups /\ n \in Nat /\ n >= 1 /\ n # 1
    BY GroupsOf DEF ChainOn
  <2>2. GroupNum(m) \in Nat /\ GroupNum(m) > n /\ \A h \in Nat : h < GroupNum(m) => h \in Groups
    BY GroupsOf
  <2>3. First(m) = n
    BY <2>1 DEF First
  <2> HIDE DEF n
  <2> QED BY <2>1, <2>2, <2>3, Sorts
<1>2. /\ f \in [Groups -> Int]
      /\ \A h \in Groups : f[h] = IF h <= n THEN Cardinality(d.queue[h]) ELSE 0
  BY BalancedAlone
<1>3. \A h \in Groups : Cardinality(d.queue[h]) \in Nat
  BY QueueCount
<1> HIDE DEF n, top, f
<1>4. Ints(f, n .. top) /\ Nil \notin n .. top
  <2>1. \A h \in n .. top : h \in Groups
    BY <1>1
  <2> QED BY <1>1, <1>2, <2>1 DEF Ints
<1>5. SumOver(f, n .. top) = SumOver(f, n .. n)
  <2>1. \A h \in n + 1 .. top : f[h] = 0
    <3>1. \A h \in n + 1 .. top : h \in Groups /\ ~(h <= n)
      BY <1>1
    <3> QED BY <1>2, <3>1
  <2>2. n \in Nat /\ top \in Nat /\ n <= n /\ n <= top
    BY <1>1
  <2> QED BY <1>4, <2>1, <2>2, SumOfZeros
<1>6. SumOver(f, n .. n) = f[n] /\ f[n] = Cardinality(d.queue[n])
  <2>1. n \in Nat /\ f[n] \in Int /\ f[n] = Cardinality(d.queue[n])
    BY <1>1, <1>2
  <2> QED BY <2>1, SumOfSingle
<1>7. SumOver(f, n .. top) = Cardinality(d.queue[n]) + (IF Nil \in n .. top THEN 1 ELSE 0)
  BY <1>1, <1>3, <1>4, <1>5, <1>6
<1>8. \A h \in Groups : h < n /\ h # Nil =>
        f[h] = Cardinality(d.queue[h]) + (IF h = Nil THEN 1 ELSE 0)
  <2> SUFFICES ASSUME NEW h \in Groups, h < n, h # Nil
               PROVE  f[h] = Cardinality(d.queue[h]) + (IF h = Nil THEN 1 ELSE 0)
    OBVIOUS
  <2>1. h <= n
    BY <1>1
  <2> QED BY <1>2, <1>3, <2>1
<1>9. \A h \in Groups : h >= GroupNum(m) => f[h] = 0
  <2>1. \A h \in Groups : h >= GroupNum(m) => ~(h <= n)
    BY <1>1, GroupsOf DEF top
  <2> QED BY <1>2, <2>1
<1>10. m.total = f /\ m.queue = d.queue /\ m.naive = n /\ GroupNum(m) - 1 = top /\ n # 0
  BY <1>1 DEF n, f, top
<1> QED BY SMTT(60), ZenonT(60), <1>1, <1>2, <1>7, <1>8, <1>9, <1>10 DEF Balanced, Counts

(* The chain is turned on; it is empty but for its first group.            *)
ErrorStarts(m, d) ==
  /\ Sound(m) /\ ChainOn(m) /\ Kept(m, d) /\ m.naive = d.naive /\ m.mida = TRUE
  /\ m.active = d.active /\ m.gnum = d.gnum /\ m.queue = d.queue /\ m.total = d.total
  /\ m.stop = d.stop

LEMMA ChainIsTurnedOn ==
  ASSUME NEW d, Sound(d), ChainOn(d)
  PROVE  ErrorStarts([d EXCEPT !.mida = TRUE], d)
<1> DEFINE m == [d EXCEPT !.mida = TRUE]
<1>1. /\ EngineOK(d) /\ Apart(d, Nil, Nil) /\ Blank(d, Nil) /\ Labelled(d, {})
      /\ DOMAIN d = Fields /\ Agree(d, Nil, 0) /\ HotIn(d, Nil, Nil, 0)
  <2>1. EngineOK(d) /\ Apart(d, Nil, Nil) /\ Blank(d, Nil) /\ Labelled(d, {})
    BY DEF Sound, Placed
  <2> QED BY <2>1 DEF EngineOK, Sound
<1>2. /\ DOMAIN m = Fields /\ m.page = d.page /\ m.where = d.where /\ m.free = d.free
      /\ m.naive = d.naive /\ m.mida = TRUE /\ m.active = d.active /\ m.gnum = d.gnum
      /\ m.queue = d.queue /\ m.hf = d.hf /\ m.hotLbas = d.hotLbas /\ m.vp = d.vp
      /\ m.refused = d.refused /\ m.stop = d.stop /\ m.total = d.total
  BY <1>1 DEF Fields
<1> HIDE DEF m
<1>3. EngineOK(m)
  BY Zenon, <1>1, <1>2 DEF EngineOK
<1>4. GroupNum(d) <= GroupNum(m) /\ Chain(d) \subseteq Chain(m)
  <2>1. d.naive \in Nat /\ d.naive >= 1 /\ d.mida \in BOOLEAN
    BY <1>1, GroupsOf DEF EngineOK
  <2>2. CASE d.mida
    BY <1>2, <2>1, <2>2, Sorts DEF GroupNum, Chain
  <2>3. CASE ~d.mida
    <3>1. GroupNum(d) = d.naive + 1 /\ GroupNum(m) = d.naive + NaiveN /\ d.naive # 1
      BY <1>2, <2>3 DEF GroupNum, ChainOn
    <3>2. Chain(d) = d.naive .. GroupNum(d) - 1 /\ Chain(m) = d.naive .. GroupNum(m) - 1
      BY <1>2, <3>1 DEF Chain
    <3> QED BY <2>1, <3>1, <3>2, Sorts
  <2> QED BY <2>2, <2>3
<1>5. Labelled(m, {})
  <2>1. \A h \in Groups : m.active[h].seg # Nil =>
          m.gnum[m.active[h].seg] = h /\ h < GroupNum(m)
    <3>1. \A h \in Groups : h \in Nat
      BY Sorts
    <3>2. GroupNum(d) \in Nat /\ GroupNum(m) \in Nat
      BY <1>1, <1>3, GroupsOf
    <3> QED BY <1>1, <1>2, <1>4, <3>1, <3>2 DEF Labelled
  <2>2. /\ \A q \in Groups : \A s \in m.queue[q] :
             IF q < m.naive THEN m.gnum[s] = q ELSE q = m.naive /\ m.gnum[s] \in Chain(m)
        /\ m.active[m.naive].seg # Nil
    BY <1>1, <1>2, <1>4 DEF Labelled
  <2> QED BY <2>1, <2>2 DEF Labelled
<1>6. Apart(m, Nil, Nil) /\ Blank(m, Nil)
  BY <1>1, <1>2 DEF Apart, Blank
<1>7. Agree(m, Nil, 0) /\ HotIn(m, Nil, Nil, 0) /\ ChainOn(m) /\ Kept(m, d)
  <2>1. Agree(m, Nil, 0) /\ Present(m) = Present(d)
    BY <1>1, <1>2, SameTable
  <2>2. HotIn(m, Nil, Nil, 0)
    BY <1>1, <1>2, SameFilter
  <2>3. Balanced(d) => Balanced(m)
    <3> SUFFICES ASSUME Balanced(d) PROVE Balanced(m)
      OBVIOUS
    <3>1. CASE d.mida
      <4>1. First(m) = First(d)
        BY <1>2, <3>1 DEF First
      <4>2. GroupNum(m) = GroupNum(d)
        BY <1>2, <3>1 DEF GroupNum
      <4> QED BY <1>2, <4>1, <4>2 DEF Balanced, Counts
    <3>2. CASE ~d.mida
      <4>1. d.mida = FALSE
        BY <1>1, <3>2 DEF EngineOK
      <4> QED BY Zenon, <1>1, <1>2, <1>3, <4>1, ChainTurnedOn
    <3> QED BY <3>1, <3>2
  <2> QED BY <1>1, <1>2, <2>1, <2>2, <2>3 DEF ChainOn, Held, Kept
<1>8. Sound(m)
  BY <1>3, <1>5, <1>6, <1>7 DEF Sound, Placed
<1> QED BY <1>2, <1>7, <1>8 DEF ErrorStarts, m

LEMMA HandleErrorIsSound ==
  ASSUME NEW d, Sound(d), ChainOn(d), NEW g \in Nat, g >= 1, g <= d.naive
  PROVE  Stopped(HandleError(d, g)) \/ Carried(HandleError(d, g), d)
<1> DEFINE m == [d EXCEPT !.mida = TRUE]
<1>1. HandleError(d, g) = MergeDownTo(m, g)
  BY DEF HandleError
<1>2. ErrorStarts(m, d)
  BY ChainIsTurnedOn
<1> HIDE DEF m
<1>3. Stopped(MergeDownTo(m, g)) \/ DownTo(MergeDownTo(m, g), m, g)
  <2>1. g <= m.naive /\ m.mida /\ Sound(m) /\ ChainOn(m)
    BY <1>2 DEF ErrorStarts
  <2> QED BY <2>1, MergeDownToIsSound
<1>4. DownTo(MergeDownTo(m, g), m, g) => Carried(MergeDownTo(m, g), d)
  BY <1>2 DEF ErrorStarts, DownTo, Carried, Held, Kept
<1> QED BY <1>1, <1>3, <1>4

(* gc_victim_group names a group, and the victim is of its queue.          *)
LEMMA GCGroupOf ==
  ASSUME NEW d, EngineOK(d)
  PROVE  GCGroup(d) \in Groups /\ Victims(d, GCGroup(d)) \subseteq d.queue[GCGroup(d)]
<1> DEFINE q == GCGroup(d)
<1>1. d.naive \in Groups /\ d.naive \in Nat /\ 1 \in Groups /\ Groups \subseteq Nat
  BY GroupsOf, Sorts
<1> DEFINE S == {d.naive} \cup {g \in 0 .. d.naive - 1 : d.size[g] < d.total[g]}
<1>2. \A g \in 0 .. d.naive - 1 : g \in Groups
  <2>1. \A g \in 0 .. d.naive - 1 : g \in Nat /\ g < d.naive
    BY <1>1
  <2>2. GroupNum(d) \in Nat /\ d.naive < GroupNum(d)
    BY GroupsOf
  <2> QED BY <1>1, <2>1, <2>2, GroupsOf
<1>3. S \subseteq Groups /\ S # {}
  BY <1>1, <1>2
<1> HIDE DEF S
<1>4. Min(S) \in S
  <2>1. \E x \in S : \A y \in S : x <= y
    BY <1>1, <1>3, LeastElement
  <2> QED BY <2>1 DEF Min
<1>5. q = 1 \/ q = Min(S)
  BY DEF GCGroup, S
<1>6. q \in Groups
  BY Zenon, <1>1, <1>3, <1>4, <1>5
<1>7. Victims(d, q) \subseteq d.queue[q]
  <2> HIDE DEF q
  <2> QED BY DEF Victims
<1> QED BY <1>6, <1>7

LEMMA GCIsSound ==
  ASSUME NEW d, Sound(d), ChainOn(d), NEW r \in GCResults(d)
  PROVE  Stopped(r) \/ Carried(r, d)
<1> DEFINE q == GCGroup(d)
<1>1. EngineOK(d) /\ DOMAIN d = Fields
  BY DEF Sound, Placed, EngineOK
<1>2. \/ r = Stop(d, "no victim")
      \/ \E v \in Victims(d, q) : r = DoGC(d, q, v)
      \/ r = [d EXCEPT !.err = TRUE, !.watch = FALSE]
      \/ r = d
  BY Zenon DEF GCResults
<1>3. CASE r = Stop(d, "no victim")
  BY Zenon, <1>1, <1>3, StopStops DEF Reasons
<1>4. ASSUME NEW v \in Victims(d, q), r = DoGC(d, q, v)
      PROVE  Stopped(r) \/ Carried(r, d)
  <2>1. q \in Groups /\ v \in d.queue[q]
    BY <1>1, GCGroupOf
  <2> HIDE DEF q
  <2> QED BY <1>4, <2>1, DoGCIsSound DEF Carried
<1>5. CASE r = [d EXCEPT !.err = TRUE, !.watch = FALSE]
  <2>1. Same(r, d) /\ r.hf = d.hf /\ r.hotLbas = d.hotLbas
    BY <1>1, <1>5 DEF Same, Fields
  <2> QED BY <2>1, OtherFields
<1>6. CASE r = d
  BY <1>6 DEF Carried, Held, Kept
<1> QED BY Zenon, <1>2, <1>3, <1>4, <1>5, <1>6

(* An evicted segment is counted out of the group of its queue.            *)
LEMMA EvictCounts ==
  ASSUME NEW d, NEW r, NEW q \in Groups, NEW s \in d.queue[q], EngineOK(d), Labelled(d, {}),
         Balanced(d), r.naive = d.naive, r.mida = d.mida,
         r.queue = [d.queue EXCEPT ![q] = @ \ {s}], r.total = [d.total EXCEPT ![q] = @ - 1]
  PROVE  Balanced(r)
<1> DEFINE first == First(d)
<1>1. Counts(d, first, Nil, Nil) /\ (first = 0 => d.queue[0] = {})
  BY DEF Balanced, Counts
<1>2. first \in {0, d.naive} /\ first \in Nat /\ first <= d.naive
  BY FirstOf
<1>3. q = (IF q >= first THEN d.naive ELSE q) /\ q < GroupNum(d)
  <2>1. q < d.naive \/ q = d.naive
    BY DEF Labelled
  <2>2. /\ q \in Nat /\ d.naive \in Nat /\ d.naive >= 1 /\ GroupNum(d) \in Nat
        /\ d.naive < GroupNum(d)
    BY Sorts, GroupsOf
  <2>3. q < d.naive => first = d.naive
    <3> SUFFICES ASSUME q < d.naive PROVE first = d.naive
      OBVIOUS
    <3>1. CASE d.naive = 1
      <4>1. q = 0
        BY <2>2, <3>1
      <4>2. first # 0
        BY <1>1, <4>1
      <4> QED BY <1>2, <4>2
    <3>2. CASE d.naive # 1
      BY <3>2 DEF First
    <3> QED BY <3>1, <3>2
  <2> HIDE DEF first
  <2>4. q < GroupNum(d)
    BY <2>1, <2>2
  <2>5. CASE q < d.naive
    BY <2>2, <2>3, <2>4, <2>5
  <2>6. CASE q = d.naive
    BY <2>4, <2>6
  <2> QED BY <2>1, <2>5, <2>6
<1>4. Moved(r, d, q, q, -1, -1) /\ Charged(q, Nil, Nil, -1, -1)
  <2>1. d.total \in [Groups -> Int]
    BY DEF Balanced, Counts
  <2>2. r.total = [d.total EXCEPT ![q] = @ + (-1)]
    BY <2>1
  <2>3. Cardinality(r.queue[q]) = Cardinality(d.queue[q]) + (-1)
    <3>1. r.queue[q] = d.queue[q] \ {s}
      BY DEF EngineOK
    <3>2. Cardinality(d.queue[q] \ {s}) = Cardinality(d.queue[q]) - 1
      BY QueueCountChanges
    <3> QED BY <3>1, <3>2, QueueCount
  <2>4. \A p \in Groups : p # q => r.queue[p] = d.queue[p]
    BY DEF EngineOK
  <2> QED BY <2>2, <2>3, <2>4 DEF Moved, Charged
<1>5. -1 \in Int /\ q # Nil
  BY Sorts
<1> HIDE DEF first
<1>6. Counts(r, first, Nil, Nil)
  BY ONLY Zenon, <1>1, <1>2, <1>3, <1>4, <1>5, EngineOK(d), q \in Groups, CountsChange
<1> QED BY <1>6 DEF Balanced, First, first

(* An eviction takes the lbas that have their page in the segment.         *)
LEMMA EvictIsSound ==
  ASSUME NEW d, Sound(d), ChainOn(d), NEW q \in Groups, NEW s \in d.queue[q]
  PROVE  LET r == Erase(Purge([d EXCEPT !.queue[q] = @ \ {s}], s), s, q)
             lbas == {d.page[s][i] : i \in ValidOf(d, s)}
         IN /\ Sound(r) /\ ChainOn(r) /\ lbas \subseteq Present(d)
            /\ Present(r) = Present(d) \ lbas /\ r.vp = d.vp - Cardinality(lbas)
            /\ Balanced(d) => Balanced(r)
<1> DEFINE t == [d EXCEPT !.queue[q] = @ \ {s}]
           p == Purge(t, s)
           r == Erase(p, s, q)
           lbas == {d.page[s][i] : i \in ValidOf(d, s)}
<1>1. /\ EngineOK(d) /\ DOMAIN d = Fields /\ Placed(d, Nil, Nil, {}) /\ Agree(d, Nil, 0)
      /\ HotIn(d, Nil, Nil, 0) /\ d.page \in [SegIds -> [PageNos -> Lbas \cup {Nil}]]
      /\ d.where \in [Lbas -> (SegIds \X PageNos) \cup {Nil}]
  BY DEF Sound, Placed, EngineOK
<1>2. /\ DOMAIN t = Fields /\ t.page = d.page /\ t.where = d.where /\ t.gnum = d.gnum
      /\ t.active = d.active /\ t.free = d.free /\ Unmoved(t, d)
      /\ t.queue = [d.queue EXCEPT ![q] = @ \ {s}] /\ t.total = d.total
  BY <1>1 DEF Fields, Unmoved
<1> HIDE DEF t
<1>3. Placed(t, s, Nil, {}) /\ s \in SegIds
  BY Zenon, <1>1, <1>2, TakeKeepsPlaced DEF Unmoved
<1>4. lbas = {t.page[s][i] : i \in ValidOf(t, s)}
  BY <1>2 DEF ValidOf
<1>5. \A i \in PageNos : d.page[s][i] # Nil => d.page[s][i] \in lbas
  BY DEF ValidOf
<1>6. \A l \in lbas : l \in Lbas /\ \E i \in PageNos : d.page[s][i] = l /\ d.where[l] = <<s, i>>
  <2> SUFFICES ASSUME NEW i \in ValidOf(d, s)
               PROVE  /\ d.page[s][i] \in Lbas
                      /\ \E j \in PageNos : d.page[s][j] = d.page[s][i]
                                            /\ d.where[d.page[s][i]] = <<s, j>>
    OBVIOUS
  <2>1. i \in PageNos /\ d.page[s][i] # Nil /\ s # Nil
    BY <1>3, Sorts DEF ValidOf
  <2>2. d.page[s][i] \in Lbas
    BY <1>1, <1>3, <2>1
  <2>3. d.where[d.page[s][i]] = <<s, i>>
    BY <1>1, <1>3, <2>1 DEF Agree
  <2> QED BY <2>1, <2>2, <2>3
<1> DEFINE pg == [t.page EXCEPT ![s] = [i \in PageNos |-> Nil]]
           wh == [l \in Lbas |-> IF l \in lbas THEN Nil ELSE t.where[l]]
<1>7. /\ DOMAIN p = Fields /\ p.gnum = t.gnum /\ p.active = t.active /\ p.queue = t.queue
      /\ p.free = t.free /\ p.naive = t.naive /\ p.mida = t.mida /\ p.hf = t.hf
      /\ p.hotLbas = t.hotLbas /\ p.page = pg /\ p.where = wh
      /\ p.vp = t.vp - Cardinality(lbas) /\ p.refused = t.refused /\ p.total = t.total
  <2> HIDE DEF lbas
  <2>1. p = [t EXCEPT !.page[s] = [i \in PageNos |-> Nil],
                      !.where = [l \in Lbas |-> IF l \in lbas THEN Nil ELSE @[l]],
                      !.vp = @ - Cardinality(lbas)]
    BY <1>4 DEF Purge
  <2> HIDE DEF p
  <2> QED BY Zenon, <1>2, <2>1 DEF Fields
<1> HIDE DEF p, lbas
<1>8. /\ \A x \in SegIds, i \in PageNos : p.page[x][i] = IF x = s THEN Nil ELSE d.page[x][i]
      /\ \A l \in Lbas : p.where[l] = IF l \in lbas THEN Nil ELSE d.where[l]
  BY <1>1, <1>2, <1>3, <1>7
<1>9. Placed(p, s, Nil, {})
  <2>1. EngineOK(t) /\ Apart(t, s, Nil) /\ Blank(t, Nil) /\ Labelled(t, {})
    BY <1>3 DEF Placed
  <2>2. EngineOK(p)
    <3>1. p.page \in [SegIds -> [PageNos -> Lbas \cup {Nil}]]
      <4>1. [i \in PageNos |-> Nil] \in [PageNos -> Lbas \cup {Nil}]
        OBVIOUS
      <4>2. t.page \in [SegIds -> [PageNos -> Lbas \cup {Nil}]]
        BY <1>1, <1>2
      <4>3. pg \in [SegIds -> [PageNos -> Lbas \cup {Nil}]]
        BY <1>3, <4>1, <4>2
      <4> HIDE DEF wh, pg
      <4> QED BY <1>7, <4>3
    <3>2. p.where \in [Lbas -> (SegIds \X PageNos) \cup {Nil}]
      <4>1. \A l \in Lbas : wh[l] \in (SegIds \X PageNos) \cup {Nil}
        <5> HIDE DEF pg
        <5> QED BY <1>1, <1>2
      <4>2. wh \in [Lbas -> (SegIds \X PageNos) \cup {Nil}]
        BY <4>1
      <4> HIDE DEF wh, pg
      <4> QED BY <1>7, <4>2
    <3> HIDE DEF pg, wh
    <3> QED BY <1>7, <2>1, <3>1, <3>2 DEF EngineOK
  <2>3. Apart(p, s, Nil)
    BY <1>7, <2>1 DEF Apart
  <2>4. Blank(p, Nil)
    <3>1. /\ \A x \in t.free : x \in SegIds
          /\ \A h \in Groups : t.active[h].seg # Nil => t.active[h].seg \in SegIds
      BY <2>1 DEF EngineOK, Open
    <3>2. \A x \in SegIds, i \in PageNos : t.page[x][i] = Nil => p.page[x][i] = Nil
      BY <1>2, <1>8
    <3> HIDE DEF pg, wh
    <3> QED BY <1>7, <2>1, <3>1, <3>2 DEF Blank
  <2>5. Labelled(p, {})
    <3>1. GroupNum(p) = GroupNum(t) /\ Chain(p) = Chain(t)
      BY <1>7 DEF GroupNum, Chain
    <3> QED BY <1>7, <2>1, <3>1 DEF Labelled
  <2> QED BY <2>2, <2>3, <2>4, <2>5 DEF Placed
<1>10. Agree(p, s, PPS)
  <2>1. \A x \in SegIds, i \in PageNos :
          p.page[x][i] # Nil /\ (x = s => i > PPS) => p.where[p.page[x][i]] = <<x, i>>
    <3> SUFFICES ASSUME NEW x \in SegIds, NEW i \in PageNos, p.page[x][i] # Nil
                 PROVE  p.where[p.page[x][i]] = <<x, i>>
      OBVIOUS
    <3> DEFINE l == d.page[x][i]
    <3>1. x # s /\ p.page[x][i] = l /\ l \in Lbas
      BY <1>1, <1>8
    <3>2. d.where[l] = <<x, i>>
      BY <1>1, <1>8, Sorts DEF Agree
    <3> HIDE DEF l
    <3>3. l \notin lbas
      BY <1>6, <3>1, <3>2
    <3> QED BY <1>8, <3>1, <3>2, <3>3
  <2>2. \A l \in Lbas : p.where[l] # Nil =>
          /\ p.page[p.where[l][1]][p.where[l][2]] = l
          /\ p.where[l][1] = s => p.where[l][2] > PPS
    <3> SUFFICES ASSUME NEW l \in Lbas, p.where[l] # Nil
                 PROVE  p.page[p.where[l][1]][p.where[l][2]] = l /\ p.where[l][1] # s
      OBVIOUS
    <3>1. l \notin lbas /\ p.where[l] = d.where[l] /\ d.where[l] \in SegIds \X PageNos
      BY <1>1, <1>8
    <3>2. d.page[d.where[l][1]][d.where[l][2]] = l
      BY <1>1, <3>1 DEF Agree
    <3>3. l # Nil
      BY Sorts
    <3>4. d.where[l][1] # s
      BY <1>5, <3>1, <3>2, <3>3
    <3> QED BY <1>8, <3>1, <3>2, <3>4
  <2> QED BY <2>1, <2>2 DEF Agree
<1>11. /\ DOMAIN r = Fields /\ r.where = p.where /\ r.active = p.active
       /\ r.queue = p.queue /\ Unmoved(r, p)
       /\ r.free = p.free \cup {s} /\ r.gnum = [p.gnum EXCEPT ![s] = Nil]
       /\ r.page = [p.page EXCEPT ![s] = [i \in PageNos |-> Nil]]
       /\ r.total = [p.total EXCEPT ![q] = @ - 1]
  <2>1. DOMAIN p = Fields
    BY <1>7
  <2> HIDE DEF pg, wh
  <2>2. r.total = [p.total EXCEPT ![q] = @ - 1]
    BY <2>1 DEF Erase, Fields
  <2>3. /\ DOMAIN r = Fields /\ r.where = p.where /\ r.active = p.active
        /\ r.queue = p.queue /\ Unmoved(r, p)
        /\ r.free = p.free \cup {s} /\ r.gnum = [p.gnum EXCEPT ![s] = Nil]
        /\ r.page = [p.page EXCEPT ![s] = [i \in PageNos |-> Nil]]
    BY <2>1 DEF Erase, Fields, Unmoved
  <2> HIDE DEF r
  <2> QED BY <2>2, <2>3
<1> HIDE DEF r, pg, wh
<1>12. /\ r.active = [h \in Groups |-> IF h = Nil THEN NotActive ELSE p.active[h]]
       /\ r.naive = p.naive /\ r.mida = p.mida
  BY <1>9, <1>11, Sorts DEF Placed, EngineOK, Unmoved
<1>13. Nil = p.naive => FALSE
  BY <1>9, GroupsOf, Sorts DEF Placed
<1>14. Placed(r, Nil, Nil, {}) /\ Agree(r, Nil, 0)
  BY Zenon, <1>3, <1>9, <1>10, <1>11, <1>12, <1>13, EraseKeepsPlaced
<1>15. HotIn(r, Nil, Nil, 0)
  <2>1. /\ \A x \in SegIds, i \in PageNos : r.page[x][i] = IF x = s THEN Nil ELSE d.page[x][i]
        /\ \A x \in SegIds : x # s => r.gnum[x] = d.gnum[x]
    BY <1>2, <1>3, <1>7, <1>8, <1>9, <1>11 DEF Placed, EngineOK
  <2>2. r.hf = d.hf /\ r.hotLbas = d.hotLbas
    BY <1>2, <1>7, <1>11 DEF Unmoved
  <2> QED BY <1>1, <2>1, <2>2, Sorts DEF HotIn
<1>16. Present(r) = Present(d) \ lbas /\ lbas \subseteq Present(d)
  <2>1. \A l \in lbas : l \in Lbas /\ d.where[l] # Nil
    <3> TAKE l \in lbas
    <3>1. PICK i \in PageNos : d.where[l] = <<s, i>>
      BY <1>6
    <3>2. <<s, i>> \in SegIds \X PageNos
      BY <1>3
    <3> QED BY <1>6, <3>1, <3>2, Sorts
  <2> QED BY <1>8, <1>11, <2>1 DEF Present
<1>17. r.vp = d.vp - Cardinality(lbas) /\ ChainOn(r)
  BY <1>2, <1>7, <1>11, <1>12 DEF Unmoved, ChainOn
<1>18. Balanced(d) => Balanced(r)
  <2>1. /\ Labelled(d, {}) /\ r.naive = d.naive /\ r.mida = d.mida
        /\ r.queue = [d.queue EXCEPT ![q] = @ \ {s}] /\ r.total = [d.total EXCEPT ![q] = @ - 1]
    BY <1>1, <1>2, <1>7, <1>11, <1>12 DEF Placed, Unmoved
  <2> QED BY Zenon, <1>1, <2>1, EvictCounts
<1> QED BY Zenon, <1>14, <1>15, <1>16, <1>17, <1>18 DEF Sound, r, p, t, lbas

-----------------------------------------------------------------------------
(* The cache.                                                              *)

LEMMA InitIsSound == EngineInv(EngineInit) /\ Present(EngineInit) = {}
<1> DEFINE n == 1 + NaiveN
           d == EngineInit
<1>1. /\ d.page = [s \in SegIds |-> [i \in PageNos |-> Nil]]
      /\ d.where = [l \in Lbas |-> Nil]
      /\ d.gnum = [s \in SegIds |-> IF s <= n THEN s - 1 ELSE Nil]
      /\ d.active = [g \in Groups |-> IF g < n THEN [seg |-> g + 1, off |-> 0] ELSE NotActive]
      /\ d.queue = [g \in Groups |-> {}] /\ d.free = SegIds \ (1 .. n)
      /\ d.naive = 1 /\ d.mida = TRUE /\ d.vp = 0 /\ d.hf = [l \in Lbas |-> 0] /\ d.hotLbas = 0
      /\ d.total = [g \in Groups |-> 0]
      /\ DOMAIN d = Fields
  BY DEF EngineInit, Fields
<1> HIDE DEF d
<1>2. n \in Nat /\ n >= 3 /\ n <= SegNum /\ SegNum \in Nat
  BY MidasAssumption
<1>3. GroupNum(d) = n /\ Chain(d) = 0 .. n - 1
  BY <1>1, <1>2 DEF GroupNum, Chain
<1> HIDE DEF n
<1>4. /\ \A s \in SegIds : s \in Nat /\ s >= 1
      /\ \A g \in Nat : g < n => g \in Groups /\ g + 1 \in SegIds /\ g + 1 \in 1 .. n
      /\ \A s \in 1 .. n : s \in SegIds /\ s - 1 \in Groups /\ s - 1 < n /\ (s - 1) + 1 = s
                           /\ s - 1 \in Nat
      /\ Nil \notin SegIds /\ Groups \subseteq Nat
  <2>1. n = 1 + NaiveN /\ MaxNaive \in Nat /\ MaxNaive >= 1 /\ NaiveN \in Nat
    BY Sorts DEF n
  <2>2. /\ \A s \in SegIds : s \in Nat /\ s >= 1
        /\ \A g \in Nat : g < n => g + 1 \in SegIds /\ g + 1 \in 1 .. n
        /\ \A s \in 1 .. n : s \in SegIds /\ s - 1 < n /\ (s - 1) + 1 = s /\ s - 1 \in Nat
    BY <1>2 DEF SegIds
  <2>3. \A g \in Nat : g < n => g \in Groups
    BY <1>2, <2>1 DEF Groups
  <2> QED BY <2>2, <2>3, Sorts
<1>5. /\ \A g \in Groups : g < n => d.active[g] = [seg |-> g + 1, off |-> 0]
      /\ \A g \in Groups : ~(g < n) => d.active[g] = NotActive
      /\ \A g \in Groups : d.active[g].seg = IF g < n THEN g + 1 ELSE Nil
      /\ \A g \in Groups : d.queue[g] = {}
  BY <1>1 DEF NotActive
<1>6. EngineOK(d)
  <2>1. d.gnum \in [SegIds -> Groups \cup {Nil}]
    <3>1. \A s \in SegIds : s <= n => s - 1 \in Groups
      <4>1. \A s \in SegIds : s <= n => s \in 1 .. n
        BY <1>2, <1>4
      <4> QED BY <1>4, <4>1
    <3> QED BY <1>1, <3>1
  <2>2. d.active \in [Groups -> Open]
    <3>1. NotActive \in Open
      BY Sorts DEF NotActive, Open
    <3>2. \A g \in Groups : g < n => [seg |-> g + 1, off |-> 0] \in Open
      BY <1>4, Sorts DEF Open
    <3> QED BY <1>1, <3>1, <3>2
  <2>3. 1 \in 1 .. MaxNaive
    BY Sorts
  <2>4. /\ d.page \in [SegIds -> [PageNos -> Lbas \cup {Nil}]]
        /\ d.where \in [Lbas -> (SegIds \X PageNos) \cup {Nil}]
        /\ d.queue \in [Groups -> SUBSET SegIds] /\ d.free \in SUBSET SegIds
    BY <1>1
  <2> QED BY Zenon, <1>1, <2>1, <2>2, <2>3, <2>4 DEF EngineOK
<1>7. Apart(d, Nil, Nil)
  <2>1. \A g \in Groups : d.active[g].seg # Nil => d.active[g].seg = g + 1 /\ g < n /\ g \in Nat
    BY <1>4, <1>5
  <2>2. \A g \in Groups : d.active[g].seg \notin d.free
    <3>1. d.free = SegIds \ (1 .. n)
      BY <1>1
    <3> QED BY <1>4, <2>1, <3>1
  <2>3. \A g, h \in Groups : d.active[g].seg = d.active[h].seg /\ d.active[g].seg # Nil => g = h
    <3> SUFFICES ASSUME NEW g \in Groups, NEW h \in Groups,
                        d.active[g].seg = d.active[h].seg, d.active[g].seg # Nil
                 PROVE  g = h
      OBVIOUS
    <3>1. g \in Nat /\ h \in Nat /\ g + 1 = h + 1
      BY <2>1
    <3> QED BY <3>1
  <2>4. \A s \in SegIds : s \in d.free \/ \E g \in Groups : d.active[g].seg = s
    <3> TAKE s \in SegIds
    <3>1. CASE s \in 1 .. n
      BY <1>4, <1>5, <3>1
    <3>2. CASE s \notin 1 .. n
      BY <1>1, <3>2
    <3> QED BY <3>1, <3>2
  <2>5. \A q \in Groups : d.queue[q] = {}
    BY <1>5
  <2> QED BY <1>4, <2>2, <2>3, <2>4, <2>5 DEF Apart
<1>8. /\ \A s \in SegIds, i \in PageNos : d.page[s][i] = Nil
      /\ \A l \in Lbas : d.where[l] = Nil
  BY <1>1
<1>9. Blank(d, Nil)
  <2>1. /\ \A s \in d.free : s \in SegIds
        /\ \A g \in Groups : d.active[g].seg # Nil => d.active[g].seg \in SegIds
    BY <1>6 DEF EngineOK, Open
  <2> QED BY <1>8, <2>1 DEF Blank
<1>10. Labelled(d, {})
  <2>1. \A g \in Groups : d.active[g].seg # Nil => d.gnum[d.active[g].seg] = g /\ g < n
    <3> SUFFICES ASSUME NEW g \in Groups, d.active[g].seg # Nil
                 PROVE  d.gnum[d.active[g].seg] = g /\ g < n
      OBVIOUS
    <3>1. d.active[g].seg = g + 1 /\ g < n /\ g \in Nat
      BY <1>4, <1>5
    <3>2. g + 1 \in SegIds /\ g + 1 <= n /\ (g + 1) - 1 = g
      BY <1>2, <1>4, <3>1
    <3> QED BY <1>1, <3>1, <3>2
  <2>2. d.active[1].seg # Nil
    <3>1. 1 \in Groups /\ 1 < n /\ 1 + 1 \in SegIds
      BY <1>2, <1>4
    <3> QED BY <1>4, <1>5, <3>1
  <2> QED BY <1>1, <1>3, <1>5, <2>1, <2>2 DEF Labelled
<1>11. Placed(d, Nil, Nil, {}) /\ Agree(d, Nil, 0) /\ Present(d) = {}
  BY <1>6, <1>7, <1>8, <1>9, <1>10 DEF Placed, Agree, Present
<1>12. HotIn(d, Nil, Nil, 0)
  <2>1. HotVal \in Nat /\ HotVal >= 2
    BY MidasAssumption
  <2>2. {l \in Lbas : d.hf[l] = HotVal} = {}
    BY <1>1, <2>1
  <2>3. Cardinality({l \in Lbas : d.hf[l] = HotVal}) = 0
    BY <2>2, FS_EmptySet
  <2>4. d.hf \in [Lbas -> 0 .. HotVal]
    BY <1>1, <2>1
  <2> QED BY <1>1, <1>4, <1>8, <2>3, <2>4 DEF HotIn
<1>13. d.vp = Cardinality(Present(d))
  BY <1>1, <1>11, FS_EmptySet
<1>14. Balanced(d)
  <2> DEFINE f == d.total
             top == n - 1
  <2>1. /\ f \in [Groups -> Int] /\ \A h \in Groups : f[h] = 0
        /\ top \in Nat /\ First(d) = 0 /\ GroupNum(d) - 1 = top
        /\ \A h \in 0 .. top : h \in Groups /\ h # Nil
        /\ 0 \in Groups /\ 1 \in Groups /\ \A h \in Groups : ~(h < 0)
    <3>1. f \in [Groups -> Int] /\ \A h \in Groups : f[h] = 0
      BY <1>1
    <3>2. top \in Nat /\ First(d) = 0 /\ GroupNum(d) - 1 = top
      BY <1>1, <1>2, <1>3 DEF First
    <3>3. \A h \in 0 .. top : h \in Groups
      BY <1>2, <1>4
    <3>4. Nil \notin Groups /\ 0 \in Groups /\ 1 \in Groups
      BY Sorts
    <3> QED BY <1>4, <3>1, <3>2, <3>3, <3>4
  <2>2. Cardinality(d.queue[1]) = 0 /\ d.queue[0] = {}
    BY <1>5, <2>1, FS_EmptySet
  <2> HIDE DEF f, top
  <2>3. SumOver(f, 0 .. top) = SumOver(f, 0 .. 0)
    <3>1. Ints(f, 0 .. top) /\ \A h \in 0 + 1 .. top : f[h] = 0
      <4>1. \A h \in 0 + 1 .. top : h \in 0 .. top
        BY <2>1
      <4> QED BY <2>1, <4>1 DEF Ints
    <3> DEFINE z == 0
    <3>2. /\ z \in Nat /\ top \in Nat /\ z <= z /\ z <= top
          /\ Ints(f, z .. top) /\ \A h \in z + 1 .. top : f[h] = 0
      BY <2>1, <3>1
    <3> HIDE DEF z
    <3>3. SumOver(f, z .. top) = SumOver(f, z .. z)
      BY <3>2, SumOfZeros
    <3> QED BY <3>3 DEF z
  <2>4. SumOver(f, 0 .. 0) = 0
    <3>1. 0 \in Nat /\ f[0] \in Int /\ f[0] = 0
      BY <2>1
    <3> QED BY <3>1, SumOfSingle
  <2>5. Nil \notin 0 .. top
    BY <2>1
  <2>6. SumOver(d.total, 0 .. GroupNum(d) - 1) =
          Cardinality(d.queue[d.naive]) + (IF Nil \in 0 .. GroupNum(d) - 1 THEN 1 ELSE 0)
    BY <1>1, <2>1, <2>2, <2>3, <2>4, <2>5 DEF f
  <2>7. \A h \in Groups : h >= GroupNum(d) => d.total[h] = 0
    BY <2>1 DEF f
  <2>8. d.total \in [Groups -> Int] /\ \A h \in Groups : ~(h < 0)
    BY <2>1 DEF f
  <2> QED BY ONLY Zenon, <2>1, <2>2, <2>6, <2>7, <2>8 DEF Balanced, Counts
<1> QED BY <1>1, <1>11, <1>12, <1>13, <1>14 DEF EngineInv, Sound, ChainOn, d

LEMMA CarriedOn ==
  ASSUME NEW d, NEW r, EngineInv(d), Carried(r, d)
  PROVE  EngineInv(r) /\ Present(r) = Present(d)
BY DEF EngineInv, Carried, Held, Kept

LEMMA PresentIsFinite ==
  ASSUME NEW d
  PROVE  IsFiniteSet(Present(d)) /\ Cardinality(Present(d)) \in Nat
<1>1. Present(d) \in SUBSET Lbas
  BY DEF Present
<1> QED BY <1>1, Sorts, FS_Subset, FS_CardinalityType

(* The invariant holds initially and through every step.                   *)
LEMMA MidasInvInit == Init => MidasInv
<1> SUFFICES ASSUME Init PROVE MidasInv
  OBVIOUS
<1>1. EngineInv(e) /\ Present(e) = {} /\ slotOf = [k \in Keys |-> Nil] /\ compacted = {}
  BY InitIsSound DEF Init
<1>2. Mapped = {}
  BY <1>1 DEF Mapped
<1>3. KeysStored
  BY <1>1, <1>2 DEF KeysStored, KeysHavePages, SlotsApart, UsedSlots, Present
<1>4. slotOf \in [Keys -> Lbas \cup {Nil}]
  BY <1>1
<1> QED BY <1>1, <1>3, <1>4 DEF MidasInv

(* A step of the engine that leaves the slots alone.                       *)
LEMMA SlotsUntouched ==
  ASSUME MidasInv, Running, slotOf' = slotOf, compacted' \subseteq Mapped,
         EngineInv(e'), Present(e') = Present(e)
  PROVE  MidasInv'
<1>1. KeysHavePages /\ SlotsApart /\ slotOf \in [Keys -> Lbas \cup {Nil}]
  BY DEF MidasInv, KeysStored
<1>2. Mapped' = Mapped
  BY DEF Mapped
<1>3. UsedSlots' = UsedSlots
  BY <1>2 DEF UsedSlots
<1>4. KeysHavePages'
  BY <1>1, <1>3 DEF KeysHavePages, Present
<1>5. SlotsApart'
  BY <1>1, <1>2 DEF SlotsApart
<1> QED BY <1>1, <1>4, <1>5 DEF MidasInv, KeysStored

LEMMA GreatestElement ==
  ASSUME NEW n \in Nat, NEW S \in SUBSET (0 .. n), S # {}
  PROVE  Max(S) \in S
<1> DEFINE T == {n - x : x \in S}
<1>1. T \in SUBSET Nat /\ T # {}
  <2>1. \A x \in S : n - x \in Nat
    OBVIOUS
  <2> QED BY Zenon, <2>1
<1>2. PICK t \in T : \A y \in T : t <= y
  BY Zenon, <1>1, LeastElement
<1>3. PICK x \in S : t = n - x
  BY <1>2
<1>4. \A y \in S : x >= y
  <2> TAKE y \in S
  <2>1. n - x <= n - y
    BY <1>2, <1>3
  <2> QED BY <2>1
<1> QED BY Zenon, <1>4 DEF Max

(* The last group that holds a sealed segment is one of the groups.        *)
LEMMA EvictGroupOf ==
  ASSUME NEW d, EngineOK(d), EvictGroups(d) # {}
  PROVE  Max(EvictGroups(d)) \in Groups
<1> DEFINE q == Max(EvictGroups(d))
<1>1. /\ d.naive \in Nat /\ GroupNum(d) \in Nat /\ d.naive < GroupNum(d)
      /\ \A g \in Nat : g < GroupNum(d) => g \in Groups
  BY GroupsOf
<1>2. EvictGroups(d) \in SUBSET (0 .. d.naive)
  BY DEF EvictGroups
<1>3. q \in 0 .. d.naive
  BY Zenon, <1>1, <1>2, GreatestElement
<1> HIDE DEF q
<1>4. q \in Nat /\ q < GroupNum(d)
  BY <1>1, <1>3
<1>5. q \in Groups
  BY <1>1, <1>4
<1> QED BY <1>5 DEF q

LEMMA EvictTurnKeepsInv ==
  ASSUME MidasInv, Running, EvictTurn
  PROVE  MidasInv'
<1>1. /\ EngineInv(e) /\ Sound(e) /\ ChainOn(e) /\ e.vp = Cardinality(Present(e))
      /\ slotOf \in [Keys -> Lbas \cup {Nil}] /\ KeysHavePages /\ SlotsApart
  BY DEF MidasInv, EngineInv, KeysStored
<1>2. CASE EvictGroups(e) = {}
  <2>1. e' = e /\ slotOf' = slotOf /\ compacted' = compacted
    BY <1>2 DEF EvictTurn
  <2>2. compacted \subseteq Mapped
    BY <1>1 DEF SlotsApart
  <2> QED BY <1>1, <2>1, <2>2, SlotsUntouched
<1>3. CASE EvictGroups(e) # {}
  <2> DEFINE q == Max(EvictGroups(e))
  <2>1. q \in Groups
    <3>1. EngineOK(e)
      BY <1>1 DEF Sound, Placed
    <3> QED BY Zenon, <1>3, <3>1, EvictGroupOf
  <2> DEFINE R(s) == Erase(Purge([e EXCEPT !.queue[q] = @ \ {s}], s), s, q)
             L(s) == {e.page[s][i] : i \in ValidOf(e, s)}
  <2>2. PICK s \in e.queue[q] :
          /\ slotOf' = [k \in Keys |-> IF k \in KeysOf(L(s)) THEN Nil ELSE slotOf[k]]
          /\ compacted' = compacted \ KeysOf(L(s))
          /\ e' = R(s)
    BY Zenon, <1>3 DEF EvictTurn
  <2> DEFINE lbas == L(s)
             gone == KeysOf(lbas)
  <2>3. /\ Sound(R(s)) /\ ChainOn(R(s)) /\ lbas \subseteq Present(e)
        /\ Present(R(s)) = Present(e) \ lbas /\ R(s).vp = e.vp - Cardinality(lbas)
        /\ Balanced(e) => Balanced(R(s))
    <3>1. Sound(e) /\ ChainOn(e) /\ s \in e.queue[q]
      BY <1>1
    <3> HIDE DEF q
    <3> QED BY ONLY <2>1, <3>1, EvictIsSound
  <2> HIDE DEF q, R, L
  <2>4. EngineInv(e') /\ Present(e') = Present(e) \ lbas
    <3>1. Cardinality(Present(e) \ lbas) = Cardinality(Present(e)) - Cardinality(lbas)
      <4>1. Present(e) \cap lbas = lbas
        BY <2>3
      <4> HIDE DEF lbas
      <4> QED BY Zenon, <4>1, PresentIsFinite, FS_Difference
    <3> QED BY <1>1, <2>2, <2>3, <3>1 DEF EngineInv
  <2>5. slotOf' = [k \in Keys |-> IF k \in gone THEN Nil ELSE slotOf[k]]
        /\ compacted' = compacted \ gone
    BY <2>2
  <2> HIDE DEF lbas
  <2>6. gone = {k \in Keys : slotOf[k] # Nil /\ slotOf[k] \in lbas}
    BY DEF KeysOf, Mapped
  <2> HIDE DEF gone
  <2>7. Mapped' = Mapped \ gone /\ \A k \in Mapped \ gone : slotOf'[k] = slotOf[k]
    BY <2>5 DEF Mapped
  <2>8. UsedSlots' = UsedSlots \ lbas
    <3>1. \A k \in Mapped : k \in gone <=> slotOf[k] \in lbas
      BY <2>6 DEF Mapped
    <3> QED BY <2>7, <3>1 DEF UsedSlots
  <2>9. KeysHavePages'
    <3>1. UsedSlots = Present(e)
      BY <1>1 DEF KeysHavePages, Present
    <3>2. UsedSlots' = Present(e')
      BY <2>4, <2>8, <3>1
    <3> QED BY <3>2 DEF KeysHavePages, Present
  <2>10. SlotsApart'
    BY <1>1, <2>5, <2>7 DEF SlotsApart
  <2>11. slotOf' \in [Keys -> Lbas \cup {Nil}]
    BY <1>1, <2>5
  <2> QED BY <2>4, <2>9, <2>10, <2>11 DEF MidasInv, KeysStored
<1> QED BY <1>2, <1>3

LEMMA GCTurnKeepsInv ==
  ASSUME MidasInv, Running, GCTurn, Running'
  PROVE  MidasInv'
<1>1. EngineInv(e) /\ Sound(e) /\ ChainOn(e) /\ SlotsApart
  BY DEF MidasInv, EngineInv, KeysStored
<1>2. PICK d \in GCResults(e) : /\ e' = IF Stopped(d) THEN d ELSE [d EXCEPT !.moved = {}]
                                /\ compacted' = compacted \cup KeysOf(d.moved)
  BY Zenon DEF GCTurn
<1>3. ~Stopped(d)
  BY <1>2 DEF Running
<1>4. Carried(d, e)
  BY <1>1, <1>3, GCIsSound
<1>5. Carried(e', d)
  <2>1. e' = [d EXCEPT !.moved = {}]
    BY <1>2, <1>3
  <2>2. DOMAIN d = Fields
    BY <1>4 DEF Carried, Sound, Placed, EngineOK
  <2>3. Same(e', d) /\ (e').hf = d.hf /\ (e').hotLbas = d.hotLbas
    BY <2>1, <2>2 DEF Same, Fields
  <2> QED BY <1>4, <2>3, OtherFields DEF Carried
<1>6. EngineInv(e') /\ Present(e') = Present(e)
  BY <1>1, <1>4, <1>5, CarriedOn
<1>7. compacted' \subseteq Mapped
  BY <1>1, <1>2 DEF SlotsApart, KeysOf
<1>8. slotOf' = slotOf
  BY DEF GCTurn
<1> QED BY <1>6, <1>7, <1>8, SlotsUntouched

LEMMA WriteKeyKeepsInv ==
  ASSUME MidasInv, Running, NEW k \in Keys, WriteKey(k), Running'
  PROVE  MidasInv'
<1>1. /\ EngineInv(e) /\ Sound(e) /\ ChainOn(e) /\ e.vp = Cardinality(Present(e))
      /\ slotOf \in [Keys -> Lbas \cup {Nil}] /\ KeysHavePages /\ SlotsApart
  BY DEF MidasInv, EngineInv, KeysStored
<1>2. PICK slot \in SlotsFor(k), young \in BOOLEAN :
        slotOf' = [slotOf EXCEPT ![k] = slot] /\ e' = Write(e, slot, young)
  <2>1. ~(e' = Stop(e, "no slot"))
    <3>1. DOMAIN e = Fields
      BY <1>1 DEF Sound, Placed, EngineOK
    <3>2. Stopped(Stop(e, "no slot"))
      BY Zenon, <3>1, StopStops DEF Reasons
    <3> QED BY Zenon, <3>2 DEF Running
  <2> QED BY Zenon, <2>1 DEF WriteKey
<1>3. compacted' = compacted \ {k}
  BY Zenon DEF WriteKey
<1>4. /\ slot \in Lbas
      /\ \/ slotOf[k] # Nil /\ slot = slotOf[k]
         \/ slotOf[k] = Nil /\ slot \notin UsedSlots
  <2>1. CASE slotOf[k] # Nil
    BY <1>1, <1>2, <2>1 DEF SlotsFor
  <2>2. CASE slotOf[k] = Nil
    BY <1>2, <2>2 DEF SlotsFor
  <2> QED BY <2>1, <2>2
<1>5. slot # Nil
  BY <1>4, Sorts
<1>6. UsedSlots = Present(e)
  BY <1>1 DEF KeysHavePages, Present
<1>7. /\ Sound(e') /\ ChainOn(e') /\ Present(e') = Present(e) \cup {slot}
      /\ (e').vp = IF slot \in Present(e) THEN e.vp ELSE e.vp + 1
      /\ Balanced(e) => Balanced(e')
  <2>1. ~Stopped(e) /\ ~Stopped(e') /\ ~((e').refused = TRUE)
    BY DEF Running
  <2> DEFINE r == Write(e, slot, young)
  <2>2. \/ Stopped(r) \/ r.refused = TRUE
        \/ /\ Sound(r) /\ ChainOn(r)
           /\ Present(r) = Present(e) \cup {slot}
           /\ r.vp = IF slot \in Present(e) THEN e.vp ELSE e.vp + 1
           /\ Balanced(e) => Balanced(r)
    BY Zenon, <1>1, <1>4, <2>1, WriteIsSound
  <2>3. e' = r
    BY <1>2
  <2> HIDE DEF r
  <2> QED BY <2>1, <2>2, <2>3
<1>8. EngineInv(e')
  <2>1. Cardinality(Present(e) \cup {slot}) =
          IF slot \in Present(e) THEN Cardinality(Present(e)) ELSE Cardinality(Present(e)) + 1
    BY Zenon, PresentIsFinite, FS_AddElement
  <2> QED BY <1>1, <1>7, <2>1 DEF EngineInv
<1>9. /\ slotOf' \in [Keys -> Lbas \cup {Nil}]
      /\ \A j \in Keys : slotOf'[j] = IF j = k THEN slot ELSE slotOf[j]
  BY <1>1, <1>2, <1>4
<1>10. Mapped' = Mapped \cup {k}
  BY <1>5, <1>9 DEF Mapped
<1>11. UsedSlots' = UsedSlots \cup {slot}
  <2>1. \A j \in Mapped' : slotOf'[j] \in UsedSlots \cup {slot}
    BY <1>9, <1>10 DEF UsedSlots, Mapped
  <2>2. \A j \in Mapped : \E i \in Mapped' : slotOf'[i] = slotOf[j]
    <3> TAKE j \in Mapped
    <3>1. CASE j = k
      <4>1. slotOf[k] # Nil
        BY <3>1 DEF Mapped
      <4> QED BY <1>4, <1>9, <1>10, <3>1, <4>1
    <3>2. CASE j # k
      BY <1>9, <1>10, <3>2 DEF Mapped
    <3> QED BY <3>1, <3>2
  <2>3. \E i \in Mapped' : slotOf'[i] = slot
    BY <1>9, <1>10
  <2> QED BY <2>1, <2>2, <2>3 DEF UsedSlots
<1>12. KeysHavePages'
  <2>1. UsedSlots' = Present(e')
    BY <1>6, <1>7, <1>11
  <2> QED BY <2>1 DEF KeysHavePages, Present
<1>13. SlotsApart'
  <2>1. \A i, j \in Mapped : slotOf[i] = slotOf[j] => i = j
    BY <1>1 DEF SlotsApart
  <2>2. \A j \in Mapped : j # k => slotOf[j] # slot
    <3> TAKE j \in Mapped
    <3>1. CASE slotOf[k] # Nil /\ slot = slotOf[k]
      <4>1. k \in Mapped
        BY <3>1 DEF Mapped
      <4> QED BY <2>1, <3>1, <4>1
    <3>2. CASE slot \notin UsedSlots
      BY <3>2 DEF UsedSlots
    <3> QED BY <1>4, <3>1, <3>2
  <2>3. \A i, j \in Mapped' : slotOf'[i] = slotOf'[j] => i = j
    <3>1. \A j \in Mapped : j \in Keys
      BY DEF Mapped
    <3> QED BY <1>9, <1>10, <2>1, <2>2, <3>1
  <2>4. compacted' \subseteq Mapped'
    BY <1>1, <1>3, <1>10 DEF SlotsApart
  <2> QED BY <2>3, <2>4 DEF SlotsApart
<1> QED BY <1>8, <1>9, <1>12, <1>13 DEF MidasInv, KeysStored

LEMMA CheckModelKeepsInv ==
  ASSUME MidasInv, Running, CheckModel, Running'
  PROVE  MidasInv'
<1>1. EngineInv(e) /\ Sound(e) /\ ChainOn(e) /\ compacted \subseteq Mapped
  BY DEF MidasInv, EngineInv, KeysStored, SlotsApart
<1>2. slotOf' = slotOf /\ compacted' \subseteq Mapped /\ ~Stopped(e) /\ ~Stopped(e')
  BY <1>1 DEF CheckModel, Running
<1>3. Carried(e', e)
  <2>1. CASE e' = e
    BY <1>1, <2>1 DEF Carried, Held, Kept
  <2>2. CASE e' = Decline(e)
    BY <1>1, <2>2, DeclineIsSound
  <2>3. ASSUME NEW cfg \in Configs, e' \in ApplyResults(e, cfg)
        PROVE  Carried(e', e)
    BY <1>1, <1>2, <2>3, ApplyIsSound
  <2> QED BY <2>1, <2>2, <2>3 DEF CheckModel
<1>4. EngineInv(e') /\ Present(e') = Present(e)
  BY <1>1, <1>3, CarriedOn
<1> QED BY <1>2, <1>4, SlotsUntouched

LEMMA CheckErrorKeepsInv ==
  ASSUME MidasInv, Running, CheckError, Running'
  PROVE  MidasInv'
<1>1. EngineInv(e) /\ Sound(e) /\ ChainOn(e) /\ compacted \subseteq Mapped
  BY DEF MidasInv, EngineInv, KeysStored, SlotsApart
<1>2. slotOf' = slotOf /\ compacted' \subseteq Mapped /\ ~Stopped(e')
  BY <1>1 DEF CheckError, Running
<1>3. e.naive \in Nat
  BY <1>1, GroupsOf DEF Sound, Placed
<1>4. Carried(e', e)
  <2>1. CASE e' = e
    BY <1>1, <2>1 DEF Carried, Held, Kept
  <2>2. ASSUME NEW g \in 1 .. IF e.mida THEN e.naive - 1 ELSE e.naive, e' = HandleError(e, g)
        PROVE  Carried(e', e)
    <3>1. g \in Nat /\ g >= 1 /\ g <= e.naive
      <4>1. g \in 1 .. e.naive - 1 \/ g \in 1 .. e.naive
        BY <2>2
      <4> QED BY <1>3, <4>1
    <3> QED BY <1>1, <1>2, <2>2, <3>1, HandleErrorIsSound
  <2> QED BY <2>1, <2>2 DEF CheckError
<1>5. EngineInv(e') /\ Present(e') = Present(e)
  BY <1>1, <1>4, CarriedOn
<1> QED BY <1>2, <1>5, SlotsUntouched

LEMMA MidasInvNext == MidasInv /\ [Next]_vars => MidasInv'
<1> SUFFICES ASSUME MidasInv, [Next]_vars PROVE MidasInv'
  OBVIOUS
<1>1. CASE UNCHANGED vars
  BY <1>1 DEF vars, MidasInv, Running, KeysStored, KeysHavePages, SlotsApart, Mapped, UsedSlots
<1>2. CASE ~Running'
  BY <1>2 DEF MidasInv
<1>3. CASE Next /\ Running'
  <2>1. Running
    BY <1>3 DEF Next
  <2>2. CASE EvictTurn
    BY <2>1, <2>2, EvictTurnKeepsInv
  <2>3. CASE GCTurn
    BY <1>3, <2>1, <2>3, GCTurnKeepsInv
  <2>4. ASSUME NEW k \in Keys, WriteKey(k)
        PROVE  MidasInv'
    BY <1>3, <2>1, <2>4, WriteKeyKeepsInv
  <2>5. CASE CheckModel
    BY <1>3, <2>1, <2>5, CheckModelKeepsInv
  <2>6. CASE CheckError
    BY <1>3, <2>1, <2>6, CheckErrorKeepsInv
  <2> QED BY <1>3, <2>2, <2>3, <2>4, <2>5, <2>6 DEF Next
<1> QED BY <1>1, <1>2, <1>3

(* MidasInv is an invariant of MidasCache.                                 *)
THEOREM MidasInvariant == Spec => []MidasInv
BY MidasInvInit, MidasInvNext, PTL DEF Spec

-----------------------------------------------------------------------------
(* The properties.                                                         *)

(* mtable and the out-of-band areas agree, and stats->vp counts the valid  *)
(* pages, through every copy, merge, split and eviction.                   *)
THEOREM PagesStayExact == Spec => []PagesExact
<1>1. MidasInv => PagesExact
  <2> SUFFICES ASSUME MidasInv, Running PROVE PagesExact
    BY DEF PagesExact
  <2>1. Agree(e, Nil, 0) /\ e.vp = Cardinality(Present(e))
    BY DEF MidasInv, EngineInv, Sound
  <2>2. \A s \in SegIds, i \in PageNos :
          e.page[s][i] # Nil => e.where[e.page[s][i]] = <<s, i>>
    BY <2>1, Sorts DEF Agree
  <2>3. \A l \in Lbas : e.where[l] # Nil => e.page[e.where[l][1]][e.where[l][2]] = l
    BY <2>1 DEF Agree
  <2> QED BY <2>1, <2>2, <2>3 DEF PagesExact, Present
<1> QED BY <1>1, MidasInvariant, PTL

(* A cached key has its page on the engine and a page its key, and no two  *)
(* keys share a slot.                                                      *)
THEOREM KeysStayStored == Spec => []KeysStored
<1>1. MidasInv => KeysStored
  BY DEF MidasInv, KeysStored, KeysHavePages, SlotsApart
<1> QED BY <1>1, MidasInvariant, PTL

(* The counters of the hot filter stay in their range, hotLbas counts the  *)
(* hot ones, and the hot group holds pages of hot lbas only.               *)
THEOREM HotStaysExact == Spec => []HotExact
<1>1. MidasInv => HotExact
  <2> SUFFICES ASSUME MidasInv, Running PROVE HotExact
    BY DEF HotExact, HotFilterExact, HotPagesAreHot
  <2>1. HotIn(e, Nil, Nil, 0)
    BY DEF MidasInv, EngineInv, Sound
  <2>2. HotFilterExact
    BY <2>1 DEF HotIn, HotFilterExact
  <2>3. HotPagesAreHot
    BY <2>1, Sorts DEF HotIn, HotPagesAreHot, ValidOf
  <2> QED BY <2>2, <2>3 DEF HotExact
<1> QED BY <1>1, MidasInvariant, PTL

(* The label of a queued segment is a group of its queue.                  *)
THEOREM LabelsStayFitting == Spec => []LabelsFitQueues
<1>1. MidasInv => LabelsFitQueues
  <2> SUFFICES ASSUME MidasInv, Running PROVE LabelsFitQueues
    BY DEF LabelsFitQueues
  <2>1. Labelled(e, {})
    BY DEF MidasInv, EngineInv, Sound, Placed
  <2> QED BY <2>1 DEF Labelled, LabelsFitQueues, Chain
<1> QED BY <1>1, MidasInvariant, PTL

(* An injective function counts its domain.                                *)
LEMMA SameCount ==
  ASSUME NEW H, NEW f, DOMAIN f = H, \A g, h \in H : f[g] = f[h] => g = h,
         NEW T, T = {f[h] : h \in H}, IsFiniteSet(T)
  PROVE  IsFiniteSet(H) /\ Cardinality(H) = Cardinality(T)
<1> DEFINE k == [h \in H |-> f[h]]
<1>1. k \in [H -> T] /\ \A t \in T : \E h \in H : k[h] = t
  OBVIOUS
<1>2. \A g, h \in H : k[g] = k[h] => g = h
  OBVIOUS
<1> HIDE DEF k
<1>3. k \in Injection(H, T) /\ k \in Surjection(H, T)
  BY Zenon, <1>1, <1>2 DEF Injection, Surjection, IsInjective
<1> QED BY <1>3, FS_Injection

(* Every segment is free, active in one group or in one queue.             *)
THEOREM SegmentsStayInOnePlace == Spec => []SegmentInOnePlace
<1>1. MidasInv => SegmentInOnePlace
  <2> SUFFICES ASSUME MidasInv, Running PROVE SegmentInOnePlace
    BY DEF SegmentInOnePlace
  <2>1. EngineOK(e) /\ Apart(e, Nil, Nil)
    BY DEF MidasInv, EngineInv, Sound, Placed
  <2> DEFINE opened == {g \in Groups : e.active[g].seg # Nil}
             queued == UNION {{q} \X e.queue[q] : q \in Groups}
             A == {e.active[g].seg : g \in opened}
             B == {x[2] : x \in queued}
             F == e.free
  <2>2. IsFiniteSet(SegIds) /\ Cardinality(SegIds) = SegNum
    <3>1. SegNum \in Nat
      BY Sorts
    <3> QED BY <3>1, FS_Interval DEF SegIds
  <2>3. A \subseteq SegIds /\ F \subseteq SegIds
    BY <2>1 DEF EngineOK, Open
  <2>4. \A x \in queued : x[1] \in Groups /\ x[2] \in e.queue[x[1]] /\ x = <<x[1], x[2]>>
    OBVIOUS
  <2>5. B \subseteq SegIds
    BY <2>1, <2>4 DEF EngineOK
  <2>6. \A q \in Groups : \A s \in e.queue[q] : s \in B
    <3> SUFFICES ASSUME NEW q \in Groups, NEW s \in e.queue[q] PROVE s \in B
      OBVIOUS
    <3>1. <<q, s>> \in queued
      OBVIOUS
    <3> HIDE DEF queued
    <3>2. \E x \in queued : s = x[2]
      BY <3>1
    <3> QED BY <3>2
  <2> HIDE DEF queued
  <2>7. F \cup B \cup A = SegIds
    <3>1. \A s \in SegIds : s \in F \/ s \in B \/ s \in A
      <4> TAKE s \in SegIds
      <4>1. \/ s \in F
            \/ \E q \in Groups : s \in e.queue[q]
            \/ \E g \in Groups : e.active[g].seg = s
        BY <2>1, Sorts DEF Apart
      <4>2. (\E g \in Groups : e.active[g].seg = s) => s \in A
        BY Sorts
      <4> HIDE DEF A, B
      <4> QED BY <2>6, <4>1, <4>2
    <3> HIDE DEF A, B, F
    <3> QED BY <2>3, <2>5, <3>1
  <2>8. F \cap B = {}
    BY <2>1, <2>4 DEF Apart
  <2>9. A \cap F = {} /\ A \cap B = {}
    BY <2>1, <2>4 DEF Apart
  <2>10. IsFiniteSet(queued) /\ Cardinality(queued) = Cardinality(B)
    <3> DEFINE f == [x \in queued |-> x[2]]
    <3>1. \A x, y \in queued : f[x] = f[y] => x = y
      <4> SUFFICES ASSUME NEW x \in queued, NEW y \in queued, x[2] = y[2] PROVE x = y
        OBVIOUS
      <4>1. x[1] = y[1]
        BY <2>1, <2>4 DEF Apart
      <4> QED BY <2>4, <4>1
    <3>2. B = {f[x] : x \in queued}
      OBVIOUS
    <3>3. IsFiniteSet(B)
      BY <2>2, <2>5, FS_Subset
    <3>4. DOMAIN f = queued
      OBVIOUS
    <3> HIDE DEF f, B
    <3> QED BY <3>1, <3>2, <3>3, <3>4, SameCount
  <2>11. IsFiniteSet(opened) /\ Cardinality(opened) = Cardinality(A)
    <3> DEFINE f == [g \in opened |-> e.active[g].seg]
    <3>1. \A g, h \in opened : f[g] = f[h] => g = h
      BY <2>1 DEF Apart
    <3>2. A = {f[g] : g \in opened}
      OBVIOUS
    <3>3. IsFiniteSet(A)
      BY <2>2, <2>3, FS_Subset
    <3>4. DOMAIN f = opened
      OBVIOUS
    <3> HIDE DEF f, A, opened
    <3> QED BY <3>1, <3>2, <3>3, <3>4, SameCount
  <2> HIDE DEF A, B, F, opened
  <2>12. Cardinality(F) + Cardinality(B) + Cardinality(A) = SegNum
    <3>1. IsFiniteSet(F) /\ IsFiniteSet(B) /\ IsFiniteSet(A)
      BY <2>2, <2>3, <2>5, FS_Subset
    <3>2. IsFiniteSet(F \cup B) /\ Cardinality(F \cup B) = Cardinality(F) + Cardinality(B)
      BY <2>8, <3>1, DisjointCount
    <3>3. (F \cup B) \cap A = {}
      BY <2>9
    <3>4. Cardinality((F \cup B) \cup A) = Cardinality(F \cup B) + Cardinality(A)
      BY <3>1, <3>2, <3>3, DisjointCount
    <3> QED BY <2>2, <2>7, <3>2, <3>4
  <2>13. Cardinality(F) + Cardinality(queued) + Cardinality(opened) = SegNum
    BY <2>10, <2>11, <2>12
  <2>14. F \cup B \cup A = SegIds
    BY <2>7
  <2> QED BY <2>13, <2>14 DEF SegmentInOnePlace, A, B, F, opened, queued
<1> QED BY <1>1, MidasInvariant, PTL

(* TOTAL_GNUM adds up, through writes, collections, evictions and every    *)
(* change of the configuration: the groups that share a queue have counts  *)
(* for what is in it, the others for what is in their own.                 *)
THEOREM TotalsStayExact == Spec => []TotalsAddUp
<1>1. MidasInv => TotalsAddUp
  <2> SUFFICES ASSUME MidasInv, Running PROVE TotalsAddUp
    BY DEF TotalsAddUp
  <2> DEFINE first == First(e)
             shared == first .. GroupNum(e) - 1
  <2>1. EngineOK(e) /\ Counts(e, first, Nil, Nil)
    BY DEF MidasInv, EngineInv, Sound, Placed, Balanced
  <2>2. /\ first \in Nat /\ e.naive \in Nat /\ GroupNum(e) \in Nat /\ e.naive < GroupNum(e)
        /\ e.naive \in Groups /\ Nil \notin Groups
        /\ \A h \in Nat : h < GroupNum(e) => h \in Groups
        /\ \A h \in shared : h \in Groups
    BY <2>1, FirstOf, GroupsOf, Sorts
  <2>3. /\ SumOver(e.total, shared) = Cardinality(e.queue[e.naive]) + (IF Nil \in shared THEN 1 ELSE 0)
        /\ \A h \in Groups : h < first /\ h # Nil =>
             e.total[h] = Cardinality(e.queue[h]) + (IF h = Nil THEN 1 ELSE 0)
    BY <2>1 DEF Counts
  <2>4. \A h \in Groups : Cardinality(e.queue[h]) \in Nat
    BY <2>1, QueueCount
  <2> HIDE DEF first
  <2>5. TotalOf(e, shared) = Cardinality(e.queue[e.naive])
    BY <2>2, <2>3, <2>4, TotalIsSum
  <2>6. \A g \in 0 .. e.naive - 1 : g \notin shared => e.total[g] = Cardinality(e.queue[g])
    <3> SUFFICES ASSUME NEW g \in 0 .. e.naive - 1, g \notin shared
                 PROVE  e.total[g] = Cardinality(e.queue[g])
      OBVIOUS
    <3>1. g \in Groups /\ g < first /\ g # Nil
      <4>1. g \in Nat /\ g < GroupNum(e) /\ g < first
        BY <2>2
      <4> QED BY <2>2, <4>1
    <3> QED BY <2>3, <2>4, <3>1
  <2> QED BY <2>5, <2>6 DEF TotalsAddUp, First, first
<1> QED BY <1>1, MidasInvariant, PTL

(* A segment has one place, a label that fits it, and is counted there.    *)
THEOREM GroupsStayExact == Spec => []GroupsExact
<1>1. SegmentInOnePlace /\ LabelsFitQueues /\ TotalsAddUp => GroupsExact
  BY DEF GroupsExact
<1> QED BY <1>1, SegmentsStayInOnePlace, LabelsStayFitting, TotalsStayExact, PTL

-----------------------------------------------------------------------------
(* What the engine checks of itself.                                       *)

(* The configurations leave a group a segment besides its active one, and  *)
(* group 1, which has two taken off its size, one more.                    *)
RoomyConfigs ==
  \A cfg \in Configs : \A i \in DOMAIN cfg : cfg[i] >= IF i = 2 THEN 2 ELSE 1

(* What it may stop for; and a group that is to give up more segments than *)
(* it has got a negative size, from a configuration that is not roomy.     *)
Halts == {"no slot", "no free segment", "no victim", "hot count", "no segment to move"}

Halted(r) ==
  /\ r.stop \in Halts
  /\ r.stop = "no segment to move" =>
       ~RoomyConfigs /\ \E g \in 0 .. r.naive - 1 : r.size[g] < 0

Manned(d, g) == d.active[g].seg # Nil

(* A group with segments or a count has an active segment, and the groups  *)
(* that users write to have one in any case.                               *)
CountedManned(d) ==
  /\ d.total \in [Groups -> Int]
  /\ \A g \in Groups : ~Manned(d, g) => d.total[g] = 0
  /\ \A q \in Groups : \A s \in d.queue[q] : d.gnum[s] \in Groups /\ Manned(d, d.gnum[s])

Staffed(d) == CountedManned(d) /\ Manned(d, 0) /\ Manned(d, 1)

Goes(r) == Halted(r) \/ (r.stop = Nil /\ Staffed(r))

(* ... and no group loses its active segment.                              *)
Works(r, d) ==
  \/ Halted(r)
  \/ r.stop = Nil /\ Staffed(r) /\ \A g \in Groups : Manned(d, g) => Manned(r, g)

LEMMA HaltStops ==
  /\ Nil \notin Halts
  /\ \A r : Halted(r) => Stopped(r)
<1>1. Halts \subseteq Reasons
  BY DEF Halts, Reasons
<1>2. Nil \notin Reasons
  BY NilAssumption
<1> QED BY <1>1, <1>2 DEF Halted, Stopped

LEMMA SameStaff ==
  ASSUME NEW d, NEW r, r.total = d.total, r.queue = d.queue, r.gnum = d.gnum,
         \A g \in Groups : r.active[g].seg = d.active[g].seg
  PROVE  /\ Staffed(d) => Staffed(r)
         /\ \A g \in Groups : Manned(d, g) <=> Manned(r, g)
<1>1. \A g \in Groups : Manned(d, g) <=> Manned(r, g)
  BY DEF Manned
<1> QED BY <1>1, Sorts DEF Staffed, CountedManned

(* A sealed segment is of a group that has one.                            *)
LEMMA SealStaffs ==
  ASSUME NEW d, DOMAIN d = Fields, NEW g \in Groups, NEW q \in Groups, Staffed(d),
         d.queue \in [Groups -> SUBSET SegIds], Manned(d, g), d.gnum[d.active[g].seg] = g
  PROVE  Staffed(Seal(d, g, q))
<1> DEFINE r == Seal(d, g, q)
<1>1. /\ r.gnum = d.gnum /\ r.active = d.active
      /\ r.queue = [d.queue EXCEPT ![q] = @ \cup {d.active[g].seg}]
      /\ r.total = [d.total EXCEPT ![g] = @ + 1]
  BY DEF Seal, Fields
<1> HIDE DEF r
<1>2. r.total \in [Groups -> Int] /\ \A h \in Groups : ~Manned(r, h) => r.total[h] = 0
  BY <1>1 DEF Staffed, CountedManned, Manned
<1>3. \A p \in Groups : \A s \in r.queue[p] : s \in d.queue[p] \/ s = d.active[g].seg
  BY <1>1
<1>4. \A p \in Groups : \A s \in r.queue[p] : r.gnum[s] \in Groups /\ Manned(r, r.gnum[s])
  BY <1>1, <1>3 DEF Staffed, CountedManned, Manned
<1>5. Manned(r, 0) /\ Manned(r, 1)
  BY <1>1 DEF Staffed, CountedManned, Manned
<1> QED BY <1>2, <1>4, <1>5 DEF Staffed, CountedManned, r

LEMMA OpenStops ==
  ASSUME NEW d, DOMAIN d = Fields, NEW g, d.stop = Nil
  PROVE  LET r == OpenActive(d, g)
         IN IF d.free = {} THEN Halted(r) ELSE r.stop = Nil
<1> DEFINE s == Min(d.free)
<1>1. CASE d.free = {}
  <2>1. OpenActive(d, g) = Stop(d, "no free segment")
    BY <1>1 DEF OpenActive
  <2>2. Stop(d, "no free segment").stop = "no free segment"
    BY DEF Stop, Fields
  <2> QED BY <1>1, <2>1, <2>2 DEF Halted, Halts
<1>2. CASE d.free # {}
  <2>1. OpenActive(d, g) =
          [d EXCEPT !.free = @ \ {s}, !.gnum[s] = g, !.active[g] = [seg |-> s, off |-> 0]]
    BY <1>2 DEF OpenActive
  <2> HIDE DEF s
  <2> QED BY <1>2, <2>1 DEF Fields
<1> QED BY <1>1, <1>2

(* A free segment is in no queue, so nothing else has its label.           *)
LEMMA OpenMans ==
  ASSUME NEW d, DOMAIN d = Fields, NEW g \in Groups, d.stop = Nil, CountedManned(d),
         d.free \in SUBSET SegIds, d.active \in [Groups -> Open],
         d.gnum \in [SegIds -> Groups \cup {Nil}], d.queue \in [Groups -> SUBSET SegIds],
         \A q \in Groups : d.queue[q] \cap d.free = {}
  PROVE  LET r == OpenActive(d, g)
         IN \/ Halted(r)
            \/ /\ r.stop = Nil /\ CountedManned(r) /\ Manned(r, g)
               /\ \A h \in Groups : Manned(d, h) => Manned(r, h)
<1> DEFINE r == OpenActive(d, g)
           s == Min(d.free)
<1>1. CASE d.free = {}
  BY <1>1, OpenStops
<1>2. CASE d.free # {}
  <2>1. r.stop = Nil
    BY <1>2, OpenStops
  <2>2. /\ s \in d.free /\ r.queue = d.queue /\ r.total = d.total
        /\ r.gnum = [d.gnum EXCEPT ![s] = g]
        /\ r.active = [d.active EXCEPT ![g] = [seg |-> s, off |-> 0]]
    BY <2>1, OpenFields DEF Stopped
  <2> HIDE DEF r, s
  <2>3. s \in SegIds /\ s # Nil
    BY <2>2, Sorts
  <2>4. \A h \in Groups : Manned(r, h) <=> h = g \/ Manned(d, h)
    BY <2>2, <2>3 DEF Manned
  <2>5. \A q \in Groups : \A t \in d.queue[q] : r.gnum[t] = d.gnum[t]
    BY <2>2, <2>3
  <2>6. \A h \in Groups : ~Manned(r, h) => r.total[h] = 0
    BY <2>2, <2>4 DEF CountedManned
  <2>7. \A q \in Groups : \A t \in r.queue[q] : r.gnum[t] \in Groups /\ Manned(r, r.gnum[t])
    BY <2>2, <2>4, <2>5 DEF CountedManned
  <2>8. CountedManned(r)
    BY <2>2, <2>6, <2>7 DEF CountedManned
  <2> QED BY <2>1, <2>4, <2>8 DEF r
<1> QED BY <1>1, <1>2

LEMMA OpenStaffs ==
  ASSUME NEW d, DOMAIN d = Fields, NEW g \in Groups, d.stop = Nil, Staffed(d),
         d.free \in SUBSET SegIds, d.active \in [Groups -> Open],
         d.gnum \in [SegIds -> Groups \cup {Nil}], d.queue \in [Groups -> SUBSET SegIds],
         \A q \in Groups : d.queue[q] \cap d.free = {}
  PROVE  Works(OpenActive(d, g), d)
<1> DEFINE r == OpenActive(d, g)
<1>1. \/ Halted(r)
      \/ /\ r.stop = Nil /\ CountedManned(r) /\ Manned(r, g)
         /\ \A h \in Groups : Manned(d, h) => Manned(r, h)
  BY OpenMans DEF Staffed
<1> HIDE DEF r
<1> QED BY <1>1, Sorts DEF Works, Staffed, r

LEMMA RoomStaffs ==
  ASSUME NEW d, NEW v, NEW own, NEW J, NEW g \in Groups, Placed(d, v, own, J), d.stop = Nil,
         Staffed(d), Manned(d, g)
  PROVE  Works(MakeRoom(d, g), d)
<1> DEFINE q == QueueOf(d, g)
           x == Seal(d, g, q)
<1>1. EngineOK(d) /\ Apart(d, v, own) /\ Labelled(d, J)
  BY DEF Placed
<1>2. CASE d.active[g].off < PPS
  <2>1. MakeRoom(d, g) = d
    BY <1>2 DEF MakeRoom
  <2> QED BY <2>1 DEF Works
<1>3. CASE ~(d.active[g].off < PPS)
  <2>1. MakeRoom(d, g) = OpenActive(x, g)
    BY <1>3 DEF MakeRoom
  <2>2. q \in Groups
    BY <1>1, GroupsOf DEF QueueOf
  <2> HIDE DEF q
  <2>3. d.gnum[d.active[g].seg] = g
    BY <1>1 DEF Labelled, Manned
  <2>4. Staffed(x)
    BY <1>1, <2>2, <2>3, SealStaffs DEF EngineOK
  <2>5. /\ DOMAIN x = Fields /\ x.gnum = d.gnum /\ x.active = d.active /\ x.free = d.free
        /\ x.queue = [d.queue EXCEPT ![q] = @ \cup {d.active[g].seg}] /\ x.stop = d.stop
    <3>1. DOMAIN d = Fields
      BY <1>1 DEF EngineOK
    <3> QED BY <3>1 DEF Seal, Fields
  <2> HIDE DEF x
  <2>6. d.active[g].seg \in SegIds
    BY <1>1 DEF EngineOK, Open, Manned
  <2>7. x.queue \in [Groups -> SUBSET SegIds]
    BY <1>1, <2>2, <2>5, <2>6 DEF EngineOK
  <2>8. \A p \in Groups : x.queue[p] \cap x.free = {}
    BY <1>1, <2>2, <2>5 DEF Apart, EngineOK
  <2>9. Works(OpenActive(x, g), x)
    BY <1>1, <2>4, <2>5, <2>7, <2>8, OpenStaffs DEF EngineOK
  <2> QED BY <2>1, <2>5, <2>9 DEF Works, Manned
<1> QED BY <1>2, <1>3

(* The copy loops, which stop only where there is no room.                 *)
LEMMA StepStaffs ==
  ASSUME NEW d, NEW d0, NEW v \in SegIds, NEW own, NEW J, NEW g, NEW to \in Groups,
         NEW i \in PageNos, to # own, Copying(d, d0, v, own, J, g, to, i - 1),
         d.stop = Nil, Staffed(d)
  PROVE  Works(CopyPage(d, v, g, to, i), d) /\ Works(MovePage(d, v, to, i), d)
<1> DEFINE room == MakeRoom(d, to)
           lba == d.page[v][i]
           counted == IF g \in {0, 1} THEN HfCopied(room, lba, g) ELSE room
           R(x, c) == [AppendPage(c, to, lba) EXCEPT !.moved = x]
<1>1. Works(room, d)
  BY RoomStaffs DEF Copying, Manned
<1>2. ~Stopped(d)
  BY DEF Stopped
<1>3. CASE Halted(room)
  <2>1. Stopped(room)
    BY <1>3, HaltStops
  <2>2. CopyPage(d, v, g, to, i) = room /\ MovePage(d, v, to, i) = room
    BY <1>2, <2>1 DEF CopyPage, MovePage
  <2> QED BY <1>1, <2>2
<1>4. CASE room.stop = Nil /\ lba = Nil
  <2>1. CopyPage(d, v, g, to, i) = room /\ MovePage(d, v, to, i) = room
    BY <1>2, <1>4 DEF CopyPage, MovePage
  <2> QED BY <1>1, <2>1
<1>5. CASE ~Halted(room) /\ room.stop = Nil /\ lba # Nil
  <2>1. ~Stopped(room)
    BY <1>5 DEF Stopped
  <2>2. \E x, y : /\ CopyPage(d, v, g, to, i) = R(x, counted)
                  /\ MovePage(d, v, to, i) = R(y, room)
    BY Zenon, <1>2, <1>5, <2>1 DEF CopyPage, MovePage
  <2>3. Copying(room, d0, v, own, J, g, to, i - 1)
    BY <2>1, RoomWhileCopying
  <2>4. DOMAIN room = Fields /\ room.active \in [Groups -> Open]
    BY <2>3 DEF Copying, Placed, EngineOK
  <2>5. Same(counted, room) /\ Same(room, room)
    <3>1. Same(HfCopied(room, lba, g), room)
      BY Zenon, <2>4, FilterIsApart
    <3> QED BY <3>1 DEF Same
  <2>6. Staffed(room) /\ \A h \in Groups : Manned(d, h) => Manned(room, h)
    BY <1>1, <1>5 DEF Works
  <2> HIDE DEF room, counted, lba
  <2>7. \A c \in {counted, room} : \A x : Works(R(x, c), d)
    <3> TAKE c \in {counted, room}
    <3> TAKE x
    <3>1. Same(c, room)
      BY <2>5
    <3>2. DOMAIN c = Fields
      BY <2>4, <3>1 DEF Same
    <3>3. /\ R(x, c).total = c.total /\ R(x, c).queue = c.queue /\ R(x, c).gnum = c.gnum
          /\ R(x, c).stop = c.stop /\ R(x, c).active = [c.active EXCEPT ![to].off = @ + 1]
      BY <3>2 DEF AppendPage, Fields
    <3> HIDE DEF R
    <3>4. /\ R(x, c).total = room.total /\ R(x, c).queue = room.queue
          /\ R(x, c).gnum = room.gnum /\ R(x, c).stop = Nil
          /\ R(x, c).active = [room.active EXCEPT ![to].off = @ + 1]
      BY <1>5, <3>1, <3>3 DEF Same
    <3>5. \A h \in Groups : R(x, c).active[h].seg = room.active[h].seg
      BY <2>4, <3>4 DEF Open
    <3>6. Staffed(R(x, c)) /\ \A h \in Groups : Manned(room, h) <=> Manned(R(x, c), h)
      BY <2>6, <3>4, <3>5, SameStaff
    <3> QED BY <2>6, <3>4, <3>6 DEF Works
  <2> HIDE DEF R
  <2> QED BY <2>2, <2>7
<1>6. Halted(room) \/ room.stop = Nil
  BY <1>1 DEF Works
<1> QED BY <1>3, <1>4, <1>5, <1>6

Begun(d, v, own, J, g, to) ==
  Halted(d) \/ (Copying(d, d, v, own, J, g, to, 0) /\ d.stop = Nil /\ Staffed(d))

LEMMA LoopStaffs ==
  ASSUME NEW d0, NEW v \in SegIds, NEW own, NEW J, NEW g, NEW to \in Groups, NEW n \in 0 .. PPS,
         to # own, to # 0, Begun(d0, v, own, J, g, to)
  PROVE  \A f : CopyTurns(f, d0, v, g, to, n) \/ MoveTurns(f, d0, v, to, n) => Works(f[n], d0)
<1> DEFINE Is(f, m) == CopyTurns(f, d0, v, g, to, m)
           Has(f, m) == MoveTurns(f, d0, v, to, m)
           Good(d, m) == Halted(d) \/ (Copying(d, d0, v, own, J, g, to, m) /\ Works(d, d0))
<1>1. Good(d0, 0)
  BY DEF Works, Begun
<1>2. \A d : \A i \in PageNos : Good(d, i - 1) =>
        Good(CopyPage(d, v, g, to, i), i) /\ Good(MovePage(d, v, to, i), i)
  <2> SUFFICES ASSUME NEW d, NEW i \in PageNos, Good(d, i - 1)
               PROVE  Good(CopyPage(d, v, g, to, i), i) /\ Good(MovePage(d, v, to, i), i)
    OBVIOUS
  <2>1. CASE Halted(d)
    BY <2>1, HaltStops DEF CopyPage, MovePage
  <2>2. CASE ~Halted(d) /\ Copying(d, d0, v, own, J, g, to, i - 1) /\ Works(d, d0)
    <3>1. d.stop = Nil /\ Staffed(d) /\ \A h \in Groups : Manned(d0, h) => Manned(d, h)
      BY <2>2 DEF Works
    <3> DEFINE a == CopyPage(d, v, g, to, i)
               b == MovePage(d, v, to, i)
    <3>2. Works(a, d) /\ Works(b, d)
      BY Zenon, <2>2, <3>1, StepStaffs
    <3>3. /\ Stopped(a) \/ Copying(a, d0, v, own, J, g, to, i)
          /\ Stopped(b) \/ Copying(b, d0, v, own, J, g, to, i)
      BY Zenon, <2>2, CopyStep
    <3> HIDE DEF a, b
    <3>4. \A x \in {a, b} : Good(x, i)
      BY <3>1, <3>2, <3>3 DEF Works, Stopped
    <3> QED BY <3>4 DEF a, b
  <2> QED BY <2>1, <2>2
<1> HIDE DEF Good
<1>3. \A i \in 0 .. n : i # 0 => i \in PageNos /\ i - 1 \in 0 .. n
  BY Sorts DEF PageNos
<1>4. \A f : Is(f, n) \/ Has(f, n) => Good(f[n], n)
  <2> SUFFICES ASSUME NEW f, Is(f, n) \/ Has(f, n)
               PROVE  Good(f[n], n)
    OBVIOUS
  <2> DEFINE T == {m \in Nat : m \in 0 .. n => Good(f[m], m)}
  <2>1. 0 \in T
    BY <1>1, Sorts DEF CopyTurns, MoveTurns
  <2>2. \A m \in T : m + 1 \in T
    <3> SUFFICES ASSUME NEW m \in T, m + 1 \in 0 .. n PROVE Good(f[m + 1], m + 1)
      OBVIOUS
    <3>1. m + 1 # 0 /\ m + 1 \in PageNos /\ m \in 0 .. n /\ (m + 1) - 1 = m
      BY <1>3
    <3>2. Good(f[m], m)
      BY <3>1
    <3>3. \/ f[m + 1] = CopyPage(f[m], v, g, to, m + 1)
          \/ f[m + 1] = MovePage(f[m], v, to, m + 1)
      BY <3>1 DEF CopyTurns, MoveTurns
    <3> DEFINE i == m + 1
    <3>4. i \in PageNos /\ i - 1 = m
      BY <3>1
    <3> HIDE DEF i
    <3>5. Good(CopyPage(f[m], v, g, to, i), i) /\ Good(MovePage(f[m], v, to, i), i)
      BY <1>2, <3>2, <3>4
    <3> QED BY <3>3, <3>5 DEF i
  <2> HIDE DEF T
  <2>3. T = Nat
    BY Zenon, <2>1, <2>2, ByInduction DEF T
  <2>4. n \in Nat /\ n \in 0 .. n
    BY Sorts
  <2> QED BY <2>3, <2>4 DEF T
<1> QED BY Zenon, <1>4 DEF Good, Works

(* do_gc never finds a group in use that has no active segment.            *)
LEMMA DoGCStaffs ==
  ASSUME NEW d, Sound(d), ChainOn(d), d.stop = Nil, Staffed(d),
         NEW q \in Groups, NEW v \in d.queue[q]
  PROVE  Goes(DoGC(d, q, v))
<1> DEFINE g == d.gnum[v]
           to == GCTo(d, g)
           taken == GCTaken(d, q, v)
           ready == GCReady(d, q, v)
           Copied[i \in 0 .. PPS] ==
             IF i = 0 THEN ready ELSE CopyPage(Copied[i - 1], v, g, to, i)
           c == Copied[PPS]
           r == Erase(c, v, g)
<1>1. GCStarts(d, q, v, g, to, taken, ready)
  BY GCMakesReady
<1>2. DoGC(d, q, v) = IF Stopped(c) THEN c ELSE r
  BY DEF DoGC, GCReady, GCTaken, GCTo
<1>3. ready = IF taken.active[to].seg # Nil THEN taken
              ELSE IF taken.total[to] # 0 THEN Stop(taken, "group in use")
              ELSE OpenActive(taken, to)
  BY DEF GCReady
<1> HIDE DEF taken, ready, to, g
<1>4. /\ v \in SegIds /\ g \in Groups /\ to \in Groups /\ to # 0 /\ to # Nil
      /\ DOMAIN taken = Fields /\ taken.gnum = d.gnum /\ taken.active = d.active
      /\ taken.free = d.free /\ taken.stop = d.stop
      /\ taken.queue = [d.queue EXCEPT ![q] = @ \ {v}] /\ taken.total = d.total
  BY <1>1 DEF GCStarts, Unmoved
<1>5. Manned(d, g)
  BY DEF Staffed, CountedManned, g
<1>6. EngineOK(d) /\ Apart(d, Nil, Nil)
  BY DEF Sound, Placed
<1>7. Staffed(taken) /\ \A h \in Groups : Manned(d, h) <=> Manned(taken, h)
  <2>1. \A p \in Groups : \A s \in taken.queue[p] : s \in d.queue[p]
    BY <1>4, <1>6 DEF EngineOK
  <2> QED BY <1>4, <2>1 DEF Staffed, CountedManned, Manned
<1>8. Works(ready, taken)
  <2>1. CASE taken.active[to].seg # Nil
    BY <1>3, <1>4, <1>7, <2>1 DEF Works
  <2>2. CASE taken.active[to].seg = Nil
    <3>1. taken.total[to] = 0
      BY <1>4, <1>7, <2>2 DEF Staffed, CountedManned, Manned
    <3>2. ready = OpenActive(taken, to)
      BY <1>3, <2>2, <3>1
    <3>3. taken.queue \in [Groups -> SUBSET SegIds] /\ \A p \in Groups : taken.queue[p] \cap taken.free = {}
      BY <1>4, <1>6 DEF EngineOK, Apart
    <3> QED BY <1>4, <1>6, <1>7, <3>2, <3>3, OpenStaffs DEF EngineOK
  <2> QED BY <2>1, <2>2
<1>9. Halted(ready) \/ (Copying(ready, ready, v, Nil, {}, g, to, 0) /\ ready.stop = Nil
                        /\ Staffed(ready) /\ \A h \in Groups : Manned(d, h) => Manned(ready, h))
  BY <1>1, <1>7, <1>8 DEF GCStarts, Works, Stopped
<1>10. Works(c, ready) /\ (Stopped(c) \/ Copying(c, ready, v, Nil, {}, g, to, PPS))
  <2>1. PPS \in 0 .. PPS /\ v \in SegIds /\ to \in Groups /\ to # 0 /\ to # Nil
    BY <1>4, Sorts
  <2>2. Stopped(ready) \/ Copying(ready, ready, v, Nil, {}, g, to, 0)
    BY <1>9, HaltStops
  <2>3. Begun(ready, v, Nil, {}, g, to)
    BY <1>9 DEF Begun
  <2>4. Works(c, ready)
    <3>1. CopyTurns(Copied, ready, v, g, to, PPS)
      <4>1. PPS \in Nat
        BY Sorts
      <4> QED BY ONLY Zenon, <4>1, LoopsUnfold
    <3> HIDE DEF Copied
    <3>2. \A f : CopyTurns(f, ready, v, g, to, PPS) => Works(f[PPS], ready)
      BY ONLY Zenon, <2>1, <2>3, LoopStaffs
    <3> QED BY <3>1, <3>2
  <2>5. Stopped(c) \/ Copying(c, ready, v, Nil, {}, g, to, PPS)
    BY ONLY ZenonT(60), <2>1, <2>2, CopyLoop
  <2> QED BY <2>4, <2>5
<1> HIDE DEF c, r
<1>11. CASE Halted(c)
  BY <1>2, <1>11, HaltStops DEF Goes
<1>12. CASE ~Halted(c)
  <2>1. c.stop = Nil /\ Staffed(c) /\ \A h \in Groups : Manned(ready, h) => Manned(c, h)
    BY <1>10, <1>12 DEF Works
  <2>2. Copying(c, ready, v, Nil, {}, g, to, PPS) /\ DoGC(d, q, v) = r
    BY <1>2, <1>10, <2>1 DEF Stopped
  <2>3. EngineOK(c) /\ Apart(c, v, Nil) /\ DOMAIN c = Fields
    BY <2>2 DEF Copying, Placed, EngineOK
  <2>4. /\ r.active = c.active /\ r.queue = c.queue /\ r.stop = c.stop
        /\ r.gnum = [c.gnum EXCEPT ![v] = Nil] /\ r.total = [c.total EXCEPT ![g] = @ - 1]
    BY <2>3 DEF Erase, Fields, r
  <2>5. Manned(c, g)
    <3>1. ready.stop = Nil
      BY <2>1, <2>2 DEF Copying
    <3>2. ~Halted(ready)
      BY <3>1, HaltStops DEF Halted
    <3> QED BY <1>4, <1>5, <1>9, <2>1, <3>2
  <2>6. \A p \in Groups : \A s \in r.queue[p] : s \in c.queue[p] /\ s # v /\ s \in SegIds
    BY <1>4, <2>3, <2>4 DEF Apart, EngineOK
  <2>7. \A h \in Groups : ~Manned(r, h) => r.total[h] = 0
    BY <1>4, <2>1, <2>4, <2>5 DEF Staffed, CountedManned, Manned
  <2>8. \A p \in Groups : \A s \in r.queue[p] : r.gnum[s] \in Groups /\ Manned(r, r.gnum[s])
    BY <2>1, <2>3, <2>4, <2>6 DEF Staffed, CountedManned, Manned, EngineOK
  <2>9. r.total \in [Groups -> Int] /\ Manned(r, 0) /\ Manned(r, 1)
    BY <1>4, <2>1, <2>4 DEF Staffed, CountedManned, Manned
  <2> QED BY <2>1, <2>2, <2>4, <2>7, <2>8, <2>9 DEF Goes, Staffed, CountedManned
<1> QED BY <1>11, <1>12

LEMMA GCStaffs ==
  ASSUME NEW d, Sound(d), ChainOn(d), d.stop = Nil, Staffed(d), NEW r \in GCResults(d)
  PROVE  Goes(r)
<1> DEFINE q == GCGroup(d)
<1>1. EngineOK(d) /\ DOMAIN d = Fields
  BY DEF Sound, Placed, EngineOK
<1>2. \/ r = Stop(d, "no victim")
      \/ \E v \in Victims(d, q) : r = DoGC(d, q, v)
      \/ r = [d EXCEPT !.err = TRUE, !.watch = FALSE]
      \/ r = d
  BY DEF GCResults
<1>3. CASE r = Stop(d, "no victim")
  <2>1. r.stop = "no victim"
    BY <1>1, <1>3 DEF Stop, Fields
  <2> QED BY <2>1 DEF Goes, Halted, Halts
<1>4. CASE \E v \in Victims(d, q) : r = DoGC(d, q, v)
  <2>1. q \in Groups /\ Victims(d, q) \subseteq d.queue[q]
    BY <1>1, GCGroupOf
  <2> QED BY <1>4, <2>1, DoGCStaffs
<1>5. CASE r = [d EXCEPT !.err = TRUE, !.watch = FALSE]
  <2>1. Same(r, d)
    BY <1>1, <1>5 DEF Same, Fields
  <2> QED BY <2>1, SameStaff DEF Same, Goes
<1>6. CASE r = d
  BY <1>6 DEF Goes
<1> QED BY Zenon, <1>2, <1>3, <1>4, <1>5, <1>6

LEMMA EvictStaffs ==
  ASSUME NEW d, Sound(d), d.stop = Nil, Staffed(d), NEW q \in Groups, NEW s \in d.queue[q]
  PROVE  Goes(Erase(Purge([d EXCEPT !.queue[q] = @ \ {s}], s), s, q))
<1> DEFINE t == [d EXCEPT !.queue[q] = @ \ {s}]
           p == Purge(t, s)
           r == Erase(p, s, q)
<1>1. /\ EngineOK(d) /\ DOMAIN d = Fields /\ Apart(d, Nil, Nil) /\ Labelled(d, {})
      /\ d.queue \in [Groups -> SUBSET SegIds] /\ d.gnum \in [SegIds -> Groups \cup {Nil}]
  BY DEF Sound, Placed, EngineOK
<1>2. /\ DOMAIN t = Fields /\ t.gnum = d.gnum /\ t.active = d.active /\ t.stop = d.stop
      /\ t.queue = [d.queue EXCEPT ![q] = @ \ {s}] /\ t.total = d.total
  BY <1>1 DEF Fields
<1> HIDE DEF t
<1>3. /\ DOMAIN p = Fields /\ p.gnum = t.gnum /\ p.active = t.active /\ p.stop = t.stop
      /\ p.queue = t.queue /\ p.total = t.total
  BY <1>2 DEF Purge, Fields
<1> HIDE DEF p
<1>4. /\ r.gnum = [d.gnum EXCEPT ![s] = Nil] /\ r.active = d.active /\ r.stop = Nil
      /\ r.queue = [d.queue EXCEPT ![q] = @ \ {s}] /\ r.total = [d.total EXCEPT ![q] = @ - 1]
  BY <1>2, <1>3 DEF Erase, Fields
<1> HIDE DEF r
<1>5. Manned(d, q)
  BY <1>1 DEF Labelled, Staffed, CountedManned, Manned
<1>6. \A g \in Groups : \A x \in r.queue[g] : x \in d.queue[g] /\ x # s /\ x \in SegIds
  BY <1>1, <1>4 DEF Apart
<1>7. \A g \in Groups : \A x \in r.queue[g] : r.gnum[x] \in Groups /\ Manned(r, r.gnum[x])
  BY <1>1, <1>4, <1>6 DEF Staffed, CountedManned, Manned
<1>8. r.total \in [Groups -> Int] /\ \A h \in Groups : ~Manned(r, h) => r.total[h] = 0
  BY <1>4, <1>5 DEF Staffed, CountedManned, Manned
<1>9. Manned(r, 0) /\ Manned(r, 1)
  BY <1>4 DEF Staffed, CountedManned, Manned
<1> QED BY <1>4, <1>7, <1>8, <1>9 DEF Goes, Staffed, CountedManned, r, p, t

(* The filter's counter of a written page is in its range, and the group   *)
(* the page goes to has an active segment.                                 *)
LEMMA WriteStaffs ==
  ASSUME NEW d, Sound(d), ChainOn(d), d.stop = Nil, Staffed(d), NEW lba \in Lbas, NEW young
  PROVE  Goes(Write(d, lba, young))
<1> DEFINE old == d.where[lba]
           c == [d EXCEPT !.page[old[1]][old[2]] = Nil, !.inv[old[1]] = @ + 1]
           x == HfOverwrite(c, lba, d.gnum[old[1]], young)
           p == IF old = Nil THEN d ELSE x
           g == UserGroup(p, lba)
           m == MakeRoom(p, g)
           a == AppendPage(m, g, lba)
           r == Write(d, lba, young)
<1>1. Placed(d, Nil, Nil, {}) /\ HotIn(d, Nil, Nil, 0) /\ DOMAIN d = Fields
  BY DEF Sound, Placed, EngineOK
<1>2. /\ Placed(p, Nil, Nil, {}) /\ HotIn(p, Nil, Nil, 0) /\ p.stop = Nil
      /\ p.total = d.total /\ p.queue = d.queue /\ p.gnum = d.gnum /\ p.active = d.active
      /\ p.naive = d.naive /\ p.mida = d.mida
  <2>1. CASE old = Nil
    BY <1>1, <2>1
  <2>2. CASE old # Nil
    <3>1. /\ Placed(x, Nil, Nil, {}) /\ AgreeBut(x, Nil, 0, lba) /\ HotIn(x, Nil, Nil, 0)
          /\ Present(x) = Present(d) /\ x.vp = d.vp /\ x.naive = d.naive /\ x.mida = d.mida
          /\ x.stop = d.stop /\ x.refused = d.refused
          /\ x.total = d.total /\ x.queue = d.queue
      BY ZenonT(60), <2>2, Invalidated
    <3>2. /\ DOMAIN c = Fields /\ c.total = d.total /\ c.queue = d.queue
          /\ c.gnum = d.gnum /\ c.active = d.active
      BY <1>1 DEF Fields
    <3> HIDE DEF c
    <3>3. Same(x, c)
      BY Zenon, <3>2, FilterIsApart
    <3> HIDE DEF x
    <3> QED BY <2>2, <3>1, <3>2, <3>3 DEF Same
  <2> QED BY Zenon, <2>1, <2>2
<1>3. r = IF p.hf[lba] \notin 0 .. HotVal THEN Stop(p, "filter range")
          ELSE IF p.active[g].seg = Nil THEN Stop(p, "no active segment")
          ELSE IF p.active[g].off = PPS /\ p.free = {}
          THEN [Seal(p, g, QueueOf(p, g)) EXCEPT !.refused = TRUE]
          ELSE IF old = Nil THEN [a EXCEPT !.vp = @ + 1] ELSE a
  BY DEF Write
<1> HIDE DEF p, x, c
<1>4. g \in {0, 1} /\ g \in Groups
  BY Sorts DEF UserGroup
<1> HIDE DEF g, r
<1>5. EngineOK(p) /\ DOMAIN p = Fields /\ Labelled(p, {})
  BY <1>2 DEF Placed, EngineOK
<1>6. Staffed(p) /\ Manned(p, g) /\ p.hf[lba] \in 0 .. HotVal
  <2>1. Staffed(p)
    BY <1>2, SameStaff
  <2>2. Manned(p, g)
    BY <1>4, <2>1 DEF Staffed, CountedManned
  <2>3. p.hf[lba] \in 0 .. HotVal
    BY <1>2 DEF HotIn
  <2> QED BY <2>1, <2>2, <2>3
<1>7. CASE p.active[g].off = PPS /\ p.free = {}
  <2> DEFINE q == QueueOf(p, g)
             y == Seal(p, g, q)
  <2>1. r = [y EXCEPT !.refused = TRUE]
    BY Zenon, <1>3, <1>6, <1>7 DEF Manned
  <2>2. q \in Groups
    BY <1>4, <1>5, GroupsOf DEF QueueOf
  <2>3. p.gnum[p.active[g].seg] = g
    BY <1>4, <1>5, <1>6 DEF Labelled, Manned
  <2> HIDE DEF q
  <2>4. Staffed(y)
    BY <1>4, <1>5, <1>6, <2>2, <2>3, SealStaffs DEF EngineOK
  <2>5. DOMAIN y = Fields /\ y.stop = p.stop
    BY <1>5 DEF Seal, Fields
  <2> HIDE DEF y
  <2>6. /\ r.total = y.total /\ r.queue = y.queue /\ r.gnum = y.gnum /\ r.active = y.active
        /\ r.stop = y.stop
    BY <2>1, <2>5 DEF Fields
  <2> QED BY <1>2, <2>4, <2>5, <2>6, SameStaff DEF Goes, r
<1>8. CASE ~(p.active[g].off = PPS /\ p.free = {})
  <2>1. r = IF old = Nil THEN [a EXCEPT !.vp = @ + 1] ELSE a
    BY Zenon, <1>3, <1>6, <1>8 DEF Manned
  <2>2. Works(m, p)
    BY <1>2, <1>4, <1>6, RoomStaffs
  <2>3. m.stop = Nil
    <3>1. CASE p.active[g].off < PPS
      BY <1>2, <3>1 DEF MakeRoom
    <3>2. CASE ~(p.active[g].off < PPS)
      <4> DEFINE y == Seal(p, g, QueueOf(p, g))
      <4>1. p.active[g] \in Open
        BY <1>4, <1>5 DEF EngineOK
      <4>2. p.free # {}
        BY <1>8, <3>2, <4>1, Sorts DEF Open
      <4>3. DOMAIN y = Fields /\ y.stop = Nil /\ y.free = p.free
        BY <1>2, <1>5 DEF Seal, Fields
      <4>4. m = OpenActive(y, g)
        BY <3>2 DEF MakeRoom
      <4> HIDE DEF y, m
      <4> QED BY <4>2, <4>3, <4>4, OpenStops
    <3> QED BY <3>1, <3>2
  <2>4. Staffed(m)
    BY <2>2, <2>3, HaltStops DEF Works, Halted
  <2>5. ~Stopped(m)
    BY <2>3 DEF Stopped
  <2>6. Placed(m, Nil, Nil, {})
    <3>1. ChainOn(p)
      BY <1>2 DEF ChainOn
    <3>2. g # Nil /\ Nil \notin SegIds /\ Nil \notin Groups /\ p.active[g].seg # Nil
      BY <1>4, <1>6, Sorts DEF Manned
    <3>3. RoomMade(m, p, Nil, Nil, {}, g)
      BY <1>2, <1>4, <2>5, <3>1, <3>2, MakeRoomKeepsPlaced
    <3> HIDE DEF m
    <3> QED BY <3>3 DEF RoomMade, Ready
  <2>7. DOMAIN m = Fields /\ m.active \in [Groups -> Open]
    BY <2>6 DEF Placed, EngineOK
  <2> HIDE DEF m
  <2>8. /\ DOMAIN a = Fields /\ a.total = m.total /\ a.queue = m.queue /\ a.gnum = m.gnum
        /\ a.stop = Nil /\ a.active = [m.active EXCEPT ![g].off = @ + 1]
    BY <2>3, <2>7 DEF AppendPage, Fields
  <2> HIDE DEF a
  <2>9. /\ r.total = m.total /\ r.queue = m.queue /\ r.gnum = m.gnum
        /\ r.stop = Nil /\ r.active = [m.active EXCEPT ![g].off = @ + 1]
    BY <2>1, <2>8 DEF Fields
  <2>10. \A h \in Groups : r.active[h].seg = m.active[h].seg
    BY <2>7, <2>9 DEF Open
  <2> QED BY <2>4, <2>9, <2>10, SameStaff DEF Goes, r
<1> QED BY <1>7, <1>8

(* With the chain off, all that it held is of one group, which goes on.    *)
LEMMA MidaOffStaffs ==
  ASSUME NEW d, Sound(d), ChainOn(d), d.mida, d.stop = Nil, Staffed(d), Balanced(d)
  PROVE  Goes(MidaOff(d))
<1> DEFINE n == d.naive
           chain == {g \in n + 1 .. n + NaiveN - 1 : d.active[g].seg # Nil}
           opened == {d.active[g].seg : g \in chain}
           inQueue == d.queue[n] \cup opened
           hot == IF n = 1 THEN {s \in d.queue[1] : d.gnum[s] = 0} ELSE {}
           act == [g \in Groups |-> IF g \in chain THEN NotActive ELSE d.active[g]]
           gn == [s \in SegIds |-> IF s \in inQueue /\ d.gnum[s] > n THEN n ELSE d.gnum[s]]
           iv == [s \in SegIds |-> IF s \in opened THEN PPS \div 2 ELSE d.inv[s]]
           tot == [g \in Groups |->
                    IF g = n THEN Cardinality(opened) + TotalOf(d, n .. n + NaiveN - 1)
                    ELSE IF g \in n + 1 .. n + NaiveN - 1 THEN 0 ELSE d.total[g]]
           qu == [g \in Groups |->
                   IF g = n THEN inQueue \ hot
                   ELSE IF g = 0 THEN d.queue[0] \cup hot ELSE d.queue[g]]
           r == [d EXCEPT !.mida = FALSE, !.active = act, !.gnum = gn, !.inv = iv,
                          !.total = tot, !.queue = qu]
<1>1. EngineOK(d) /\ Labelled(d, {}) /\ DOMAIN d = Fields
  BY DEF Sound, Placed, EngineOK
<1>2. MidaOff(d) = IF n = 1 /\ d.total[0] # Cardinality(hot) THEN Stop(r, "hot count") ELSE r
  BY DEF MidaOff
<1>3. n \in Groups /\ n \in Nat /\ n >= 1 /\ GroupNum(d) = n + NaiveN /\ Groups \subseteq Nat
  BY <1>1, GroupsOf, Sorts DEF GroupNum
<1> HIDE DEF act, gn, iv, tot, qu, n
<1>4. /\ DOMAIN r = Fields /\ r.active = act /\ r.gnum = gn /\ r.queue = qu /\ r.total = tot
      /\ r.stop = Nil
  BY <1>1 DEF Fields
<1> HIDE DEF r
<1>5. CASE n = 1 /\ d.total[0] # Cardinality(hot)
  <2>1. MidaOff(d) = Stop(r, "hot count")
    BY Zenon, <1>2, <1>5
  <2>2. MidaOff(d).stop = "hot count"
    BY <1>4, <2>1 DEF Stop, Fields
  <2> QED BY <2>2 DEF Goes, Halted, Halts
<1>6. CASE ~(n = 1 /\ d.total[0] # Cardinality(hot))
  <2>1. MidaOff(d) = r
    BY Zenon, <1>2, <1>6
  <2>2. r.total \in [Groups -> Int]
    <3>1. Stopped(MidaOff(d)) \/ Kept(MidaOff(d), d)
      BY MidaOffIsSound DEF Stopped
    <3> QED BY <1>4, <2>1, <3>1 DEF Stopped, Kept, Balanced, Counts
  <2>3. \A g \in chain : g \in Groups /\ g \in Nat /\ g > n /\ g < n + NaiveN
    <3>1. \A g \in n + 1 .. n + NaiveN - 1 : g \in Nat /\ g > n /\ g < n + NaiveN
      BY <1>3, Sorts
    <3> QED BY <1>1, <1>3, <3>1, GroupsOf
  <2>4. /\ \A g \in Groups : Manned(r, g) <=> Manned(d, g) /\ g \notin chain
        /\ \A g \in Groups : Manned(d, g) /\ ~Manned(r, g) => g > n /\ g < n + NaiveN
    BY <1>4, <2>3 DEF act, Manned, NotActive
  <2>5. \A g \in Groups : Manned(d, g) /\ g <= n => Manned(r, g)
    BY <1>3, <2>4
  <2>6. \A g \in Groups : Manned(d, g) => g < n + NaiveN
    BY <1>1, <1>3 DEF Labelled, Manned
  <2>7. Manned(d, n) /\ Manned(r, n) /\ Manned(r, 0) /\ Manned(r, 1)
    <3>1. Manned(d, n)
      BY <1>1 DEF Labelled, Manned, n
    <3> QED BY <1>3, <2>5, <3>1, Sorts DEF Staffed
  <2>8. \A g \in Groups : ~Manned(r, g) => r.total[g] = 0
    <3> SUFFICES ASSUME NEW g \in Groups, ~Manned(r, g) PROVE r.total[g] = 0
      OBVIOUS
    <3>1. g # n /\ g \in Nat
      BY <1>3, <2>7
    <3>2. CASE Manned(d, g)
      BY <1>3, <1>4, <2>4, <3>1, <3>2, Sorts DEF tot
    <3>3. CASE ~Manned(d, g)
      <4>1. d.total[g] = 0
        BY <3>3 DEF Staffed, CountedManned
      <4> QED BY <1>4, <3>1, <4>1 DEF tot
    <3> QED BY <3>2, <3>3
  <2>9. \A q \in Groups : \A s \in r.queue[q] : r.gnum[s] \in Groups /\ Manned(r, r.gnum[s])
    <3> SUFFICES ASSUME NEW q \in Groups, NEW s \in r.queue[q]
                 PROVE  r.gnum[s] \in Groups /\ Manned(r, r.gnum[s])
      OBVIOUS
    <3>1. \A g \in chain : d.active[g].seg \in SegIds /\ d.gnum[d.active[g].seg] = g
      BY <1>1, <2>3 DEF EngineOK, Open, Labelled
    <3>2. s \in inQueue \/ s \in hot \/ (q # n /\ s \in d.queue[q])
      BY <1>4 DEF qu
    <3>3. hot \subseteq d.queue[n]
      OBVIOUS
    <3>4. CASE s \in d.queue[n] \/ s \in opened
      <4>1. s \in SegIds /\ s \in inQueue /\ d.gnum[s] \in Groups /\ Manned(d, d.gnum[s])
        <5>1. CASE s \in d.queue[n]
          BY <1>1, <1>3, <5>1 DEF Staffed, CountedManned, EngineOK
        <5>2. CASE s \in opened
          BY <2>3, <3>1, <5>2 DEF Manned
        <5> QED BY <3>4, <5>1, <5>2
      <4>2. r.gnum[s] = IF d.gnum[s] > n THEN n ELSE d.gnum[s]
        BY <1>4, <4>1 DEF gn
      <4> HIDE DEF chain, opened, inQueue, hot
      <4>3. CASE d.gnum[s] > n
        BY <1>3, <2>7, <4>2, <4>3
      <4>4. CASE ~(d.gnum[s] > n)
        <5>2. d.gnum[s] \in Nat
          BY <1>3, <4>1
        <5>1. d.gnum[s] <= n /\ r.gnum[s] = d.gnum[s]
          BY <1>3, <4>2, <4>4, <5>2
        <5> QED BY <2>5, <4>1, <5>1
      <4> QED BY <4>3, <4>4
    <3>5. CASE ~(s \in d.queue[n] \/ s \in opened)
      <4>1. q # n /\ s \in d.queue[q]
        BY <3>2, <3>3, <3>5
      <4>2. s \in SegIds /\ q < n /\ d.gnum[s] = q
        BY <1>1, <4>1 DEF Labelled, EngineOK, n
      <4>3. r.gnum[s] = q
        BY <1>4, <3>5, <4>2 DEF gn
      <4>4. Manned(d, q)
        BY <4>1, <4>2 DEF Staffed, CountedManned
      <4> QED BY <1>3, <2>5, <4>2, <4>3, <4>4
    <3> QED BY <3>4, <3>5
  <2> QED BY <1>4, <2>1, <2>2, <2>7, <2>8, <2>9 DEF Goes, Staffed, CountedManned
<1> QED BY <1>5, <1>6

(* group_split finds no label and no active segment that it aborts on.     *)
LEMMA SplitStaffs ==
  ASSUME NEW d, Sound(d), d.mida = FALSE, d.stop = Nil, Staffed(d),
         NEW last \in 1 .. MaxNaive, last > d.naive
  PROVE  Goes(GroupSplit(d, last))
<1> DEFINE old == d.naive
           a == d.active[old].seg
           qu == [g \in Groups |-> IF g = last THEN d.queue[old]
                                   ELSE IF g \in old .. last - 1 THEN {} ELSE d.queue[g]]
           tot == [g \in Groups |-> IF g = last THEN Cardinality(d.queue[old])
                                    ELSE IF g \in old .. last - 1 THEN 0 ELSE d.total[g]]
           act == [g \in Groups |-> IF g = last THEN d.active[old]
                                    ELSE IF g = old THEN NotActive ELSE d.active[g]]
           gn == [s \in SegIds |-> IF s \in d.queue[old] \cup {a} THEN last ELSE d.gnum[s]]
           m == [d EXCEPT !.naive = last, !.queue = qu, !.total = tot, !.active = act, !.gnum = gn]
           wrong == \/ d.mida
                    \/ d.active[last].seg # Nil
                    \/ \E s \in d.queue[old] : d.gnum[s] # old
                    \/ \E g \in old + 1 .. last - 1 : d.active[g].seg # Nil
<1>1. /\ EngineOK(d) /\ Apart(d, Nil, Nil) /\ Labelled(d, {}) /\ DOMAIN d = Fields
      /\ d.queue \in [Groups -> SUBSET SegIds] /\ d.free \in SUBSET SegIds
      /\ d.gnum \in [SegIds -> Groups \cup {Nil}] /\ d.active \in [Groups -> Open]
  BY DEF Sound, Placed, EngineOK
<1>2. GroupSplit(d, last) =
        IF wrong THEN Stop(m, "split") ELSE IF old = 1 THEN OpenActive(m, 1) ELSE m
  BY DEF GroupSplit
<1>3. /\ old \in Groups /\ old \in Nat /\ old >= 1 /\ GroupNum(d) = old + 1 /\ last \in Nat
      /\ last > old /\ Groups \subseteq Nat
  BY <1>1, GroupsOf, Sorts DEF GroupNum
<1>4. last \in Groups
  BY <1>3, Sorts DEF Groups
<1>5. \A g \in Groups : Manned(d, g) => g <= old
  <2> HIDE DEF old
  <2>1. \A g \in Groups : g < old + 1 => g <= old
    BY <1>3
  <2>2. \A g \in Groups : d.active[g].seg # Nil => g < GroupNum(d)
    BY ZenonT(60), <1>1 DEF Labelled
  <2> QED BY <1>3, <2>1, <2>2 DEF Manned
<1>6. \A g \in old + 1 .. last - 1 : g \in Groups /\ g > old
  BY <1>3, Sorts DEF Groups
<1>7. \A s \in d.queue[old] : d.gnum[s] = old
  <2>1. Chain(d) = old .. old
    BY <1>3 DEF Chain
  <2>2. \A s \in d.queue[old] : d.gnum[s] \in Chain(d)
    BY <1>1, <1>3 DEF Labelled
  <2> QED BY <1>3, <2>1, <2>2
<1>8. ~wrong
  BY <1>3, <1>4, <1>5, <1>6, <1>7 DEF Manned
<1>9. Manned(d, old) /\ a \in SegIds
  BY <1>1, <1>3 DEF Labelled, Manned, Open
<1> HIDE DEF act, gn, tot, qu, wrong, old
<1>10. /\ DOMAIN m = Fields /\ m.active = act /\ m.gnum = gn /\ m.queue = qu
       /\ m.total = tot /\ m.stop = Nil /\ m.free = d.free
  BY <1>1 DEF Fields
<1> HIDE DEF m, a
<1>11. /\ \A q \in Groups : m.queue[q] = IF q = last THEN d.queue[old]
                                          ELSE IF q \in old .. last - 1 THEN {} ELSE d.queue[q]
       /\ \A g \in Groups : m.active[g] = IF g = last THEN d.active[old]
                                           ELSE IF g = old THEN NotActive ELSE d.active[g]
       /\ \A s \in SegIds : m.gnum[s] = IF s \in d.queue[old] \cup {a} THEN last ELSE d.gnum[s]
       /\ \A g \in Groups : m.total[g] = IF g = last THEN Cardinality(d.queue[old])
                                          ELSE IF g \in old .. last - 1 THEN 0 ELSE d.total[g]
  BY <1>10 DEF qu, act, gn, tot
<1>12. \A g \in Groups : Manned(m, g) <=> g = last \/ (g # old /\ Manned(d, g))
  BY <1>9, <1>11 DEF Manned, NotActive
<1>13. m.total \in [Groups -> Int]
  <2>1. Cardinality(d.queue[old]) \in Int
    BY <1>1, <1>3, QueueCount
  <2> QED BY <1>10, <2>1 DEF tot, Staffed, CountedManned
<1>14. \A g \in Groups : ~Manned(m, g) => m.total[g] = 0
  <2> SUFFICES ASSUME NEW g \in Groups, ~Manned(m, g) PROVE m.total[g] = 0
    OBVIOUS
  <2>1. g # last /\ (g = old \/ ~Manned(d, g))
    BY <1>12
  <2>2. g = old => g \in old .. last - 1
    BY <1>3
  <2>3. ~Manned(d, g) => d.total[g] = 0
    BY DEF Staffed, CountedManned
  <2> QED BY <1>11, <2>1, <2>2, <2>3
<1>15. \A q \in Groups : \A s \in m.queue[q] : m.gnum[s] \in Groups /\ Manned(m, m.gnum[s])
  <2> SUFFICES ASSUME NEW q \in Groups, NEW s \in m.queue[q]
               PROVE  m.gnum[s] \in Groups /\ Manned(m, m.gnum[s])
    OBVIOUS
  <2>1. CASE q = last
    <3>1. s \in d.queue[old] /\ s \in SegIds
      BY <1>1, <1>3, <1>11, <2>1
    <3> QED BY <1>4, <1>11, <1>12, <3>1
  <2>2. CASE q # last
    <3>1. s \in d.queue[q] /\ s \in SegIds /\ q \notin old .. last - 1
      BY <1>1, <1>11, <2>2
    <3>2. q # old
      BY <1>3, <3>1
    <3>3. s \notin d.queue[old] /\ s # a
      BY <1>1, <1>3, <3>1, <3>2 DEF Apart, a
    <3>4. m.gnum[s] = d.gnum[s]
      BY <1>11, <3>1, <3>3
    <3>5. q < d.naive /\ d.gnum[s] = q
      BY <1>1, <3>1, <3>2 DEF Labelled, old
    <3>6. Manned(d, q)
      BY <3>1, <3>5 DEF Staffed, CountedManned
    <3> QED BY <1>12, <3>2, <3>4, <3>5, <3>6
  <2> QED BY <2>1, <2>2
<1>16. CountedManned(m) /\ Manned(m, 0)
  <2>1. 0 \in Groups /\ 0 # old
    BY <1>3, Sorts
  <2>2. Manned(m, 0)
    BY <1>12, <2>1 DEF Staffed
  <2> QED BY <1>13, <1>14, <1>15, <2>2 DEF CountedManned
<1>17. CASE old = 1
  <2>1. GroupSplit(d, last) = OpenActive(m, 1)
    BY Zenon, <1>2, <1>8, <1>17
  <2>2. m.active \in [Groups -> Open]
    <3>1. NotActive \in Open
      BY Sorts DEF NotActive, Open
    <3> QED BY <1>1, <1>3, <1>10, <3>1 DEF act
  <2>6. m.gnum \in [SegIds -> Groups \cup {Nil}]
    BY <1>1, <1>4, <1>10 DEF gn
  <2>3. m.queue \in [Groups -> SUBSET SegIds]
    BY <1>1, <1>3, <1>10 DEF qu
  <2>4. \A q \in Groups : m.queue[q] \cap m.free = {}
    BY <1>1, <1>3, <1>10, <1>11 DEF Apart
  <2> DEFINE r == OpenActive(m, 1)
  <2>5. \/ Halted(r)
        \/ /\ r.stop = Nil /\ CountedManned(r) /\ Manned(r, 1)
           /\ \A h \in Groups : Manned(m, h) => Manned(r, h)
    BY <1>1, <1>10, <1>16, <2>2, <2>3, <2>4, <2>6, Sorts, OpenMans
  <2> HIDE DEF r
  <2> QED BY <1>16, <2>1, <2>5, Sorts DEF Goes, Staffed, r
<1>18. CASE old # 1
  <2>1. GroupSplit(d, last) = m
    BY Zenon, <1>2, <1>8, <1>18
  <2>2. Manned(m, 1)
    BY <1>12, <1>18, Sorts DEF Staffed
  <2> QED BY <1>10, <1>16, <2>1, <2>2 DEF Goes, Staffed
<1> QED BY <1>17, <1>18

(* What holds while group g has no active segment to go by.                *)
StaffedBut(r, g) ==
  /\ r.total \in [Groups -> Int]
  /\ \A h \in Groups \ {g} : ~Manned(r, h) => r.total[h] = 0
  /\ \A q \in Groups : \A s \in r.queue[q] :
       r.gnum[s] \in Groups /\ (r.gnum[s] # g => Manned(r, r.gnum[s]))
  /\ \A h \in {0, 1} \ {g} : Manned(r, h)

(* active_merge takes the active segment of its group and no other.        *)
LEMMA ActiveMergeStaffs ==
  ASSUME NEW d, NEW J, NEW g \in Groups, g # d.naive, g # 0,
         Placed(d, Nil, Nil, J), Agree(d, Nil, 0), HotIn(d, Nil, Nil, 0), ChainOn(d),
         d.stop = Nil, Staffed(d)
  PROVE  LET r == ActiveMerge(d, g)
         IN Halted(r) \/ (r.stop = Nil /\ StaffedBut(r, g))
<1> DEFINE s == d.active[g].seg
           n == d.active[g].off
           to == d.naive
           c == MovePages(d, s, to, n)
           r == ReturnActive(c, g, s)
<1>1. ActiveMerge(d, g) = IF s = Nil THEN d ELSE IF Stopped(c) THEN c ELSE r
  BY DEF ActiveMerge
<1>2. CASE s = Nil
  <2>1. ActiveMerge(d, g) = d
    BY <1>1, <1>2
  <2> QED BY <2>1 DEF StaffedBut, Staffed, CountedManned
<1>3. CASE s # Nil
  <2>1. /\ s \in SegIds /\ to \in Groups /\ to # 0 /\ to # g
        /\ Copying(d, d, s, g, J, g, to, 0)
    BY <1>3, MergeStarts
  <2>2. n \in 0 .. PPS
    BY DEF Placed, EngineOK, Open
  <2> HIDE DEF s, n, to
  <2>3. Begun(d, s, g, J, g, to)
    BY <2>1 DEF Begun
  <2>4. Works(c, d)
    <3> DEFINE F[i \in 0 .. n] == IF i = 0 THEN d ELSE MovePage(F[i - 1], s, to, i)
    <3>1. MoveTurns(F, d, s, to, n)
      <4>1. n \in Nat
        BY <2>2, Sorts
      <4> QED BY ONLY Zenon, <4>1, LoopsUnfold
    <3>2. c = F[n]
      BY DEF MovePages
    <3> HIDE DEF F
    <3>3. \A f : MoveTurns(f, d, s, to, n) => Works(f[n], d)
      BY ONLY Zenon, <2>1, <2>2, <2>3, g \in Groups, LoopStaffs
    <3> QED BY <3>1, <3>2, <3>3
  <2>5. Stopped(c) \/ Copying(c, d, s, g, J, g, to, n)
    BY Zenon, <2>1, <2>2, CopyLoop DEF MovePages
  <2> HIDE DEF c
  <2>6. CASE Halted(c)
    BY <1>1, <1>3, <2>6, HaltStops
  <2>7. CASE ~Halted(c)
    <3>1. c.stop = Nil /\ Staffed(c)
      BY <2>4, <2>7 DEF Works
    <3>2. ActiveMerge(d, g) = r /\ Copying(c, d, s, g, J, g, to, n)
      BY <1>1, <1>3, <2>5, <3>1 DEF Stopped
    <3>3. EngineOK(c) /\ Apart(c, s, g) /\ DOMAIN c = Fields
      BY <3>2 DEF Copying, Placed, EngineOK
    <3>4. /\ r.total = c.total /\ r.queue = c.queue /\ r.stop = Nil
          /\ r.gnum = [c.gnum EXCEPT ![s] = Nil]
          /\ r.active = [c.active EXCEPT ![g] = NotActive]
      BY <3>1, <3>3 DEF ReturnActive, Fields
    <3> HIDE DEF r
    <3>5. \A h \in Groups : h # g => (Manned(r, h) <=> Manned(c, h))
      BY <3>3, <3>4 DEF Manned, EngineOK
    <3>6. \A q \in Groups : \A t \in r.queue[q] : r.gnum[t] = c.gnum[t]
      BY <2>1, <3>3, <3>4 DEF Apart, EngineOK
    <3>7. \A h \in {0, 1} \ {g} : Manned(r, h)
      BY <3>1, <3>5, Sorts DEF Staffed
    <3>8. \A h \in Groups \ {g} : ~Manned(r, h) => r.total[h] = 0
      BY <3>1, <3>4, <3>5 DEF Staffed, CountedManned
    <3>9. \A q \in Groups : \A t \in r.queue[q] :
            r.gnum[t] \in Groups /\ (r.gnum[t] # g => Manned(r, r.gnum[t]))
      BY <3>1, <3>4, <3>5, <3>6 DEF Staffed, CountedManned
    <3>10. r.total \in [Groups -> Int]
      BY <3>1, <3>4 DEF Staffed, CountedManned
    <3> QED BY <3>2, <3>4, <3>7, <3>8, <3>9, <3>10 DEF StaffedBut
  <2> QED BY <2>6, <2>7
<1> QED BY <1>2, <1>3

LEMMA JoinStaffs ==
  ASSUME NEW d, Sound(d), ChainOn(d), d.naive # 1, d.stop = Nil, Staffed(d)
  PROVE  LET r == Join(d)
         IN Halted(r) \/ (r.stop = Nil /\ StaffedBut(r, d.naive - 1))
<1> DEFINE g == d.naive - 1
           m == JoinStart(d, g)
<1>1. JoinBegun(m, d, g)
  BY JoinStarts
<1> HIDE DEF g, m
<1>2. /\ g \in Groups /\ g \in Nat /\ g >= 1 /\ g < d.naive /\ d.naive \in Groups
      /\ d.naive \in Nat
      /\ Join(d) = ActiveMerge(m, g) /\ m.gnum = d.gnum /\ m.active = d.active
      /\ m.total = [d.total EXCEPT ![d.naive] = @ + d.total[g]]
      /\ m.naive = d.naive /\ m.stop = Nil
      /\ \A q \in Groups : m.queue[q] = IF q = d.naive THEN d.queue[d.naive] \cup d.queue[g]
                                        ELSE IF q = g THEN {} ELSE d.queue[q]
      /\ Placed(m, Nil, Nil, d.queue[g]) /\ Agree(m, Nil, 0) /\ HotIn(m, Nil, Nil, 0)
      /\ ChainOn(m)
  BY <1>1 DEF JoinBegun
<1> HIDE DEF m
<1>3. Manned(d, d.naive)
  BY DEF Sound, Placed, Labelled, Manned
<1>4. \A h \in Groups : Manned(m, h) <=> Manned(d, h)
  BY <1>2 DEF Manned
<1>5. m.total \in [Groups -> Int]
  BY <1>2 DEF Staffed, CountedManned
<1>6. \A h \in Groups : ~Manned(m, h) => m.total[h] = 0
  BY <1>2, <1>3, <1>4 DEF Staffed, CountedManned
<1>7. \A q \in Groups : \A s \in m.queue[q] : \E p \in Groups : s \in d.queue[p]
  BY <1>2
<1>8. \A q \in Groups : \A s \in m.queue[q] : m.gnum[s] \in Groups /\ Manned(m, m.gnum[s])
  BY <1>2, <1>4, <1>7 DEF Staffed, CountedManned
<1>9. Staffed(m)
  BY <1>4, <1>5, <1>6, <1>8, Sorts DEF Staffed, CountedManned
<1>10. g # m.naive /\ g # 0
  BY <1>2
<1> QED BY <1>2, <1>9, <1>10, ActiveMergeStaffs DEF g

(* The group before the last has an active segment again, that of the last. *)
LEMMA MoveDownStaffs ==
  ASSUME NEW d, NEW J, Placed(d, Nil, Nil, J), d.naive # 1,
         NEW g \in Groups, g = d.naive - 1, d.active[g].seg = Nil, d.queue[g] = {},
         d.stop = Nil, StaffedBut(d, g)
  PROVE  LET r == MoveDown(d, J)
         IN r.stop = Nil /\ Staffed(r)
<1> DEFINE n == d.naive
           top == IF d.mida THEN n + NaiveN ELSE n
           Down(f) == [h \in Groups |-> IF h \in g .. top - 1 THEN f[h + 1] ELSE f[h]]
           qu == [h \in Groups |-> IF h = g THEN d.queue[n]
                                   ELSE IF h = n THEN {} ELSE d.queue[h]]
           gn == [s \in SegIds |->
                   IF s \in d.queue[n] \ J \/ \E h \in n .. top : s = d.active[h].seg
                   THEN d.gnum[s] - 1 ELSE d.gnum[s]]
           act == [Down(d.active) EXCEPT ![top] = NotActive]
           tot == [Down(d.total) EXCEPT ![top] = 0]
           r == [d EXCEPT !.naive = g, !.queue = qu, !.gnum = gn, !.total = tot,
                          !.active = act, !.size[g] = @ + d.size[n] + 1]
<1>1. /\ EngineOK(d) /\ Apart(d, Nil, Nil) /\ Labelled(d, J)
      /\ DOMAIN d = Fields /\ d.queue \in [Groups -> SUBSET SegIds]
      /\ d.gnum \in [SegIds -> Groups \cup {Nil}] /\ d.active \in [Groups -> Open]
  <2>1. EngineOK(d) /\ Apart(d, Nil, Nil) /\ Labelled(d, J)
    BY DEF Placed
  <2> QED BY <2>1 DEF EngineOK
<1>2. /\ n \in Groups /\ n \in Nat /\ n >= 2 /\ n <= MaxNaive
      /\ g \in Nat /\ g >= 1 /\ g < n /\ g + 1 = n /\ n - 1 = g
  <2>1. n \in Groups /\ n \in Nat /\ n >= 2 /\ n <= MaxNaive
    BY <1>1, GroupsOf
  <2> QED BY <2>1
<1>3. top \in Groups /\ top \in Nat /\ top >= n /\ top <= GroupNum(d)
      /\ (d.mida => GroupNum(d) = n + NaiveN) /\ (~d.mida => GroupNum(d) = n + 1)
      /\ (d.mida => top = n + NaiveN) /\ (~d.mida => top = n)
  BY <1>1, <1>2, Sorts DEF GroupNum, Groups, EngineOK
<1>4. MoveDown(d, J) = r
  <2>1. n - 1 = g
    BY <1>2
  <2> QED BY <2>1 DEF MoveDown
<1>5. Chain(d) = n .. GroupNum(d) - 1
  BY <1>2 DEF Chain
<1> HIDE DEF qu, gn, act, tot, n
<1>6. r.active = act /\ r.gnum = gn /\ r.queue = qu /\ r.total = tot /\ r.stop = Nil
  BY <1>1 DEF Fields
<1> HIDE DEF r, top
<1>7. \A h \in Groups : h \in Nat
  BY Sorts
<1>8. \A h \in Groups :
        /\ h < g => r.active[h] = d.active[h] /\ r.total[h] = d.total[h]
        /\ h >= g /\ h < top => /\ h + 1 \in Groups
                                /\ r.active[h] = d.active[h + 1] /\ r.total[h] = d.total[h + 1]
        /\ h = top => r.active[h] = NotActive /\ r.total[h] = 0
        /\ h > top => r.active[h] = d.active[h] /\ r.total[h] = d.total[h]
  <2> SUFFICES ASSUME NEW h \in Groups
               PROVE  /\ h < g => r.active[h] = d.active[h] /\ r.total[h] = d.total[h]
                      /\ h >= g /\ h < top =>
                           /\ h + 1 \in Groups
                           /\ r.active[h] = d.active[h + 1] /\ r.total[h] = d.total[h + 1]
                      /\ h = top => r.active[h] = NotActive /\ r.total[h] = 0
                      /\ h > top => r.active[h] = d.active[h] /\ r.total[h] = d.total[h]
    OBVIOUS
  <2>1. h \in Nat
    BY <1>7
  <2>2. CASE h < g
    <3>1. h \notin g .. top - 1 /\ h # top /\ ~(h >= g) /\ ~(h > top)
      BY <1>2, <1>3, <2>1, <2>2
    <3> QED BY <1>6, <3>1 DEF act, tot
  <2>3. CASE h >= g /\ h < top
    <3>1. h \in g .. top - 1 /\ h # top /\ h + 1 \in 0 .. top /\ ~(h < g) /\ ~(h > top)
      BY <1>2, <1>3, <2>1, <2>3
    <3>2. h + 1 \in Groups
      BY <1>3, <3>1, Sorts DEF Groups
    <3> QED BY <1>6, <3>1, <3>2 DEF act, tot
  <2>4. CASE h = top
    <3>1. ~(h < g) /\ ~(h < top) /\ ~(h > top)
      BY <1>2, <1>3, <2>1, <2>4
    <3> QED BY <1>6, <2>4, <3>1 DEF act, tot
  <2>5. CASE h > top
    <3>1. h \notin g .. top - 1 /\ h # top /\ ~(h < g) /\ ~(h < top)
      BY <1>2, <1>3, <2>1, <2>5
    <3> QED BY <1>6, <3>1 DEF act, tot
  <2> QED BY <1>2, <1>3, <2>1, <2>2, <2>3, <2>4, <2>5
<1>9. \A h \in Groups : h < g => (Manned(r, h) <=> Manned(d, h))
  BY <1>8 DEF Manned
<1>10. \A h \in Groups : h > g /\ h <= top /\ h - 1 \in Groups => (Manned(r, h - 1) <=> Manned(d, h))
  <2> SUFFICES ASSUME NEW h \in Groups, h > g, h <= top, h - 1 \in Groups
               PROVE  Manned(r, h - 1) <=> Manned(d, h)
    OBVIOUS
  <2>1. h - 1 >= g /\ h - 1 < top /\ (h - 1) + 1 = h
    BY <1>2, <1>3, <1>7
  <2>2. r.active[h - 1] = d.active[h]
    BY <1>8, <2>1
  <2> QED BY <2>2 DEF Manned
<1>11. Manned(d, n)
  BY <1>1 DEF Labelled, Manned, n
<1>12. Manned(r, g)
  BY <1>2, <1>3, <1>10, <1>11
<1>13. r.total \in [Groups -> Int] /\ \A h \in Groups : ~Manned(r, h) => r.total[h] = 0
  <2>1. \A h \in Groups : r.total[h] \in Int /\ (~Manned(r, h) => r.total[h] = 0)
    <3> SUFFICES ASSUME NEW h \in Groups
                 PROVE  r.total[h] \in Int /\ (~Manned(r, h) => r.total[h] = 0)
      OBVIOUS
    <3>1. \A k \in Groups \ {g} : d.total[k] \in Int /\ (~Manned(d, k) => d.total[k] = 0)
      BY DEF StaffedBut
    <3>2. CASE h < g
      <4>1. h # g
        BY <1>2, <1>7, <3>2
      <4> QED BY <1>8, <1>9, <3>1, <3>2, <4>1
    <3>3. CASE h >= g /\ h < top
      <4>1. h + 1 \in Groups \ {g} /\ r.total[h] = d.total[h + 1] /\ r.active[h] = d.active[h + 1]
        BY <1>2, <1>7, <1>8, <3>3
      <4> QED BY <3>1, <4>1 DEF Manned
    <3>4. CASE h = top
      BY <1>8, <3>4
    <3>5. CASE h > top
      <4>1. h # g
        BY <1>2, <1>3, <1>7, <3>5
      <4> QED BY <1>8, <3>1, <3>5, <4>1 DEF Manned
    <3> QED BY <1>2, <1>3, <1>7, <3>2, <3>3, <3>4, <3>5
  <2>2. r.total = [h \in Groups |-> r.total[h]]
    BY <1>6 DEF tot
  <2> QED BY <2>1, <2>2
<1>14. \A q \in Groups : \A s \in r.queue[q] : r.gnum[s] \in Groups /\ Manned(r, r.gnum[s])
  <2> SUFFICES ASSUME NEW q \in Groups, NEW s \in r.queue[q]
               PROVE  r.gnum[s] \in Groups /\ Manned(r, r.gnum[s])
    OBVIOUS
  <2>1. r.queue[q] = IF q = g THEN d.queue[n] ELSE IF q = n THEN {} ELSE d.queue[q]
    BY <1>6 DEF qu
  <2>2. CASE q = g
    <3>1. s \in d.queue[n] /\ s \in SegIds
      BY <1>1, <1>2, <2>1, <2>2
    <3>2. CASE s \in J
      <4>1. d.gnum[s] = g
        BY <1>1, <1>2, <3>1, <3>2 DEF Labelled, n
      <4>2. \A h \in n .. top : h \in Groups /\ s # d.active[h].seg
        <5>1. \A h \in n .. top : h \in Groups
          BY <1>2, <1>3, Sorts DEF Groups
        <5> QED BY <1>1, <1>2, <3>1, <5>1 DEF Apart
      <4>3. r.gnum[s] = g
        BY <1>6, <3>1, <3>2, <4>1, <4>2 DEF gn
      <4> QED BY <1>12, <4>3
    <3>3. CASE s \notin J
      <4> DEFINE k == d.gnum[s]
      <4>1. k \in Chain(d)
        BY <1>1, <1>2, <3>1, <3>3 DEF Labelled, n
      <4>2. k \in Nat /\ k >= n /\ k < GroupNum(d)
        <5>1. GroupNum(d) \in Nat
          BY <1>1, GroupsOf
        <5> QED BY <1>2, <1>5, <4>1, <5>1
      <4>3. r.gnum[s] = k - 1
        BY <1>6, <3>1, <3>3 DEF gn
      <4>4. k \in Groups /\ (k # g => Manned(d, k))
        BY <1>2, <3>1 DEF StaffedBut
      <4> HIDE DEF k
      <4>5. k > g /\ k <= top /\ k # g /\ k - 1 \in Nat
        BY <1>2, <1>3, <4>2
      <4>6. k - 1 \in Groups
        <5>1. k - 1 \in 0 .. MaxNaive + NaiveN
          BY <1>3, <4>2, <4>5, Sorts DEF Groups
        <5> QED BY <5>1 DEF Groups
      <4> QED BY <1>10, <4>3, <4>4, <4>5, <4>6
    <3> QED BY <3>2, <3>3
  <2>3. CASE q # g
    <3>1. q # n /\ s \in d.queue[q] /\ s \in SegIds
      BY <1>1, <2>1, <2>3
    <3>2. q < n /\ d.gnum[s] = q
      BY <1>1, <3>1 DEF Labelled, n
    <3>3. q < g
      BY <1>2, <1>7, <2>3, <3>2
    <3>4. s \notin d.queue[n] /\ \A h \in n .. top : s # d.active[h].seg
      <4>1. \A h \in n .. top : h \in Groups
        BY <1>2, <1>3, Sorts DEF Groups
      <4> QED BY <1>1, <1>2, <3>1, <4>1 DEF Apart
    <3>5. r.gnum[s] = q
      BY <1>6, <3>1, <3>2, <3>4 DEF gn
    <3>6. Manned(d, q)
      BY <2>3, <3>1, <3>2 DEF StaffedBut
    <3> QED BY <1>9, <3>3, <3>5, <3>6
  <2> QED BY <2>2, <2>3
<1>15. Manned(r, 0) /\ Manned(r, 1)
  <2>1. Manned(r, 0)
    <3>1. 0 \in Groups /\ 0 # g /\ 0 < g
      BY <1>2, Sorts
    <3>2. Manned(d, 0)
      BY <3>1 DEF StaffedBut
    <3> QED BY <1>9, <3>1, <3>2
  <2>2. CASE g = 1
    BY <1>12, <2>1, <2>2
  <2>3. CASE g # 1
    <3>1. 1 \in Groups /\ 1 < g
      <4>1. \A k \in Nat : k >= 1 /\ k # 1 => 1 < k
        OBVIOUS
      <4>2. 1 < g
        BY Zenon, <1>2, <2>3, <4>1
      <4> QED BY <4>2, Sorts
    <3>2. Manned(d, 1)
      BY <2>3 DEF StaffedBut
    <3> QED BY <1>9, <2>1, <3>1, <3>2
  <2> QED BY <2>2, <2>3
<1> QED BY <1>4, <1>6, <1>13, <1>14, <1>15 DEF Staffed, CountedManned

LEMMA HotMergeStaffs ==
  ASSUME NEW d, Sound(d), d.stop = Nil, Staffed(d)
  PROVE  HotMerge(d).stop = Nil /\ Staffed(HotMerge(d))
<1> DEFINE r == HotMerge(d)
<1>1. DOMAIN d = Fields /\ d.queue \in [Groups -> SUBSET SegIds]
  BY DEF Sound, Placed, EngineOK
<1>2. /\ r.active = d.active /\ r.gnum = d.gnum /\ r.stop = Nil /\ r.total = d.total
      /\ r.queue = [d.queue EXCEPT ![1] = @ \cup d.queue[0], ![0] = {}]
  BY Zenon, <1>1 DEF HotMerge, Fields
<1> HIDE DEF r
<1>3. 0 \in Groups /\ 1 \in Groups
  BY Sorts
<1>4. \A q \in Groups : \A s \in r.queue[q] : \E p \in Groups : s \in d.queue[p]
  BY <1>1, <1>2, <1>3
<1>5. \A h \in Groups : Manned(r, h) <=> Manned(d, h)
  BY <1>2 DEF Manned
<1>6. \A q \in Groups : \A s \in r.queue[q] : r.gnum[s] \in Groups /\ Manned(r, r.gnum[s])
  BY <1>2, <1>4, <1>5 DEF Staffed, CountedManned
<1> QED BY <1>2, <1>3, <1>5, <1>6 DEF Staffed, CountedManned, r

(* A group with a queue of its own has the right count.                    *)
LEMMA OwnCount ==
  ASSUME NEW d, EngineOK(d), Balanced(d), NEW g \in Groups, g < First(d)
  PROVE  d.total[g] = Cardinality(d.queue[g])
<1>1. g # Nil
  BY Sorts
<1>2. d.total[g] = Cardinality(d.queue[g]) + 0 /\ d.total[g] \in Int
  BY <1>1 DEF Balanced, Counts
<1>3. Cardinality(d.queue[g]) \in Nat
  BY QueueCount
<1> QED BY <1>2, <1>3

(* merge_group never finds another count than that of the queue.           *)
LEMMA MergeGroupStaffs ==
  ASSUME NEW d, Sound(d), ChainOn(d), d.naive # 1, d.naive = 2 => d.mida, Balanced(d),
         d.stop = Nil, Staffed(d)
  PROVE  Goes(MergeGroup(d))
<1> DEFINE g == d.naive - 1
           joined == Join(d)
           down == MoveDown(joined, d.queue[g])
<1>1. EngineOK(d) /\ d.naive \in Nat /\ First(d) = d.naive
  <2>1. EngineOK(d)
    BY DEF Sound, Placed
  <2> QED BY <2>1, GroupsOf DEF First
<1>2. MergeGroup(d) = IF g = 0 \/ d.total[g] # Cardinality(d.queue[g]) THEN Stop(d, "merge")
                      ELSE IF Stopped(joined) THEN joined
                      ELSE IF g > 1 THEN down ELSE HotMerge(down)
  BY DEF MergeGroup
<1>3. g \in Groups /\ g >= 1 /\ (Stopped(joined) \/ Joined(joined, d, g))
  BY JoinIsSound
<1>4. Halted(joined) \/ (joined.stop = Nil /\ StaffedBut(joined, g))
  BY JoinStaffs
<1>5. d.total[g] = Cardinality(d.queue[g]) /\ g # 0
  <2>1. g < First(d)
    BY <1>1
  <2> HIDE DEF g
  <2> QED BY <1>1, <1>3, <2>1, Sorts, OwnCount
<1>6. MergeGroup(d) = IF Stopped(joined) THEN joined
                      ELSE IF g > 1 THEN down ELSE HotMerge(down)
  BY <1>2, <1>5
<1> HIDE DEF joined
<1>7. CASE Halted(joined)
  BY <1>6, <1>7, HaltStops DEF Goes
<1>8. CASE ~Halted(joined)
  <2>1. joined.stop = Nil /\ StaffedBut(joined, g) /\ ~Stopped(joined)
    BY <1>4, <1>8 DEF Stopped
  <2>2. /\ Placed(joined, Nil, Nil, d.queue[g]) /\ Agree(joined, Nil, 0)
        /\ HotIn(joined, Nil, Nil, 0)
        /\ joined.naive = d.naive /\ joined.mida = d.mida
        /\ joined.active[g].seg = Nil /\ joined.queue[g] = {}
    BY <1>3, <2>1 DEF Joined
  <2>3. g = joined.naive - 1
    BY <2>2
  <2> HIDE DEF g
  <2>4. down.stop = Nil /\ Staffed(down)
    BY <1>3, <2>1, <2>2, <2>3, MoveDownStaffs
  <2>5. Sound(down)
    BY <1>3, <2>2, <2>3, MoveDownIsSound
  <2> HIDE DEF down
  <2>6. HotMerge(down).stop = Nil /\ Staffed(HotMerge(down))
    BY <2>4, <2>5, HotMergeStaffs
  <2> QED BY <1>6, <2>1, <2>4, <2>6 DEF Goes
<1> QED BY <1>7, <1>8

LEMMA MergeDownToStaffs ==
  ASSUME NEW d, Sound(d), ChainOn(d), NEW n \in Nat, n >= 1, n <= d.naive, n = 1 => d.mida,
         Balanced(d), d.stop = Nil, Staffed(d)
  PROVE  Goes(MergeDownTo(d, n))
<1> DEFINE k == d.naive - n
           Good(x, m) == \/ Halted(x)
                         \/ DownTo(x, d, d.naive - m) /\ x.stop = Nil /\ Staffed(x)
<1>1. k \in Nat /\ d.naive \in Nat
  <2>1. EngineOK(d)
    BY DEF Sound, Placed
  <2> QED BY <2>1, GroupsOf
<1> HIDE DEF k
<1>2. Good(d, 0)
  BY <1>1 DEF DownTo, Held, Kept
<1>3. \A x : \A i \in 1 .. k : Good(x, i - 1) => Good(MergeTurn(x), i)
  <2> SUFFICES ASSUME NEW x, NEW i \in 1 .. k, Good(x, i - 1)
               PROVE  Good(MergeTurn(x), i)
    OBVIOUS
  <2>1. CASE Halted(x)
    BY <2>1, HaltStops DEF MergeTurn
  <2>2. CASE ~Halted(x)
    <3>1. /\ Sound(x) /\ ChainOn(x) /\ Kept(x, d) /\ x.naive = d.naive - (i - 1)
          /\ x.mida = d.mida /\ x.stop = Nil /\ Staffed(x) /\ ~Stopped(x)
      BY <2>2 DEF DownTo, Stopped
    <3>2. (x.naive = 2 => x.mida) /\ x.naive # 1 /\ Balanced(x)
      BY <1>1, <3>1 DEF k, Kept
    <3> DEFINE y == MergeGroup(x)
    <3>3. Stopped(y) \/ MergedDown(y, x)
      BY <3>1, <3>2, MergeGroupIsSound
    <3>4. Goes(y)
      BY <3>1, <3>2, MergeGroupStaffs
    <3> HIDE DEF y
    <3>5. MergedDown(y, x) => DownTo(y, d, d.naive - i)
      <4> SUFFICES ASSUME MergedDown(y, x) PROVE DownTo(y, d, d.naive - i)
        OBVIOUS
      <4>1. Kept(y, d)
        BY <3>1 DEF MergedDown, Held, Kept
      <4>2. y.naive = d.naive - i
        BY <1>1, <3>1 DEF MergedDown
      <4> QED BY <3>1, <4>1, <4>2 DEF MergedDown, DownTo
    <3>6. MergeTurn(x) = y
      BY <3>1 DEF MergeTurn, y
    <3> QED BY <3>3, <3>4, <3>5, <3>6 DEF Goes, Stopped
  <2> QED BY <2>1, <2>2
<1> HIDE DEF Good
<1>4. \A f : MergeTurns(f, d, k) => Good(f[k], k)
  <2> SUFFICES ASSUME NEW f, MergeTurns(f, d, k)
               PROVE  Good(f[k], k)
    OBVIOUS
  <2> DEFINE T == {m \in Nat : m \in 0 .. k => Good(f[m], m)}
  <2>1. 0 \in T
    <3>1. f[0] = d
      BY <1>1 DEF MergeTurns
    <3> QED BY <1>2, <3>1
  <2>2. \A m \in T : m + 1 \in T
    <3> SUFFICES ASSUME NEW m \in T, m + 1 \in 0 .. k PROVE Good(f[m + 1], m + 1)
      OBVIOUS
    <3>1. m + 1 # 0 /\ m + 1 \in 1 .. k /\ m \in 0 .. k /\ (m + 1) - 1 = m
      BY <1>1
    <3>2. Good(f[m], m)
      BY <3>1
    <3>3. f[m + 1] = MergeTurn(f[m])
      BY <3>1 DEF MergeTurns
    <3> DEFINE i == m + 1
    <3>4. i \in 1 .. k /\ i - 1 = m
      BY <3>1
    <3> HIDE DEF i
    <3>5. Good(MergeTurn(f[m]), i)
      BY <1>3, <3>2, <3>4
    <3> QED BY <3>3, <3>5 DEF i
  <2> HIDE DEF T
  <2>3. T = Nat
    BY Zenon, <2>1, <2>2, ByInduction DEF T
  <2>4. k \in 0 .. k
    BY <1>1
  <2> QED BY <1>1, <2>3, <2>4 DEF T
<1>5. \E f : MergeTurns(f, d, k) /\ MergeDownTo(d, n) = f[k]
  BY <1>1, MergesUnfold DEF k
<1> QED BY <1>4, <1>5 DEF Good, Goes

(* move_margin_seg finds the segments to move where the size allows one.   *)
LEMMA MarginStaffs ==
  ASSUME NEW d, Sound(d), d.mida = FALSE, Balanced(d), d.stop = Nil, Staffed(d),
         NEW g \in Groups, g < d.naive, d.size[g] \in Int, d.size[g] < d.total[g],
         RoomyConfigs => d.size[g] >= 0, NEW r \in MarginResults(d, g)
  PROVE  Halted(r) \/ (r.stop = Nil /\ Staffed(r) /\ r.size = d.size)
<1> DEFINE n == d.naive
           x == d.total[g] - d.size[g]
<1>1. /\ EngineOK(d) /\ Labelled(d, {}) /\ DOMAIN d = Fields
      /\ d.queue \in [Groups -> SUBSET SegIds] /\ d.gnum \in [SegIds -> Groups \cup {Nil}]
  <2>1. EngineOK(d) /\ Labelled(d, {})
    BY DEF Sound, Placed
  <2> QED BY <2>1 DEF EngineOK
<1>2. n \in Groups /\ n \in Nat /\ n # g
  BY <1>1, GroupsOf
<1>3. d.total[g] = Cardinality(d.queue[g]) /\ Cardinality(d.queue[g]) \in Nat /\ x \in Int
  <2>1. g < First(d)
    BY DEF First
  <2>2. d.total[g] = Cardinality(d.queue[g]) /\ Cardinality(d.queue[g]) \in Nat
    BY <1>1, <2>1, OwnCount, QueueCount
  <2> QED BY <2>2
<1>4. CASE x > Cardinality(d.queue[g])
  <2>1. r = Stop(d, "no segment to move")
    BY Zenon, <1>4 DEF MarginResults
  <2>2. r.stop = "no segment to move" /\ r.naive = n /\ r.size = d.size
    BY <1>1, <2>1 DEF Stop, Fields
  <2>3. d.size[g] < 0
    BY <1>3, <1>4
  <2>4. g \in 0 .. n - 1
    BY <1>2 DEF Groups
  <2>5. \E h \in 0 .. r.naive - 1 : r.size[h] < 0
    BY <2>2, <2>3, <2>4
  <2>6. ~RoomyConfigs
    BY <2>3
  <2> QED BY <2>2, <2>5, <2>6 DEF Halted, Halts
<1>5. CASE ~(x > Cardinality(d.queue[g]))
  <2>1. PICK m \in kSubset(x, d.queue[g]) :
          r = [d EXCEPT !.queue[g] = @ \ m, !.queue[n] = @ \cup m,
                        !.gnum = [s \in SegIds |-> IF s \in m THEN n ELSE @[s]],
                        !.total[g] = @ - x, !.total[n] = @ + x]
    BY Zenon, <1>5 DEF MarginResults
  <2>2. m \subseteq d.queue[g]
    BY DEF kSubset
(* There is one to move, so the group is in use.                           *)
  <2>3. Manned(d, g)
    BY <1>3, <1>5 DEF Staffed, CountedManned
  <2> HIDE DEF n, x
  <2>4. /\ r.active = d.active /\ r.stop = Nil /\ r.size = d.size
        /\ r.queue = [d.queue EXCEPT ![g] = @ \ m, ![n] = @ \cup m]
        /\ r.gnum = [s \in SegIds |-> IF s \in m THEN n ELSE d.gnum[s]]
        /\ r.total = [d.total EXCEPT ![g] = @ - x, ![n] = @ + x]
    BY <1>1, <2>1 DEF Fields
  <2>5. \A h \in Groups : Manned(r, h) <=> Manned(d, h)
    BY <2>4 DEF Manned
  <2>6. Manned(d, n)
    BY <1>1 DEF Labelled, Manned, n
  <2>7. d.total \in [Groups -> Int] /\ \A h \in Groups : ~Manned(d, h) => d.total[h] = 0
    BY DEF Staffed, CountedManned
  <2>8. r.total \in [Groups -> Int] /\ \A h \in Groups : ~Manned(r, h) => r.total[h] = 0
    BY <1>2, <1>3, <2>3, <2>4, <2>5, <2>6, <2>7
  <2>9. \A q \in Groups : \A s \in r.queue[q] : s \in SegIds /\ \E p \in Groups : s \in d.queue[p]
    BY <1>1, <1>2, <2>2, <2>4
  <2>10. \A q \in Groups : \A s \in d.queue[q] : d.gnum[s] \in Groups /\ Manned(d, d.gnum[s])
    BY DEF Staffed, CountedManned
  <2>11. \A q \in Groups : \A s \in r.queue[q] : r.gnum[s] \in Groups /\ Manned(r, r.gnum[s])
    BY <1>2, <2>4, <2>5, <2>6, <2>9, <2>10
  <2> QED BY <2>4, <2>5, <2>8, <2>11, Sorts DEF Staffed, CountedManned
<1> QED BY <1>4, <1>5

(* The sizes that were asked for.                                          *)
Sized(d, n) ==
  \A g \in 0 .. n : d.size[g] \in Int /\ (RoomyConfigs => d.size[g] >= 0)

LEMMA TrimAllStaffs ==
  ASSUME NEW x, Sound(x), x.mida = FALSE, NEW n \in Nat, x.naive = n, Balanced(x),
         x.stop = Nil, Staffed(x), Sized(x, n), NEW r \in TrimAll(x, n)
  PROVE  Goes(r)
<1> DEFINE Fine(y) == Trim(y, x) /\ y.stop = Nil /\ Staffed(y) /\ y.size = x.size
           Good(S) == \A y \in S : Halted(y) \/ Fine(y)
<1>1. Good({x})
  BY DEF Trim, Held, Kept
<1>2. ASSUME NEW S, NEW g \in Nat, g < n, Good(S) PROVE Good(TrimTurn(S, g))
  <2> SUFFICES ASSUME NEW y \in S, NEW z \in TrimResults(y, g)
               PROVE  Halted(z) \/ Fine(z)
    BY DEF TrimTurn
  <2>1. Halted(y) \/ Fine(y)
    BY <1>2
  <2>2. CASE Halted(y)
    BY <2>2, HaltStops DEF TrimResults
  <2>3. CASE Fine(y)
    <3>1. /\ Sound(y) /\ Kept(y, x) /\ y.naive = n /\ y.mida = FALSE /\ y.stop = Nil
          /\ Staffed(y) /\ y.size = x.size /\ ~Stopped(y) /\ Balanced(y)
      BY <2>3 DEF Trim, Kept, Stopped
    <3>2. g \in Groups
      <4>1. EngineOK(x)
        BY DEF Sound, Placed
      <4>2. n <= MaxNaive /\ MaxNaive \in Nat /\ NaiveN \in Nat
        BY <4>1, GroupsOf, Sorts
      <4> QED BY <1>2, <4>2 DEF Groups
    <3>3. Stopped(z) \/ Trim(z, y)
      BY <1>2, <3>1, <3>2, TrimIsSound
    <3>4. Halted(z) \/ (z.stop = Nil /\ Staffed(z) /\ z.size = x.size)
      <4>1. CASE y.size[g] >= y.total[g]
        <5>1. z = y
          BY <4>1 DEF TrimResults
        <5> QED BY <3>1, <5>1
      <4>2. CASE ~(y.size[g] >= y.total[g])
        <5>1. z \in MarginResults(y, g)
          BY <3>1, <4>2 DEF TrimResults
        <5>2. y.size[g] \in Int /\ (RoomyConfigs => y.size[g] >= 0)
          BY <1>2, <3>1 DEF Sized
        <5>3. y.size[g] < y.total[g]
          <6>1. y.total[g] \in Int
            BY <3>1, <3>2 DEF Staffed, CountedManned
          <6> QED BY <4>2, <5>2, <6>1
        <5>4. Halted(z) \/ (z.stop = Nil /\ Staffed(z) /\ z.size = y.size)
          BY <1>2, <3>1, <3>2, <5>1, <5>2, <5>3, MarginStaffs
        <5> QED BY <3>1, <5>4
      <4> QED BY <4>1, <4>2
    <3>5. Trim(z, y) => Trim(z, x)
      BY <3>1 DEF Trim, Held, Kept
    <3> QED BY <3>3, <3>4, <3>5 DEF Stopped
  <2> QED BY <2>1, <2>2, <2>3
<1> HIDE DEF Good
<1>3. \A f : TrimTurns(f, x, n) => Good(f[n])
  <2> SUFFICES ASSUME NEW f, TrimTurns(f, x, n)
               PROVE  Good(f[n])
    OBVIOUS
  <2> DEFINE T == {m \in Nat : m \in 0 .. n => Good(f[m])}
  <2>1. 0 \in T
    <3>1. f[0] = {x}
      BY DEF TrimTurns
    <3> QED BY <1>1, <3>1
  <2>2. \A m \in T : m + 1 \in T
    <3> SUFFICES ASSUME NEW m \in T, m + 1 \in 0 .. n PROVE Good(f[m + 1])
      OBVIOUS
    <3>1. m + 1 # 0 /\ m \in Nat /\ m < n /\ m \in 0 .. n /\ (m + 1) - 1 = m
      OBVIOUS
    <3>2. Good(f[m])
      BY <3>1
    <3>3. f[m + 1] = TrimTurn(f[m], m)
      BY Zenon, <3>1 DEF TrimTurns
    <3> QED BY <1>2, <3>1, <3>2, <3>3
  <2> HIDE DEF T
  <2>3. T = Nat
    BY Zenon, <2>1, <2>2, ByInduction DEF T
  <2>4. n \in 0 .. n
    OBVIOUS
  <2> QED BY <2>3, <2>4 DEF T
<1>4. \E f : TrimTurns(f, x, n) /\ TrimAll(x, n) = f[n]
  BY TrimsUnfold
<1> QED BY <1>3, <1>4 DEF Good, Goes

(* The sizes of a configuration are what it asks for, less the segments    *)
(* that are held back.                                                     *)
LEMMA ResizeFits ==
  ASSUME NEW d, DOMAIN d = Fields, NEW cfg \in Configs
  PROVE  Sized(Resize(d, cfg), Len(cfg) - 1)
<1> DEFINE last == Len(cfg) - 1
           r == Resize(d, cfg)
           size == [g \in Groups |-> IF g > Len(cfg) - 1 THEN d.size[g]
                                     ELSE IF g = 1 THEN cfg[2] - 2 ELSE cfg[g + 1] - 1]
<1>1. /\ cfg \in Seq(Nat) /\ Len(cfg) \in Nat /\ last \in Nat /\ last >= 2 /\ last <= MaxNaive
      /\ MaxNaive \in Nat /\ NaiveN \in Nat
  <2>1. cfg \in Seq(Nat) /\ Len(cfg) \in 3 .. MaxNaive + 1 /\ MaxNaive \in Nat /\ NaiveN \in Nat
    BY MidasAssumption
  <2> QED BY <2>1
<1>2. r.size = size
  BY DEF Resize, Fields
<1> HIDE DEF r
<1>3. \A g \in 0 .. last : r.size[g] = IF g = 1 THEN cfg[2] - 2 ELSE cfg[g + 1] - 1
  <2> SUFFICES ASSUME NEW g \in 0 .. last
               PROVE  r.size[g] = IF g = 1 THEN cfg[2] - 2 ELSE cfg[g + 1] - 1
    OBVIOUS
  <2>1. g \in Groups /\ ~(g > Len(cfg) - 1)
    BY <1>1 DEF Groups
  <2> QED BY <1>2, <2>1
<1>4. \A g \in 0 .. last : g + 1 \in DOMAIN cfg /\ cfg[g + 1] \in Nat
  BY <1>1
<1>5. 2 \in DOMAIN cfg /\ cfg[2] \in Nat
  BY <1>1
<1>6. \A g \in 0 .. last : RoomyConfigs => cfg[g + 1] >= 1 /\ cfg[2] >= 2
  <2> SUFFICES ASSUME NEW g \in 0 .. last, RoomyConfigs PROVE cfg[g + 1] >= 1 /\ cfg[2] >= 2
    OBVIOUS
  <2>1. \A i \in DOMAIN cfg : cfg[i] >= IF i = 2 THEN 2 ELSE 1
    BY DEF RoomyConfigs
  <2>2. cfg[g + 1] >= 2 \/ cfg[g + 1] >= 1
    BY <1>4, <2>1
  <2>3. cfg[2] >= 2
    BY <1>5, <2>1
  <2> QED BY <1>4, <2>2, <2>3
<1>7. \A g \in 0 .. last : r.size[g] \in Int /\ (RoomyConfigs => r.size[g] >= 0)
  <2> SUFFICES ASSUME NEW g \in 0 .. last
               PROVE  r.size[g] \in Int /\ (RoomyConfigs => r.size[g] >= 0)
    OBVIOUS
  <2>1. CASE g = 1
    <3>1. r.size[g] = cfg[2] - 2
      BY <1>3, <2>1
    <3> QED BY <1>5, <1>6, <3>1
  <2>2. CASE g # 1
    <3>1. r.size[g] = cfg[g + 1] - 1 /\ cfg[g + 1] \in Nat
      BY <1>3, <1>4, <2>2
    <3> QED BY <1>6, <3>1
  <2> QED BY <2>1, <2>2
<1> QED BY <1>7 DEF Sized, r

LEMMA ConfigStaffs ==
  ASSUME NEW d, Sound(d), d.mida = FALSE, Balanced(d), d.stop = Nil, Staffed(d),
         NEW cfg \in Configs, NEW r \in ConfigResults(d, cfg)
  PROVE  Goes(r)
<1> DEFINE last == Len(cfg) - 1
           m == Shape(d, last)
           x == Resize(m, cfg)
<1>1. ConfigResults(d, cfg) = IF Stopped(m) THEN {m} ELSE TrimAll(x, last)
  BY DEF ConfigResults
<1>2. /\ last \in Nat /\ last >= 2 /\ last \in 1 .. MaxNaive
      /\ Stopped(m) \/ ShapedFor(m, d, last)
  BY ShapeIsSound DEF Stopped
<1>3. d.naive \in Nat /\ d.naive >= 1
  BY GroupsOf DEF Sound, Placed
<1>4. DOMAIN m = Fields => Sized(x, last)
  BY ResizeFits
<1> HIDE DEF last
<1>5. Goes(m)
  <2>1. CASE last < d.naive
    <3>1. m = MergeDownTo(d, last)
      BY <2>1 DEF Shape
    <3>2. ChainOn(d) /\ last >= 1 /\ last <= d.naive /\ last # 1
      BY <1>2, <1>3, <2>1 DEF ChainOn
    <3> QED BY <1>2, <3>1, <3>2, MergeDownToStaffs
  <2>2. CASE last > d.naive
    <3>1. m = GroupSplit(d, last)
      BY <1>2, <1>3, <2>2 DEF Shape
    <3>2. Goes(GroupSplit(d, last))
      BY Zenon, <1>2, <2>2, SplitStaffs
    <3> QED BY <3>1, <3>2
  <2>3. CASE last = d.naive
    <3>1. m = d
      BY <1>3, <2>3 DEF Shape
    <3> QED BY <3>1 DEF Goes
  <2> HIDE DEF m
  <2> QED BY <1>2, <1>3, <2>1, <2>2, <2>3
<1> HIDE DEF m
<1>6. CASE Halted(m)
  BY <1>1, <1>6, HaltStops DEF Goes
<1>7. CASE ~Halted(m)
  <2>1. m.stop = Nil /\ Staffed(m) /\ ~Stopped(m)
    BY <1>5, <1>7 DEF Goes, Stopped
  <2>2. Sound(m) /\ Kept(m, d) /\ m.naive = last /\ m.mida = FALSE
    BY <1>2, <2>1 DEF ShapedFor
  <2>3. Same(x, m) /\ ShapedFor(x, m, last)
    BY <2>2, ResizeIsSound
  <2>4. Sized(x, last)
    BY <1>4, <2>2 DEF Sound, Placed, EngineOK
  <2> HIDE DEF x
  <2>5. Sound(x) /\ Kept(x, m) /\ x.naive = last /\ x.mida = FALSE /\ Balanced(x)
    BY <2>2, <2>3 DEF ShapedFor, Kept
  <2>6. x.stop = Nil /\ Staffed(x)
    BY <2>1, <2>3, SameStaff DEF Same
  <2>7. r \in TrimAll(x, last)
    BY <1>1, <2>1
  <2> QED BY <1>2, <2>4, <2>5, <2>6, <2>7, TrimAllStaffs
<1> QED BY <1>6, <1>7

LEMMA ApplyStaffs ==
  ASSUME NEW d, Sound(d), ChainOn(d), Balanced(d), d.stop = Nil, Staffed(d), NEW cfg \in Configs,
         NEW r \in ApplyResults(d, cfg)
  PROVE  Goes(r)
<1> DEFINE off == IF d.mida THEN MidaOff(d) ELSE d
<1>1. PICK x \in IF Stopped(off) THEN {off} ELSE ConfigResults(off, cfg) : r = Watching(x)
  BY DEF ApplyResults
<1>2. Goes(off)
  <2>1. CASE d.mida
    <3>1. Goes(MidaOff(d))
      BY <2>1, MidaOffStaffs
    <3> QED BY <2>1, <3>1
  <2>2. CASE ~d.mida
    BY <2>2 DEF Goes
  <2> QED BY <2>1, <2>2
<1>3. Stopped(off) \/ (Sound(off) /\ Kept(off, d) /\ off.mida = FALSE)
  <2>1. d.mida \in BOOLEAN
    BY DEF Sound, Placed, EngineOK
  <2>2. CASE d.mida
    <3>1. Stopped(MidaOff(d)) \/
          (Sound(MidaOff(d)) /\ Kept(MidaOff(d), d) /\ MidaOff(d).mida = FALSE)
      BY Zenon, <2>2, MidaOffIsSound DEF Stopped
    <3> QED BY <2>2, <3>1
  <2>3. CASE ~d.mida
    <3>1. off = d /\ d.mida = FALSE
      BY <2>1, <2>3
    <3> QED BY <3>1 DEF Held, Kept
  <2> QED BY <2>2, <2>3
<1> HIDE DEF off
<1>4. CASE Halted(x)
  BY <1>1, <1>4, HaltStops DEF Watching, Goes
<1>5. CASE ~Halted(x)
  <2>1. x \in ConfigResults(off, cfg) /\ ~Stopped(off)
    BY <1>1, <1>2, <1>5 DEF Goes, Stopped
  <2>2. off.stop = Nil /\ Staffed(off)
    BY <1>2, <2>1, HaltStops DEF Goes
  <2>3. Sound(off) /\ off.mida = FALSE /\ Balanced(off)
    BY <1>3, <2>1 DEF Kept
  <2>4. Goes(x)
    BY <2>1, <2>2, <2>3, ConfigStaffs
  <2>5. Stopped(x) \/ Sound(x)
    BY <2>1, <2>3, ConfigIsSound
  <2>6. x.stop = Nil /\ Staffed(x) /\ Sound(x)
    BY <1>5, <2>4, <2>5 DEF Goes, Stopped
  <2>7. Same(r, x)
    <3>1. DOMAIN x = Fields
      BY <2>6 DEF Sound, Placed, EngineOK
    <3> QED BY <1>1, <2>6, <3>1 DEF Watching, Same, Fields, Stopped
  <2> QED BY <2>6, <2>7, SameStaff DEF Same, Goes
<1> QED BY <1>4, <1>5

LEMMA HandleErrorStaffs ==
  ASSUME NEW d, Sound(d), ChainOn(d), Balanced(d), d.stop = Nil, Staffed(d),
         NEW g \in Nat, g >= 1, g <= d.naive
  PROVE  Goes(HandleError(d, g))
<1> DEFINE m == [d EXCEPT !.mida = TRUE]
<1>1. HandleError(d, g) = MergeDownTo(m, g)
  BY DEF HandleError
<1>2. ErrorStarts(m, d)
  BY ChainIsTurnedOn
<1> HIDE DEF m
<1>3. Staffed(m) /\ m.stop = Nil
  BY <1>2, SameStaff DEF ErrorStarts
<1>4. Sound(m) /\ ChainOn(m) /\ Balanced(m) /\ g <= m.naive /\ m.mida
  BY <1>2 DEF ErrorStarts, Kept
<1> QED BY <1>1, <1>3, <1>4, MergeDownToStaffs

LEMMA InitStaffs == EngineInit.stop = Nil /\ Staffed(EngineInit)
<1> DEFINE n == 1 + NaiveN
           d == EngineInit
<1>1. /\ d.active = [g \in Groups |-> IF g < n THEN [seg |-> g + 1, off |-> 0] ELSE NotActive]
      /\ d.queue = [g \in Groups |-> {}] /\ d.total = [g \in Groups |-> 0] /\ d.stop = Nil
  BY DEF EngineInit
<1> HIDE DEF d
<1>2. 0 \in Groups /\ 1 \in Groups /\ 0 < n /\ 1 < n
  BY Sorts
<1> HIDE DEF n
<1>3. Manned(d, 0) /\ Manned(d, 1)
  <2>1. 0 + 1 \in SegIds /\ 1 + 1 \in SegIds
    BY MidasAssumption DEF SegIds
  <2>2. 0 + 1 # Nil /\ 1 + 1 # Nil
    BY <2>1, Sorts
  <2>3. d.active[0].seg = 0 + 1 /\ d.active[1].seg = 1 + 1
    BY <1>1, <1>2
  <2> QED BY <2>2, <2>3 DEF Manned
<1> QED BY <1>1, <1>3 DEF Staffed, CountedManned, d

(* Every step leaves the engine running, with its active segments, or      *)
(* stopped for one of the reasons it may have.                             *)
StaffInv ==
  /\ e.stop = Nil \/ Halted(e)
  /\ Running => Staffed(e)

LEMMA StepStaffsEngine ==
  ASSUME MidasInv, StaffInv, Next
  PROVE  Goes(e')
<1>1. /\ Running /\ e.stop = Nil /\ Staffed(e) /\ Sound(e) /\ ChainOn(e) /\ Balanced(e)
      /\ slotOf \in [Keys -> Lbas \cup {Nil}]
  BY DEF Next, StaffInv, MidasInv, EngineInv, Running, Stopped
<1>2. EngineOK(e) /\ DOMAIN e = Fields
  BY <1>1 DEF Sound, Placed, EngineOK
<1>3. CASE EvictTurn
  <2>1. CASE EvictGroups(e) = {}
    <3>1. e' = e
      BY <1>3, <2>1 DEF EvictTurn
    <3> QED BY <1>1, <3>1 DEF Goes
  <2>2. CASE EvictGroups(e) # {}
    <3> DEFINE q == Max(EvictGroups(e))
    <3>1. \E s \in e.queue[q] : e' = Erase(Purge([e EXCEPT !.queue[q] = @ \ {s}], s), s, q)
      BY Zenon, <1>3, <2>2 DEF EvictTurn
    <3>2. q \in Groups
      BY <1>2, <2>2, EvictGroupOf
    <3> HIDE DEF q
    <3> QED BY <1>1, <3>1, <3>2, EvictStaffs
  <2> QED BY <2>1, <2>2
<1>4. CASE GCTurn
  <2>1. PICK d \in GCResults(e) : e' = IF Stopped(d) THEN d ELSE [d EXCEPT !.moved = {}]
    BY Zenon, <1>4 DEF GCTurn
  <2>2. Goes(d)
    BY <1>1, GCStaffs
  <2>3. CASE Stopped(d)
    BY <2>1, <2>2, <2>3
  <2>4. CASE ~Stopped(d)
    <3>1. Carried(d, e)
      BY <1>1, <2>4, GCIsSound
    <3>2. DOMAIN d = Fields
      BY <3>1 DEF Carried, Sound, Placed, EngineOK
    <3>3. Same(e', d)
      BY <2>1, <2>4, <3>2 DEF Same, Fields
    <3>4. d.stop = Nil /\ Staffed(d)
      BY <2>2, <2>4, HaltStops DEF Goes
    <3> QED BY <3>3, <3>4, SameStaff DEF Same, Goes
  <2> QED BY <2>3, <2>4
<1>5. ASSUME NEW k \in Keys, WriteKey(k) PROVE Goes(e')
  <2>1. \/ e' = Stop(e, "no slot")
        \/ \E slot \in SlotsFor(k), young \in BOOLEAN : e' = Write(e, slot, young)
    BY Zenon, <1>5 DEF WriteKey
  <2>2. CASE e' = Stop(e, "no slot")
    <3>1. (e').stop = "no slot"
      BY <1>2, <2>2 DEF Stop, Fields
    <3> QED BY <3>1 DEF Goes, Halted, Halts
  <2>3. ASSUME NEW slot \in SlotsFor(k), NEW young \in BOOLEAN, e' = Write(e, slot, young)
        PROVE  Goes(e')
    <3>1. slot \in Lbas
      <4>1. CASE slotOf[k] # Nil
        BY <1>1, <2>3, <4>1 DEF SlotsFor
      <4>2. CASE slotOf[k] = Nil
        BY <2>3, <4>2 DEF SlotsFor
      <4> QED BY <4>1, <4>2
    <3>2. Goes(Write(e, slot, young))
      BY <1>1, <3>1, WriteStaffs
    <3> QED BY <2>3, <3>2
  <2> QED BY <2>1, <2>2, <2>3
<1>6. CASE CheckModel
  <2>1. CASE e' = e
    BY <1>1, <2>1 DEF Goes
  <2>2. CASE e' = Decline(e)
    <3>1. Same(e', e)
      BY <1>2, <2>2 DEF Decline, Same, Fields
    <3> QED BY <1>1, <3>1, SameStaff DEF Same, Goes
  <2>3. ASSUME NEW cfg \in Configs, e' \in ApplyResults(e, cfg)
        PROVE  Goes(e')
    BY <1>1, <2>3, ApplyStaffs
  <2> QED BY <1>6, <2>1, <2>2, <2>3 DEF CheckModel
<1>7. CASE CheckError
  <2>1. CASE e' = e
    BY <1>1, <2>1 DEF Goes
  <2>2. ASSUME NEW g \in 1 .. IF e.mida THEN e.naive - 1 ELSE e.naive, e' = HandleError(e, g)
        PROVE  Goes(e')
    <3>1. g \in Nat /\ g >= 1 /\ g <= e.naive
      <4>1. g \in 1 .. e.naive - 1 \/ g \in 1 .. e.naive
        BY <2>2
      <4>2. e.naive \in Nat
        BY <1>2, GroupsOf
      <4> QED BY <4>1, <4>2
    <3> QED BY <1>1, <2>2, <3>1, HandleErrorStaffs
  <2> QED BY <1>7, <2>1, <2>2 DEF CheckError
<1> QED BY <1>3, <1>4, <1>5, <1>6, <1>7 DEF Next

(* The invariant of the theorems below.                                    *)
LEMMA StaffInvariance == Spec => []StaffInv
<1>1. Init => StaffInv
  BY InitStaffs DEF Init, StaffInv
<1>2. MidasInv /\ StaffInv /\ [Next]_vars => StaffInv'
  <2> SUFFICES ASSUME MidasInv, StaffInv, [Next]_vars PROVE StaffInv'
    OBVIOUS
  <2>1. CASE UNCHANGED vars
    BY <2>1 DEF vars, StaffInv, Running
  <2>2. CASE Next
    <3>1. Goes(e')
      BY <2>2, StepStaffsEngine
    <3>2. e'.stop = Nil \/ Halted(e')
      BY <3>1 DEF Goes
    <3>3. (~Stopped(e') /\ ~e'.refused) => Staffed(e')
      BY <3>1, HaltStops DEF Goes
    <3> QED BY <3>2, <3>3 DEF StaffInv, Running
  <2> QED BY <2>1, <2>2
<1> QED BY <1>1, <1>2, MidasInvariant, PTL DEF Spec

(* If the engine stops, it is not for one of its consistency checks, with  *)
(* any set of configurations: merge_group and do_gc find the counts they   *)
(* expect, group_split the labels, hf_check its range, a write an active   *)
(* segment, and move_margin_seg pops an empty queue only for a group whose *)
(* size is negative.                                                       *)
THEOREM EngineChecksHold == Spec => []ChecksHold
<1>1. "no segment to move" # Nil
  BY NilAssumption DEF Reasons
<1>2. StaffInv => ChecksHold
  BY <1>1 DEF StaffInv, Halted, Halts, ChecksHold
<1> QED BY <1>2, StaffInvariance, PTL

(* Where every configuration leaves a group a segment besides those that   *)
(* change_config_2 holds back, move_margin_seg finds the segments to move. *)
THEOREM RoomyConfigsMove == RoomyConfigs => (Spec => [](e.stop # "no segment to move"))
<1> SUFFICES ASSUME RoomyConfigs PROVE Spec => [](e.stop # "no segment to move")
  OBVIOUS
<1>1. "no segment to move" # Nil
  BY NilAssumption DEF Reasons
<1>2. StaffInv => e.stop # "no segment to move"
  BY <1>1 DEF StaffInv, Halted
<1> QED BY <1>2, StaffInvariance, PTL

=============================================================================
