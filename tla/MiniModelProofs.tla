--------------------------- MODULE MiniModelProofs ---------------------------
(***************************************************************************)
(* The safety properties of MiniModel, for every geometry and window: the  *)
(* two threads do not meet over the counts, and the counts are exact.      *)
(* Then those of the search that the second thread runs (GroupSearch), for *)
(* every size of the drive: the groups it answers fit.                     *)
(***************************************************************************)
EXTENDS MiniModel, GroupSearch, Containers

-----------------------------------------------------------------------------
(* Sums (see Containers).                                                  *)

LEMMA SumOfAll ==
  ASSUME NEW f
  PROVE  Sum(f) = SumOver(f, DOMAIN f)
BY DEF Sum, FoldSet, MapThenFoldSet, SumOver, Partial, Taken

(* Counting one thing more makes the sum one more.                         *)
LEMMA SumCountsOneMore ==
  ASSUME NEW S, IsFiniteSet(S), NEW f \in [S -> Int], NEW j \in S,
         NEW g, g = [f EXCEPT ![j] = @ + 1]
  PROVE  Sum(f) \in Int /\ Sum(g) = Sum(f) + 1
<1> DEFINE x == f[j] + 1
<1>1. x \in Int /\ f[j] \in Int /\ g = [f EXCEPT ![j] = x] /\ f \in [S -> Int]
  OBVIOUS
<1> HIDE DEF x
<1>2. Sum(f) \in Int /\ Sum(g) = Sum(f) - f[j] + x
  <2>1. Ints(f, S) /\ Ints(g, S) /\ SameOn(f, g, S \ {j}) /\ g[j] = x
    BY <1>1 DEF Ints, SameOn
  <2>2. SumOver(f, S) \in Int
    BY <2>1, SumType
  <2>3. SumOver(g, S) = SumOver(f, S) - f[j] + g[j]
    BY ONLY <2>1, IsFiniteSet(S), j \in S, SumChangesAt
  <2>4. Sum(f) = SumOver(f, S) /\ Sum(g) = SumOver(g, S)
    BY SumOfAll
  <2> QED BY <2>1, <2>2, <2>3, <2>4
<1> QED BY <1>1, <1>2 DEF x

(* Nothing counted is nothing.                                             *)
LEMMA SumOfNothing ==
  ASSUME NEW n \in Nat
  PROVE  Sum(NoCounts(n)) = 0
<1> DEFINE f == NoCounts(n)
<1>1. DOMAIN f = 0 .. n - 1 /\ \A i \in 0 .. n - 1 : f[i] = 0
  BY DEF NoCounts
<1> HIDE DEF f
<1>2. Sum(f) = SumOver(f, 0 .. n - 1)
  BY <1>1, SumOfAll
<1>3. CASE n = 0
  <2>1. 0 .. n - 1 = {}
    BY <1>3
  <2> QED BY <1>2, <2>1, SumOfNone DEF f
<1>4. CASE n # 0
  <2> DEFINE k == n - 1
  <2>1. k \in Nat /\ 0 \in Nat /\ 0 <= 0 /\ 0 <= k /\ 0 \in 0 .. k /\ \A i \in 0 + 1 .. k : i \in 0 .. k
    BY <1>4
  <2> HIDE DEF k
  <2>2. Ints(f, 0 .. k) /\ (\A i \in 0 + 1 .. k : f[i] = 0) /\ f[0] = 0 /\ f[0] \in Int
    BY <1>1, <2>1 DEF Ints, k
  <2>3. SumOver(f, 0 .. k) = SumOver(f, 0 .. 0)
    <3>1. ASSUME NEW z, z = 0
          PROVE  SumOver(f, z .. k) = SumOver(f, z .. z)
      <4>1. z \in Nat /\ z <= z /\ z <= k /\ Ints(f, z .. k) /\ \A i \in z + 1 .. k : f[i] = 0
        BY <2>1, <2>2, <3>1
      <4> QED BY ONLY <2>1, <4>1, SumOfZeros
    <3> QED BY <3>1
  <2>4. SumOver(f, 0 .. 0) = f[0]
    BY Zenon, <2>1, <2>2, SumOfSingle
  <2> QED BY <1>2, <2>2, <2>3, <2>4 DEF f, k
<1> QED BY <1>3, <1>4

-----------------------------------------------------------------------------
(* The inductive invariant.                                                *)

(* Where the two threads are.                                              *)
ControlInv ==
  /\ on \in BOOLEAN /\ valid \in BOOLEAN
  /\ on => tpc = "none"
  /\ ModelAlone

Time(t) == t[1] * Unit + t[2]

(* While the model is on: the time is in the window, and no stamp is later *)
(* than the last write.                                                    *)
TimeInv ==
  /\ now \in Nat \X Nat /\ now[1] < tw /\ now[2] < Unit
  /\ stamp \in [Samples -> Nat]
  /\ \A s \in Samples : stamp[s] = Never \/ stamp[s] <= 2 * Time(now) + 1

MInv ==
  /\ ControlInv
  /\ tw \in Nat /\ Window <= tw /\ tw <= MaxWindow
  /\ load \in Nat
  /\ on => TimeInv /\ count \in [0 .. tw - 1 -> Int] /\ CountsExact

-----------------------------------------------------------------------------
(* Time.                                                                   *)

(* A time in the window stays below the marks that are not stamps.         *)
LEMMA TimeFits ==
  ASSUME NEW w \in Nat, w <= MaxWindow,
         NEW t \in Nat \X Nat, t[1] < w, t[2] < Unit
  PROVE  Time(t) \in Nat /\ 2 * Time(t) + 1 < Never - 1
<1> DEFINE a == t[1]
           b == t[2]
<1>1. a \in Nat /\ b \in Nat /\ Unit \in Nat /\ MaxWindow \in Nat /\ Never \in Nat
  BY MiniModelAssumption
<1>2. a + 1 <= MaxWindow /\ b < Unit
  BY <1>1
<1> HIDE DEF a, b
<1>3. a * Unit \in Nat /\ MaxWindow * Unit \in Nat
  BY <1>1
<1>4. (a + 1) * Unit <= MaxWindow * Unit
  BY <1>1, <1>2
<1>5. (a + 1) * Unit = a * Unit + Unit
  BY <1>1
<1>6. 2 * (MaxWindow * Unit) + 1 < Never - 1
  BY MiniModelAssumption
<1>7. Time(t) = a * Unit + b
  BY DEF Time, a, b
<1> DEFINE p == a * Unit
           q == MaxWindow * Unit
           r == (a + 1) * Unit
<1>8. p \in Nat /\ q \in Nat /\ r <= q /\ r = p + Unit /\ 2 * q + 1 < Never - 1
  BY <1>3, <1>4, <1>5, <1>6
<1> HIDE DEF p, q, r
<1>9. p + b \in Nat /\ 2 * (p + b) + 1 < Never - 1
  BY <1>1, <1>2, <1>8
<1> QED BY <1>7, <1>9 DEF p

(* The next time is not earlier.                                           *)
LEMMA LaterIsLater ==
  ASSUME now \in Nat \X Nat, now[2] < Unit
  PROVE  /\ Later \in Nat \X Nat /\ Later[2] < Unit
         /\ Time(now) \in Nat /\ Time(Later) \in Nat /\ Time(now) <= Time(Later)
<1> DEFINE a == now[1]
           b == now[2]
<1>1. a \in Nat /\ b \in Nat /\ b < Unit /\ Unit \in Nat /\ Unit # 0
  BY MiniModelAssumption
<1>2. Later \in {now, <<a + 1, 0>>, <<a, b + 1>>} /\ (Later = <<a, b + 1>> => b + 1 # Unit)
  BY DEF Later
<1>3. Time(now) = a * Unit + b /\ a * Unit \in Nat
  BY <1>1 DEF Time
<1>4. CASE Later = now
  BY <1>1, <1>3, <1>4
<1>5. CASE Later = <<a + 1, 0>>
  <2>1. Time(Later) = (a + 1) * Unit
    BY <1>1, <1>5 DEF Time
  <2>2. (a + 1) * Unit = a * Unit + Unit
    BY <1>1
  <2>3. Time(Later) = a * Unit + Unit
    BY <2>1, <2>2
  <2> HIDE DEF a, b
  <2> QED BY <1>1, <1>3, <1>5, <2>3
<1>6. CASE Later = <<a, b + 1>>
  <2>1. Time(Later) = a * Unit + (b + 1)
    BY <1>6 DEF Time
  <2> QED BY <1>1, <1>2, <1>3, <1>6, <2>1
<1> QED BY <1>2, <1>4, <1>5, <1>6

(* What is left of a product when one factor is taken away.                *)
LEMMA LessByFactor ==
  ASSUME NEW a \in Int, NEW b \in Int, NEW c \in Nat \ {0}, a * c < b * c
  PROVE  a < b
BY SMT

(* Division, as the code uses it.                                          *)
LEMMA Halves ==
  ASSUME NEW x \in Nat, NEW t \in Nat, x <= 2 * t + 1
  PROVE  x \div 2 \in Nat /\ x \div 2 <= t
OBVIOUS

LEMMA DivIsNat ==
  ASSUME NEW x \in Nat, NEW c \in Nat \ {0}
  PROVE  x \div c \in Nat
OBVIOUS

(* Every lba whose number the ratio divides is a sample.                   *)
LEMMA SampleOfLba ==
  ASSUME NEW lba \in Lbas, lba % Ratio = 0
  PROVE  lba \div Ratio \in Samples
<1> DEFINE q == lba \div Ratio
           n == LbaCount \div Ratio
<1>1. Ratio \in Nat \ {0} /\ LbaCount \in Nat /\ LbaCount % Ratio = 0
  BY MiniModelAssumption
<1>2. lba \in Nat /\ lba < LbaCount
  BY <1>1 DEF Lbas
<1>3. q \in Nat /\ n \in Nat
  BY <1>1, <1>2, DivIsNat
<1>4. lba = q * Ratio /\ LbaCount = n * Ratio
  BY <1>1, <1>2
<1> HIDE DEF q, n
<1>5. q < n
  BY <1>1, <1>2, <1>3, <1>4, LessByFactor
<1> QED BY <1>3, <1>5 DEF Samples, q, n

-----------------------------------------------------------------------------
(* Every action keeps the invariant.                                       *)

(* Counting one write of a sampled lba.                                    *)
LEMMA UpdateCountKeeps ==
  ASSUME MInv, on, NEW t \in Nat \X Nat, t[1] < tw, t[2] < Unit,
         Time(now) <= Time(t), NEW s \in Samples, UpdateCount(t, s), tw' = tw
  PROVE  /\ stamp' \in [Samples -> Nat]
         /\ \A r \in Samples : stamp'[r] = Never \/ stamp'[r] <= 2 * Time(t) + 1
         /\ count' \in [0 .. tw - 1 -> Int]
         /\ Sum(count') = again'
<1> DEFINE time == Time(t)
           x == stamp[s]
<1>1. /\ tw \in Nat /\ tw <= MaxWindow
      /\ now \in Nat \X Nat /\ now[1] < tw /\ now[2] < Unit
      /\ stamp \in [Samples -> Nat]
      /\ \A r \in Samples : stamp[r] = Never \/ stamp[r] <= 2 * Time(now) + 1
      /\ count \in [0 .. tw - 1 -> Int] /\ Sum(count) = again
  BY DEF MInv, TimeInv, CountsExact
<1>2. time \in Nat /\ 2 * time + 1 < Never - 1 /\ Never \in Nat
  BY <1>1, TimeFits, MiniModelAssumption
<1>3. Time(now) \in Nat
  BY <1>1, TimeFits
<1>4. x \in Nat /\ (x # Never => x <= 2 * time + 1)
  <2>1. x \in Nat /\ (x = Never \/ x <= 2 * Time(now) + 1)
    BY <1>1
  <2>2. Time(now) <= time
    OBVIOUS
  <2> HIDE DEF x, time
  <2> QED BY <2>1, <2>2, <1>2, <1>3
<1> DEFINE gap == (time - (x \div 2)) \div Unit
           i == IF gap >= tw THEN tw - 1 ELSE gap
<1>5. /\ stamp' = [stamp EXCEPT ![s] = IF @ = Never THEN 2 * time + 1 ELSE 2 * time]
      /\ IF x \in {Never, Never - 1} THEN count' = count
         ELSE count' = [count EXCEPT ![i] = @ + 1]
      /\ again' = IF x = Never THEN again ELSE again + 1
  BY DEF UpdateCount, Time
<1>6. stamp'[s] \in {2 * time, 2 * time + 1} /\ \A r \in Samples \ {s} : stamp'[r] = stamp[r]
  BY <1>1, <1>5
<1>7. stamp' \in [Samples -> Nat]
  <2>1. 2 * time \in Nat /\ 2 * time + 1 \in Nat
    BY <1>2
  <2>2. PICK y \in Nat : stamp' = [stamp EXCEPT ![s] = y]
    BY <1>5, <2>1
  <2> QED BY <2>2, <1>1
<1>8. \A r \in Samples : stamp'[r] = Never \/ stamp'[r] <= 2 * time + 1
  <2> SUFFICES ASSUME NEW r \in Samples PROVE stamp'[r] = Never \/ stamp'[r] <= 2 * time + 1
    OBVIOUS
  <2>1. CASE r = s
    BY <2>1, <1>2, <1>6
  <2>2. CASE r # s
    <3>1. stamp'[r] = stamp[r] /\ stamp[r] \in Nat
      BY <2>2, <1>1, <1>6
    <3> QED BY SMTT(60), <3>1, <1>1, <1>2, <1>3
  <2> QED BY <2>1, <2>2
<1>9. CASE x = Never
  BY <1>1, <1>5, <1>7, <1>8, <1>9
<1>10. CASE x # Never
  <2>1. x # Never - 1
    BY <1>2, <1>4, <1>10
  <2>2. x \div 2 \in Nat /\ x \div 2 <= time
    BY <1>2, <1>4, <1>10, Halves
  <2>3. time - (x \div 2) \in Nat
    BY <1>2, <2>2
  <2>4. gap \in Nat
    BY <2>3, DivIsNat, MiniModelAssumption
  <2>5. tw \in Nat /\ tw >= 1
    BY <1>1, MiniModelAssumption DEF MInv
  <2> HIDE DEF gap
  <2>6. i \in 0 .. tw - 1
    BY <2>4, <2>5
  <2> HIDE DEF i
  <2>7. count' = [count EXCEPT ![i] = @ + 1]
    BY <1>5, <1>10, <2>1
  <2>8. count' \in [0 .. tw - 1 -> Int]
    <3>1. count[i] + 1 \in Int
      BY <1>1, <2>6
    <3> QED BY <1>1, <2>7, <3>1
  <2>9. IsFiniteSet(0 .. tw - 1)
    BY <2>5, FS_Interval
  <2>10. Sum(count') = Sum(count) + 1
    <3>1. count \in [0 .. tw - 1 -> Int]
      BY <1>1
    <3> QED BY <2>6, <2>7, <2>9, <3>1, SumCountsOneMore
  <2>11. again' = again + 1
    BY <1>5, <1>10
  <2> QED BY <1>1, <1>7, <1>8, <2>8, <2>10, <2>11
<1> QED BY <1>9, <1>10

LEMMA InitHasMInv == Init => MInv
<1> SUFFICES ASSUME Init PROVE MInv
  OBVIOUS
<1>1. ControlInv
  BY DEF Init, ControlInv, ModelAlone
<1>2. tw \in Nat /\ Window <= tw /\ tw <= MaxWindow /\ load \in Nat /\ tw > 0
  BY MiniModelAssumption DEF Init
<1>3. now = <<0, 0>> /\ stamp = [s \in Samples |-> Never]
  BY DEF Init
<1>4. TimeInv
  BY <1>2, <1>3, MiniModelAssumption DEF TimeInv
<1>5. count = NoCounts(tw) /\ again = 0
  BY DEF Init
<1>6. count \in [0 .. tw - 1 -> Int] /\ CountsExact
  BY <1>2, <1>5, SumOfNothing DEF CountsExact, NoCounts
<1> QED BY <1>1, <1>2, <1>4, <1>6 DEF MInv

LEMMA WriteKeepsMInv ==
  ASSUME MInv, NEW lba \in Lbas, Write(lba)
  PROVE  MInv'
<1>1. tw' = tw /\ lock' = lock /\ valid' = valid /\ pc = "write" /\ pc' = "ginfo"
  BY DEF Write
<1>2. CASE ~on \/ now[1] = tw
  <2>1. UNCHANGED <<on, counting, tpc>>
    BY <1>2 DEF Write
  <2>2. UNCHANGED <<now, load, stamp, count, again, on, tpc>>
    BY <2>1 DEF counting
  <2>3. ControlInv'
    BY <1>1, <2>2 DEF MInv, ControlInv, ModelAlone
  <2>4. Time(now)' = Time(now)
    BY <2>2 DEF Time
  <2>5. TimeInv => TimeInv'
    BY <1>1, <2>2, <2>4 DEF TimeInv
  <2> QED BY <1>1, <2>2, <2>3, <2>5 DEF MInv, CountsExact
<1>3. CASE on /\ now[1] # tw
  <2> DEFINE t == Later
  <2>1. /\ now' = t
        /\ load' = IF load < LoadTime THEN load + 1 ELSE load
        /\ IF t = <<0, 0>> THEN UNCHANGED <<on, stamp, count, first, buf, again, tpc>>
           ELSE IF t[1] >= tw
           THEN on' = FALSE /\ tpc' = "made"
           ELSE /\ UNCHANGED <<on, tpc>>
                /\ IF lba % Ratio # 0 THEN UNCHANGED <<stamp, count, again>>
                   ELSE UpdateCount(t, lba \div Ratio)
    BY <1>3 DEF Write
  <2>2. load' \in Nat
    BY <2>1 DEF MInv
  <2>3. /\ t \in Nat \X Nat /\ t[2] < Unit
        /\ Time(now) \in Nat /\ Time(t) \in Nat /\ Time(now) <= Time(t)
    BY <1>3, LaterIsLater DEF MInv, TimeInv
  <2> HIDE DEF t
  <2>4. Time(now') = Time(t)
    BY <2>1
  <2>5. CASE t # <<0, 0>> /\ t[1] >= tw
    <3>1. on' = FALSE /\ tpc' = "made"
      BY <2>1, <2>5
    <3>2. ControlInv'
      BY <1>1, <1>3, <3>1 DEF MInv, ControlInv, ModelAlone
    <3> QED BY <1>1, <2>2, <3>1, <3>2 DEF MInv
  <2>6. CASE t = <<0, 0>> \/ t[1] < tw
    <3>1. on' = on /\ tpc' = tpc /\ t[1] < tw
      BY <2>1, <2>3, <2>6, MiniModelAssumption DEF MInv
    <3>2. ControlInv'
      BY <1>1, <3>1 DEF MInv, ControlInv, ModelAlone
    <3>3. /\ stamp' \in [Samples -> Nat]
          /\ \A r \in Samples : stamp'[r] = Never \/ stamp'[r] <= 2 * Time(t) + 1
          /\ count' \in [0 .. tw - 1 -> Int]
          /\ Sum(count') = again'
      <4>1. CASE UNCHANGED <<stamp, count, again>>
        <5>1. \A r \in Samples : stamp[r] \in Nat
          BY <1>3 DEF MInv, TimeInv
        <5> QED BY SMTT(60), <4>1, <5>1, <1>3, <2>3 DEF MInv, TimeInv, CountsExact
      <4>2. CASE ~ UNCHANGED <<stamp, count, again>>
        <5>1. UpdateCount(t, lba \div Ratio) /\ lba % Ratio = 0
          BY <2>1, <2>3, <3>1, <4>2 DEF MInv
        <5> QED BY <5>1, <1>1, <1>3, <2>3, <3>1, SampleOfLba, UpdateCountKeeps
      <4> QED BY <4>1, <4>2
    <3>4. TimeInv'
      BY <1>1, <2>1, <2>3, <2>4, <3>1, <3>3 DEF TimeInv
    <3> QED BY <1>1, <2>2, <3>2, <3>3, <3>4 DEF MInv, CountsExact
  <2>7. t[1] >= tw \/ t[1] < tw
    BY <2>3 DEF MInv
  <2> QED BY <2>5, <2>6, <2>7
<1> QED BY <1>2, <1>3

LEMMA ModelErrsKeepsMInv ==
  ASSUME MInv, ModelErrs \/ UNCHANGED vars
  PROVE  MInv'
<1>1. UNCHANGED <<on, tw, now, load, stamp, count, again, pc, lock, tpc, valid>>
  BY DEF ModelErrs, vars, counting
<1>2. ControlInv'
  BY <1>1 DEF MInv, ControlInv, ModelAlone
<1>3. Time(now)' = Time(now)
  BY <1>1 DEF Time
<1>4. TimeInv => TimeInv'
  BY <1>1, <1>3 DEF TimeInv
<1> QED BY <1>1, <1>2, <1>4 DEF MInv, CountsExact

(* A longer window is not yet that of the counts, but the model is off.    *)
LEMMA CheckGinfoKeepsMInv ==
  ASSUME MInv, CheckGinfo
  PROVE  MInv'
<1>1. /\ pc = "ginfo" /\ UNCHANGED <<on, now, load, stamp, again, lock, tpc, valid>>
      /\ \/ ~valid /\ pc' = "write" /\ UNCHANGED <<tw, count>>
         \/ valid /\ pc' = "reset" /\ (Longer \/ UNCHANGED <<tw, count>>)
  BY DEF CheckGinfo
<1>2. ControlInv'
  BY <1>1 DEF MInv, ControlInv, ModelAlone
<1>3. tw' \in Nat /\ Window <= tw' /\ tw' <= MaxWindow
  BY <1>1, MiniModelAssumption DEF MInv, Longer
<1>4. CASE on
  <2>1. ~valid /\ UNCHANGED <<tw, count>>
    BY <1>1, <1>4 DEF MInv, ControlInv, ModelAlone
  <2>2. Time(now)' = Time(now)
    BY <1>1 DEF Time
  <2>3. TimeInv'
    BY <1>1, <1>4, <2>1, <2>2 DEF MInv, TimeInv
  <2> QED BY <1>1, <1>2, <1>3, <1>4, <2>1, <2>3 DEF MInv, CountsExact
<1>5. CASE ~on
  BY <1>1, <1>2, <1>3, <1>5 DEF MInv
<1> QED BY <1>4, <1>5

(* The next window begins with nothing counted.                            *)
LEMMA ResetKeepsMInv ==
  ASSUME MInv, Reset
  PROVE  MInv'
<1>1. /\ pc = "reset" /\ lock = "free" /\ pc' = "write" /\ valid' = FALSE /\ on' = TRUE
      /\ stamp' = [s \in Samples |-> Never] /\ count' = NoCounts(tw) /\ again' = 0
      /\ now' = <<0, 0>> /\ load' = load /\ tw' = tw /\ lock' = lock /\ tpc' = tpc
  BY DEF Reset, Initialize
<1>2. ControlInv'
  BY <1>1 DEF MInv, ControlInv, ModelAlone
<1>3. tw \in Nat /\ tw > 0
  BY MiniModelAssumption DEF MInv
<1>4. TimeInv'
  BY <1>1, <1>3, MiniModelAssumption DEF TimeInv
<1>5. count' \in [0 .. tw - 1 -> Int] /\ Sum(count') = 0
  BY <1>1, <1>3, SumOfNothing DEF NoCounts
<1> QED BY <1>1, <1>2, <1>4, <1>5 DEF MInv, CountsExact

(* The thread works while the model is off.                                *)
LEMMA ThreadKeepsMInv ==
  ASSUME MInv, ThreadNext
  PROVE  MInv'
<1>1. ~on /\ on' = on /\ load' = load /\ pc' = pc
  BY DEF ThreadNext, ThreadStart, ThreadAnswers, ThreadGivesUp, ThreadReturns, counting,
         MInv, ControlInv
<1>2. ControlInv'
  <2>1. CASE ThreadStart
    BY <2>1 DEF ThreadStart, MInv, ControlInv, ModelAlone
  <2>2. CASE ThreadAnswers
    <3>1. /\ tpc = "works" /\ UNCHANGED <<on, pc, lock>>
          /\ \/ valid' = TRUE /\ tpc' = "returns"
             \/ UNCHANGED valid /\ tpc' = "silent"
      BY <2>2 DEF ThreadAnswers
    <3>2. ~on /\ ~valid /\ pc # "reset" /\ lock = "model" /\ on \in BOOLEAN /\ valid \in BOOLEAN
      BY <3>1 DEF MInv, ControlInv, ModelAlone
    <3>3. on = FALSE /\ valid = FALSE
      BY <3>2
    <3>4. /\ on' = FALSE /\ pc' # "reset" /\ lock' = "model"
          /\ \/ valid' = TRUE /\ tpc' = "returns"
             \/ valid' = FALSE /\ tpc' = "silent"
      BY <3>1, <3>2, <3>3
    <3>5. CASE valid' = TRUE /\ tpc' = "returns"
      BY <3>4, <3>5 DEF ControlInv, ModelAlone
    <3>6. CASE valid' = FALSE /\ tpc' = "silent"
      BY <3>4, <3>6 DEF ControlInv, ModelAlone
    <3> QED BY <3>4, <3>5, <3>6
  <2>3. CASE ThreadGivesUp
    BY <2>3 DEF ThreadGivesUp, MInv, ControlInv, ModelAlone
  <2>4. CASE ThreadReturns
    BY <2>4 DEF ThreadReturns, MInv, ControlInv, ModelAlone
  <2> QED BY <2>1, <2>2, <2>3, <2>4 DEF ThreadNext
<1>3. tw' \in Nat /\ Window <= tw' /\ tw' <= MaxWindow
  <2>1. tw' = tw \/ (2 * tw <= MaxWindow /\ tw' = 2 * tw)
    <3>1. Longer => 2 * tw <= MaxWindow /\ tw' = 2 * tw
      BY DEF Longer
    <3>2. tw' = tw \/ Longer
      BY DEF ThreadNext, ThreadStart, ThreadAnswers, ThreadGivesUp, ThreadReturns
    <3> QED BY <3>1, <3>2
  <2> QED BY <2>1, MiniModelAssumption DEF MInv
<1> QED BY <1>1, <1>2, <1>3 DEF MInv

(* The inductive invariant holds in every reachable state.                 *)
THEOREM ModelInvariance == Spec => []MInv
<1>1. Init => MInv
  BY InitHasMInv
<1>2. MInv /\ [Next]_vars => MInv'
  BY WriteKeepsMInv, ModelErrsKeepsMInv, CheckGinfoKeepsMInv, ResetKeepsMInv, ThreadKeepsMInv
     DEF Next, MainNext
<1> QED BY <1>1, <1>2, PTL DEF Spec

-----------------------------------------------------------------------------
(* What it means.                                                          *)

(* The flags keep the two threads apart: model_mutex is held by the thread *)
(* from its first step to its last, and until its answer is published the  *)
(* writing thread neither counts nor begins a window.                      *)
THEOREM ModelStaysAlone == Spec => []ModelAlone
<1>1. MInv => ModelAlone
  BY DEF MInv, ControlInv
<1> QED BY <1>1, ModelInvariance, PTL

(* While the model is on, the counts are those of the window.              *)
THEOREM CountsStayExact == Spec => []CountsExact
<1>1. MInv => CountsExact
  BY DEF MInv, CountsExact
<1> QED BY <1>1, ModelInvariance, PTL

(* From its creation until it answers, the writing thread changes nothing  *)
(* of what the thread computes from.                                       *)
CountsFrozen == tpc \in {"made", "works"} /\ MainNext => UNCHANGED <<tw, counting>>

(* The thread reads the counts without model_mutex being taken by those    *)
(* who write them, and yet no step of the writing thread comes between two *)
(* of its reads with another value.                                        *)
THEOREM CountsStayFrozen == Spec => [][CountsFrozen]_vars
<1>1. MInv /\ [Next]_vars => [CountsFrozen]_vars
  <2> SUFFICES ASSUME MInv, tpc \in {"made", "works"}, MainNext
               PROVE  UNCHANGED <<tw, counting>>
    BY DEF CountsFrozen
  <2>1. ~on /\ ~valid /\ pc # "reset"
    BY DEF MInv, ControlInv, ModelAlone
  <2> QED BY <2>1 DEF MainNext, Write, ModelErrs, CheckGinfo, Reset, counting
<1> QED BY <1>1, ModelInvariance, PTL DEF Spec

-----------------------------------------------------------------------------
(* The search for the groups.  Its state is taken apart: each predicate    *)
(* below is about the values the search has at one of its places.          *)

HotTypes == [real : BOOLEAN, desig : Nat, extra : Nat, calc : Nat, search : BOOLEAN,
             known : BOOLEAN]
Configs == [Slots -> Int]
Levels == 0 .. GLevels
Finals == [c : Configs, num : 1 .. GLevels + 2, waf : 1 .. High]
Answers == [c : Configs, waf : 1 .. NoWaf]

(* c has segments in its first n groups and in no other.                   *)
Grouped(d, n) == \A s \in Slots : IF s < n THEN d[s] > 0 ELSE d[s] = 0

(* With a hot group of size x the groups of d fit the drive, and fill it   *)
(* if that size is a measured one.                                         *)
Fits(d, x, real) == x + Total(d) <= GSegs /\ (real => x + Total(d) = GSegs)

(* The best configuration of a level, where there is one.                  *)
HasAnswer(opt, k) == k = 0 \/ opt[k].waf # NoWaf
NoneAbove(opt, n) == \A k \in Levels : k > n => opt[k].waf = NoWaf

LevelsSound(opt, h) ==
  \A k \in Levels :
    IF HasAnswer(opt, k) THEN Grouped(opt[k].c, k + 1) /\ Fits(opt[k].c, h.extra, h.real)
    ELSE opt[k].c = Empty

(* What the predictor may have taken off the last group beyond the size    *)
(* asked for.                                                              *)
Short(h) == IF h.search THEN 0 ELSE GMaxGap

(* Level i, which tries size j next, with the limits m of gmax: what the   *)
(* last two groups share does not change, and the last one keeps more than *)
(* the sizes still to be tried can take.  A level above one without an     *)
(* answer begins with nothing.                                             *)
SplitSound(opt, h, i, j, d, m) ==
  /\ NoneAbove(opt, i + 1)
  /\ HasAnswer(opt, i) =>
       /\ \A s \in Slots : (s <= i => d[s] > 0) /\ (s > i + 1 => d[s] = 0)
       /\ h.extra + Total(d) - d[i] + j - 1 <= GSegs
       /\ h.real => h.extra + Total(d) - d[i] + j - 1 = GSegs
       /\ d[i + 1] >= m[1] + GMargin - Short(h) - (j - 1)
  /\ ~HasAnswer(opt, i) => d[0] = 0 /\ d[i + 1] <= 0
  /\ HasAnswer(opt, i + 1) => opt[i + 1].c[i + 1] >= m[2] + GMargin - Short(h)

(* The configuration chosen fits with the hot group that was asked for as  *)
(* well as with the one the predictor reached.                             *)
FinalSound(f, h) ==
  /\ Grouped(f.c, f.num) /\ Fits(f.c, h.extra, h.real)
  /\ ~h.real => Fits(f.c, h.desig, FALSE)

(* While the hot group is tried again, its segments are the last group's.  *)
RehotSound(f, h, d) ==
  /\ ~h.real /\ Total(d) <= GSegs
  /\ \A s \in Slots : (s < f.num - 1 => d[s] > 0) /\ (s >= f.num => d[s] = 0)

(* While group i of n is resized it has the size tried last.               *)
NumOf(f, i) == IF i < f.num - 1 THEN f.num ELSE f.num + 1

ResizeSound(f, h, i, j, d, add) ==
  LET n == NumOf(f, i)
  IN /\ i < GLevels /\ i < f.num /\ (add => i < f.num - 1)
     /\ d[i] = j - 1
     /\ \A s \in Slots \ {i, n - 1} : IF s < n THEN d[s] > 0 ELSE d[s] = 0
     /\ Fits(d, h.extra, h.real)
     /\ ~h.real => Fits(d, h.desig, FALSE)

GSTypes ==
  /\ gat \in {"hot", "levels", "round", "rehot", "group", "resize", "answer", "none"}
  /\ gi \in Levels /\ gj \in Nat \ {0} /\ grnd \in Nat /\ gadd \in BOOLEAN
  /\ gcfg \in Configs /\ gmax \in Int \X Int
  /\ gopt \in [Levels -> Answers] /\ gfin \in Finals /\ ghot \in HotTypes

GSInv ==
  /\ GSTypes
  /\ gat \in {"hot", "levels"} => LevelsSound(gopt, ghot) /\ gfin.num = 1
  /\ gat = "hot" => NoneAbove(gopt, 0)
  /\ gat = "levels" => /\ ghot.desig = ghot.extra
                       /\ gi < GLevels => SplitSound(gopt, ghot, gi, gj, gcfg, gmax)
  /\ gat \in {"round", "rehot", "group", "resize"} \/ Answered => FinalSound(gfin, ghot)
  /\ gat = "rehot" => RehotSound(gfin, ghot, gcfg)
  /\ gat = "group" => gi < gfin.num /\ gcfg = gfin.c
  /\ gat = "resize" => ResizeSound(gfin, ghot, gi, gj, gcfg, gadd)

(* The limits of the levels stay above zero: the hot group leaves more than *)
(* the margin, and every size recorded leaves the next level one to try.   *)
LimitInv ==
  /\ gat = "hot" => gopt[0].c[0] > GMargin
  /\ gat = "levels" => gmax[1] > 0 /\ gmax[2] > 0

(* The constants' assumption, taken apart.                                 *)
LEMMA SearchFacts ==
  /\ GSegs \in Nat /\ GMargin \in Nat /\ GLevels \in Nat /\ GRounds \in Nat /\ GHotMax \in Nat
  /\ GMaxGap \in Nat /\ GMaxGap <= GMargin
  /\ IsFiniteSet(Slots)
<1>1. {GSegs, GMargin, GLevels, GRounds, GHotMax, GMaxGap} \subseteq Nat
  BY GroupSearchAssumption
<1>2. IsFiniteSet(Slots)
  BY <1>1, FS_Interval DEF Slots
<1> QED BY <1>1, <1>2, GroupSearchAssumption

(* The total of a configuration is the sum of above.                       *)
LEMMA TotalIsSum ==
  ASSUME NEW cf \in Configs
  PROVE  Total(cf) = Sum(cf)
<1>1. DOMAIN cf = Slots
  BY DEF Configs
<1> QED BY <1>1 DEF Total, Sum, FoldSet, MapThenFoldSet

(* One group of a configuration changes.                                   *)
LEMMA TotalChanges ==
  ASSUME NEW cf \in Configs, NEW j \in Slots, NEW x \in Int
  PROVE  LET new == [cf EXCEPT ![j] = x]
         IN /\ new \in Configs /\ Total(cf) \in Int
            /\ Total(new) = Total(cf) - cf[j] + x
            /\ new[j] = x /\ \A s \in Slots : s # j => new[s] = cf[s]
<1> DEFINE new == [cf EXCEPT ![j] = x]
<1>1. new \in Configs /\ new[j] = x /\ \A s \in Slots : s # j => new[s] = cf[s]
  BY DEF Configs
<1>2. Total(cf) = Sum(cf) /\ Total(new) = Sum(new)
  BY <1>1, TotalIsSum
<1>3. Sum(cf) \in Int /\ Sum(new) = Sum(cf) - cf[j] + x
  <2>1. cf \in [Slots -> Int] /\ IsFiniteSet(Slots) /\ j \in Slots /\ x \in Int
    BY SearchFacts DEF Configs
  <2>2. Ints(cf, Slots) /\ Ints(new, Slots) /\ SameOn(cf, new, Slots \ {j}) /\ new[j] = x
    BY <2>1 DEF Ints, SameOn
  <2>3. Sum(cf) = SumOver(cf, Slots) /\ Sum(new) = SumOver(new, Slots)
    BY <2>1, SumOfAll
  <2> HIDE DEF new
  <2>4. SumOver(cf, Slots) \in Int
    BY <2>1, <2>2, SumType
  <2>5. SumOver(new, Slots) = SumOver(cf, Slots) - cf[j] + new[j]
    BY ONLY <2>1, <2>2, SumChangesAt
  <2> QED BY <2>2, <2>3, <2>4, <2>5
<1> QED BY <1>1, <1>2, <1>3

(* Two groups of a configuration change.                                   *)
ChangedTwice(d, cf, p, x, q, y) ==
  /\ d \in Configs /\ Total(cf) \in Int /\ cf[p] \in Int /\ cf[q] \in Int
  /\ Total(d) = Total(cf) - cf[p] - cf[q] + x + y
  /\ d[p] = x /\ d[q] = y /\ \A s \in Slots : s # p /\ s # q => d[s] = cf[s]

(* One group after the other.                                              *)
LEMMA TwoChanges ==
  ASSUME NEW cf \in Configs, NEW p \in Slots, NEW q \in Slots, p # q, NEW x \in Int, NEW y \in Int
  PROVE  ChangedTwice([cf EXCEPT ![p] = x, ![q] = y], cf, p, x, q, y)
<1> DEFINE one == [cf EXCEPT ![p] = x]
           two == [one EXCEPT ![q] = y]
           new == [cf EXCEPT ![p] = x, ![q] = y]
<1>1. /\ one \in Configs /\ Total(cf) \in Int /\ Total(one) = Total(cf) - cf[p] + x
      /\ one[p] = x /\ \A s \in Slots : s # p => one[s] = cf[s]
  BY TotalChanges
<1> HIDE DEF one
<1>2. /\ two \in Configs /\ Total(two) = Total(one) - one[q] + y
      /\ two[q] = y /\ \A s \in Slots : s # q => two[s] = one[s]
  BY <1>1, TotalChanges
<1>3. two = new
  BY Zenon DEF one
<1>4. cf[p] \in Int /\ cf[q] \in Int
  BY DEF Configs
<1> HIDE DEF two
<1>5. one[q] = cf[q] /\ two[p] = x /\ \A s \in Slots : s # p /\ s # q => two[s] = cf[s]
  BY <1>1, <1>2
<1>6. Total(two) = Total(cf) - cf[p] - cf[q] + x + y
  BY <1>1, <1>2, <1>4, <1>5
<1> HIDE DEF new
<1>7. ChangedTwice(new, cf, p, x, q, y)
  BY Zenon, <1>1, <1>2, <1>3, <1>4, <1>5, <1>6 DEF ChangedTwice
<1> QED BY <1>7 DEF new

(* The configurations the search begins with.                              *)
LEMMA TotalOfOne ==
  /\ Empty \in Configs /\ Total(Empty) = 0
  /\ \A x \in Int : LET one == [Empty EXCEPT ![0] = x]
                    IN one \in Configs /\ Total(one) = x /\ one[0] = x
                       /\ \A s \in Slots : s # 0 => one[s] = 0
<1>1. Empty = NoCounts(GLevels + 2) /\ GLevels + 2 \in Nat
  BY SearchFacts DEF Empty, NoCounts, Slots
<1>2. Empty \in Configs /\ \A s \in Slots : Empty[s] = 0
  BY DEF Empty, Configs
<1>3. Total(Empty) = 0
  BY <1>1, <1>2, TotalIsSum, SumOfNothing
<1>4. 0 \in Slots
  BY SearchFacts DEF Slots
<1>5. ASSUME NEW x \in Int
      PROVE  LET one == [Empty EXCEPT ![0] = x]
             IN one \in Configs /\ Total(one) = x /\ one[0] = x
                /\ \A s \in Slots : s # 0 => one[s] = 0
  BY <1>2, <1>3, <1>4, TotalChanges
<1> QED BY <1>2, <1>3, <1>5

(* The predictor leaves the size and the units known as they were.         *)
SameHot(k, h) ==
  k.real = h.real /\ k.desig = h.desig /\ k.extra = h.extra /\ k.known = h.known

(* The record of the hot group, one change at a time.                      *)
LEMMA HotCalc ==
  ASSUME NEW h \in HotTypes, NEW x \in Nat
  PROVE  LET k == [h EXCEPT !.calc = x, !.search = FALSE]
         IN k \in HotTypes /\ SameHot(k, h) /\ k.calc = x /\ k.search = FALSE
BY DEF HotTypes, SameHot

(* d and k are what the predictor made of cf and h, asked for size.        *)
SizedTo(d, k, cf, num, h, size) ==
  /\ d \in Configs /\ k \in HotTypes /\ Total(d) \in Int /\ Total(cf) \in Int
  /\ SameHot(k, h)
  /\ h.real \/ ~h.search \/ cf[0] = 0 \/ k.search => d = cf /\ k = h
  /\ ~k.search /\ h.search => k.calc = size + cf[num - 1] - d[num - 1]
  /\ d[num - 1] <= cf[num - 1] /\ cf[num - 1] - d[num - 1] <= GMaxGap
  /\ Total(d) - d[num - 1] = Total(cf) - cf[num - 1]
  /\ \A s \in Slots : s # num - 1 => d[s] = cf[s]

(* What the predictor may do to a configuration and to the hot group.      *)
LEMMA SizedKeeps ==
  ASSUME NEW cf \in Configs, NEW num \in 1 .. GLevels + 2, NEW h \in HotTypes, NEW size \in Nat,
         NEW ch \in Sized(cf, num, h, size)
  PROVE  SizedTo(ch[1], ch[2], cf, num, h, size)
<1>1. num - 1 \in Slots /\ GMaxGap \in Nat
  BY SearchFacts DEF Slots
<1>2. cf[num - 1] \in Int /\ Total(cf) \in Int
  BY <1>1, TotalChanges DEF Configs
<1>3. CASE ch = <<cf, h>>
  <2>1. h.search => h.search = TRUE
    BY DEF HotTypes
  <2> QED BY <1>1, <1>2, <1>3 DEF SizedTo, SameHot
<1>4. ASSUME ~(h.real \/ ~h.search \/ cf[0] = 0), NEW gap \in 0 .. GMaxGap,
             ch = <<[cf EXCEPT ![num - 1] = @ - gap],
                    [h EXCEPT !.calc = size + gap, !.search = FALSE]>>
      PROVE  SizedTo(ch[1], ch[2], cf, num, h, size)
  <2> DEFINE x == cf[num - 1] - gap
             d == [cf EXCEPT ![num - 1] = x]
             y == size + gap
             k == [h EXCEPT !.calc = y, !.search = FALSE]
  <2>1. x \in Int /\ y \in Nat
    BY <1>1, <1>2
  <2>2. /\ d \in Configs /\ Total(d) = Total(cf) - cf[num - 1] + x
        /\ d[num - 1] = x /\ \A s \in Slots : s # num - 1 => d[s] = cf[s]
    BY <1>1, <2>1, TotalChanges
  <2>3. ch[1] = d /\ ch[2] = k
    BY <1>4
  <2> HIDE DEF y
  <2>4. k \in HotTypes /\ SameHot(k, h) /\ k.search = FALSE /\ k.calc = y
    BY <2>1, HotCalc, Zenon
  <2> HIDE DEF d, k
  <2>5. h.real \/ ~h.search \/ cf[0] = 0 \/ k.search => d = cf /\ k = h
    BY <1>4, <2>4, Zenon
  <2>6. SizedTo(d, k, cf, num, h, size)
    BY <1>1, <1>2, <2>1, <2>2, <2>4, <2>5 DEF x, y, SizedTo
  <2> QED BY <2>3, <2>6
<1>5. ch = <<cf, h>> \/ (~(h.real \/ ~h.search \/ cf[0] = 0) /\ \E gap \in 0 .. GMaxGap :
          ch = <<[cf EXCEPT ![num - 1] = @ - gap],
                 [h EXCEPT !.calc = size + gap, !.search = FALSE]>>)
  BY Zenon DEF Sized
<1> QED BY <1>3, <1>4, <1>5

(* A prediction that counts needs a first and a last group.                *)
LEMMA Predicted ==
  ASSUME NEW cf \in Configs, NEW num \in 1 .. GLevels + 2, NEW w \in Predictions(cf, num)
  PROVE  /\ w \in 0 .. NoWaf
         /\ w # 0 /\ w < NoWaf => cf[0] # 0 /\ cf[num - 1] > 0
<1>1. num - 1 \in Slots /\ cf[num - 1] \in Int
  BY SearchFacts DEF Slots, Configs
<1> QED BY <1>1 DEF Predictions, Wafs, High, NoWaf

LEMMA HotSearch ==
  ASSUME NEW h \in HotTypes, NEW b \in BOOLEAN
  PROVE  LET k == [h EXCEPT !.search = b]
         IN k \in HotTypes /\ SameHot(k, h) /\ k.calc = h.calc /\ k.search = b
BY DEF HotTypes, SameHot

LEMMA HotCalcOnly ==
  ASSUME NEW h \in HotTypes, NEW x \in Nat
  PROVE  LET k == [h EXCEPT !.calc = x]
         IN k \in HotTypes /\ SameHot(k, h) /\ k.calc = x
BY DEF HotTypes, SameHot

LEMMA HotDesig ==
  ASSUME NEW h \in HotTypes, NEW x \in Nat
  PROVE  LET k == [h EXCEPT !.desig = x]
         IN k \in HotTypes /\ k.real = h.real /\ k.extra = h.extra /\ k.desig = x
BY DEF HotTypes

LEMMA HotExtra ==
  ASSUME NEW h \in HotTypes, NEW x \in Nat
  PROVE  LET k == [h EXCEPT !.extra = x]
         IN k \in HotTypes /\ k.real = h.real /\ k.extra = x /\ k.desig = h.desig
BY DEF HotTypes

LEMMA HotDesigSearch ==
  ASSUME NEW h \in HotTypes, NEW x \in Nat, NEW b \in BOOLEAN
  PROVE  LET k == [h EXCEPT !.desig = x, !.search = b]
         IN k \in HotTypes /\ k.real = h.real /\ k.extra = h.extra /\ k.desig = x
BY DEF HotTypes

LEMMA HotExtraKnown ==
  ASSUME NEW h \in HotTypes, NEW x \in Nat, NEW b \in BOOLEAN
  PROVE  LET k == [h EXCEPT !.extra = x, !.known = b]
         IN k \in HotTypes /\ k.real = h.real /\ k.extra = x /\ k.desig = h.desig
BY DEF HotTypes

LEMMA HotForLevels ==
  ASSUME NEW h \in HotTypes
  PROVE  LET k == [h EXCEPT !.desig = h.extra, !.search = ~h.known]
         IN k \in HotTypes /\ k.real = h.real /\ k.extra = h.extra /\ k.desig = h.extra
<1>1. h.extra \in Nat /\ (~h.known) \in BOOLEAN
  BY DEF HotTypes
<1> QED BY <1>1, HotDesigSearch, Zenon

LEMMA BestIs ==
  ASSUME NEW h \in HotTypes
  PROVE  LET k == Best(h)
         IN k \in HotTypes /\ k.real = h.real /\ k.extra = h.calc /\ k.desig = h.desig
<1>1. h.calc \in Nat /\ (~h.search) \in BOOLEAN
  BY DEF HotTypes
<1> DEFINE x == h.calc
           b == ~h.search
           k == [h EXCEPT !.extra = x, !.known = b]
<1> HIDE DEF x, b
<1>2. k \in HotTypes /\ k.real = h.real /\ k.extra = x /\ k.desig = h.desig
  <2>1. x \in Nat /\ b \in BOOLEAN
    BY <1>1 DEF x, b
  <2> QED BY <2>1, HotExtraKnown
<1>3. k = Best(h)
  BY Zenon DEF Best, x, b
<1> HIDE DEF k
<1> QED BY <1>2, <1>3 DEF x

-----------------------------------------------------------------------------
(* Ranges of levels and groups.                                            *)
LEMMA LevelFacts ==
  /\ 0 \in Levels /\ 0 \in Slots /\ 1 \in Slots
  /\ \A k \in Levels : k \in Nat /\ k \in Slots /\ k + 1 \in Slots /\ k <= GLevels
  /\ \A k \in Levels : k # GLevels => k < GLevels /\ k + 1 \in Levels /\ k + 2 \in Slots
                                     /\ k + 2 \in 1 .. GLevels + 2
  /\ \A s \in Slots : s \in Nat
BY SearchFacts DEF Levels, Slots

(* ToLevels: the hot group's configuration, split.                         *)
LEMMA LevelsBegin ==
  ASSUME NEW opt \in [Levels -> Answers], NEW h \in HotTypes,
         LevelsSound(opt, h), NoneAbove(opt, 0), NEW k \in HotTypes,
         k.real = h.real, k.extra = h.extra, NEW d,
         d = [opt[0].c EXCEPT ![1] = opt[0].c[0], ![0] = 1],
         NEW m, m = <<opt[0].c[0] - GMargin, opt[0].c[0] - GMargin>>
  PROVE  /\ d \in Configs /\ m \in Int \X Int
         /\ LevelsSound(opt, k)
         /\ 0 < GLevels => SplitSound(opt, k, 0, 1, d, m)
<1> DEFINE c0 == opt[0].c
           one == [c0 EXCEPT ![1] = c0[0]]
<1>1. opt[0] \in Answers /\ Grouped(c0, 0 + 1) /\ Fits(c0, h.extra, h.real)
  BY LevelFacts DEF LevelsSound, HasAnswer
<1>2. c0 \in Configs
  BY <1>1 DEF Answers
<1>3. d = [one EXCEPT ![0] = 1] /\ m = <<c0[0] - GMargin, c0[0] - GMargin>>
  BY Zenon
<1> HIDE DEF c0
<1>4. c0[0] \in Int /\ c0[0] > 0 /\ c0[1] = 0 /\ \A s \in Slots : s > 0 => c0[s] = 0
  BY <1>1, <1>2, LevelFacts DEF Grouped, Configs
<1>5. /\ one \in Configs /\ Total(one) = Total(c0) + c0[0] /\ Total(c0) \in Int
      /\ one[1] = c0[0] /\ one[0] = c0[0] /\ \A s \in Slots : s > 1 => one[s] = 0
  BY <1>2, <1>4, LevelFacts, TotalChanges
<1> HIDE DEF one
<1>6. /\ d \in Configs /\ Total(d) = Total(c0) + 1 /\ d[0] = 1 /\ d[1] = c0[0]
      /\ \A s \in Slots : s > 1 => d[s] = 0
  <2>1. Total(d) = Total(one) - one[0] + 1 /\ d \in Configs
    BY SMTT(60), ZenonT(60), <1>3, <1>5, LevelFacts, TotalChanges
  <2>2. \A s \in Slots : s # 0 => d[s] = one[s]
    BY <1>3, <1>5, LevelFacts, TotalChanges
  <2>3. d[0] = 1
    BY <1>3, <1>5, LevelFacts, TotalChanges
  <2> QED BY <1>4, <1>5, <2>1, <2>2, <2>3, LevelFacts
<1>7. m[1] = c0[0] - GMargin /\ m[2] = c0[0] - GMargin /\ m \in Int \X Int
  BY <1>3, <1>4, SearchFacts
<1>8. LevelsSound(opt, k)
  BY Zenon DEF LevelsSound
<1>9. ASSUME 0 < GLevels PROVE SplitSound(opt, k, 0, 1, d, m)
  <2>1. Short(k) \in Nat
    BY SearchFacts DEF Short
  <2>2. NoneAbove(opt, 0 + 1) /\ ~HasAnswer(opt, 0 + 1) /\ HasAnswer(opt, 0)
    BY <1>9, SearchFacts DEF NoneAbove, HasAnswer, Levels
  <2>3. k.extra \in Nat /\ k.extra + Total(c0) <= GSegs /\ (k.real => k.extra + Total(c0) = GSegs)
    BY <1>1 DEF Fits, HotTypes
  <2>4. \A s \in Slots : (s <= 0 => d[s] > 0) /\ (s > 0 + 1 => d[s] = 0)
    BY <1>6, LevelFacts
  <2>5. /\ k.extra + Total(d) - d[0] + 1 - 1 <= GSegs
        /\ k.real => k.extra + Total(d) - d[0] + 1 - 1 = GSegs
    BY <1>5, <1>6, <2>3
  <2>6. d[0 + 1] >= m[1] + GMargin - Short(k) - (1 - 1)
    BY <1>4, <1>6, <1>7, <2>1, SearchFacts
  <2> HIDE DEF Short
  <2> QED BY <2>2, <2>4, <2>5, <2>6, Zenon DEF SplitSound
<1> QED BY <1>6, <1>7, <1>8, <1>9

(* One size of a level: the first of the two groups gets one segment more, *)
(* and the other has one to give.                                          *)
LEMMA SplitRoom ==
  ASSUME NEW opt \in [Levels -> Answers], NEW h \in HotTypes, NEW i \in Levels, i < GLevels,
         NEW j \in Nat \ {0}, NEW c \in Configs, NEW m \in Int \X Int,
         SplitSound(opt, h, i, j, c, m), j < m[1],
         NEW b, ChangedTwice(b, c, i, j, i + 1, c[i + 1] - 1)
  PROVE  /\ b \in Configs /\ b[i] = j /\ b[i + 1] # 0
         /\ HasAnswer(opt, i) =>
              /\ b[i + 1] > 0
              /\ b[i + 1] >= m[1] + GMargin - Short(h) - j
              /\ \A s \in Slots : (s <= i => b[s] > 0) /\ (s > i + 1 => b[s] = 0)
              /\ h.extra + Total(b) <= GSegs
              /\ h.real => h.extra + Total(b) = GSegs
         /\ ~HasAnswer(opt, i) => b[0] = 0 /\ b[i + 1] <= 0 /\ i # 0
<1>1. /\ i \in Slots /\ i + 1 \in Slots /\ i + 1 \in Levels
      /\ i \in Nat /\ i + 1 # i /\ j \in Int
  BY LevelFacts
<1>2. c[i + 1] \in Int /\ c[i] \in Int /\ Total(c) \in Int
  BY DEF ChangedTwice
<1>3. /\ b \in Configs /\ Total(b) = Total(c) - c[i] + j - 1 /\ b[i] = j
      /\ b[i + 1] = c[i + 1] - 1 /\ \A s \in Slots : s # i /\ s # i + 1 => b[s] = c[s]
  BY <1>1, <1>2 DEF ChangedTwice
<1>4. /\ Short(h) \in Nat /\ Short(h) <= GMaxGap /\ h.extra \in Nat
      /\ GMargin \in Nat /\ GMaxGap \in Nat /\ GMaxGap <= GMargin
      /\ m[1] \in Int /\ m[2] \in Int
  BY SearchFacts DEF Short, HotTypes
<1>5. HasAnswer(opt, i) => b[i + 1] >= m[1] + GMargin - Short(h) - j /\ b[i + 1] > 0
  BY <1>1, <1>2, <1>3, <1>4 DEF SplitSound
<1>6. ~HasAnswer(opt, i) => b[i + 1] < 0 /\ b[0] = 0 /\ i # 0
  <2>1. ~HasAnswer(opt, i) => c[i + 1] <= 0 /\ c[0] = 0 /\ i # 0
    BY DEF SplitSound, HasAnswer
  <2> QED BY <1>1, <1>2, <1>3, <2>1, LevelFacts
<1>7. HasAnswer(opt, i) => /\ h.extra + Total(b) <= GSegs
                           /\ h.real => h.extra + Total(b) = GSegs
  BY <1>2, <1>3, <1>4 DEF SplitSound
<1>8. ASSUME HasAnswer(opt, i), NEW s \in Slots
      PROVE  (s <= i => b[s] > 0) /\ (s > i + 1 => b[s] = 0)
  <2>1. (s <= i => c[s] > 0) /\ (s > i + 1 => c[s] = 0) /\ s \in Nat
    BY <1>8, LevelFacts DEF SplitSound
  <2> QED BY <1>1, <1>3, <2>1
<1>9. b[i + 1] # 0
  BY <1>5, <1>6
<1>10. ~HasAnswer(opt, i) => b[i + 1] <= 0
  BY <1>2, <1>3, <1>6
<1>11. ASSUME HasAnswer(opt, i)
       PROVE  /\ b[i + 1] > 0
              /\ b[i + 1] >= m[1] + GMargin - Short(h) - j
              /\ \A s \in Slots : (s <= i => b[s] > 0) /\ (s > i + 1 => b[s] = 0)
              /\ h.extra + Total(b) <= GSegs
              /\ h.real => h.extra + Total(b) = GSegs
  <2>1. b[i + 1] > 0 /\ b[i + 1] >= m[1] + GMargin - Short(h) - j
    BY <1>5, <1>11
  <2>2. /\ h.extra + Total(b) <= GSegs
        /\ h.real => h.extra + Total(b) = GSegs
    BY <1>7, <1>11
  <2>3. \A s \in Slots : (s <= i => b[s] > 0) /\ (s > i + 1 => b[s] = 0)
    BY <1>8, <1>11
  <2> QED BY <2>1, <2>2, <2>3
<1> QED BY Zenon, <1>3, <1>6, <1>9, <1>10, <1>11

(* What two_valid_ratio_predictor and two_WAF_predictor answer for d.      *)
Answering(w, d, n) ==
  w \in 0 .. NoWaf /\ (w # 0 /\ w < NoWaf => d[0] # 0 /\ d[n - 1] > 0)

(* The search at level i, and what a size of a level comes to.             *)
SplitAt(opt, h, i, j, c, m) ==
  /\ opt \in [Levels -> Answers] /\ h \in HotTypes /\ i \in Levels /\ i < GLevels
  /\ j \in Nat \ {0} /\ c \in Configs /\ m \in Int \X Int
  /\ LevelsSound(opt, h) /\ h.desig = h.extra /\ SplitSound(opt, h, i, j, c, m)

Made(opt, k, i, j, d, m) ==
  /\ HasAnswer(opt, i) => /\ d[i + 1] >= m[1] + GMargin - Short(k) - j
                          /\ Fits(d, k.extra, k.real)
  /\ ~HasAnswer(opt, i) => d[0] = 0

(* TrySplit, with the configuration d and the hot group k that the         *)
(* predictor made of b and h.                                              *)
LEMMA SplitStep ==
  ASSUME NEW opt, NEW h, NEW i, NEW j \in Nat \ {0}, NEW c, NEW m,
         SplitAt(opt, h, i, j, c, m), j < m[1],
         NEW b, ChangedTwice(b, c, i, j, i + 1, c[i + 1] - 1),
         NEW d, NEW k, SizedTo(d, k, b, i + 2, h, h.desig)
  PROVE  SplitAt(opt, k, i, j + 1, d, m) /\ Made(opt, k, i, j, d, m)
<1> SUFFICES ASSUME opt \in [Levels -> Answers], h \in HotTypes, i \in Levels, i < GLevels,
                    c \in Configs, m \in Int \X Int, LevelsSound(opt, h),
                    h.desig = h.extra, SplitSound(opt, h, i, j, c, m)
             PROVE  SplitAt(opt, k, i, j + 1, d, m) /\ Made(opt, k, i, j, d, m)
  BY Zenon DEF SplitAt
<1>1. /\ i \in Slots /\ i + 1 \in Slots /\ i + 1 \in Levels
      /\ i \in Nat /\ i + 1 # i /\ j \in Int /\ (i + 2) - 1 = i + 1 /\ 0 \in Slots
  BY LevelFacts
<1>2. /\ b \in Configs /\ b[i] = j /\ b[i + 1] # 0
      /\ HasAnswer(opt, i) =>
           /\ b[i + 1] > 0
           /\ b[i + 1] >= m[1] + GMargin - Short(h) - j
           /\ \A s \in Slots : (s <= i => b[s] > 0) /\ (s > i + 1 => b[s] = 0)
           /\ h.extra + Total(b) <= GSegs
           /\ h.real => h.extra + Total(b) = GSegs
      /\ ~HasAnswer(opt, i) => b[0] = 0 /\ b[i + 1] <= 0 /\ i # 0
  BY SplitRoom
<1>3. /\ d \in Configs /\ k \in HotTypes /\ Total(d) \in Int /\ Total(b) \in Int
      /\ k.real = h.real /\ k.desig = h.desig /\ k.extra = h.extra
      /\ h.real \/ ~h.search \/ b[0] = 0 \/ k.search => d = b /\ k = h
      /\ d[i + 1] <= b[i + 1] /\ b[i + 1] - d[i + 1] <= GMaxGap
      /\ Total(d) - d[i + 1] = Total(b) - b[i + 1]
      /\ \A s \in Slots : s # i + 1 => d[s] = b[s]
  <2> DEFINE n == i + 2
  <2>1. SizedTo(d, k, b, n, h, h.desig) /\ n - 1 = i + 1
    BY <1>1
  <2> HIDE DEF n
  <2> QED BY <2>1, Zenon DEF SizedTo, SameHot
<1>4. b[i + 1] \in Int /\ d[i + 1] \in Int /\ d[i] = j /\ h.extra \in Nat
  BY <1>1, <1>2, <1>3 DEF Configs, HotTypes
<1>5. LevelsSound(opt, k)
  BY <1>3, Zenon DEF LevelsSound
<1>6. Short(h) \in Nat /\ Short(k) \in Nat /\ m[1] \in Int /\ m[2] \in Int /\ GMargin \in Nat
  BY SearchFacts DEF Short
<1>7. Short(h) + (b[i + 1] - d[i + 1]) <= Short(k) /\ Short(h) <= Short(k)
  <2>1. CASE h.real \/ ~h.search \/ b[0] = 0 \/ k.search
    BY <1>3, <1>4, <1>6, <2>1
  <2>2. CASE ~(h.real \/ ~h.search \/ b[0] = 0 \/ k.search)
    BY <1>3, <1>4, <2>2, SearchFacts DEF Short
  <2> QED BY <2>1, <2>2
<1>8. /\ HasAnswer(opt, i) => d[i + 1] >= m[1] + GMargin - Short(k) - j
      /\ ~HasAnswer(opt, i) => d[0] = 0 /\ d[i + 1] <= 0
  <2> HIDE DEF Short
  <2> QED BY <1>1, <1>2, <1>3, <1>4, <1>6, <1>7, SearchFacts
<1>9. HasAnswer(opt, i) => Fits(d, k.extra, k.real)
  <2> SUFFICES ASSUME HasAnswer(opt, i) PROVE Fits(d, k.extra, k.real)
    OBVIOUS
  <2>1. h.extra + Total(b) <= GSegs /\ (h.real => h.extra + Total(b) = GSegs)
    BY <1>2
  <2>2. h.real => d = b
    BY <1>3
  <2>3. Total(d) <= Total(b)
    BY <1>3, <1>4
  <2>4. h.extra + Total(d) <= GSegs
    BY <1>3, <1>4, <2>1, <2>3, SearchFacts
  <2>5. h.real => h.extra + Total(d) = GSegs
    BY <2>1, <2>2
  <2> QED BY <1>3, <2>4, <2>5, Zenon DEF Fits
<1>10. SplitSound(opt, k, i, j + 1, d, m)
  <2>1. NoneAbove(opt, i + 1)
    BY DEF SplitSound
  <2>2. ASSUME HasAnswer(opt, i), NEW s \in Slots
        PROVE  (s <= i => d[s] > 0) /\ (s > i + 1 => d[s] = 0)
    <3>1. s \in Nat /\ (s # i + 1 => d[s] = b[s])
      BY <1>3, LevelFacts
    <3> QED BY <1>1, <1>2, <2>2, <3>1
  <2>3. ASSUME HasAnswer(opt, i)
        PROVE  /\ k.extra + Total(d) - d[i] + (j + 1) - 1 <= GSegs
               /\ k.real => k.extra + Total(d) - d[i] + (j + 1) - 1 = GSegs
               /\ d[i + 1] >= m[1] + GMargin - Short(k) - ((j + 1) - 1)
    BY <1>3, <1>4, <1>8, <1>9, <2>3 DEF Fits
  <2>4. HasAnswer(opt, i + 1) => opt[i + 1].c[i + 1] >= m[2] + GMargin - Short(k)
    <3> DEFINE o == opt[i + 1].c
    <3>1. o[i + 1] \in Int
      BY <1>1 DEF Answers, Configs
    <3>2. HasAnswer(opt, i + 1) => o[i + 1] >= m[2] + GMargin - Short(h)
      BY DEF SplitSound
    <3> HIDE DEF o
    <3>3. HasAnswer(opt, i + 1) => o[i + 1] >= m[2] + GMargin - Short(k)
      BY <1>6, <1>7, <3>1, <3>2, SearchFacts
    <3> QED BY <3>3 DEF o
  <2> QED BY <1>8, <2>1, <2>2, <2>3, <2>4, Zenon DEF SplitSound
<1>11. j + 1 \in Nat \ {0} /\ k.desig = k.extra
  BY <1>3
<1> QED BY <1>3, <1>5, <1>8, <1>9, <1>10, <1>11, Zenon DEF SplitAt, Made

(* A size of a level that is better than those before.                     *)
LEMMA SplitRecorded ==
  ASSUME NEW opt, NEW k, NEW i, NEW j \in Nat \ {0}, NEW d, NEW m,
         SplitAt(opt, k, i, j + 1, d, m), Made(opt, k, i, j, d, m), HasAnswer(opt, i),
         d[i + 1] > 0, NEW w \in 1 .. NoWaf, w < NoWaf,
         NEW next, next = [opt EXCEPT ![i + 1] = [c |-> d, waf |-> w]],
         NEW n, n = [m EXCEPT ![2] = m[1] - j]
  PROVE  SplitAt(next, k, i, j + 1, d, n)
<1> SUFFICES ASSUME opt \in [Levels -> Answers], k \in HotTypes, i \in Levels, i < GLevels,
                    d \in Configs, m \in Int \X Int, LevelsSound(opt, k),
                    k.desig = k.extra, SplitSound(opt, k, i, j + 1, d, m),
                    j + 1 \in Nat \ {0}, d[i + 1] >= m[1] + GMargin - Short(k) - j,
                    Fits(d, k.extra, k.real)
             PROVE  SplitAt(next, k, i, j + 1, d, n)
  BY Zenon DEF SplitAt, Made
<1>1. /\ i + 1 \in Levels /\ i + 1 \in Nat /\ i \in Nat /\ i + 1 # i /\ i + 1 # 0
      /\ i + 1 \in Slots
  BY LevelFacts
<1>2. [c |-> d, waf |-> w] \in Answers
  BY DEF Answers
<1>3. /\ next \in [Levels -> Answers] /\ next[i + 1].c = d /\ next[i + 1].waf = w
      /\ \A l \in Levels : l # i + 1 => next[l] = opt[l]
  BY <1>1, <1>2
<1>4. m[1] \in Int /\ m[2] \in Int /\ m[1] - j \in Int
  OBVIOUS
<1>5. n \in Int \X Int /\ n[1] = m[1] /\ n[2] = m[1] - j
  BY <1>4
<1>6. \A l \in Levels : l # i + 1 => (HasAnswer(next, l) <=> HasAnswer(opt, l))
  BY <1>3 DEF HasAnswer
<1>7. HasAnswer(next, i + 1)
  BY <1>3 DEF HasAnswer, NoWaf
<1>8. Grouped(d, (i + 1) + 1)
  <2> SUFFICES ASSUME NEW s \in Slots PROVE IF s < (i + 1) + 1 THEN d[s] > 0 ELSE d[s] = 0
    BY DEF Grouped
  <2>1. (s <= i => d[s] > 0) /\ (s > i + 1 => d[s] = 0)
    BY DEF SplitSound
  <2> QED BY <2>1, <1>1, LevelFacts
<1>9. LevelsSound(next, k)
  <2> SUFFICES ASSUME NEW l \in Levels
               PROVE  IF HasAnswer(next, l)
                      THEN Grouped(next[l].c, l + 1) /\ Fits(next[l].c, k.extra, k.real)
                      ELSE next[l].c = Empty
    BY Zenon DEF LevelsSound
  <2>1. CASE l = i + 1
    BY <1>3, <1>7, <1>8, <2>1
  <2>2. CASE l # i + 1
    BY <1>3, <1>6, <2>2, Zenon DEF LevelsSound
  <2> QED BY <2>1, <2>2
<1>10. SplitSound(next, k, i, j + 1, d, n)
  <2>1. NoneAbove(next, i + 1)
    <3>1. NoneAbove(opt, i + 1)
      BY DEF SplitSound
    <3> QED BY <1>1, <1>3, <3>1, LevelFacts DEF NoneAbove
  <2>2. HasAnswer(next, i) <=> HasAnswer(opt, i)
    BY <1>1, <1>6
  <2>3. /\ \A s \in Slots : (s <= i => d[s] > 0) /\ (s > i + 1 => d[s] = 0)
        /\ k.extra + Total(d) - d[i] + (j + 1) - 1 <= GSegs
        /\ k.real => k.extra + Total(d) - d[i] + (j + 1) - 1 = GSegs
        /\ d[i + 1] >= n[1] + GMargin - Short(k) - ((j + 1) - 1)
    BY <1>5, Zenon DEF SplitSound
  <2>4. next[i + 1].c[i + 1] >= n[2] + GMargin - Short(k)
    <3>1. Short(k) \in Int /\ GMargin \in Int /\ d[i + 1] \in Int
      BY <1>1, SearchFacts DEF Short, Configs
    <3>2. d[i + 1] >= n[2] + GMargin - Short(k)
      BY <1>4, <1>5, <3>1
    <3> QED BY <1>3, <3>2
  <2> QED BY <2>1, <2>2, <2>3, <2>4, Zenon DEF SplitSound
<1> QED BY <1>3, <1>5, <1>9, <1>10, Zenon DEF SplitAt

(* NextLevel: the best of the level, with its last group split.            *)
LEMMA LevelAbove ==
  ASSUME NEW opt, NEW h, NEW i, NEW j, NEW c, NEW m, SplitAt(opt, h, i, j, c, m),
         i + 1 < GLevels, NEW o, o = opt[i + 1].c,
         NEW d, o \in Configs => ChangedTwice(d, o, i + 2, o[i + 1], i + 1, 1),
         NEW n, n = [m EXCEPT ![1] = m[2]]
  PROVE  SplitAt(opt, h, i + 1, 1, d, n)
<1> SUFFICES ASSUME opt \in [Levels -> Answers], h \in HotTypes, i \in Levels, i < GLevels,
                    m \in Int \X Int, LevelsSound(opt, h), h.desig = h.extra,
                    SplitSound(opt, h, i, j, c, m)
             PROVE  SplitAt(opt, h, i + 1, 1, d, n)
  BY Zenon DEF SplitAt
<1>1. /\ i \in Nat /\ i + 1 \in Levels /\ i + 1 \in Slots /\ i + 2 \in Slots /\ i + 2 \in Levels
      /\ 1 \in Nat \ {0} /\ 0 \in Slots /\ (i + 1) + 1 = i + 2 /\ i + 2 # i + 1 /\ i + 2 # 0 /\ i + 1 # 0
  BY LevelFacts
<1>2. o \in Configs
  BY <1>1 DEF Answers
<1>3. /\ d \in Configs /\ Total(o) \in Int /\ o[i + 1] \in Int /\ o[i + 2] \in Int
      /\ Total(d) = Total(o) - o[i + 2] - o[i + 1] + o[i + 1] + 1
      /\ d[i + 2] = o[i + 1] /\ d[i + 1] = 1
      /\ \A s \in Slots : s # i + 2 /\ s # i + 1 => d[s] = o[s]
  BY <1>2 DEF ChangedTwice
<1>4. m[1] \in Int /\ m[2] \in Int
  OBVIOUS
<1>5. n \in Int \X Int /\ n[1] = m[2] /\ n[2] = m[2]
  BY <1>4
<1>6. NoneAbove(opt, i + 1)
  BY DEF SplitSound
<1>7. NoneAbove(opt, i + 2) /\ ~HasAnswer(opt, i + 2)
  BY <1>1, <1>6, LevelFacts DEF NoneAbove, HasAnswer
<1>8. ASSUME HasAnswer(opt, i + 1)
      PROVE  /\ \A s \in Slots : (s <= i + 1 => d[s] > 0) /\ (s > i + 2 => d[s] = 0)
             /\ h.extra + Total(d) - d[i + 1] + 1 - 1 <= GSegs
             /\ h.real => h.extra + Total(d) - d[i + 1] + 1 - 1 = GSegs
             /\ d[i + 2] >= n[1] + GMargin - Short(h) - (1 - 1)
  <2>1. Grouped(o, i + 2) /\ Fits(o, h.extra, h.real)
    BY <1>1, <1>8 DEF LevelsSound
  <2>2. o[i + 2] = 0 /\ h.extra \in Nat
    BY <1>1, <2>1 DEF Grouped, HotTypes
  <2>3. Total(d) = Total(o) + 1
    BY <1>3, <2>2
  <2>4. h.extra + Total(o) <= GSegs /\ (h.real => h.extra + Total(o) = GSegs)
    BY <2>1 DEF Fits
  <2>5. o[i + 1] >= m[2] + GMargin - Short(h)
    BY <1>8 DEF SplitSound
  <2>6. \A s \in Slots : (s <= i + 1 => d[s] > 0) /\ (s > i + 2 => d[s] = 0)
    BY <1>1, <1>3, <2>1, LevelFacts DEF Grouped
  <2>7. d[i + 2] >= n[1] + GMargin - Short(h) - (1 - 1)
    <3>1. Short(h) \in Int /\ GMargin \in Int
      BY SearchFacts DEF Short
    <3> HIDE DEF Short
    <3> QED BY <1>3, <1>4, <1>5, <2>5, <3>1
  <2>8. h.extra + Total(d) - d[i + 1] + 1 - 1 = h.extra + Total(o)
    BY <1>3, <2>2, <2>3
  <2> QED BY <2>4, <2>6, <2>7, <2>8
<1>9. ~HasAnswer(opt, i + 1) => d[0] = 0 /\ d[i + 2] <= 0
  <2>1. ~HasAnswer(opt, i + 1) => o = Empty
    BY <1>1 DEF LevelsSound
  <2> QED BY <1>1, <1>3, <2>1 DEF Empty
<1>10. SplitSound(opt, h, i + 1, 1, d, n)
  <2> DEFINE a == i + 1
             e == i + 2
  <2>1. a + 1 = e
    BY <1>1
  <2> HIDE DEF a, e, Short
  <2> SUFFICES SplitSound(opt, h, a, 1, d, n)
    BY DEF a
  <2>2. /\ NoneAbove(opt, e) /\ ~HasAnswer(opt, e)
        /\ ~HasAnswer(opt, a) => d[0] = 0 /\ d[e] <= 0
    BY <1>7, <1>9 DEF a, e
  <2>3. HasAnswer(opt, a) =>
          /\ \A s \in Slots : (s <= a => d[s] > 0) /\ (s > e => d[s] = 0)
          /\ h.extra + Total(d) - d[a] + 1 - 1 <= GSegs
          /\ h.real => h.extra + Total(d) - d[a] + 1 - 1 = GSegs
          /\ d[e] >= n[1] + GMargin - Short(h) - (1 - 1)
    BY <1>8, Zenon DEF a, e
  <2> QED BY <2>1, <2>2, <2>3, Zenon DEF SplitSound
<1> QED BY <1>1, <1>3, <1>5, <1>10, Zenon DEF SplitAt

(* PickLevel chooses a level with an answer.                               *)
LEMMA PickedSound ==
  ASSUME NEW opt \in [Levels -> Answers], NEW h \in HotTypes, LevelsSound(opt, h),
         h.desig = h.extra,
         NEW low, low = Min({opt[k].waf : k \in 0 .. GLevels}),
         NEW k, k = Min({l \in 0 .. GLevels : opt[l].waf = low}), low < High,
         NEW f, f = [c |-> opt[k].c, num |-> k + 1, waf |-> low]
  PROVE  f \in Finals /\ FinalSound(f, h)
<1> DEFINE S == {opt[l].waf : l \in 0 .. GLevels}
           T == {l \in 0 .. GLevels : opt[l].waf = low}
<1>1. \A l \in Levels : opt[l] \in Answers /\ opt[l].waf \in 1 .. NoWaf /\ opt[l].c \in Configs
  BY DEF Answers
<1>2. S \in SUBSET Nat /\ S # {}
  BY <1>1, LevelFacts DEF Levels, NoWaf
<1>3. \E x \in S : \A y \in S : x <= y
  <2> HIDE DEF S
  <2> QED BY <1>2, LeastElement
<1>4. low \in S
  BY <1>3 DEF Min
<1>5. T \in SUBSET Nat /\ T # {}
  BY <1>4, LevelFacts DEF Levels
<1>6. \E x \in T : \A y \in T : x <= y
  <2> HIDE DEF T
  <2> QED BY <1>5, LeastElement
<1>7. k \in T
  BY <1>6 DEF Min
<1>8. k \in Levels /\ opt[k].waf = low /\ low \in 1 .. High /\ low # NoWaf
  BY <1>1, <1>7 DEF Levels, High, NoWaf
<1>9. k + 1 \in 1 .. GLevels + 2
  BY <1>8, LevelFacts, SearchFacts
<1>10. f \in Finals
  BY <1>1, <1>8, <1>9 DEF Finals
<1>11. Grouped(opt[k].c, k + 1) /\ Fits(opt[k].c, h.extra, h.real)
  BY <1>8 DEF LevelsSound, HasAnswer
<1>12. FinalSound(f, h)
  <2>1. ~h.real => Fits(opt[k].c, h.desig, FALSE)
    BY <1>11 DEF Fits
  <2> QED BY <1>11, <2>1 DEF FinalSound
<1> QED BY <1>10, <1>12

(* BeginRound: the last group takes back the hot one.                      *)
LEMMA RehotBegins ==
  ASSUME NEW f \in Finals, NEW h \in HotTypes, FinalSound(f, h), ~h.real,
         NEW d, d = [f.c EXCEPT ![f.num - 1] = @ + h.desig]
  PROVE  d \in Configs /\ RehotSound(f, h, d)
<1> DEFINE c == f.c
           n == f.num - 1
           x == c[n] + h.desig
<1>1. c \in Configs /\ f.num \in 1 .. GLevels + 2 /\ h.desig \in Nat
  BY DEF Finals, HotTypes
<1>2. n \in Slots /\ n \in Nat /\ f.num = n + 1
  BY <1>1, SearchFacts DEF Slots
<1>3. c[n] \in Int
  BY <1>1, <1>2 DEF Configs
<1>4. d = [c EXCEPT ![n] = x] /\ x \in Int
  BY <1>1, <1>3
<1>5. Grouped(c, f.num) /\ h.desig + Total(c) <= GSegs
  BY DEF FinalSound, Fits
<1> HIDE DEF c, n, x
<1>6. /\ d \in Configs /\ Total(c) \in Int /\ Total(d) = Total(c) - c[n] + x
      /\ \A s \in Slots : s # n => d[s] = c[s]
  BY <1>1, <1>2, <1>4, TotalChanges
<1>7. Total(d) <= GSegs
  BY <1>1, <1>3, <1>5, <1>6, SearchFacts DEF x
<1>8. ASSUME NEW s \in Slots
      PROVE  (s < n => d[s] > 0) /\ (s >= f.num => d[s] = 0)
  <2>1. s \in Nat /\ (IF s < f.num THEN c[s] > 0 ELSE c[s] = 0)
    BY <1>5, LevelFacts DEF Grouped
  <2>2. s # n => d[s] = c[s]
    BY <1>6
  <2>3. n \in Nat /\ f.num = n + 1
    BY <1>2
  <2> HIDE DEF c
  <2> QED BY <2>1, <2>2, <2>3
<1>9. f.num - 1 = n
  BY DEF n
<1> QED BY <1>6, <1>7, <1>8, <1>9 DEF RehotSound

(* A configuration that is better in a round.                              *)
LEMMA FinalIs ==
  ASSUME NEW f \in Finals, NEW d \in Configs, NEW w \in 1 .. High
  PROVE  LET g == [f EXCEPT !.c = d, !.waf = w]
         IN g \in Finals /\ g.c = d /\ g.num = f.num
BY DEF Finals

(* A group gives up j segments.                                            *)
Less(b, c, n, j) ==
  /\ b \in Configs /\ Total(c) \in Int /\ c[n] \in Int
  /\ Total(b) = Total(c) - j /\ b[n] = c[n] - j
  /\ \A s \in Slots : s # n => b[s] = c[s]

LEMMA TakesOff ==
  ASSUME NEW c \in Configs, NEW n \in Slots, NEW j \in Int
  PROVE  Less([c EXCEPT ![n] = @ - j], c, n, j)
<1> DEFINE x == c[n] - j
           new == [c EXCEPT ![n] = x]
<1>1. c[n] \in Int /\ x \in Int
  BY DEF Configs
<1>2. /\ new \in Configs /\ Total(c) \in Int /\ Total(new) = Total(c) - c[n] + x
      /\ new[n] = x /\ \A s \in Slots : s # n => new[s] = c[s]
  BY <1>1, TotalChanges
<1> HIDE DEF new
<1>3. Total(new) = Total(c) - j
  BY <1>1, <1>2
<1>4. Less(new, c, n, j)
  BY <1>1, <1>2, <1>3, Zenon DEF Less
<1> QED BY <1>4, Zenon DEF new

(* TryHot: the hot group gets j segments of the last one, or as many as    *)
(* the predictor reached; b is what is asked for and d, k what it made.    *)
LEMMA RehotTried ==
  ASSUME NEW f \in Finals, NEW h \in HotTypes, NEW c \in Configs, RehotSound(f, h, c),
         NEW j \in Nat \ {0}, h.calc < j,
         NEW a \in HotTypes, SameHot(a, h), a.calc = h.calc, a.search,
         NEW n, n = f.num - 1, NEW b, Less(b, c, n, j),
         NEW d, NEW k, SizedTo(d, k, b, f.num, a, j), d[n] > 0,
         NEW g, g.c = d, g.num = f.num,
         NEW z, z.real = k.real, z.extra = k.calc, z.desig = j
  PROVE  FinalSound(g, z)
<1>1. f.num \in 1 .. GLevels + 2 /\ j \in Int
  BY DEF Finals
<1>2. n \in Slots /\ n \in Nat /\ f.num = n + 1
  BY <1>1, SearchFacts DEF Slots
<1>3. /\ b \in Configs /\ Total(c) \in Int /\ Total(b) = Total(c) - j
      /\ \A s \in Slots : s # n => b[s] = c[s]
  BY DEF Less
<1>4. /\ d \in Configs /\ k \in HotTypes /\ Total(d) \in Int
      /\ k.real = h.real /\ (k.search => d = b /\ k = a)
      /\ ~k.search => k.calc = j + b[n] - d[n]
      /\ d[n] <= b[n] /\ Total(d) - d[n] = Total(b) - b[n]
      /\ \A s \in Slots : s # n => d[s] = b[s]
  BY Zenon DEF SizedTo, SameHot
<1>5. d[n] \in Int /\ b[n] \in Int /\ h.calc \in Nat
  BY <1>2, <1>3, <1>4 DEF Configs, HotTypes
<1>6. /\ Total(c) <= GSegs /\ ~h.real
      /\ \A s \in Slots : (s < n => c[s] > 0) /\ (s >= f.num => c[s] = 0)
  BY DEF RehotSound
<1>7. Grouped(d, f.num)
  <2> SUFFICES ASSUME NEW s \in Slots PROVE IF s < f.num THEN d[s] > 0 ELSE d[s] = 0
    BY DEF Grouped
  <2>1. (s < n => c[s] > 0) /\ (s >= f.num => c[s] = 0) /\ (s # n => d[s] = c[s]) /\ s \in Nat
    BY <1>3, <1>4, <1>6, LevelFacts
  <2> QED BY <1>2, <2>1
<1>8. k.calc + Total(d) <= GSegs
  <2>1. CASE k.search
    <3>1. d = b /\ k.calc = h.calc
      BY <1>4, <2>1
    <3> QED BY <1>1, <1>3, <1>5, <1>6, <3>1, SearchFacts
  <2>2. CASE ~k.search
    <3>1. k.calc = j + b[n] - d[n]
      BY <1>4, <2>2
    <3> QED BY <1>1, <1>3, <1>4, <1>5, <1>6, <3>1, SearchFacts
  <2> QED BY <2>1, <2>2
<1>9. j + Total(d) <= GSegs
  BY <1>1, <1>3, <1>4, <1>5, <1>6, SearchFacts
<1>10. ~z.real
  BY <1>4, <1>6
<1>11. Fits(d, z.extra, z.real) /\ Fits(d, z.desig, FALSE)
  BY <1>8, <1>9, <1>10 DEF Fits
<1> QED BY <1>7, <1>11, Zenon DEF FinalSound

(* The group resized is never the last one of the configuration tried.     *)
LEMMA NumFacts ==
  ASSUME NEW f \in Finals, NEW i \in Levels, i < GLevels, i < f.num,
         NEW n, n = NumOf(f, i)
  PROVE  /\ n \in 1 .. GLevels + 2 /\ n \in Nat /\ n - 1 \in Slots /\ n - 1 \in Nat
         /\ i < n - 1 /\ f.num \in Nat
         /\ n = f.num \/ (n = f.num + 1 /\ i = f.num - 1 /\ f.num \in Slots)
<1>1. f.num \in 1 .. GLevels + 2 /\ f.num \in Nat /\ i \in Nat /\ GLevels \in Nat
  BY LevelFacts, SearchFacts DEF Finals
<1>2. CASE i < f.num - 1
  <2>1. n = f.num
    BY <1>2 DEF NumOf
  <2>2. n - 1 \in Slots
    BY <1>1, <2>1 DEF Slots
  <2> QED BY <1>1, <1>2, <2>1, <2>2
<1>3. CASE ~(i < f.num - 1)
  <2>1. n = f.num + 1 /\ i = f.num - 1
    BY <1>1, <1>3 DEF NumOf
  <2>2. f.num \in Slots /\ n - 1 = f.num
    BY <1>1, <2>1 DEF Slots
  <2>3. n \in 1 .. GLevels + 2 /\ i < n - 1
    BY <1>1, <2>1
  <2> QED BY <1>1, <2>1, <2>2, <2>3
<1> QED BY <1>2, <1>3

(* TakeGroup: the group and the last one together keep their segments.     *)
LEMMA ResizeBegins ==
  ASSUME NEW f \in Finals, NEW h \in HotTypes, FinalSound(f, h), NEW i \in Levels, i < GLevels,
         i < f.num, NEW c, c = f.c, NEW n, n = NumOf(f, i),
         NEW last, last = IF i < f.num - 1 THEN c[n - 1] + c[i] ELSE c[i],
         NEW d, last \in Int => ChangedTwice(d, c, n - 1, last, i, 0)
  PROVE  last \in Int /\ d \in Configs /\ ResizeSound(f, h, i, 1, d, FALSE)
<1>1. /\ n \in Nat /\ n - 1 \in Slots /\ n - 1 \in Nat /\ i < n - 1 /\ f.num \in Nat
      /\ n = f.num \/ (n = f.num + 1 /\ i = f.num - 1 /\ f.num \in Slots)
      /\ i \in Slots /\ i \in Nat
  BY NumFacts, LevelFacts
<1>2. c \in Configs /\ Grouped(c, f.num)
  BY DEF Finals, FinalSound
<1>3. c[n - 1] \in Int /\ c[i] \in Int
  BY <1>1, <1>2 DEF Configs
<1>4. last \in Int
  BY <1>3
<1>5. /\ d \in Configs /\ Total(c) \in Int
      /\ Total(d) = Total(c) - c[n - 1] - c[i] + last + 0
      /\ d[i] = 0 /\ \A s \in Slots : s # n - 1 /\ s # i => d[s] = c[s]
  BY <1>4 DEF ChangedTwice
<1>6. Total(d) = Total(c)
  <2>1. CASE i < f.num - 1
    BY <1>3, <1>5, <2>1
  <2>2. CASE ~(i < f.num - 1)
    <3>1. n = f.num + 1 /\ f.num \in Slots
      BY <1>1, <2>2
    <3>2. c[f.num] = 0
      BY <1>1, <1>2, <3>1 DEF Grouped
    <3>3. c[n - 1] = 0 /\ last = c[i]
      BY <1>1, <2>2, <3>1, <3>2
    <3> QED BY <1>3, <1>5, <3>3
  <2> QED BY <2>1, <2>2
<1>7. Fits(d, h.extra, h.real) /\ (~h.real => Fits(d, h.desig, FALSE))
  BY <1>6 DEF FinalSound, Fits
<1>8. ASSUME NEW s \in Slots \ {i, n - 1} PROVE IF s < n THEN d[s] > 0 ELSE d[s] = 0
  <2>1. d[s] = c[s] /\ (IF s < f.num THEN c[s] > 0 ELSE c[s] = 0) /\ s \in Nat /\ s # i /\ s # n - 1
    BY <1>2, <1>5, LevelFacts DEF Grouped
  <2>2. s < n <=> s < f.num
    BY <1>1, <2>1
  <2> QED BY <2>1, <2>2
<1>9. d[i] = 1 - 1
  BY <1>5
<1>10. ResizeSound(f, h, i, 1, d, FALSE)
  BY <1>7, <1>8, <1>9, Zenon DEF ResizeSound
<1> QED BY <1>4, <1>5, <1>10

(* TryGroup, with the configuration d and the hot group k that the         *)
(* predictor made of b and h.                                              *)
LEMMA ResizeStep ==
  ASSUME NEW f \in Finals, NEW h \in HotTypes, FinalSound(f, h), NEW i \in Levels,
         NEW j \in Nat \ {0}, NEW c \in Configs, NEW add, ResizeSound(f, h, i, j, c, add),
         NEW n, n = NumOf(f, i),
         NEW b, ChangedTwice(b, c, i, j, n - 1, c[n - 1] - 1),
         NEW d, NEW k, SizedTo(d, k, b, n, h, h.desig)
  PROVE  /\ d \in Configs /\ k \in HotTypes
         /\ FinalSound(f, k) /\ ResizeSound(f, k, i, j + 1, d, add)
<1>1. i < GLevels /\ i < f.num /\ (add => i < f.num - 1)
  BY Zenon DEF ResizeSound
<1>2. /\ n \in Nat /\ n - 1 \in Slots /\ n - 1 \in Nat /\ i < n - 1 /\ i \in Slots /\ i \in Nat
      /\ j \in Int /\ n - 1 # i
  BY <1>1, NumFacts, LevelFacts
<1>3. /\ c[i] = j - 1 /\ \A s \in Slots \ {i, n - 1} : IF s < n THEN c[s] > 0 ELSE c[s] = 0
      /\ Fits(c, h.extra, h.real) /\ (~h.real => Fits(c, h.desig, FALSE))
  BY Zenon DEF ResizeSound
<1>4. /\ b \in Configs /\ Total(c) \in Int /\ c[i] \in Int /\ c[n - 1] \in Int
      /\ Total(b) = Total(c) - c[i] - c[n - 1] + j + (c[n - 1] - 1)
      /\ b[i] = j /\ \A s \in Slots : s # i /\ s # n - 1 => b[s] = c[s]
  BY Zenon DEF ChangedTwice
<1>5. Total(b) = Total(c)
  BY <1>2, <1>3, <1>4
<1>6. /\ d \in Configs /\ k \in HotTypes /\ Total(d) \in Int
      /\ SameHot(k, h) /\ (h.real => d = b)
      /\ d[n - 1] <= b[n - 1] /\ Total(d) - d[n - 1] = Total(b) - b[n - 1]
      /\ \A s \in Slots : s # n - 1 => d[s] = b[s]
  BY Zenon DEF SizedTo
<1>7. k.real = h.real /\ k.desig = h.desig /\ k.extra = h.extra
  BY <1>6 DEF SameHot
<1>8. d[n - 1] \in Int /\ b[n - 1] \in Int /\ h.extra \in Nat /\ h.desig \in Nat
  BY <1>2, <1>4, <1>6 DEF Configs, HotTypes
<1>9. Total(d) <= Total(c) /\ (h.real => Total(d) = Total(c))
  BY <1>4, <1>5, <1>6, <1>8
<1>10. Fits(d, k.extra, k.real) /\ (~k.real => Fits(d, k.desig, FALSE))
  <2>1. /\ h.extra + Total(c) <= GSegs /\ (h.real => h.extra + Total(c) = GSegs)
        /\ ~h.real => h.desig + Total(c) <= GSegs
    BY <1>3 DEF Fits
  <2>2. /\ h.extra + Total(d) <= GSegs /\ (h.real => h.extra + Total(d) = GSegs)
        /\ ~h.real => h.desig + Total(d) <= GSegs
    BY <1>4, <1>6, <1>8, <1>9, <2>1, SearchFacts
  <2> QED BY <1>7, <2>2 DEF Fits
<1>11. d[i] = (j + 1) - 1
  BY <1>2, <1>4, <1>6
<1>12. ASSUME NEW s \in Slots \ {i, n - 1} PROVE IF s < n THEN d[s] > 0 ELSE d[s] = 0
  <2>1. d[s] = c[s]
    BY <1>4, <1>6
  <2> QED BY <1>3, <2>1
<1>13. FinalSound(f, k)
  BY <1>7, Zenon DEF FinalSound
<1>14. ResizeSound(f, k, i, j + 1, d, add)
  BY <1>1, <1>10, <1>11, <1>12, Zenon DEF ResizeSound
<1> QED BY <1>6, <1>13, <1>14

(* A size that is better is the new configuration.                         *)
LEMMA ResizeRecorded ==
  ASSUME NEW f \in Finals, NEW k \in HotTypes, NEW i \in Levels, NEW j \in Nat \ {0},
         NEW d \in Configs, NEW add, ResizeSound(f, k, i, j + 1, d, add),
         NEW n, n = NumOf(f, i), d[n - 1] > 0,
         NEW w \in 1 .. High, NEW g, g = [c |-> d, num |-> n, waf |-> w]
  PROVE  g \in Finals /\ FinalSound(g, k) /\ ResizeSound(g, k, i, j + 1, d, TRUE)
<1>1. i < GLevels /\ i < f.num
  BY Zenon DEF ResizeSound
<1>2. /\ n \in 1 .. GLevels + 2 /\ n \in Nat /\ n - 1 \in Slots /\ n - 1 \in Nat /\ i < n - 1
      /\ i \in Slots /\ i \in Nat
  BY <1>1, NumFacts, LevelFacts
<1>3. /\ d[i] = (j + 1) - 1
      /\ \A s \in Slots \ {i, n - 1} : IF s < n THEN d[s] > 0 ELSE d[s] = 0
      /\ Fits(d, k.extra, k.real) /\ (~k.real => Fits(d, k.desig, FALSE))
  BY Zenon DEF ResizeSound
<1>4. g \in Finals /\ g.c = d /\ g.num = n
  BY <1>2 DEF Finals
<1>5. NumOf(g, i) = n
  BY <1>2, <1>4 DEF NumOf
<1>6. Grouped(d, n)
  <2> SUFFICES ASSUME NEW s \in Slots PROVE IF s < n THEN d[s] > 0 ELSE d[s] = 0
    BY DEF Grouped
  <2>1. d[i] > 0 /\ i < n /\ n - 1 < n
    BY <1>2, <1>3
  <2>2. CASE s = i
    BY <2>1, <2>2
  <2>3. CASE s = n - 1
    BY <2>1, <2>3
  <2>4. CASE s # i /\ s # n - 1
    BY <1>3, <2>4
  <2> QED BY <2>2, <2>3, <2>4
<1>7. FinalSound(g, k)
  BY <1>3, <1>4, <1>6, Zenon DEF FinalSound
<1>8. i < g.num /\ i < g.num - 1
  BY <1>2, <1>4
<1>9. ResizeSound(g, k, i, j + 1, d, TRUE)
  BY <1>1, <1>3, <1>5, <1>8, Zenon DEF ResizeSound
<1> QED BY <1>4, <1>7, <1>9

-----------------------------------------------------------------------------
LEMMA ToLevelsKeeps ==
  ASSUME GSTypes, gfin.num = 1, NEW opt \in [Levels -> Answers], NEW h \in HotTypes,
         LevelsSound(opt, h), NoneAbove(opt, 0), ToLevels(opt, h)
  PROVE  GSInv'
<1>1. /\ gat' = "levels" /\ gi' = 0 /\ gj' = 1 /\ gadd' = FALSE /\ gopt' = opt
      /\ grnd' = grnd /\ gfin' = gfin
  BY Zenon DEF ToLevels
<1>2. ghot' \in HotTypes /\ ghot'.real = h.real /\ ghot'.extra = h.extra /\ ghot'.desig = h.extra
  <2>1. ghot' = [h EXCEPT !.desig = h.extra, !.search = ~h.known]
    BY Zenon DEF ToLevels
  <2> QED BY <2>1, HotForLevels, Zenon
<1>3. /\ gcfg' \in Configs /\ gmax' \in Int \X Int
      /\ LevelsSound(opt, ghot')
      /\ 0 < GLevels => SplitSound(opt, ghot', 0, 1, gcfg', gmax')
  <2>1. /\ gcfg' = [opt[0].c EXCEPT ![1] = opt[0].c[0], ![0] = 1]
        /\ gmax' = <<opt[0].c[0] - GMargin, opt[0].c[0] - GMargin>>
    BY Zenon DEF ToLevels
  <2> DEFINE d == gcfg'
             m == gmax'
             k == ghot'
  <2>2. /\ k \in HotTypes /\ k.real = h.real /\ k.extra = h.extra
        /\ d = [opt[0].c EXCEPT ![1] = opt[0].c[0], ![0] = 1]
        /\ m = <<opt[0].c[0] - GMargin, opt[0].c[0] - GMargin>>
    BY <1>2, <2>1, Zenon
  <2> HIDE DEF d, m, k
  <2>3. /\ d \in Configs /\ m \in Int \X Int /\ LevelsSound(opt, k)
        /\ 0 < GLevels => SplitSound(opt, k, 0, 1, d, m)
    BY <2>2, LevelsBegin, Zenon
  <2> QED BY <2>3, Zenon DEF d, m, k
<1>4. GSTypes'
  <2>1. grnd \in Nat /\ gfin \in Finals
    BY DEF GSTypes
  <2>2. gi' \in Levels /\ gj' \in Nat \ {0}
    BY <1>1, LevelFacts
  <2>3. gadd' \in BOOLEAN
    BY <1>1, Zenon
  <2> QED BY <1>1, <1>2, <1>3, <2>1, <2>2, <2>3, Zenon DEF GSTypes
<1> USE DEF Answered
<1> QED BY <1>1, <1>2, <1>3, <1>4 DEF GSInv

(* The steps of the hot group: what is left of the drive is one group.     *)
LEMMA HotMeasuredKeeps ==
  ASSUME RoomyDrive, GSInv, HotMeasured
  PROVE  GSInv'
<1>1. /\ GSTypes /\ LevelsSound(gopt, ghot) /\ gfin.num = 1 /\ NoneAbove(gopt, 0)
      /\ ghot \in HotTypes /\ gopt \in [Levels -> Answers] /\ ghot.real
  BY DEF GSInv, HotMeasured, GSTypes
<1>2. PICK size \in 1 .. GHotMax :
        LET c == [Empty EXCEPT ![0] = GSegs - size]
        IN \E w \in Predictions(c, 1) :
             IF w \in {0, High}
             THEN gat' = "none" /\ UNCHANGED <<gi, gj, grnd, gcfg, gmax, gopt, gfin, ghot, gadd>>
             ELSE ToLevels([gopt EXCEPT ![0] = [c |-> c, waf |-> w]], [ghot EXCEPT !.extra = size])
  BY Zenon DEF HotMeasured
<1> DEFINE x == GSegs - size
           c == [Empty EXCEPT ![0] = x]
<1>3. x \in Int /\ x > 0 /\ size \in Nat
  BY SearchFacts DEF RoomyDrive
<1>4. c \in Configs /\ Total(c) = x /\ c[0] = x /\ \A s \in Slots : s # 0 => c[s] = 0
  BY <1>3, TotalOfOne
<1>5. PICK w \in Predictions(c, 1) :
        IF w \in {0, High}
        THEN gat' = "none" /\ UNCHANGED <<gi, gj, grnd, gcfg, gmax, gopt, gfin, ghot, gadd>>
        ELSE ToLevels([gopt EXCEPT ![0] = [c |-> c, waf |-> w]], [ghot EXCEPT !.extra = size])
  BY <1>2, Zenon
<1> DEFINE opt == [gopt EXCEPT ![0] = [c |-> c, waf |-> w]]
           h == [ghot EXCEPT !.extra = size]
<1>6. CASE w \in {0, High}
  <2>1. gat' = "none" /\ UNCHANGED <<gi, gj, grnd, gcfg, gmax, gopt, gfin, ghot, gadd>>
    BY <1>5, <1>6, Zenon
  <2>2. GSTypes'
    BY <1>1, <2>1 DEF GSTypes
  <2> QED BY <2>1, <2>2 DEF GSInv, Answered
<1>7. CASE w \notin {0, High}
  <2>1. ToLevels(opt, h)
    BY <1>5, <1>7, Zenon
  <2> HIDE DEF c
  <2>2. h \in HotTypes /\ h.extra = size /\ h.real = ghot.real
    BY <1>1, <1>3, HotExtra
  <2>3. 1 \in 1 .. GLevels + 2
    BY SearchFacts
  <2>4. w \in 1 .. NoWaf
    BY <1>4, <1>7, <2>3, Predicted DEF NoWaf
  <2>5. [c |-> c, waf |-> w] \in Answers
    BY <1>4, <2>4 DEF Answers
  <2>6. /\ opt \in [Levels -> Answers] /\ opt[0].c = c
        /\ \A l \in Levels : l # 0 => opt[l] = gopt[l]
    BY <1>1, <2>5, LevelFacts
  <2> HIDE DEF opt, h
  <2>7. NoneAbove(opt, 0)
    BY <1>1, <2>6, LevelFacts DEF NoneAbove
  <2>8. LevelsSound(opt, h)
    <3> SUFFICES ASSUME NEW l \in Levels
                 PROVE  IF HasAnswer(opt, l)
                        THEN Grouped(opt[l].c, l + 1) /\ Fits(opt[l].c, h.extra, h.real)
                        ELSE opt[l].c = Empty
      BY Zenon DEF LevelsSound
    <3>1. CASE l = 0
      <4>1. Grouped(c, 0 + 1)
        BY <1>3, <1>4, LevelFacts DEF Grouped
      <4>2. Fits(c, h.extra, h.real)
        BY <1>3, <1>4, <2>2, SearchFacts DEF Fits
      <4> QED BY <2>6, <3>1, <4>1, <4>2, Zenon DEF HasAnswer
    <3>2. CASE l # 0
      <4>1. opt[l] = gopt[l] /\ ~HasAnswer(opt, l) /\ ~HasAnswer(gopt, l)
        BY <1>1, <2>6, <2>7, <3>2, LevelFacts DEF NoneAbove, HasAnswer
      <4> QED BY <1>1, <4>1, Zenon DEF LevelsSound
    <3> QED BY <3>1, <3>2
  <2> QED BY <1>1, <2>1, <2>2, <2>6, <2>7, <2>8, ToLevelsKeeps, Zenon
<1> QED BY <1>6, <1>7

(* HotTried, one size: d and k are what the predictor made of size j.      *)
LEMMA HotSized ==
  ASSUME NEW h \in HotTypes, NEW j \in Nat \ {0}, h.calc < j, ~h.real,
         NEW a \in HotTypes, SameHot(a, h), a.calc = h.calc, a.search,
         NEW b \in Configs, Total(b) = GSegs - j, \A s \in Slots : s # 0 => b[s] = 0,
         NEW d, NEW k, SizedTo(d, k, b, 1, a, j)
  PROVE  /\ d \in Configs /\ k \in HotTypes /\ k.real = h.real /\ k.extra = h.extra
         /\ d[0] > 0 => Grouped(d, 0 + 1) /\ Fits(d, k.calc, k.real)
<1>1. /\ d \in Configs /\ k \in HotTypes /\ Total(d) \in Int /\ k.real = h.real /\ k.extra = h.extra
      /\ (k.search => d = b /\ k = a)
      /\ ~k.search => k.calc = j + b[1 - 1] - d[1 - 1]
      /\ d[1 - 1] <= b[1 - 1] /\ Total(d) - d[1 - 1] = Total(b) - b[1 - 1]
      /\ \A s \in Slots : s # 1 - 1 => d[s] = b[s]
  BY Zenon DEF SizedTo, SameHot
<1>2. 1 - 1 = 0 /\ 0 \in Slots /\ d[0] \in Int /\ b[0] \in Int /\ h.calc \in Nat
  BY <1>1, LevelFacts DEF Configs, HotTypes
<1>3. \A s \in Slots : s # 0 => d[s] = 0
  BY <1>1, <1>2
<1>4. d[0] > 0 => Grouped(d, 0 + 1)
  BY <1>2, <1>3, LevelFacts DEF Grouped
<1>5. k.calc + Total(d) <= GSegs
  <2>1. CASE k.search
    <3>1. d = b /\ k.calc = h.calc
      BY <1>1, <2>1
    <3> QED BY <1>2, <3>1, SearchFacts
  <2>2. CASE ~k.search
    <3>1. k.calc = j + b[0] - d[0] /\ Total(d) - d[0] = Total(b) - b[0]
      BY <1>1, <1>2, <2>2
    <3> QED BY <1>1, <1>2, <3>1, SearchFacts
  <2> QED BY <2>1, <2>2
<1>6. Fits(d, k.calc, k.real)
  BY <1>1, <1>5 DEF Fits
<1> QED BY <1>1, <1>4, <1>6

LEMMA HotTriedKeeps ==
  ASSUME GSInv, HotTried
  PROVE  GSInv'
<1>1. /\ GSTypes /\ LevelsSound(gopt, ghot) /\ gfin.num = 1 /\ NoneAbove(gopt, 0)
      /\ ghot \in HotTypes /\ gopt \in [Levels -> Answers] /\ ~ghot.real /\ gat = "hot"
      /\ gj \in Nat \ {0}
  BY DEF GSInv, HotTried, GSTypes
<1>2. CASE gj > GHotMax
  <2>1. ToLevels(gopt, ghot)
    BY <1>2, Zenon DEF HotTried
  <2> QED BY <1>1, <2>1, ToLevelsKeeps, Zenon
<1>3. CASE ~(gj > GHotMax) /\ gj <= ghot.calc
  <2>1. gj' = gj + 1 /\ UNCHANGED <<gat, gi, grnd, gcfg, gmax, gopt, gfin, ghot, gadd>>
    BY <1>3, Zenon DEF HotTried
  <2>2. gj' \in Nat \ {0}
    BY <1>1, <2>1
  <2>3. GSTypes'
    BY <1>1, <2>1, <2>2, Zenon DEF GSTypes
  <2> QED BY <1>1, <2>1, <2>3 DEF GSInv, Answered
<1>4. CASE ~(gj > GHotMax) /\ ~(gj <= ghot.calc)
  <2> DEFINE x == GSegs - gj
             b == [Empty EXCEPT ![0] = x]
             a == [ghot EXCEPT !.search = TRUE]
  <2>1. PICK ch \in Sized(b, 1, a, gj) : \E w \in Predictions(ch[1], 1) :
          IF w # 0 /\ w < gopt[0].waf
          THEN /\ gopt' = [gopt EXCEPT ![0] = [c |-> ch[1], waf |-> w]]
               /\ ghot' = Best(ch[2])
               /\ gj' = gj + 1
               /\ UNCHANGED <<gat, gi, grnd, gcfg, gmax, gfin, gadd>>
          ELSE ToLevels(gopt, ch[2])
    BY <1>4, Zenon DEF HotTried
  <2>2. x \in Int /\ gj \in Nat /\ 1 \in 1 .. GLevels + 2
    BY <1>1, SearchFacts
  <2>3. b \in Configs /\ Total(b) = x /\ \A s \in Slots : s # 0 => b[s] = 0
    BY <2>2, TotalOfOne
  <2>4. a \in HotTypes /\ SameHot(a, ghot) /\ a.calc = ghot.calc /\ a.search = TRUE
    BY <1>1, HotSearch, Zenon
  <2> HIDE DEF a, b
  <2> DEFINE d == ch[1]
             k == ch[2]
  <2>5. SizedTo(d, k, b, 1, a, gj)
    BY <2>2, <2>3, <2>4, SizedKeeps
  <2>6. PICK w \in Predictions(d, 1) :
          IF w # 0 /\ w < gopt[0].waf
          THEN /\ gopt' = [gopt EXCEPT ![0] = [c |-> d, waf |-> w]]
               /\ ghot' = Best(k)
               /\ gj' = gj + 1
               /\ UNCHANGED <<gat, gi, grnd, gcfg, gmax, gfin, gadd>>
          ELSE ToLevels(gopt, k)
    BY <2>1, Zenon
  <2> HIDE DEF d, k
  <2>7. ghot.calc < gj
    BY <1>1, <1>4 DEF HotTypes
  <2>8. /\ d \in Configs /\ k \in HotTypes /\ k.real = ghot.real /\ k.extra = ghot.extra
        /\ d[0] > 0 => Grouped(d, 0 + 1) /\ Fits(d, k.calc, k.real)
    <3>1. a.search /\ Total(b) = GSegs - gj
      BY <2>3, <2>4
    <3> QED BY <1>1, <2>3, <2>4, <2>5, <2>7, <3>1, HotSized, Zenon
  <2>9. CASE w # 0 /\ w < gopt[0].waf
    <3>1. /\ gopt' = [gopt EXCEPT ![0] = [c |-> d, waf |-> w]] /\ ghot' = Best(k)
          /\ gj' = gj + 1 /\ UNCHANGED <<gat, gi, grnd, gcfg, gmax, gfin, gadd>>
      BY <2>6, <2>9, Zenon
    <3>2. gopt[0].waf \in 1 .. NoWaf
      BY <1>1, LevelFacts DEF Answers
    <3>3. w \in 0 .. NoWaf /\ (w # 0 /\ w < NoWaf => d[0] # 0 /\ d[1 - 1] > 0)
      BY <2>2, <2>8, Predicted
    <3>4. w \in 1 .. NoWaf /\ d[0] > 0
      BY <2>9, <3>2, <3>3 DEF NoWaf
    <3>5. [c |-> d, waf |-> w] \in Answers
      BY <2>8, <3>4 DEF Answers
    <3>6. /\ gopt' \in [Levels -> Answers] /\ gopt'[0].c = d
          /\ \A l \in Levels : l # 0 => gopt'[l] = gopt[l]
      BY <1>1, <3>1, <3>5, LevelFacts
    <3>7. ghot' \in HotTypes /\ ghot'.real = k.real /\ ghot'.extra = k.calc
      BY <2>8, <3>1, BestIs
    <3>8. NoneAbove(gopt', 0)
      BY <1>1, <3>6, LevelFacts DEF NoneAbove
    <3>9. LevelsSound(gopt', ghot')
      <4> SUFFICES ASSUME NEW l \in Levels
                   PROVE  IF HasAnswer(gopt', l)
                          THEN Grouped(gopt'[l].c, l + 1) /\ Fits(gopt'[l].c, ghot'.extra, ghot'.real)
                          ELSE gopt'[l].c = Empty
        BY Zenon DEF LevelsSound
      <4>1. CASE l = 0
        BY <2>8, <3>4, <3>6, <3>7, <4>1, Zenon DEF HasAnswer
      <4>2. CASE l # 0
        <5>1. gopt'[l] = gopt[l] /\ ~HasAnswer(gopt', l) /\ ~HasAnswer(gopt, l)
          BY <1>1, <3>6, <3>8, <4>2, LevelFacts DEF NoneAbove, HasAnswer
        <5> QED BY <1>1, <5>1, Zenon DEF LevelsSound
      <4> QED BY <4>1, <4>2
    <3>10. gj' \in Nat \ {0}
      BY <1>1, <3>1
    <3>11. GSTypes'
      BY <1>1, <3>1, <3>6, <3>7, <3>10, Zenon DEF GSTypes
    <3>12. gat' = "hot" /\ gfin' = gfin
      BY <1>1, <3>1
    <3> QED BY <1>1, <3>8, <3>9, <3>11, <3>12 DEF GSInv, Answered
  <2>10. CASE ~(w # 0 /\ w < gopt[0].waf)
    <3>1. ToLevels(gopt, k)
      BY <2>6, <2>10, Zenon
    <3>2. LevelsSound(gopt, k)
      BY <1>1, <2>8, Zenon DEF LevelsSound
    <3> QED BY <1>1, <2>8, <3>1, <3>2, ToLevelsKeeps, Zenon
  <2> QED BY <2>9, <2>10
<1> QED BY <1>2, <1>3, <1>4

(* One group takes a size, and another gives one segment.                  *)
LEMMA SizeAsked ==
  ASSUME NEW c \in Configs, NEW p \in Slots, NEW q \in Slots, p # q, NEW x \in Int
  PROVE  ChangedTwice([c EXCEPT ![p] = x, ![q] = @ - 1], c, p, x, q, c[q] - 1)
<1> DEFINE one == [c EXCEPT ![p] = x]
           y == c[q] - 1
<1>1. one[q] = c[q] /\ y \in Int
  BY DEF Configs
<1>2. [c EXCEPT ![p] = x, ![q] = @ - 1] = [c EXCEPT ![p] = x, ![q] = y]
  BY <1>1, Zenon
<1> HIDE DEF y
<1>3. ChangedTwice([c EXCEPT ![p] = x, ![q] = y], c, p, x, q, y)
  BY <1>1, TwoChanges, Zenon
<1>4. ChangedTwice([c EXCEPT ![p] = x, ![q] = @ - 1], c, p, x, q, y)
  BY <1>2, <1>3, Zenon
<1> QED BY <1>4, Zenon DEF y

(* What a level keeps.                                                     *)
LEMMA LevelState ==
  ASSUME GSInv, gat = "levels"
  PROVE  /\ GSTypes /\ LevelsSound(gopt, ghot) /\ gfin.num = 1 /\ ghot.desig = ghot.extra
         /\ ghot \in HotTypes /\ gopt \in [Levels -> Answers] /\ gcfg \in Configs
         /\ gmax \in Int \X Int /\ gi \in Levels /\ gj \in Nat \ {0}
         /\ gi < GLevels => SplitSound(gopt, ghot, gi, gj, gcfg, gmax)
BY DEF GSInv, GSTypes

(* The steps of a level.  The abort is excluded by SplitRoom, as long as   *)
(* the limit has not wrapped.                                              *)
LEMMA TrySplitKeeps ==
  ASSUME GSInv, LimitInv, TrySplit
  PROVE  GSInv'
<1> DEFINE b == [gcfg EXCEPT ![gi] = gj, ![gi + 1] = @ - 1]
<1>1. gat = "levels" /\ gi < GLevels /\ gj < gmax[1]
  <2>1. gat = "levels" /\ gi < GLevels /\ InRange
    BY Zenon DEF TrySplit
  <2>2. gmax \in Int \X Int /\ gmax[1] > 0
    BY <2>1 DEF GSInv, GSTypes, LimitInv
  <2> QED BY <2>1, <2>2 DEF InRange
<1>2. /\ GSTypes /\ LevelsSound(gopt, ghot) /\ gfin.num = 1 /\ ghot.desig = ghot.extra
      /\ ghot \in HotTypes /\ gopt \in [Levels -> Answers] /\ gcfg \in Configs
      /\ gmax \in Int \X Int /\ gi \in Levels /\ gj \in Nat \ {0}
      /\ SplitSound(gopt, ghot, gi, gj, gcfg, gmax)
  BY <1>1, LevelState, Zenon
<1>3. /\ gi \in Slots /\ gi + 1 \in Slots /\ gi # gi + 1 /\ gj \in Int
      /\ gi + 2 \in 1 .. GLevels + 2 /\ gi + 2 - 1 = gi + 1 /\ 0 \in Slots
  BY <1>1, <1>2, LevelFacts
<1>4. ChangedTwice(b, gcfg, gi, gj, gi + 1, gcfg[gi + 1] - 1)
  BY <1>2, <1>3, SizeAsked, Zenon
<1>5. IF b[gi + 1] = 0 THEN gat' = "abort" /\ UNCHANGED <<gi, gj, grnd, gcfg, gmax, gopt, gfin, ghot, gadd>>
      ELSE \E ch \in Sized(b, gi + 2, ghot, ghot.desig) :
             \E w \in Predictions(ch[1], gi + 2) :
               /\ gcfg' = ch[1] /\ ghot' = ch[2] /\ gj' = gj + 1
               /\ UNCHANGED <<gat, gi, grnd, gfin>>
               /\ IF w # 0 /\ w < gopt[gi + 1].waf
                  THEN /\ gopt' = [gopt EXCEPT ![gi + 1] = [c |-> ch[1], waf |-> w]]
                       /\ gadd' = TRUE
                       /\ gmax' = [gmax EXCEPT ![2] = gmax[1] - gj]
                  ELSE UNCHANGED <<gopt, gadd, gmax>>
  BY Zenon DEF TrySplit
<1> HIDE DEF b
<1>6. b \in Configs /\ b[gi + 1] # 0
  BY <1>1, <1>2, <1>4, SplitRoom
<1>7. PICK ch \in Sized(b, gi + 2, ghot, ghot.desig) :
        \E w \in Predictions(ch[1], gi + 2) :
          /\ gcfg' = ch[1] /\ ghot' = ch[2] /\ gj' = gj + 1
          /\ UNCHANGED <<gat, gi, grnd, gfin>>
          /\ IF w # 0 /\ w < gopt[gi + 1].waf
             THEN /\ gopt' = [gopt EXCEPT ![gi + 1] = [c |-> ch[1], waf |-> w]]
                  /\ gadd' = TRUE
                  /\ gmax' = [gmax EXCEPT ![2] = gmax[1] - gj]
             ELSE UNCHANGED <<gopt, gadd, gmax>>
  BY <1>5, <1>6, Zenon
<1> DEFINE d == ch[1]
           k == ch[2]
<1>8. ghot.desig \in Nat
  BY <1>2 DEF HotTypes
<1>9. SizedTo(d, k, b, gi + 2, ghot, ghot.desig)
  BY <1>2, <1>3, <1>6, <1>8, SizedKeeps
<1>10. PICK w \in Predictions(d, gi + 2) :
          /\ gcfg' = d /\ ghot' = k /\ gj' = gj + 1
          /\ UNCHANGED <<gat, gi, grnd, gfin>>
          /\ IF w # 0 /\ w < gopt[gi + 1].waf
             THEN /\ gopt' = [gopt EXCEPT ![gi + 1] = [c |-> d, waf |-> w]]
                  /\ gadd' = TRUE
                  /\ gmax' = [gmax EXCEPT ![2] = gmax[1] - gj]
             ELSE UNCHANGED <<gopt, gadd, gmax>>
  BY <1>7, Zenon
<1> HIDE DEF d, k
<1>11. SplitAt(gopt, k, gi, gj + 1, d, gmax) /\ Made(gopt, k, gi, gj, d, gmax)
  <2>1. SplitAt(gopt, ghot, gi, gj, gcfg, gmax)
    BY <1>1, <1>2, Zenon DEF SplitAt
  <2> QED BY <1>1, <1>2, <1>4, <1>9, <2>1, SplitStep, Zenon
<1>12. /\ gcfg' = d /\ ghot' = k /\ gj' = gj + 1 /\ gat' = "levels" /\ gi' = gi /\ grnd' = grnd
       /\ gfin' = gfin /\ gj' \in Nat \ {0}
  <2>1. gj + 1 \in Nat \ {0}
    BY <1>2
  <2> QED BY <1>1, <1>10, <2>1, Zenon
<1>13. ASSUME SplitAt(gopt', k, gi, gj + 1, d, gmax'), gadd' \in BOOLEAN
       PROVE  GSInv'
  <2>1. /\ gopt' \in [Levels -> Answers] /\ k \in HotTypes /\ d \in Configs
        /\ gmax' \in Int \X Int /\ LevelsSound(gopt', k) /\ k.desig = k.extra
        /\ SplitSound(gopt', k, gi, gj + 1, d, gmax')
    BY <1>13, Zenon DEF SplitAt
  <2>2. GSTypes'
    BY <1>2, <1>12, <1>13, <2>1, Zenon DEF GSTypes
  <2>3. LevelsSound(gopt', ghot') /\ SplitSound(gopt', ghot', gi', gj', gcfg', gmax')
    BY <1>12, <2>1, Zenon
  <2>4. ghot'.desig = ghot'.extra /\ gfin'.num = 1 /\ gat' = "levels"
    BY <1>2, <1>12, <2>1
  <2> QED BY <2>2, <2>3, <2>4 DEF GSInv, Answered
<1>14. CASE ~(w # 0 /\ w < gopt[gi + 1].waf)
  <2>1. gopt' = gopt /\ gadd' = gadd /\ gmax' = gmax
    BY <1>10, <1>14, Zenon
  <2>2. gadd' \in BOOLEAN
    BY <1>2, <2>1, Zenon DEF GSTypes
  <2> QED BY <1>11, <1>13, <2>1, <2>2, Zenon
<1>15. CASE w # 0 /\ w < gopt[gi + 1].waf
  <2>1. /\ gopt' = [gopt EXCEPT ![gi + 1] = [c |-> d, waf |-> w]]
        /\ gadd' = TRUE
        /\ gmax' = [gmax EXCEPT ![2] = gmax[1] - gj]
    BY <1>10, <1>15, Zenon
  <2>2. gi + 1 \in Levels
    BY <1>1, <1>2, LevelFacts
  <2>3. gopt[gi + 1].waf \in 1 .. NoWaf
    BY <1>2, <2>2 DEF Answers
  <2>4. w \in 0 .. NoWaf /\ (w # 0 /\ w < NoWaf => d[0] # 0 /\ d[gi + 1] > 0)
    <3>1. d \in Configs
      BY <1>11, Zenon DEF SplitAt
    <3> DEFINE g == gi + 2
    <3>2. g \in 1 .. GLevels + 2 /\ w \in Predictions(d, g)
      BY <1>3, <1>10, Zenon
    <3>3. g - 1 = gi + 1
      BY <1>2 DEF Levels
    <3> HIDE DEF g
    <3>4. w \in 0 .. NoWaf /\ (w # 0 /\ w < NoWaf => d[0] # 0 /\ d[g - 1] > 0)
      BY <3>1, <3>2, Predicted
    <3> QED BY <3>3, <3>4
  <2>5. w \in 1 .. NoWaf /\ w < NoWaf
    BY <1>15, <2>3, <2>4 DEF NoWaf
  <2>6. d[gi + 1] > 0 /\ HasAnswer(gopt, gi)
    BY <1>11, <1>15, <2>4, <2>5 DEF Made
  <2> DEFINE next == gopt'
             n == gmax'
  <2>7. /\ next = [gopt EXCEPT ![gi + 1] = [c |-> d, waf |-> w]]
        /\ n = [gmax EXCEPT ![2] = gmax[1] - gj]
    BY <2>1, Zenon
  <2> HIDE DEF next, n
  <2>8. SplitAt(next, k, gi, gj + 1, d, n)
    BY <1>2, <1>11, <2>5, <2>6, <2>7, SplitRecorded, Zenon
  <2>9. gadd' \in BOOLEAN
    BY <2>1, Zenon
  <2> QED BY <1>13, <2>8, <2>9, Zenon DEF next, n
<1> QED BY <1>14, <1>15

LEMMA NextLevelKeeps ==
  ASSUME GSInv, NextLevel
  PROVE  GSInv'
<1>1. gat = "levels" /\ gi < GLevels
  BY Zenon DEF NextLevel
<1>2. /\ GSTypes /\ LevelsSound(gopt, ghot) /\ gfin.num = 1 /\ ghot.desig = ghot.extra
      /\ ghot \in HotTypes /\ gopt \in [Levels -> Answers] /\ gcfg \in Configs
      /\ gmax \in Int \X Int /\ gi \in Levels /\ gj \in Nat \ {0}
      /\ SplitSound(gopt, ghot, gi, gj, gcfg, gmax)
  BY <1>1, LevelState, Zenon
<1> DEFINE c == gopt[gi + 1].c
           l == gi + 1
<1>3. /\ gi' = l /\ gj' = 1 /\ gadd' = FALSE /\ gmax' = [gmax EXCEPT ![1] = gmax[2]]
      /\ gcfg' = IF gi + 1 < GLevels THEN [c EXCEPT ![gi + 2] = c[gi + 1], ![gi + 1] = 1] ELSE c
      /\ UNCHANGED <<gat, grnd, gopt, gfin, ghot>>
  BY Zenon DEF NextLevel
<1>4. l \in Levels /\ c \in Configs
  BY <1>1, <1>2, LevelFacts DEF Answers
<1>5. gmax' \in Int \X Int
  <2>1. gmax' = [gmax EXCEPT ![1] = gmax[2]]
    BY <1>3, Zenon
  <2> QED BY <1>2, <2>1
<1>6. l < GLevels => SplitAt(gopt, ghot, l, 1, gcfg', gmax')
  <2> SUFFICES ASSUME l < GLevels PROVE SplitAt(gopt, ghot, l, 1, gcfg', gmax')
    OBVIOUS
  <2>1. /\ gi + 2 \in Slots /\ gi + 1 \in Slots /\ gi + 2 # gi + 1 /\ 1 \in Int
        /\ c[gi + 1] \in Int
    BY <1>1, <1>2, <1>4, LevelFacts DEF Configs
  <2> DEFINE x == c[gi + 1]
             d == [c EXCEPT ![gi + 2] = x, ![gi + 1] = 1]
  <2>2. ChangedTwice(d, c, gi + 2, x, gi + 1, 1)
    <3> HIDE DEF c, x
    <3> QED BY <1>4, <2>1, TwoChanges, Zenon DEF x
  <2>3. gcfg' = d
    BY <1>3, Zenon
  <2>4. SplitAt(gopt, ghot, gi, gj, gcfg, gmax)
    BY <1>1, <1>2, Zenon DEF SplitAt
  <2>5. gmax' = [gmax EXCEPT ![1] = gmax[2]]
    BY <1>3, Zenon
  <2>6. ChangedTwice(gcfg', c, gi + 2, c[gi + 1], gi + 1, 1)
    BY <2>2, <2>3, Zenon
  <2> HIDE DEF d, x
  <2> DEFINE e == gcfg'
             m == gmax'
  <2>7. ChangedTwice(e, c, gi + 2, c[gi + 1], gi + 1, 1) /\ m = [gmax EXCEPT ![1] = gmax[2]]
    BY <2>5, <2>6, Zenon
  <2> HIDE DEF e, m
  <2>8. SplitAt(gopt, ghot, gi + 1, 1, e, m)
    BY <2>4, <2>7, LevelAbove, Zenon
  <2> QED BY <2>8, Zenon DEF e, m
<1>7. gcfg' \in Configs
  <2>1. CASE l < GLevels
    BY <1>6, <2>1, Zenon DEF SplitAt
  <2>2. CASE ~(l < GLevels)
    BY <1>3, <1>4, <2>2, Zenon
  <2> QED BY <2>1, <2>2
<1> HIDE DEF c, l
<1>8. gi' = l /\ gj' = 1 /\ gadd' = FALSE /\ UNCHANGED <<gat, grnd, gopt, gfin, ghot>>
  BY <1>3, Zenon
<1>9. GSTypes'
  <2>1. gadd' \in BOOLEAN
    BY <1>8, Zenon
  <2>2. gj' \in Nat \ {0}
    BY <1>8
  <2> QED BY <1>2, <1>4, <1>5, <1>7, <1>8, <2>1, <2>2, Zenon DEF GSTypes
<1>10. gi' < GLevels => SplitSound(gopt', ghot', gi', gj', gcfg', gmax')
  BY <1>6, <1>8, Zenon DEF SplitAt
<1>11. gat' = "levels" /\ LevelsSound(gopt', ghot') /\ gfin'.num = 1 /\ ghot'.desig = ghot'.extra
  BY <1>1, <1>2, <1>8, Zenon
<1> QED BY <1>9, <1>10, <1>11 DEF GSInv, Answered

LEMMA NoAnswersType == NoAnswers \in [Levels -> Answers]
<1>1. [c |-> Empty, waf |-> NoWaf] \in Answers
  BY TotalOfOne DEF Answers, NoWaf
<1> QED BY <1>1 DEF NoAnswers, Levels

LEMMA PickLevelKeeps ==
  ASSUME GSInv, PickLevel
  PROVE  GSInv'
<1>1. gat = "levels"
  BY Zenon DEF PickLevel
<1>2. /\ GSTypes /\ LevelsSound(gopt, ghot) /\ gfin.num = 1 /\ ghot.desig = ghot.extra
      /\ ghot \in HotTypes /\ gopt \in [Levels -> Answers]
  BY <1>1, LevelState, Zenon
<1> DEFINE low == Min({gopt[k].waf : k \in 0 .. GLevels})
           k == Min({l \in 0 .. GLevels : gopt[l].waf = low})
<1>3. /\ IF low < High
         THEN /\ gfin' = [c |-> gopt[k].c, num |-> k + 1, waf |-> low]
              /\ gat' = "round"
         ELSE gat' = "answer" /\ UNCHANGED gfin
      /\ gopt' = NoAnswers
      /\ UNCHANGED <<gi, gj, grnd, gcfg, gmax, ghot, gadd>>
  BY Zenon DEF PickLevel
<1>4. gopt' \in [Levels -> Answers]
  BY <1>3, NoAnswersType
<1>5. CASE low < High
  <2>1. /\ gfin' = [c |-> gopt[k].c, num |-> k + 1, waf |-> low] /\ gat' = "round"
        /\ UNCHANGED <<gi, gj, grnd, gcfg, gmax, ghot, gadd>>
    BY <1>3, <1>5, Zenon
  <2> DEFINE f == gfin'
             a == low
             b == k
  <2>2. /\ a = Min({gopt[l].waf : l \in 0 .. GLevels})
        /\ b = Min({l \in 0 .. GLevels : gopt[l].waf = a}) /\ a < High
        /\ f = [c |-> gopt[b].c, num |-> b + 1, waf |-> a]
    BY <1>5, <2>1, Zenon
  <2> HIDE DEF f, a, b
  <2>3. f \in Finals /\ FinalSound(f, ghot)
    BY <1>2, <2>2, PickedSound, Zenon
  <2>4. gfin' \in Finals /\ FinalSound(gfin', ghot')
    BY <2>1, <2>3, Zenon DEF f
  <2>5. GSTypes'
    BY <1>2, <1>4, <2>1, <2>4, Zenon DEF GSTypes
  <2>6. gat' = "round"
    BY <2>1, Zenon
  <2> QED BY <2>4, <2>5, <2>6 DEF GSInv
<1>6. CASE ~(low < High)
  <2>1. gat' = "answer" /\ UNCHANGED <<gi, gj, grnd, gcfg, gmax, ghot, gadd, gfin>>
    BY <1>3, <1>6, Zenon
  <2>2. GSTypes'
    BY <1>2, <1>4, <2>1, Zenon DEF GSTypes
  <2>3. ~Answered'
    BY <1>2, <2>1 DEF Answered
  <2> QED BY <2>1, <2>2, <2>3 DEF GSInv
<1> QED BY <1>5, <1>6

LEMMA BeginRoundKeeps ==
  ASSUME GSInv, BeginRound
  PROVE  GSInv'
<1>1. /\ gat = "round" /\ UNCHANGED <<gmax, gopt, gfin>>
      /\ IF grnd = GRounds THEN gat' = "answer" /\ UNCHANGED <<gi, gj, grnd, gcfg, ghot, gadd>>
         ELSE /\ grnd' = grnd + 1 /\ gi' = 0 /\ gj' = 1 /\ gadd' = FALSE
              /\ gat' = IF ghot.real THEN "group" ELSE "rehot"
              /\ gcfg' = IF ghot.real THEN gfin.c
                         ELSE [gfin.c EXCEPT ![gfin.num - 1] = @ + ghot.desig]
              /\ ghot' = [ghot EXCEPT !.calc = 0]
  BY Zenon DEF BeginRound
<1>2. /\ GSTypes /\ FinalSound(gfin, ghot) /\ ghot \in HotTypes /\ gfin \in Finals
      /\ grnd \in Nat
  BY <1>1 DEF GSInv, GSTypes
<1>3. CASE grnd = GRounds
  <2>1. gat' = "answer" /\ UNCHANGED <<gi, gj, grnd, gcfg, ghot, gadd, gmax, gopt, gfin>>
    BY <1>1, <1>3, Zenon
  <2>2. GSTypes'
    BY <1>2, <2>1, Zenon DEF GSTypes
  <2>3. FinalSound(gfin', ghot')
    BY <1>2, <2>1, Zenon
  <2> QED BY <2>1, <2>2, <2>3 DEF GSInv
<1>4. CASE grnd # GRounds
  <2>1. /\ grnd' = grnd + 1 /\ gi' = 0 /\ gj' = 1 /\ gadd' = FALSE
        /\ gat' = IF ghot.real THEN "group" ELSE "rehot"
        /\ gcfg' = IF ghot.real THEN gfin.c
                   ELSE [gfin.c EXCEPT ![gfin.num - 1] = @ + ghot.desig]
        /\ ghot' = [ghot EXCEPT !.calc = 0] /\ gfin' = gfin /\ gmax' = gmax /\ gopt' = gopt
    BY <1>1, <1>4, Zenon
  <2>2. ghot' \in HotTypes /\ SameHot(ghot', ghot)
    BY <1>2, <2>1, HotCalcOnly
  <2>3. FinalSound(gfin', ghot')
    BY <1>2, <2>1, <2>2, Zenon DEF FinalSound, SameHot
  <2>4. gfin.c \in Configs /\ gfin.num \in 1 .. GLevels + 2
    BY <1>2 DEF Finals
  <2>5. ~ghot.real => gcfg' \in Configs /\ RehotSound(gfin, ghot, gcfg')
    BY <1>2, <2>1, RehotBegins, Zenon
  <2>6. gcfg' \in Configs /\ grnd' \in Nat /\ gi' \in Levels /\ gj' \in Nat \ {0}
    BY <1>2, <2>1, <2>4, <2>5, LevelFacts
  <2>7. gadd' \in BOOLEAN
    BY <2>1, Zenon
  <2>8. gat' \in {"group", "rehot"} /\ (gat' = "rehot" => ~ghot.real)
    BY <2>1
  <2>9. GSTypes'
    <3>1. gat' \in {"hot", "levels", "round", "rehot", "group", "resize", "answer", "none"}
      BY <2>8
    <3> QED BY <1>2, <2>1, <2>2, <2>6, <2>7, <3>1, Zenon DEF GSTypes
  <2>10. gat' = "rehot" => RehotSound(gfin', ghot', gcfg')
    BY <2>1, <2>2, <2>5, <2>8, Zenon DEF RehotSound, SameHot
  <2>11. gat' = "group" => gi' < gfin'.num /\ gcfg' = gfin'.c
    BY <2>1, <2>4
  <2> QED BY <2>3, <2>8, <2>9, <2>10, <2>11 DEF GSInv, Answered
<1> QED BY <1>3, <1>4

LEMMA ToGroupsKeeps ==
  ASSUME GSTypes, NEW h \in HotTypes, FinalSound(gfin, h), ToGroups(h),
         UNCHANGED <<grnd, gmax, gopt, gfin>>
  PROVE  GSInv'
<1>1. /\ gat' = "group" /\ gi' = 0 /\ gj' = 1 /\ gcfg' = gfin.c /\ gadd' = FALSE
      /\ ghot' = [h EXCEPT !.search = ~h.known]
  BY Zenon DEF ToGroups
<1>2. (~h.known) \in BOOLEAN
  BY DEF HotTypes
<1>3. ghot' \in HotTypes /\ SameHot(ghot', h)
  BY <1>1, <1>2, HotSearch, Zenon
<1>4. FinalSound(gfin', ghot')
  BY <1>3, Zenon DEF FinalSound, SameHot
<1>5. gfin \in Finals /\ gfin.c \in Configs /\ gfin.num \in 1 .. GLevels + 2
  BY DEF GSTypes, Finals
<1>6. gi' \in Levels /\ gj' \in Nat \ {0}
  BY <1>1, LevelFacts
<1>7. gadd' \in BOOLEAN
  BY <1>1, Zenon
<1>8. GSTypes'
  <2>1. gat' \in {"hot", "levels", "round", "rehot", "group", "resize", "answer", "none"}
    BY <1>1
  <2> QED BY <1>1, <1>3, <1>5, <1>6, <1>7, <2>1, Zenon DEF GSTypes
<1>9. gi' < gfin'.num /\ gcfg' = gfin'.c
  BY <1>1, <1>5
<1> QED BY <1>1, <1>4, <1>8, <1>9 DEF GSInv, Answered

(* The steps of a round.                                                   *)
LEMMA TryHotKeeps ==
  ASSUME GSInv, TryHot
  PROVE  GSInv'
<1>1. gat = "rehot" /\ UNCHANGED <<grnd, gmax, gopt>>
  BY Zenon DEF TryHot
<1>2. /\ GSTypes /\ FinalSound(gfin, ghot) /\ RehotSound(gfin, ghot, gcfg) /\ ghot \in HotTypes
      /\ gfin \in Finals /\ gcfg \in Configs /\ gj \in Nat \ {0}
  BY <1>1 DEF GSInv, GSTypes
<1>3. ASSUME gj' = gj + 1, UNCHANGED <<gat, gi, gcfg, gadd>>, gfin' \in Finals,
             gfin'.num = gfin.num, ghot' \in HotTypes, ghot'.real = ghot.real,
             FinalSound(gfin', ghot')
      PROVE  GSInv'
  <2>1. gj' \in Nat \ {0} /\ gat' = "rehot"
    BY <1>1, <1>2, <1>3
  <2>2. GSTypes'
    BY <1>1, <1>2, <1>3, <2>1, Zenon DEF GSTypes
  <2>3. RehotSound(gfin', ghot', gcfg')
    BY <1>2, <1>3, Zenon DEF RehotSound
  <2> QED BY <1>3, <2>1, <2>2, <2>3 DEF GSInv, Answered
<1>4. CASE gj > GHotMax
  <2>1. ToGroups(ghot) /\ gfin' = gfin
    BY <1>4, Zenon DEF TryHot
  <2> QED BY <1>1, <1>2, <2>1, ToGroupsKeeps, Zenon
<1>5. CASE ~(gj > GHotMax) /\ gj <= ghot.calc
  <2>1. gj' = gj + 1 /\ UNCHANGED <<gat, gi, gcfg, gfin, ghot, gadd>>
    BY <1>5, Zenon DEF TryHot
  <2> QED BY <1>2, <1>3, <2>1, Zenon
<1>6. CASE ~(gj > GHotMax) /\ ~(gj <= ghot.calc)
  <2> DEFINE n == gfin.num
             q == n - 1
             b == [gcfg EXCEPT ![q] = @ - gj]
             a == [ghot EXCEPT !.search = TRUE]
  <2>1. PICK ch \in Sized(b, n, a, gj) : \E w \in Predictions(ch[1], n) :
          IF w = 0 THEN ToGroups(ch[2]) /\ UNCHANGED gfin
          ELSE /\ gj' = gj + 1 /\ UNCHANGED <<gat, gi, gcfg, gadd>>
               /\ IF w < gfin.waf
                  THEN /\ gfin' = [gfin EXCEPT !.c = ch[1], !.waf = w]
                       /\ ghot' = [Best(ch[2]) EXCEPT !.desig = gj]
                  ELSE UNCHANGED gfin /\ ghot' = ch[2]
    BY <1>6, Zenon DEF TryHot
  <2>2. n \in 1 .. GLevels + 2 /\ gj \in Nat /\ gj \in Int /\ gfin.waf \in 1 .. High
    BY <1>2 DEF Finals
  <2>3. q \in Slots
    BY SMTT(60), ZenonT(60), <2>2, SearchFacts DEF Slots
  <2> HIDE DEF q
  <2>4. Less(b, gcfg, q, gj)
    BY <1>2, <2>2, <2>3, TakesOff, Zenon
  <2>5. a \in HotTypes /\ SameHot(a, ghot) /\ a.calc = ghot.calc /\ a.search = TRUE
    BY <1>2, HotSearch, Zenon
  <2> HIDE DEF a, b, n
  <2> DEFINE d == ch[1]
             k == ch[2]
  <2>6. SizedTo(d, k, b, n, a, gj)
    <3>1. b \in Configs
      BY <2>4, Zenon DEF Less
    <3> QED BY <2>2, <2>5, <3>1, SizedKeeps
  <2>7. PICK w \in Predictions(d, n) :
          IF w = 0 THEN ToGroups(k) /\ UNCHANGED gfin
          ELSE /\ gj' = gj + 1 /\ UNCHANGED <<gat, gi, gcfg, gadd>>
               /\ IF w < gfin.waf
                  THEN /\ gfin' = [gfin EXCEPT !.c = d, !.waf = w]
                       /\ ghot' = [Best(k) EXCEPT !.desig = gj]
                  ELSE UNCHANGED gfin /\ ghot' = k
    BY <2>1, Zenon
  <2> HIDE DEF d, k
  <2>8. d \in Configs /\ k \in HotTypes /\ SameHot(k, ghot)
    BY <2>5, <2>6, Zenon DEF SizedTo, SameHot
  <2>9. FinalSound(gfin, k) /\ k.real = ghot.real
    BY <1>2, <2>8, Zenon DEF FinalSound, SameHot
  <2>10. CASE w = 0
    <3>1. ToGroups(k) /\ gfin' = gfin
      BY <2>7, <2>10, Zenon
    <3> QED BY <1>1, <1>2, <2>8, <2>9, <3>1, ToGroupsKeeps, Zenon
  <2>11. CASE w # 0 /\ ~(w < gfin.waf)
    <3>1. gj' = gj + 1 /\ UNCHANGED <<gat, gi, gcfg, gadd>> /\ gfin' = gfin /\ ghot' = k
      BY <2>7, <2>11, Zenon
    <3> QED BY <1>2, <1>3, <2>8, <2>9, <3>1, Zenon
  <2>12. CASE w # 0 /\ w < gfin.waf
    <3>1. /\ gj' = gj + 1 /\ UNCHANGED <<gat, gi, gcfg, gadd>>
          /\ gfin' = [gfin EXCEPT !.c = d, !.waf = w]
          /\ ghot' = [Best(k) EXCEPT !.desig = gj]
      BY <2>7, <2>12, Zenon
    <3> DEFINE p == Best(k)
               z == ghot'
               g == gfin'
    <3>2. p \in HotTypes /\ p.real = k.real /\ p.extra = k.calc /\ p.desig = k.desig
      BY <2>8, BestIs, Zenon
    <3> HIDE DEF p
    <3>3. z = [p EXCEPT !.desig = gj]
      BY <3>1, Zenon DEF p
    <3>4. z \in HotTypes /\ z.real = k.real /\ z.extra = k.calc /\ z.desig = gj
      <4>1. LET y == [p EXCEPT !.desig = gj]
            IN y \in HotTypes /\ y.real = p.real /\ y.extra = p.extra /\ y.desig = gj
        BY <2>2, <3>2, HotDesig, Zenon
      <4> QED BY <3>2, <3>3, <4>1, Zenon
    <3>5. w \in 0 .. NoWaf /\ (w # 0 /\ w < NoWaf => d[0] # 0 /\ d[n - 1] > 0)
      BY <2>2, <2>8, Predicted
    <3>6. w \in 1 .. High /\ d[q] > 0
      BY <2>2, <2>12, <3>5 DEF High, NoWaf, q
    <3>7. g \in Finals /\ g.c = d /\ g.num = gfin.num
      <4>1. g = [gfin EXCEPT !.c = d, !.waf = w]
        BY <3>1, Zenon
      <4> HIDE DEF g
      <4>2. LET y == [gfin EXCEPT !.c = d, !.waf = w]
            IN y \in Finals /\ y.c = d /\ y.num = gfin.num
        BY SMTT(60), ZenonT(60), <1>2, <2>8, <3>6, FinalIs
      <4> QED BY <4>1, <4>2, Zenon
    <3> HIDE DEF z, g
    <3>8. FinalSound(g, z)
      <4>1. ghot.calc < gj /\ a.search /\ q = gfin.num - 1
        BY <1>2, <1>6, <2>2, <2>5 DEF HotTypes, q, n
      <4>2. SizedTo(d, k, b, gfin.num, a, gj)
        BY <2>6, Zenon DEF n
      <4> QED BY <1>2, <2>4, <2>5, <3>4, <3>6, <3>7, <4>1, <4>2, RehotTried, Zenon
    <3>9. gfin' \in Finals /\ gfin'.num = gfin.num /\ ghot' \in HotTypes
          /\ ghot'.real = ghot.real /\ FinalSound(gfin', ghot')
      BY <2>9, <3>4, <3>7, <3>8, Zenon DEF g, z
    <3> QED BY <1>3, <3>1, <3>9, Zenon
  <2> QED BY <2>10, <2>11, <2>12
<1> QED BY <1>4, <1>5, <1>6

LEMMA TakeGroupKeeps ==
  ASSUME GSInv, TakeGroup
  PROVE  GSInv'
<1>1. gat = "group" /\ UNCHANGED <<gi, grnd, gopt, gfin, ghot>>
  BY Zenon DEF TakeGroup
<1>2. /\ GSTypes /\ FinalSound(gfin, ghot) /\ ghot \in HotTypes /\ gfin \in Finals
      /\ gi \in Levels /\ gi < gfin.num /\ gcfg = gfin.c /\ gcfg \in Configs /\ gmax \in Int \X Int
  BY <1>1 DEF GSInv, GSTypes
<1>3. FinalSound(gfin', ghot')
  BY <1>1, <1>2, Zenon
<1>4. CASE gi = GLevels
  <2>1. gat' = "round" /\ UNCHANGED <<gj, gcfg, gmax, gadd>>
    BY <1>4, Zenon DEF TakeGroup
  <2>2. GSTypes'
    BY <1>1, <1>2, <2>1, Zenon DEF GSTypes
  <2> QED BY <1>3, <2>1, <2>2 DEF GSInv, Answered
<1>5. CASE gi # GLevels
  <2> DEFINE n == NumOf(gfin, gi)
             last == IF gi < gfin.num - 1 THEN gcfg[n - 1] + gcfg[gi] ELSE gcfg[gi]
             d == [gcfg EXCEPT ![n - 1] = last, ![gi] = 0]
  <2>1. Num = n
    BY Zenon DEF Num, NumOf
  <2>2. /\ gat' = "resize" /\ gj' = 1 /\ gadd' = FALSE /\ gcfg' = d
        /\ gmax' = [gmax EXCEPT ![1] = last - GMargin]
    BY <1>5, <2>1, Zenon DEF TakeGroup
  <2>3. gi < GLevels /\ gi \in Slots
    BY <1>2, <1>5, LevelFacts
  <2>4. n - 1 \in Slots /\ n - 1 # gi
    <3>1. n - 1 \in Slots /\ n - 1 \in Nat /\ gi < n - 1 /\ gi \in Nat
      BY <1>2, <2>3, NumFacts, LevelFacts
    <3> HIDE DEF n
    <3> QED BY <3>1
  <2> HIDE DEF n, last
  <2>5. last \in Int => ChangedTwice(d, gcfg, n - 1, last, gi, 0)
    <3>1. 0 \in Int
      OBVIOUS
    <3> QED BY <1>2, <2>3, <2>4, <3>1, TwoChanges, Zenon
  <2> HIDE DEF d
  <2>6. last \in Int /\ d \in Configs /\ ResizeSound(gfin, ghot, gi, 1, d, FALSE)
    <3>1. n = NumOf(gfin, gi)
      BY Zenon DEF n
    <3>2. last = IF gi < gfin.num - 1 THEN gcfg[n - 1] + gcfg[gi] ELSE gcfg[gi]
      BY Zenon DEF last
    <3> QED BY <1>2, <2>3, <2>5, <3>1, <3>2, ResizeBegins, Zenon
  <2>7. gmax' \in Int \X Int
    <3>1. gmax' = [gmax EXCEPT ![1] = last - GMargin]
      BY <2>2, Zenon
    <3> QED BY <1>2, <2>6, <3>1, SearchFacts
  <2>8. gadd' \in BOOLEAN
    BY <2>2, Zenon
  <2>9. gj' \in Nat \ {0} /\ gat' = "resize"
    BY <2>2
  <2>10. GSTypes'
    <3>1. gat' \in {"hot", "levels", "round", "rehot", "group", "resize", "answer", "none"}
      BY <2>9
    <3> QED BY <1>1, <1>2, <2>2, <2>6, <2>7, <2>8, <2>9, <3>1, Zenon DEF GSTypes
  <2>11. ResizeSound(gfin', ghot', gi', gj', gcfg', gadd')
    BY <1>1, <2>2, <2>6, Zenon
  <2> QED BY <1>3, <2>9, <2>10, <2>11 DEF GSInv, Answered
<1> QED BY <1>4, <1>5

LEMMA LeaveGroupKeeps ==
  ASSUME GSTypes, gi < GLevels, gadd => gi < gfin.num - 1, LeaveGroup,
         UNCHANGED <<grnd, gmax, gopt>>, ghot' \in HotTypes, FinalSound(gfin, ghot')
  PROVE  GSInv'
<1>1. /\ gcfg' = gfin.c /\ UNCHANGED <<gj, gfin, gadd>>
      /\ IF ~gadd /\ gi >= gfin.num - 1 THEN gat' = "round" /\ UNCHANGED gi
                                         ELSE gat' = "group" /\ gi' = gi + 1
  BY Zenon DEF LeaveGroup
<1>2. gfin \in Finals /\ gfin.c \in Configs /\ gfin.num \in 1 .. GLevels + 2 /\ gi \in Levels
  BY DEF GSTypes, Finals
<1>3. FinalSound(gfin', ghot')
  BY <1>1, Zenon
<1>4. gi + 1 \in Levels /\ gi \in Nat
  BY <1>2, LevelFacts
<1>5. GSTypes'
  <2>1. gi' \in Levels
    BY <1>1, <1>2, <1>4, Zenon
  <2>2. gat' \in {"hot", "levels", "round", "rehot", "group", "resize", "answer", "none"}
    BY <1>1
  <2> QED BY <1>1, <1>2, <2>1, <2>2, Zenon DEF GSTypes
<1>6. gat' \in {"round", "group"} /\ (gat' = "group" => gi' < gfin'.num)
  BY <1>1, <1>2, <1>4
<1> QED BY <1>1, <1>3, <1>5, <1>6 DEF GSInv, Answered

LEMMA TryGroupKeeps ==
  ASSUME GSInv, TryGroup
  PROVE  GSInv'
<1> DEFINE n == NumOf(gfin, gi)
           q == n - 1
           b == [gcfg EXCEPT ![gi] = gj, ![q] = @ - 1]
<1>1. gat = "resize" /\ UNCHANGED <<grnd, gmax, gopt>>
  BY Zenon DEF TryGroup
<1>2. /\ GSTypes /\ FinalSound(gfin, ghot) /\ ghot \in HotTypes /\ gfin \in Finals
      /\ gi \in Levels /\ gj \in Nat \ {0} /\ gcfg \in Configs
      /\ ResizeSound(gfin, ghot, gi, gj, gcfg, gadd)
  BY <1>1 DEF GSInv, GSTypes
<1>3. gi < GLevels /\ gi < gfin.num /\ (gadd => gi < gfin.num - 1)
  BY <1>2, Zenon DEF ResizeSound
<1>4. Num = n
  BY Zenon DEF Num, NumOf
<1>5. CASE ~InRange
  <2>1. LeaveGroup /\ UNCHANGED ghot
    BY <1>5, Zenon DEF TryGroup
  <2>2. ghot' \in HotTypes /\ FinalSound(gfin, ghot')
    BY <1>2, <2>1, Zenon
  <2> QED BY <1>1, <1>2, <1>3, <2>1, <2>2, LeaveGroupKeeps, Zenon
<1>6. CASE InRange
  <2>1. \E ch \in Sized(b, n, ghot, ghot.desig) : \E w \in Predictions(ch[1], n) :
          /\ ghot' = ch[2]
          /\ IF w = 0 THEN LeaveGroup
             ELSE /\ gcfg' = ch[1] /\ gj' = gj + 1
                  /\ UNCHANGED <<gat, gi>>
                  /\ IF w < gfin.waf
                     THEN gfin' = [c |-> ch[1], num |-> n, waf |-> w] /\ gadd' = TRUE
                     ELSE UNCHANGED <<gfin, gadd>>
    BY <1>4, <1>6, Zenon DEF TryGroup
  <2>2. /\ n \in 1 .. GLevels + 2 /\ q \in Slots /\ gi \in Slots /\ gj \in Int
        /\ ghot.desig \in Nat /\ gfin.waf \in 1 .. High
    BY <1>2, <1>3, NumFacts, LevelFacts DEF HotTypes, Finals
  <2>3. q # gi
    <3>1. q \in Nat /\ gi < q /\ gi \in Nat
      BY <1>2, <1>3, NumFacts, LevelFacts
    <3> HIDE DEF q
    <3> QED BY <3>1
  <2>4. n = NumOf(gfin, gi) /\ q = n - 1
    OBVIOUS
  <2> HIDE DEF n, q
  <2>5. ChangedTwice(b, gcfg, gi, gj, q, gcfg[q] - 1)
    BY <1>2, <2>2, <2>3, SizeAsked, Zenon
  <2> HIDE DEF b
  <2>6. PICK ch \in Sized(b, n, ghot, ghot.desig) : \E w \in Predictions(ch[1], n) :
          /\ ghot' = ch[2]
          /\ IF w = 0 THEN LeaveGroup
             ELSE /\ gcfg' = ch[1] /\ gj' = gj + 1
                  /\ UNCHANGED <<gat, gi>>
                  /\ IF w < gfin.waf
                     THEN gfin' = [c |-> ch[1], num |-> n, waf |-> w] /\ gadd' = TRUE
                     ELSE UNCHANGED <<gfin, gadd>>
    BY <2>1, Zenon
  <2> DEFINE d == ch[1]
             k == ch[2]
  <2>7. SizedTo(d, k, b, n, ghot, ghot.desig)
    <3>1. b \in Configs
      BY <2>5, Zenon DEF ChangedTwice
    <3> QED BY <1>2, <2>2, <3>1, SizedKeeps
  <2>8. PICK w \in Predictions(d, n) :
          /\ ghot' = k
          /\ IF w = 0 THEN LeaveGroup
             ELSE /\ gcfg' = d /\ gj' = gj + 1
                  /\ UNCHANGED <<gat, gi>>
                  /\ IF w < gfin.waf
                     THEN gfin' = [c |-> d, num |-> n, waf |-> w] /\ gadd' = TRUE
                     ELSE UNCHANGED <<gfin, gadd>>
    BY <2>6, Zenon
  <2> HIDE DEF d, k
  <2>9. /\ d \in Configs /\ k \in HotTypes /\ FinalSound(gfin, k)
        /\ ResizeSound(gfin, k, gi, gj + 1, d, gadd)
    <3>1. ChangedTwice(b, gcfg, gi, gj, n - 1, gcfg[n - 1] - 1)
      BY <2>4, <2>5, Zenon
    <3> QED BY <1>2, <2>4, <2>7, <3>1, ResizeStep, Zenon
  <2>10. CASE w = 0
    <3>1. LeaveGroup /\ ghot' = k
      BY <2>8, <2>10, Zenon
    <3>2. ghot' \in HotTypes /\ FinalSound(gfin, ghot')
      BY <2>9, <3>1, Zenon
    <3> QED BY <1>1, <1>2, <1>3, <3>1, <3>2, LeaveGroupKeeps, Zenon
  <2>11. CASE w # 0
    <3>1. /\ ghot' = k /\ gcfg' = d /\ gj' = gj + 1 /\ gat' = gat /\ gi' = gi
          /\ IF w < gfin.waf
             THEN gfin' = [c |-> d, num |-> n, waf |-> w] /\ gadd' = TRUE
             ELSE UNCHANGED <<gfin, gadd>>
      BY <2>8, <2>11, Zenon
    <3>2. /\ gfin' \in Finals /\ gadd' \in BOOLEAN /\ FinalSound(gfin', k)
          /\ ResizeSound(gfin', k, gi, gj + 1, d, gadd')
      <4>1. CASE ~(w < gfin.waf)
        <5>1. gfin' = gfin /\ gadd' = gadd
          BY <3>1, <4>1, Zenon
        <5>2. gadd' \in BOOLEAN
          BY <1>2, <5>1, Zenon DEF GSTypes
        <5> QED BY <1>2, <2>9, <5>1, <5>2, Zenon
      <4>2. CASE w < gfin.waf
        <5> DEFINE g == gfin'
        <5>1. g = [c |-> d, num |-> n, waf |-> w] /\ gadd' = TRUE
          BY <3>1, <4>2, Zenon
        <5>2. w \in 0 .. NoWaf /\ (w # 0 /\ w < NoWaf => d[0] # 0 /\ d[n - 1] > 0)
          BY <2>2, <2>9, Predicted
        <5>3. w \in 1 .. High /\ d[n - 1] > 0
          BY <2>2, <2>11, <4>2, <5>2 DEF High, NoWaf
        <5> HIDE DEF g
        <5>4. g \in Finals /\ FinalSound(g, k) /\ ResizeSound(g, k, gi, gj + 1, d, TRUE)
          BY <1>2, <2>4, <2>9, <5>1, <5>3, ResizeRecorded, Zenon
        <5>5. gadd' \in BOOLEAN
          BY <5>1, Zenon
        <5> QED BY <5>1, <5>4, <5>5, Zenon DEF g
      <4> QED BY <4>1, <4>2
    <3>3. gj' \in Nat \ {0}
      BY <1>2, <3>1
    <3>4. gat' = "resize"
      BY <1>1, <3>1
    <3>5. GSTypes'
      BY <1>1, <1>2, <2>9, <3>1, <3>2, <3>3, Zenon DEF GSTypes
    <3>6. FinalSound(gfin', ghot') /\ ResizeSound(gfin', ghot', gi', gj', gcfg', gadd')
      BY <3>1, <3>2, Zenon
    <3> QED BY <3>4, <3>5, <3>6 DEF GSInv, Answered
  <2> QED BY <2>10, <2>11
<1> QED BY <1>5, <1>6

LEMMA SearchBegins ==
  ASSUME RoomyDrive, GSInit
  PROVE  GSInv
<1> DEFINE c == [Empty EXCEPT ![0] = GSegs]
           opt == [NoAnswers EXCEPT ![0].c = c]
<1>1. /\ gat = "hot" /\ gi = 0 /\ gj = 1 /\ grnd = 0 /\ gcfg = Empty /\ gmax = <<0, 0>>
      /\ gadd = FALSE /\ gopt = opt /\ gfin = [c |-> Empty, num |-> 1, waf |-> High] /\ ghot \in Hots
  BY Zenon DEF GSInit
<1>2. /\ GSegs \in Int /\ GSegs > 0 /\ 1 \in 1 .. GLevels + 2
  BY SearchFacts DEF RoomyDrive
<1>3. /\ Empty \in Configs /\ c \in Configs /\ Total(c) = GSegs /\ c[0] = GSegs
      /\ \A s \in Slots : s # 0 => c[s] = 0
  BY <1>2, TotalOfOne
<1> HIDE DEF c
<1>4. /\ ghot \in HotTypes /\ ghot.extra = 0
  <2>1. \A h \in Hots : h.extra = 0
    BY DEF Hots
  <2>2. Hots \subseteq HotTypes
    <3>1. {0} \subseteq Nat /\ {TRUE} \subseteq BOOLEAN
      OBVIOUS
    <3> QED BY <3>1, Zenon DEF Hots, HotTypes
  <2> QED BY <1>1, <2>1, <2>2, Zenon
<1>5. /\ gopt \in [Levels -> Answers] /\ gopt[0].c = c
      /\ \A l \in Levels : l # 0 => gopt[l].c = Empty /\ gopt[l].waf = NoWaf
  <2>1. /\ NoAnswers \in [Levels -> Answers]
        /\ \A l \in Levels : NoAnswers[l].c = Empty /\ NoAnswers[l].waf = NoWaf
    BY NoAnswersType DEF NoAnswers, Levels
  <2>2. [NoAnswers[0] EXCEPT !.c = c] \in Answers /\ [NoAnswers[0] EXCEPT !.c = c].c = c
    BY <1>3, <2>1, LevelFacts DEF Answers
  <2> HIDE DEF NoAnswers
  <2>3. gopt = [NoAnswers EXCEPT ![0] = [NoAnswers[0] EXCEPT !.c = c]]
    BY <1>1, Zenon
  <2> QED BY <2>1, <2>2, <2>3, LevelFacts
<1>6. gfin \in Finals /\ gfin.num = 1
  BY <1>1, <1>2, <1>3 DEF Finals, High
<1>7. GSTypes
  <2>1. gi \in Levels /\ gj \in Nat \ {0} /\ grnd \in Nat /\ gmax \in Int \X Int
    BY <1>1, LevelFacts
  <2>2. gadd \in BOOLEAN
    BY <1>1, Zenon
  <2>3. gat \in {"hot", "levels", "round", "rehot", "group", "resize", "answer", "none"}
    BY <1>1
  <2> QED BY <1>1, <1>3, <1>4, <1>5, <1>6, <2>1, <2>2, <2>3, Zenon DEF GSTypes
<1>8. NoneAbove(gopt, 0)
  BY <1>5, LevelFacts DEF NoneAbove
<1>9. LevelsSound(gopt, ghot)
  <2> SUFFICES ASSUME NEW l \in Levels
               PROVE  IF HasAnswer(gopt, l)
                      THEN Grouped(gopt[l].c, l + 1) /\ Fits(gopt[l].c, ghot.extra, ghot.real)
                      ELSE gopt[l].c = Empty
    BY Zenon DEF LevelsSound
  <2>1. CASE l = 0
    <3>1. Grouped(c, 0 + 1)
      BY <1>2, <1>3, LevelFacts DEF Grouped
    <3>2. Fits(c, ghot.extra, ghot.real)
      BY <1>2, <1>3, <1>4 DEF Fits
    <3> QED BY <1>5, <2>1, <3>1, <3>2, Zenon DEF HasAnswer
  <2>2. CASE l # 0
    BY <1>5, <2>2 DEF HasAnswer
  <2> QED BY <2>1, <2>2
<1> QED BY <1>1, <1>6, <1>7, <1>8, <1>9 DEF GSInv, Answered

(* The limits.  Where the levels begin, the hot group has left more than   *)
(* the margin.                                                             *)
LEMMA LimitBegins ==
  ASSUME NEW opt \in [Levels -> Answers], NEW h, ToLevels(opt, h), opt[0].c[0] > GMargin
  PROVE  LimitInv'
<1>1. gat' = "levels" /\ gmax' = <<opt[0].c[0] - GMargin, opt[0].c[0] - GMargin>>
  BY Zenon DEF ToLevels
<1>2. opt[0].c[0] \in Int /\ GMargin \in Int
  BY LevelFacts, SearchFacts DEF Answers, Configs
<1>3. gmax'[1] > 0 /\ gmax'[2] > 0
  BY <1>1, <1>2
<1> QED BY <1>1, <1>3 DEF LimitInv

LEMMA HotMeasuredLimits ==
  ASSUME RoomyDrive, GSInv, HotMeasured
  PROVE  LimitInv'
<1>1. gopt \in [Levels -> Answers] /\ ghot \in HotTypes
  BY DEF GSInv, GSTypes
<1>2. PICK size \in 1 .. GHotMax : \E w \in Predictions([Empty EXCEPT ![0] = GSegs - size], 1) :
        IF w \in {0, High}
        THEN gat' = "none" /\ UNCHANGED <<gi, gj, grnd, gcfg, gmax, gopt, gfin, ghot, gadd>>
        ELSE ToLevels([gopt EXCEPT ![0] = [c |-> [Empty EXCEPT ![0] = GSegs - size], waf |-> w]],
                      [ghot EXCEPT !.extra = size])
  BY Zenon DEF HotMeasured
<1> DEFINE x == GSegs - size
           c == [Empty EXCEPT ![0] = x]
<1>3. x \in Int /\ x > GMargin /\ 1 \in 1 .. GLevels + 2
  BY SearchFacts DEF RoomyDrive
<1>4. c \in Configs /\ c[0] = x
  BY <1>3, TotalOfOne
<1>5. PICK w \in Predictions(c, 1) :
        IF w \in {0, High}
        THEN gat' = "none" /\ UNCHANGED <<gi, gj, grnd, gcfg, gmax, gopt, gfin, ghot, gadd>>
        ELSE ToLevels([gopt EXCEPT ![0] = [c |-> c, waf |-> w]], [ghot EXCEPT !.extra = size])
  BY <1>2, Zenon
<1>6. CASE w \in {0, High}
  BY <1>5, <1>6 DEF LimitInv
<1>7. CASE w \notin {0, High}
  <2> DEFINE opt == [gopt EXCEPT ![0] = [c |-> c, waf |-> w]]
             h == [ghot EXCEPT !.extra = size]
  <2>1. ToLevels(opt, h)
    BY <1>5, <1>7, Zenon
  <2> HIDE DEF c, x, h
  <2>2. w \in 1 .. NoWaf
    BY <1>3, <1>4, <1>7, Predicted DEF NoWaf
  <2>3. [c |-> c, waf |-> w] \in Answers
    BY <1>4, <2>2 DEF Answers
  <2>4. opt \in [Levels -> Answers] /\ opt[0].c = c
    BY <1>1, <2>3, LevelFacts
  <2>5. opt[0].c[0] > GMargin
    BY <1>3, <1>4, <2>4
  <2> HIDE DEF opt
  <2> QED BY <2>1, <2>4, <2>5, LimitBegins, Zenon
<1> QED BY <1>6, <1>7

LEMMA HotTriedLimits ==
  ASSUME RoomyDrive, GSInv, LimitInv, HotTried
  PROVE  LimitInv'
<1>1. /\ gopt \in [Levels -> Answers] /\ ghot \in HotTypes /\ gat = "hot" /\ gj \in Nat \ {0}
      /\ gopt[0].c[0] > GMargin
  BY DEF GSInv, GSTypes, LimitInv, HotTried
<1>2. CASE gj > GHotMax
  <2>1. ToLevels(gopt, ghot)
    BY <1>2, Zenon DEF HotTried
  <2> QED BY <1>1, <2>1, LimitBegins, Zenon
<1>3. CASE ~(gj > GHotMax) /\ gj <= ghot.calc
  <2>1. UNCHANGED <<gat, gopt>>
    BY <1>3, Zenon DEF HotTried
  <2> QED BY <1>1, <2>1 DEF LimitInv
<1>4. CASE ~(gj > GHotMax) /\ ~(gj <= ghot.calc)
  <2> DEFINE x == GSegs - gj
             b == [Empty EXCEPT ![0] = x]
             a == [ghot EXCEPT !.search = TRUE]
  <2>1. PICK ch \in Sized(b, 1, a, gj) : \E w \in Predictions(ch[1], 1) :
          IF w # 0 /\ w < gopt[0].waf
          THEN /\ gopt' = [gopt EXCEPT ![0] = [c |-> ch[1], waf |-> w]]
               /\ ghot' = Best(ch[2])
               /\ gj' = gj + 1
               /\ UNCHANGED <<gat, gi, grnd, gcfg, gmax, gfin, gadd>>
          ELSE ToLevels(gopt, ch[2])
    BY <1>4, Zenon DEF HotTried
  <2>2. x \in Int /\ gj \in Nat /\ 1 \in 1 .. GLevels + 2
    BY <1>1, SearchFacts
  <2>3. b \in Configs /\ b[0] = x
    BY <2>2, TotalOfOne
  <2>4. a \in HotTypes
    BY <1>1, HotSearch, Zenon
  <2> HIDE DEF a, b
  <2> DEFINE d == ch[1]
             k == ch[2]
  <2>5. SizedTo(d, k, b, 1, a, gj)
    BY <2>2, <2>3, <2>4, SizedKeeps
  <2>6. PICK w \in Predictions(d, 1) :
          IF w # 0 /\ w < gopt[0].waf
          THEN gopt' = [gopt EXCEPT ![0] = [c |-> d, waf |-> w]] /\ gat' = gat
          ELSE ToLevels(gopt, k)
    BY <2>1, Zenon
  <2> HIDE DEF d, k
  <2>7. d[0] \in Int /\ b[0] - d[0] <= GMaxGap
    <3>1. d \in Configs /\ b[1 - 1] - d[1 - 1] <= GMaxGap
      BY <2>5, Zenon DEF SizedTo
    <3> QED BY <3>1, LevelFacts DEF Configs
  <2>8. d[0] > GMargin
    <3>1. /\ GSegs \in Int /\ GHotMax \in Int /\ GMaxGap \in Int /\ GMargin \in Int
          /\ GSegs > GHotMax + GMaxGap + GMargin
      BY SearchFacts DEF RoomyDrive
    <3> QED BY <1>1, <1>4, <2>2, <2>3, <2>7, <3>1
  <2>9. CASE w # 0 /\ w < gopt[0].waf
    <3>1. gopt' = [gopt EXCEPT ![0] = [c |-> d, waf |-> w]] /\ gat' = gat
      BY <2>6, <2>9, Zenon
    <3>2. gopt'[0].c = d
      BY <1>1, <3>1, LevelFacts
    <3> QED BY <1>1, <2>8, <3>1, <3>2 DEF LimitInv
  <2>10. CASE ~(w # 0 /\ w < gopt[0].waf)
    <3>1. ToLevels(gopt, k)
      BY <2>6, <2>10, Zenon
    <3> QED BY <1>1, <3>1, LimitBegins, Zenon
  <2> QED BY <2>9, <2>10
<1> QED BY <1>2, <1>3, <1>4

LEMMA LevelLimits ==
  ASSUME GSInv, LimitInv, TrySplit \/ NextLevel
  PROVE  LimitInv'
<1>1. /\ gat = "levels" /\ gmax \in Int \X Int /\ gmax[1] > 0 /\ gmax[2] > 0
      /\ gj \in Nat
  BY DEF GSInv, GSTypes, LimitInv, TrySplit, NextLevel
<1>2. CASE NextLevel
  <2>1. gat' = gat /\ gmax' = [gmax EXCEPT ![1] = gmax[2]]
    BY <1>2, Zenon DEF NextLevel
  <2> QED BY <1>1, <2>1 DEF LimitInv
<1>3. CASE TrySplit
  <2>1. /\ InRange
        /\ \/ gat' = "abort"
           \/ gat' = gat /\ (gmax' = gmax \/ gmax' = [gmax EXCEPT ![2] = gmax[1] - gj])
    BY <1>3, Zenon DEF TrySplit
  <2>2. gj < gmax[1]
    BY <1>1, <2>1 DEF InRange
  <2> QED BY <1>1, <2>1, <2>2 DEF LimitInv
<1> QED BY <1>2, <1>3

LEMMA OtherLimits ==
  ASSUME PickLevel \/ BeginRound \/ TryHot \/ TakeGroup \/ TryGroup
  PROVE  LimitInv'
<1>1. gat' \notin {"hot", "levels"}
  <2>1. PickLevel \/ BeginRound \/ TakeGroup => gat' \notin {"hot", "levels"}
    BY DEF PickLevel, BeginRound, TakeGroup
  <2>2. TryHot => gat' \in {"group", "rehot"}
    BY DEF TryHot, ToGroups
  <2>3. TryGroup => gat' \in {"group", "round", "resize"}
    BY DEF TryGroup, LeaveGroup
  <2> QED BY <2>1, <2>2, <2>3
<1> QED BY <1>1 DEF LimitInv

(* On a roomy drive every step of the search keeps its invariant, and no    *)
(* limit of a level falls to zero and wraps.                               *)
THEOREM GroupSearchInvariance == RoomyDrive => (GSSpec => [](GSInv /\ LimitInv))
<1> SUFFICES ASSUME RoomyDrive PROVE GSSpec => [](GSInv /\ LimitInv)
  OBVIOUS
<1>1. GSInit => GSInv /\ LimitInv
  <2> SUFFICES ASSUME GSInit PROVE GSInv /\ LimitInv
    OBVIOUS
  <2>1. GSInv
    BY SearchBegins
  <2>2. gat = "hot" /\ gopt = [NoAnswers EXCEPT ![0].c = [Empty EXCEPT ![0] = GSegs]]
    BY Zenon DEF GSInit
  <2>3. gopt[0].c = [Empty EXCEPT ![0] = GSegs]
    <3>1. NoAnswers = [k \in Levels |-> [c |-> Empty, waf |-> NoWaf]]
      BY Zenon DEF NoAnswers, Levels
    <3> QED BY <2>2, <3>1, LevelFacts
  <2>4. GSegs \in Int /\ GSegs > GMargin
    BY SearchFacts DEF RoomyDrive
  <2>5. gopt[0].c[0] = GSegs
    BY <2>3, <2>4, TotalOfOne
  <2> QED BY <2>1, <2>2, <2>4, <2>5 DEF LimitInv
<1>2. GSInv /\ LimitInv /\ [GSNext]_gvars => GSInv' /\ LimitInv'
  <2> SUFFICES ASSUME GSInv, LimitInv, [GSNext]_gvars PROVE GSInv' /\ LimitInv'
    OBVIOUS
  <2>1. CASE HotMeasured
    BY <2>1, HotMeasuredKeeps, HotMeasuredLimits
  <2>2. CASE HotTried
    BY <2>2, HotTriedKeeps, HotTriedLimits
  <2>3. CASE TrySplit
    BY <2>3, TrySplitKeeps, LevelLimits
  <2>4. CASE NextLevel
    BY <2>4, NextLevelKeeps, LevelLimits
  <2>5. CASE PickLevel
    BY <2>5, PickLevelKeeps, OtherLimits
  <2>6. CASE BeginRound
    BY <2>6, BeginRoundKeeps, OtherLimits
  <2>7. CASE TryHot
    BY <2>7, TryHotKeeps, OtherLimits
  <2>8. CASE TakeGroup
    BY <2>8, TakeGroupKeeps, OtherLimits
  <2>9. CASE TryGroup
    BY <2>9, TryGroupKeeps, OtherLimits
  <2>10. CASE UNCHANGED gvars
    BY <2>10, Zenon DEF gvars, GSInv, GSTypes, LimitInv, Answered
  <2> QED BY <2>1, <2>2, <2>3, <2>4, <2>5, <2>6, <2>7, <2>8, <2>9, <2>10, Zenon DEF GSNext
<1> QED BY <1>1, <1>2, PTL DEF GSSpec

(* making_group_configuration3 gives groups that fit a roomy drive, with   *)
(* the hot group, and none of them empty.                                  *)
THEOREM AnswersFitTheDrive == RoomyDrive => (GSSpec => []AnswerFits)
<1> SUFFICES ASSUME RoomyDrive PROVE GSSpec => []AnswerFits
  OBVIOUS
<1>1. GSInv => AnswerFits
  <2> SUFFICES ASSUME GSInv, Answered PROVE AnswerFits
    BY DEF AnswerFits
  <2>1. FinalSound(gfin, ghot) /\ gfin \in Finals
    BY DEF GSInv, GSTypes
  <2>2. Grouped(gfin.c, gfin.num) /\ Fits(gfin.c, ghot.extra, ghot.real)
    BY <2>1 DEF FinalSound
  <2>3. \A s \in Slots : gfin.c[s] > 0 <=> s < gfin.num
    BY <2>1, <2>2 DEF Grouped
  <2> QED BY <2>2, <2>3, Zenon DEF AnswerFits, Fits
<1> QED BY <1>1, GroupSearchInvariance, PTL
=============================================================================
