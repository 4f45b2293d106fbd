----------------------------- MODULE Containers -----------------------------
(***************************************************************************)
(* Facts about the containers of the models: sequences without repetitions *)
(* used as stacks (vector::push_back, pop_back) and queues (push_back,     *)
(* pop_front), tables of slots, smallest elements.                         *)
(***************************************************************************)
EXTENDS Integers, Sequences, FiniteSets, Functions,
        FiniteSetTheorems, SequenceTheorems, TLAPS

-----------------------------------------------------------------------------
(* Stacks and queues.                                                      *)

(* Indices below and at the top of a stack of n elements.                  *)
LEMMA TopIndex ==
  ASSUME NEW n \in Nat, n # 0
  PROVE  /\ n \in 1 .. n
         /\ \A i \in 1 .. n : i = n \/ i \in 1 .. n - 1
         /\ \A i \in 1 .. n - 1 : i \in 1 .. n /\ i # n
OBVIOUS

(* Popping a stack without repetitions removes exactly its top.            *)
LEMMA PopStack ==
  ASSUME NEW S, NEW q \in Seq(S), q # <<>>,
         \A i, j \in DOMAIN q : q[i] = q[j] => i = j
  PROVE  LET r == SubSeq(q, 1, Len(q) - 1)
         IN /\ r \in Seq(S)
            /\ Len(r) = Len(q) - 1
            /\ q[Len(q)] \in S
            /\ \A i, j \in DOMAIN r : r[i] = r[j] => i = j
            /\ Range(r) = Range(q) \ {q[Len(q)]}
<1> DEFINE n == Len(q)
           r == SubSeq(q, 1, n - 1)
<1>1. n \in Nat /\ n # 0 /\ DOMAIN q = 1 .. n
  BY EmptySeq, LenProperties
<1>2. /\ n \in 1 .. n
      /\ \A i \in 1 .. n : i = n \/ i \in 1 .. n - 1
      /\ \A i \in 1 .. n - 1 : i \in 1 .. n /\ i # n
  <2> HIDE DEF n
  <2> QED BY <1>1, TopIndex
<1>3. \A i \in 1 .. n : q[i] \in S
  BY <1>1, ElementOfSeq
<1>4. /\ r \in Seq(S)
      /\ Len(r) = n - 1
      /\ \A i \in 1 .. n - 1 : r[i] = q[i]
  <2> HIDE DEF n
  <2>1. 1 \in Int /\ n - 1 \in Int /\ \A i \in 1 .. n - 1 : q[i] \in S
    BY <1>1, <1>2, <1>3
  <2>2. /\ SubSeq(q, 1, n - 1) \in Seq(S)
        /\ Len(SubSeq(q, 1, n - 1)) = IF 1 <= n - 1 THEN n - 1 - 1 + 1 ELSE 0
        /\ \A i \in 1 .. n - 1 - 1 + 1 : SubSeq(q, 1, n - 1)[i] = q[1 + i - 1]
    BY <2>1, SubSeqProperties
  <2>3. n - 1 - 1 + 1 = n - 1 /\ (1 <= n - 1 \/ n - 1 = 0)
    BY <1>1
  <2>4. \A i \in 1 .. n - 1 : 1 + i - 1 = i
    BY <1>1
  <2> QED BY <2>2, <2>3, <2>4
<1>5. DOMAIN r = 1 .. n - 1
  BY <1>4, LenProperties
<1> HIDE DEF n, r
<1>6. \A i, j \in DOMAIN r : r[i] = r[j] => i = j
  BY <1>1, <1>2, <1>4, <1>5
<1>7. Range(r) = Range(q) \ {q[n]}
  <2>1. \A x : x \in Range(r) <=> \E i \in 1 .. n - 1 : x = q[i]
    BY <1>4, <1>5 DEF Range
  <2>2. \A x : x \in Range(q) <=> \E i \in 1 .. n : x = q[i]
    BY <1>1 DEF Range
  <2>3. \A i \in 1 .. n - 1 : q[i] # q[n]
    BY <1>1, <1>2
  <2> QED BY <2>1, <2>2, <2>3, <1>2
<1> QED BY <1>2, <1>3, <1>4, <1>6, <1>7 DEF n, r

(* Pushing something new at the back keeps a sequence free of repetitions. *)
LEMMA PushBack ==
  ASSUME NEW S, NEW q \in Seq(S), NEW e \in S,
         \A i, j \in DOMAIN q : q[i] = q[j] => i = j,
         e \notin Range(q)
  PROVE  LET r == Append(q, e)
         IN /\ r \in Seq(S)
            /\ Len(r) = Len(q) + 1
            /\ r[Len(r)] = e
            /\ \A i, j \in DOMAIN r : r[i] = r[j] => i = j
            /\ Range(r) = Range(q) \cup {e}
<1> DEFINE r == Append(q, e)
<1>1. Len(q) \in Nat /\ DOMAIN q = 1 .. Len(q)
  BY LenProperties
<1>2. /\ r \in Seq(S)
      /\ Len(r) = Len(q) + 1
      /\ \A i \in 1 .. Len(q) : r[i] = q[i]
      /\ r[Len(q) + 1] = e
  BY AppendProperties
<1>3. DOMAIN r = 1 .. Len(q) + 1
  BY <1>2, LenProperties
<1> HIDE DEF r
<1>4. \A i, j \in DOMAIN r : r[i] = r[j] => i = j
  BY <1>1, <1>2, <1>3 DEF Range
<1>5. Range(r) = Range(q) \cup {e}
  <2>1. \A i \in 1 .. Len(q) + 1 : i \in 1 .. Len(q) \/ i = Len(q) + 1
    BY <1>1
  <2>2. Len(q) + 1 \in 1 .. Len(q) + 1 /\ \A i \in 1 .. Len(q) : i \in 1 .. Len(q) + 1
    BY <1>1
  <2>3. \A x : x \in Range(r) <=> \E i \in 1 .. Len(q) + 1 : x = r[i]
    BY <1>3 DEF Range
  <2>4. \A x : x \in Range(q) <=> \E i \in 1 .. Len(q) : x = q[i]
    BY <1>1 DEF Range
  <2> QED BY <2>1, <2>2, <2>3, <2>4, <1>2
<1> QED BY <1>2, <1>4, <1>5 DEF r

(* Popping a queue without repetitions removes exactly its front.          *)
LEMMA PopFront ==
  ASSUME NEW S, NEW q \in Seq(S), q # <<>>,
         \A i, j \in DOMAIN q : q[i] = q[j] => i = j
  PROVE  /\ Tail(q) \in Seq(S)
         /\ Len(Tail(q)) = Len(q) - 1
         /\ Len(q) >= 1
         /\ Head(q) \in S
         /\ Head(q) \in Range(q)
         /\ \A i, j \in DOMAIN Tail(q) : Tail(q)[i] = Tail(q)[j] => i = j
         /\ Range(Tail(q)) = Range(q) \ {Head(q)}
<1> DEFINE r == Tail(q)
           n == Len(q)
<1>1. n \in Nat /\ n >= 1 /\ DOMAIN q = 1 .. n
  <2>1. Len(q) \in Nat /\ DOMAIN q = 1 .. Len(q) /\ Len(q) # 0
    BY EmptySeq, LenProperties
  <2> QED BY <2>1
<1>2. /\ r \in Seq(S)
      /\ Len(r) = n - 1
      /\ \A i \in 1 .. n - 1 : r[i] = q[i + 1]
      /\ Head(q) = q[1]
      /\ Head(q) \in S
  <2>1. Head(q) = q[1] /\ q[1] \in S
    BY <1>1, ElementOfSeq
  <2>2. Tail(q) \in Seq(S) /\ Len(Tail(q)) = Len(q) - 1
    BY HeadTailProperties
  <2>3. \A i \in 1 .. Len(Tail(q)) : Tail(q)[i] = q[i + 1]
    BY HeadTailProperties
  <2> QED BY <2>1, <2>2, <2>3
<1>3. DOMAIN r = 1 .. n - 1
  BY <1>2, LenProperties
<1> HIDE DEF r, n
<1>4. \A i \in 1 .. n - 1 : i \in 1 .. n /\ i + 1 \in 1 .. n /\ i + 1 # 1
  BY <1>1
<1>5. \A i, j \in DOMAIN r : r[i] = r[j] => i = j
  <2> SUFFICES ASSUME NEW i \in 1 .. n - 1, NEW j \in 1 .. n - 1, r[i] = r[j]
               PROVE  i = j
    BY <1>3
  <2>1. q[i + 1] = q[j + 1]
    BY <1>2
  <2>2. i + 1 = j + 1
    BY <2>1, <1>1, <1>4
  <2> QED BY <2>2, <1>1
<1>6. Range(r) = Range(q) \ {q[1]}
  <2>1. \A x : x \in Range(r) <=> \E i \in 1 .. n - 1 : x = q[i + 1]
    BY SMTT(60), <1>2, <1>3 DEF Range
  <2>2. \A x : x \in Range(q) <=> \E i \in 1 .. n : x = q[i]
    BY <1>1 DEF Range
  <2>3. \A i \in 1 .. n - 1 : q[i + 1] # q[1]
    BY <1>1, <1>4
  <2>4. \A i \in 1 .. n : i = 1 \/ (i - 1 \in 1 .. n - 1 /\ (i - 1) + 1 = i)
    BY <1>1
  <2> QED BY <2>1, <2>2, <2>3, <2>4, <1>4
<1>7. q[1] \in Range(q)
  BY <1>1 DEF Range
<1> QED BY <1>1, <1>2, <1>5, <1>6, <1>7 DEF r, n

(* r is q without its element i, in the same order.                        *)
Skips(r, q, i) ==
  \A j \in 1 .. Len(q) - 1 : /\ j < i => r[j] = q[j]
                             /\ ~(j < i) => r[j] = q[j + 1]

(* Taking an element out of the middle of a list without repetitions       *)
(* removes exactly that element.                                           *)
LEMMA TakeOut ==
  ASSUME NEW S, NEW q \in Seq(S), NEW i \in DOMAIN q,
         \A j, k \in DOMAIN q : q[j] = q[k] => j = k
  PROVE  LET r == SubSeq(q, 1, i - 1) \o SubSeq(q, i + 1, Len(q))
         IN /\ r \in Seq(S)
            /\ Len(r) = Len(q) - 1
            /\ \A j, k \in DOMAIN r : r[j] = r[k] => j = k
            /\ Range(r) = Range(q) \ {q[i]}
            /\ Skips(r, q, i)
<1> DEFINE n == Len(q)
           a == SubSeq(q, 1, i - 1)
           b == SubSeq(q, i + 1, n)
           r == a \o b
           old(j) == IF j < i THEN j ELSE j + 1
<1>1. n \in Nat /\ DOMAIN q = 1 .. n /\ i \in 1 .. n
  BY LenProperties
<1>2. \A j \in 1 .. n : q[j] \in S
  BY <1>1, ElementOfSeq
<1>3. a \in Seq(S) /\ Len(a) = i - 1 /\ \A j \in 1 .. i - 1 : a[j] = q[j]
  <2>1. 1 \in Int /\ i - 1 \in Int /\ \A j \in 1 .. i - 1 : q[j] \in S
    BY <1>1, <1>2
  <2>2. /\ a \in Seq(S)
        /\ Len(a) = IF 1 <= i - 1 THEN i - 1 - 1 + 1 ELSE 0
        /\ \A j \in 1 .. i - 1 - 1 + 1 : a[j] = q[1 + j - 1]
    BY <2>1, SubSeqProperties
  <2>3. i - 1 - 1 + 1 = i - 1 /\ (1 <= i - 1 \/ i - 1 = 0)
    BY <1>1
  <2>4. \A j \in 1 .. i - 1 : 1 + j - 1 = j
    BY <1>1
  <2> QED BY <2>2, <2>3, <2>4
<1>4. b \in Seq(S) /\ Len(b) = n - i /\ \A j \in 1 .. n - i : b[j] = q[j + i]
  <2>1. i + 1 \in Int /\ n \in Int /\ \A j \in i + 1 .. n : q[j] \in S
    BY <1>1, <1>2
  <2>2. /\ b \in Seq(S)
        /\ Len(b) = IF i + 1 <= n THEN n - (i + 1) + 1 ELSE 0
        /\ \A j \in 1 .. n - (i + 1) + 1 : b[j] = q[i + 1 + j - 1]
    BY <2>1, SubSeqProperties
  <2>3. n - (i + 1) + 1 = n - i /\ (i + 1 <= n \/ n - i = 0)
    BY <1>1
  <2>4. \A j \in 1 .. n - i : i + 1 + j - 1 = j + i
    BY <1>1
  <2> QED BY <2>2, <2>3, <2>4
<1> HIDE DEF a, b
<1>5. r \in Seq(S) /\ Len(r) = n - 1
  <2>1. r \in Seq(S) /\ Len(r) = Len(a) + Len(b)
    BY <1>3, <1>4, ConcatProperties
  <2> QED BY <2>1, <1>1, <1>3, <1>4
<1>6. \A j \in 1 .. n - 1 : r[j] = q[old(j)]
  <2> SUFFICES ASSUME NEW j \in 1 .. n - 1 PROVE r[j] = q[old(j)]
    OBVIOUS
  <2>1. r[j] = IF j <= i - 1 THEN a[j] ELSE b[j - (i - 1)]
    BY <1>1, <1>3, <1>4, ConcatProperties
  <2>2. CASE j < i
    BY <2>1, <2>2, <1>1, <1>3
  <2>3. CASE ~(j < i)
    <3>1. j - (i - 1) \in 1 .. n - i /\ j - (i - 1) + i = j + 1 /\ ~(j <= i - 1)
      BY <1>1, <2>3
    <3> QED BY <3>1, <2>1, <2>3, <1>4
  <2> QED BY <2>2, <2>3
<1>7. DOMAIN r = 1 .. n - 1
  BY <1>5, LenProperties
<1>8. /\ \A j \in 1 .. n - 1 : old(j) \in 1 .. n /\ old(j) # i
      /\ \A j, k \in 1 .. n - 1 : old(j) = old(k) => j = k
      /\ \A j \in 1 .. n : j = i \/ \E k \in 1 .. n - 1 : old(k) = j
  <2>1. ASSUME NEW j \in 1 .. n, j # i
        PROVE  \E k \in 1 .. n - 1 : old(k) = j
    <3>1. CASE j < i
      <4>1. j \in 1 .. n - 1 /\ old(j) = j
        BY <1>1, <3>1
      <4> QED BY <4>1
    <3>2. CASE ~(j < i)
      <4>1. j - 1 \in 1 .. n - 1 /\ old(j - 1) = j
        BY <1>1, <2>1, <3>2
      <4> QED BY <4>1
    <3> QED BY <3>1, <3>2
  <2>2. /\ \A j \in 1 .. n - 1 : old(j) \in 1 .. n /\ old(j) # i
        /\ \A j, k \in 1 .. n - 1 : old(j) = old(k) => j = k
    BY <1>1
  <2> QED BY <2>1, <2>2
<1> HIDE DEF r, n, old
<1>9. \A j, k \in DOMAIN r : r[j] = r[k] => j = k
  BY <1>1, <1>6, <1>7, <1>8
<1>10. Range(r) = Range(q) \ {q[i]}
  <2>1. \A x : x \in Range(r) <=> \E j \in 1 .. n - 1 : x = q[old(j)]
    BY <1>6, <1>7 DEF Range
  <2>2. \A x : x \in Range(q) <=> \E j \in 1 .. n : x = q[j]
    BY <1>1 DEF Range
  <2> QED BY <2>1, <2>2, <1>1, <1>8
<1>11. Skips(r, q, i)
  BY <1>6 DEF Skips, n, old
<1> QED BY <1>5, <1>9, <1>10, <1>11 DEF r, n, a, b

-----------------------------------------------------------------------------
(* Tables of slots that name different things, or nothing.                 *)

(* What a table names after one slot was set to something new or cleared.  *)
LEMMA SetSlot ==
  ASSUME NEW H, NEW S, NEW nothing, NEW f \in [H -> S \cup {nothing}],
         \A g, h \in H : f[g] = f[h] /\ f[g] # nothing => g = h,
         NEW a \in H, NEW x \in S \cup {nothing},
         x # nothing => \A h \in H : f[h] # x,
         NEW e, e = [f EXCEPT ![a] = x]
  PROVE  /\ e \in [H -> S \cup {nothing}]
         /\ \A g, h \in H : e[g] = e[h] /\ e[g] # nothing => g = h
         /\ {e[h] : h \in H} \ {nothing} =
              (({f[h] : h \in H} \ {nothing}) \ {f[a]}) \cup ({x} \ {nothing})
<1>1. e[a] = x /\ \A h \in H \ {a} : e[h] = f[h]
  OBVIOUS
<1>2. \A g, h \in H : e[g] = e[h] /\ e[g] # nothing => g = h
  BY <1>1
<1>3. {e[h] : h \in H} = {f[h] : h \in H \ {a}} \cup {x}
  BY <1>1
<1>4. {f[h] : h \in H \ {a}} \ {nothing} = ({f[h] : h \in H} \ {nothing}) \ {f[a]}
  OBVIOUS
<1> QED BY <1>2, <1>3, <1>4

-----------------------------------------------------------------------------
(* Smallest elements.                                                      *)

(* A set of natural numbers that is not empty has a smallest element.      *)
LEMMA LeastElement ==
  ASSUME NEW T \in SUBSET Nat, T # {}
  PROVE  \E x \in T : \A y \in T : x <= y
<1>1. PICK x \in T : \A y \in T : ~ (<<y, x>> \in OpToRel(<, Nat))
  BY NatLessThanWellFounded, WFMin
<1>2. \A y \in T : ~ (y < x)
  BY <1>1 DEF OpToRel
<1> QED BY <1>2

(* Induction, for a set of natural numbers.                                *)
LEMMA ByInduction ==
  ASSUME NEW T \in SUBSET Nat, 0 \in T, \A n \in T : n + 1 \in T
  PROVE  T = Nat
<1> SUFFICES ASSUME Nat \ T # {} PROVE FALSE
  OBVIOUS
<1>1. PICK x \in Nat \ T : \A y \in Nat \ T : x <= y
  BY LeastElement
<1>2. x # 0 /\ x \in Nat
  OBVIOUS
<1>3. x - 1 \in Nat /\ ~(x <= x - 1) /\ (x - 1) + 1 = x
  BY <1>2
<1>4. x - 1 \in T
  BY <1>1, <1>3
<1>5. x \in T
  BY <1>3, <1>4
<1> QED BY <1>5

-----------------------------------------------------------------------------
(* How many things a container names.                                      *)

(* A table names at most one thing per slot.                               *)
LEMMA ImageCount ==
  ASSUME NEW H, IsFiniteSet(H), NEW f, DOMAIN f = H
  PROVE  /\ IsFiniteSet({f[h] : h \in H})
         /\ Cardinality({f[h] : h \in H}) <= Cardinality(H)
<1> DEFINE T == {f[h] : h \in H}
           e == [h \in H |-> f[h]]
<1>1. e \in Surjection(H, T)
  BY DEF Surjection
<1> HIDE DEF e
<1> QED BY <1>1, FS_Surjection

(* A sequence without repetitions names as many things as it is long.      *)
LEMMA DistinctCount ==
  ASSUME NEW S, NEW q \in Seq(S),
         \A i, j \in DOMAIN q : q[i] = q[j] => i = j
  PROVE  IsFiniteSet(Range(q)) /\ Cardinality(Range(q)) = Len(q)
<1>1. Len(q) \in Nat /\ DOMAIN q = 1 .. Len(q)
  BY LenProperties
<1>2. q \in [1 .. Len(q) -> Range(q)]
  <2>1. q = [i \in 1 .. Len(q) |-> q[i]]
    BY <1>1
  <2>2. \A i \in 1 .. Len(q) : q[i] \in Range(q)
    BY <1>1 DEF Range
  <2> QED BY <2>1, <2>2
<1>3. q \in Surjection(1 .. Len(q), Range(q)) /\ q \in Injection(1 .. Len(q), Range(q))
  BY <1>1, <1>2 DEF Surjection, Injection, IsInjective, Range
<1>4. IsFiniteSet(1 .. Len(q)) /\ Cardinality(1 .. Len(q)) = Len(q)
  BY <1>1, FS_Interval
<1> QED BY <1>3, <1>4, FS_Surjection

-----------------------------------------------------------------------------
(* Sums.  A sum takes one index after the other, in the order CHOOSE makes *)
(* up; the facts below say that the order is of no concern.                *)

Taken(s) == CHOOSE i \in s : TRUE

Partial(it, f, D) ==
  it = [s \in D |-> IF s = {} THEN 0 ELSE it[s \ {Taken(s)}] + f[Taken(s)]]

(* The sets of at most n indices.                                          *)
UpTo(S, n) == {s \in SUBSET S : Cardinality(s) <= n}

(* Taking an index leaves one index less.                                  *)
LEMMA TakeOne ==
  ASSUME NEW S, IsFiniteSet(S), NEW s \in SUBSET S
  PROVE  /\ IsFiniteSet(s) /\ Cardinality(s) \in Nat
         /\ Cardinality(s) = 0 <=> s = {}
         /\ s # {} => /\ Taken(s) \in s
                      /\ s \ {Taken(s)} \in SUBSET S
                      /\ Cardinality(s \ {Taken(s)}) = Cardinality(s) - 1
<1>1. IsFiniteSet(s) /\ Cardinality(s) \in Nat /\ (Cardinality(s) = 0 <=> s = {})
  BY FS_Subset, FS_CardinalityType, FS_EmptySet
<1>2. s # {} => Taken(s) \in s
  BY DEF Taken
<1>3. s # {} => Cardinality(s \ {Taken(s)}) = Cardinality(s) - 1
  BY <1>1, <1>2, FS_RemoveElement
<1> QED BY <1>1, <1>2, <1>3

(* The partial sums of the sets of at most n indices exist.                *)
LEMMA PartialSums ==
  ASSUME NEW S, IsFiniteSet(S), NEW f
  PROVE  \E it : Partial(it, f, SUBSET S)
<1> DEFINE T == {n \in Nat : \E it : Partial(it, f, UpTo(S, n))}
<1>1. 0 \in T
  <2> DEFINE it == [s \in UpTo(S, 0) |-> 0]
  <2>1. ASSUME NEW s \in UpTo(S, 0)
        PROVE  s = {}
    <3>1. s \in SUBSET S /\ Cardinality(s) <= 0
      BY DEF UpTo
    <3>2. Cardinality(s) \in Nat /\ (Cardinality(s) = 0 <=> s = {})
      BY <3>1, TakeOne
    <3> QED BY <3>1, <3>2
  <2>2. Partial(it, f, UpTo(S, 0))
    BY <2>1 DEF Partial
  <2> QED BY <2>2
<1>2. ASSUME NEW n \in T
      PROVE  n + 1 \in T
  <2>1. PICK it : Partial(it, f, UpTo(S, n))
    OBVIOUS
  <2> DEFINE D == UpTo(S, n)
             E == UpTo(S, n + 1)
             next == [s \in E |-> IF s \in D THEN it[s]
                                  ELSE it[s \ {Taken(s)}] + f[Taken(s)]]
  <2>2. \A s \in E : s # {} => s \ {Taken(s)} \in D
    BY TakeOne DEF UpTo
  <2>3. \A s \in D : s \in E /\ (s # {} => s \ {Taken(s)} \in E)
    BY TakeOne DEF UpTo
  <2>4. {} \in SUBSET S /\ Cardinality({}) = 0
    BY FS_EmptySet
  <2>5. \A s \in E : s = {} => s \in D
    BY <2>4 DEF UpTo
  <2>6. \A s \in D : it[s] = IF s = {} THEN 0 ELSE it[s \ {Taken(s)}] + f[Taken(s)]
    BY <2>1 DEF Partial
  <2> HIDE DEF D, E
  <2>7. \A s \in D : next[s] = it[s]
    BY <2>3
  <2>8. \A s \in E : s # {} => next[s \ {Taken(s)}] = it[s \ {Taken(s)}]
    BY <2>2, <2>7
  <2>9. \A s \in E : next[s] = IF s = {} THEN 0 ELSE next[s \ {Taken(s)}] + f[Taken(s)]
    BY <2>5, <2>6, <2>8
  <2>10. Partial(next, f, E)
    BY <2>9 DEF Partial
  <2> QED BY <2>10 DEF E
<1>3. T = Nat
  <2> HIDE DEF T
  <2>1. T \in SUBSET Nat
    BY DEF T
  <2> QED BY <1>1, <1>2, <2>1, ByInduction
<1>4. Cardinality(S) \in T
  BY <1>3, FS_CardinalityType
<1>5. UpTo(S, Cardinality(S)) = SUBSET S
  BY FS_Subset DEF UpTo
<1> QED BY <1>4, <1>5

SumOver(f, S) == (CHOOSE it : Partial(it, f, SUBSET S))[S]

Ints(f, S) == \A i \in S : f[i] \in Int
SameOn(f, g, S) == \A i \in S : f[i] = g[i]
Shifted(f, g, a, c) == \A i \in a .. c : g[i] = f[i + 1]

(* Partial sums of the same set agree, whatever else they are sums of.     *)
LEMMA PartialsAgree ==
  ASSUME NEW S, NEW T, NEW f, NEW g, NEW a, NEW b,
         Partial(a, f, SUBSET S), Partial(b, g, SUBSET T),
         IsFiniteSet(S), T \in SUBSET S, SameOn(f, g, T)
  PROVE  a[T] = b[T]
<1> DEFINE N == {n \in Nat : \A s \in SUBSET T : Cardinality(s) = n => a[s] = b[s]}
<1>1. IsFiniteSet(T)
  BY FS_Subset
<1>2. 0 \in N
  <2> SUFFICES ASSUME NEW s \in SUBSET T, Cardinality(s) = 0 PROVE a[s] = b[s]
    OBVIOUS
  <2>1. s = {}
    BY <1>1, TakeOne
  <2> QED BY <2>1 DEF Partial
<1>3. ASSUME NEW n \in N
      PROVE  n + 1 \in N
  <2> SUFFICES ASSUME NEW s \in SUBSET T, Cardinality(s) = n + 1 PROVE a[s] = b[s]
    OBVIOUS
  <2> DEFINE y == Taken(s)
             r == s \ {y}
  <2>1. s # {} /\ y \in s /\ r \in SUBSET T /\ Cardinality(r) = n
    BY <1>1, TakeOne
  <2>2. a[r] = b[r] /\ f[y] = g[y]
    BY <2>1 DEF SameOn
  <2>3. a[s] = a[r] + f[y] /\ b[s] = b[r] + g[y]
    BY <2>1 DEF Partial
  <2> QED BY <2>2, <2>3
<1>4. N = Nat
  <2> HIDE DEF N
  <2>1. N \in SUBSET Nat
    BY DEF N
  <2> QED BY <1>2, <1>3, <2>1, ByInduction
<1> QED BY <1>1, <1>4, FS_CardinalityType

LEMMA PartialsOfOne ==
  ASSUME NEW S, NEW T, NEW f, NEW a, NEW b, Partial(a, f, SUBSET S),
         Partial(b, f, SUBSET T), IsFiniteSet(S), T \in SUBSET S
  PROVE  a[T] = b[T]
<1>1. SameOn(f, f, T)
  BY DEF SameOn
<1> QED BY <1>1, PartialsAgree

(* A sum is about the values of its indices only.                          *)
LEMMA SumOfSame ==
  ASSUME NEW S, NEW f, NEW g, IsFiniteSet(S), SameOn(f, g, S)
  PROVE  SumOver(f, S) = SumOver(g, S)
<1> DEFINE a == CHOOSE it : Partial(it, f, SUBSET S)
           b == CHOOSE it : Partial(it, g, SUBSET S)
<1>1. Partial(a, f, SUBSET S) /\ Partial(b, g, SUBSET S)
  BY PartialSums
<1>2. SumOver(f, S) = a[S] /\ SumOver(g, S) = b[S]
  BY DEF SumOver
<1> HIDE DEF a, b
<1>3. S \in SUBSET S
  OBVIOUS
<1>4. a[S] = b[S]
  BY <1>1, <1>3, PartialsAgree
<1> QED BY <1>2, <1>4

(* The order CHOOSE takes the indices in.                                  *)
LEMMA SumTakesOne ==
  ASSUME NEW S, IsFiniteSet(S), NEW f
  PROVE  SumOver(f, S) = IF S = {} THEN 0 ELSE SumOver(f, S \ {Taken(S)}) + f[Taken(S)]
<1> DEFINE a == CHOOSE it : Partial(it, f, SUBSET S)
           T == S \ {Taken(S)}
           b == CHOOSE it : Partial(it, f, SUBSET T)
<1>1. IsFiniteSet(T) /\ T \in SUBSET S
  BY FS_Subset
<1> HIDE DEF T
<1>2. Partial(a, f, SUBSET S) /\ Partial(b, f, SUBSET T)
  BY <1>1, PartialSums
<1>3. SumOver(f, S) = a[S] /\ SumOver(f, T) = b[T]
  BY DEF SumOver
<1> HIDE DEF a, b
<1>4. a[T] = b[T]
  BY SMTT(60), ZenonT(60), <1>1, <1>2, PartialsOfOne
<1>5. S \in SUBSET S
  OBVIOUS
<1>6. a[S] = IF S = {} THEN 0 ELSE a[T] + f[Taken(S)]
  BY <1>2, <1>5 DEF Partial, T
<1> QED BY <1>3, <1>4, <1>6 DEF T

LEMMA SumType ==
  ASSUME NEW S, NEW f, IsFiniteSet(S), Ints(f, S)
  PROVE  SumOver(f, S) \in Int
<1> DEFINE N == {n \in Nat : \A s \in SUBSET S : Cardinality(s) = n => SumOver(f, s) \in Int}
<1>1. 0 \in N
  <2> SUFFICES ASSUME NEW s \in SUBSET S, Cardinality(s) = 0 PROVE SumOver(f, s) \in Int
    OBVIOUS
  <2>1. s = {} /\ IsFiniteSet(s)
    BY TakeOne
  <2>2. SumOver(f, s) = 0
    BY <2>1, SumTakesOne
  <2> QED BY <2>2
<1>2. ASSUME NEW n \in N
      PROVE  n + 1 \in N
  <2> n \in Nat
    OBVIOUS
  <2> SUFFICES ASSUME NEW s \in SUBSET S, Cardinality(s) = n + 1 PROVE SumOver(f, s) \in Int
    OBVIOUS
  <2> DEFINE x == Taken(s)
             r == s \ {x}
  <2>1. s # {} /\ x \in s /\ r \in SUBSET S /\ Cardinality(r) = n /\ IsFiniteSet(s)
    <3> HIDE DEF N
    <3> QED BY TakeOne
  <2>2. SumOver(f, r) \in Int /\ f[x] \in Int
    BY <2>1 DEF Ints
  <2>3. SumOver(f, s) = SumOver(f, r) + f[x]
    BY <2>1, SumTakesOne
  <2> QED BY <2>2, <2>3
<1>3. N = Nat
  <2> HIDE DEF N
  <2>1. N \in SUBSET Nat
    BY DEF N
  <2> QED BY <1>1, <1>2, <2>1, ByInduction
<1> QED BY <1>3, FS_CardinalityType

(* Any index may be taken off.                                             *)
LEMMA SumTakesAny ==
  ASSUME NEW S, NEW f, IsFiniteSet(S), Ints(f, S)
  PROVE  \A j \in S : SumOver(f, S) = SumOver(f, S \ {j}) + f[j]
<1> DEFINE Right(s) == \A j \in s : SumOver(f, s) = SumOver(f, s \ {j}) + f[j]
           N == {n \in Nat : \A s \in SUBSET S : Cardinality(s) = n => Right(s)}
<1>1. 0 \in N
  BY TakeOne
<1>2. ASSUME NEW n \in N
      PROVE  n + 1 \in N
  <2> n \in Nat
    OBVIOUS
  <2> SUFFICES ASSUME NEW s \in SUBSET S, Cardinality(s) = n + 1, NEW j \in s
               PROVE  SumOver(f, s) = SumOver(f, s \ {j}) + f[j]
    OBVIOUS
  <2> DEFINE x == Taken(s)
             r == s \ {x}
             t == s \ {j}
  <2>1. s # {} /\ x \in s /\ r \in SUBSET S /\ Cardinality(r) = n /\ IsFiniteSet(s)
    <3> HIDE DEF N
    <3> QED BY TakeOne
  <2>2. SumOver(f, s) = SumOver(f, r) + f[x]
    BY <2>1, SumTakesOne
  <2>3. Right(r)
    BY <2>1
  <2> HIDE DEF x
  <2>4. CASE x = j
    BY <2>2, <2>4
  <2>5. CASE x # j
    <3>1. x \in t /\ j \in r /\ t \in SUBSET S /\ r \ {j} = t \ {x}
      BY <2>1, <2>5
    <3>2. Right(t)
      BY <2>1, <3>1, FS_RemoveElement
    <3>3. SumOver(f, r) = SumOver(f, t \ {x}) + f[j] /\ SumOver(f, t) = SumOver(f, t \ {x}) + f[x]
      BY <2>3, <3>1, <3>2
    <3>4. SumOver(f, t \ {x}) \in Int /\ f[x] \in Int /\ f[j] \in Int
      <4>1. IsFiniteSet(t \ {x}) /\ Ints(f, t \ {x})
        BY <2>1, <3>1, FS_Subset DEF Ints
      <4>2. SumOver(f, t \ {x}) \in Int
        BY <4>1, SumType
      <4> QED BY <2>1, <4>2 DEF Ints
    <3> HIDE DEF t, r
    <3> QED BY <2>2, <3>3, <3>4 DEF t
  <2> QED BY <2>4, <2>5
<1>3. N = Nat
  <2> HIDE DEF N
  <2>1. N \in SUBSET Nat
    BY DEF N
  <2> QED BY <1>1, <1>2, <2>1, ByInduction
<1> QED BY <1>3, FS_CardinalityType

(* One value changes.                                                      *)
LEMMA SumChangesAt ==
  ASSUME NEW S, NEW f, NEW g, NEW j, IsFiniteSet(S), j \in S, Ints(f, S), Ints(g, S),
         SameOn(f, g, S \ {j})
  PROVE  SumOver(g, S) = SumOver(f, S) - f[j] + g[j]
<1> DEFINE T == S \ {j}
<1>1. IsFiniteSet(T) /\ Ints(f, T) /\ f[j] \in Int
  BY FS_Subset DEF Ints
<1>2. SumOver(f, S) = SumOver(f, T) + f[j]
  BY SumTakesAny
<1>3. SumOver(g, S) = SumOver(g, T) + g[j]
  BY SumTakesAny
<1> HIDE DEF T
<1>4. SumOver(f, T) = SumOver(g, T)
  BY <1>1, SumOfSame DEF T
<1>5. SumOver(f, T) \in Int
  BY <1>1, SumType
<1>6. g[j] \in Int
  BY DEF Ints
<1> QED BY <1>1, <1>2, <1>3, <1>4, <1>5, <1>6

(* Sums over intervals.                                                    *)
LEMMA SumOfNone ==
  ASSUME NEW f
  PROVE  SumOver(f, {}) = 0
BY SumTakesOne, FS_EmptySet

LEMMA SumOfInterval ==
  ASSUME NEW f, NEW a, NEW b, a \in Nat, b \in Nat, a <= b, Ints(f, a .. b)
  PROVE  /\ SumOver(f, a .. b) \in Int
         /\ SumOver(f, a .. b) = SumOver(f, a .. b - 1) + f[b]
         /\ SumOver(f, a .. b) = SumOver(f, a + 1 .. b) + f[a]
<1>1. IsFiniteSet(a .. b)
  BY FS_Interval
<1>2. a \in a .. b /\ b \in a .. b
  OBVIOUS
<1>3. (a .. b) \ {b} = a .. b - 1 /\ (a .. b) \ {a} = a + 1 .. b
  OBVIOUS
<1>4. SumOver(f, a .. b) \in Int
  BY <1>1, SumType
<1>5. SumOver(f, a .. b) = SumOver(f, (a .. b) \ {b}) + f[b]
  BY <1>1, <1>2, SumTakesAny
<1>6. SumOver(f, a .. b) = SumOver(f, (a .. b) \ {a}) + f[a]
  BY <1>1, <1>2, SumTakesAny
<1> QED BY <1>3, <1>4, <1>5, <1>6

LEMMA SumOfSingle ==
  ASSUME NEW f, NEW a, a \in Nat, f[a] \in Int
  PROVE  SumOver(f, a .. a) = f[a]
<1>1. Ints(f, a .. a) /\ a <= a
  <2>1. \A i \in a .. a : i = a
    OBVIOUS
  <2> QED BY <2>1 DEF Ints
<1>2. SumOver(f, a .. a) = SumOver(f, a .. a - 1) + f[a]
  BY <1>1, SumOfInterval
<1>3. a .. a - 1 = {}
  OBVIOUS
<1> QED BY <1>2, <1>3, SumOfNone

(* Zeros add nothing.                                                      *)
LEMMA SumOfZeros ==
  ASSUME NEW f, NEW a, NEW b, NEW c, a \in Nat, b \in Nat, c \in Nat, a <= b, b <= c,
         Ints(f, a .. c), \A i \in b + 1 .. c : f[i] = 0
  PROVE  SumOver(f, a .. c) = SumOver(f, a .. b)
<1> DEFINE N == {n \in Nat : b + n <= c => SumOver(f, a .. b + n) = SumOver(f, a .. b)}
<1>1. 0 \in N
  OBVIOUS
<1>2. ASSUME NEW n \in N
      PROVE  n + 1 \in N
  <2> SUFFICES ASSUME b + (n + 1) <= c
               PROVE  SumOver(f, a .. b + (n + 1)) = SumOver(f, a .. b)
    OBVIOUS
  <2> DEFINE m == b + (n + 1)
  <2>1. n \in Nat /\ m \in Nat /\ a <= m /\ m \in b + 1 .. c /\ m - 1 = b + n /\ m <= c
    OBVIOUS
  <2>2. SumOver(f, a .. b + n) = SumOver(f, a .. b)
    BY <2>1
  <2>3. Ints(f, a .. m) /\ Ints(f, a .. b)
    <3>1. \A i \in a .. m : i \in a .. c
      BY <2>1
    <3>2. \A i \in a .. b : i \in a .. c
      OBVIOUS
    <3> QED BY <3>1, <3>2 DEF Ints
  <2>4. f[m] = 0
    BY <2>1
  <2> HIDE DEF N, m
  <2>5. SumOver(f, a .. m) = SumOver(f, a .. m - 1) + f[m]
    BY <2>1, <2>3, SumOfInterval
  <2>6. SumOver(f, a .. b) \in Int
    BY <2>3, SumOfInterval
  <2> QED BY <2>1, <2>2, <2>4, <2>5, <2>6 DEF m
<1>3. c - b \in N
  <2> HIDE DEF N
  <2>1. N \in SUBSET Nat
    BY DEF N
  <2>2. N = Nat
    BY <1>1, <1>2, <2>1, ByInduction
  <2> QED BY <2>2
<1>4. b + (c - b) = c
  OBVIOUS
<1> QED BY <1>3, <1>4

(* All indices move down by one.                                           *)
LEMMA SumShifts ==
  ASSUME NEW f, NEW g, NEW a, NEW c, a \in Nat, c \in Nat, a <= c, Ints(f, a + 1 .. c + 1),
         Shifted(f, g, a, c)
  PROVE  SumOver(g, a .. c) = SumOver(f, a + 1 .. c + 1)
<1> USE DEF Shifted
<1> DEFINE N == {n \in Nat : a + n <= c =>
                   SumOver(g, a .. a + n) = SumOver(f, a + 1 .. (a + n) + 1)}
           b == a + 1
<1>1. 0 \in N
  <2>1. a \in a .. c /\ b \in a + 1 .. c + 1 /\ b \in Nat
    OBVIOUS
  <2>2. g[a] = f[b] /\ f[b] \in Int
    BY <2>1 DEF Ints
  <2> HIDE DEF b
  <2>3. SumOver(g, a .. a) = g[a]
    BY <2>2, SumOfSingle
  <2>4. SumOver(f, b .. b) = f[b]
    BY <2>1, <2>2, SumOfSingle
  <2>5. a + 0 = a /\ (a + 0) + 1 = b
    BY DEF b
  <2> QED BY <2>2, <2>3, <2>4, <2>5 DEF b
<1>2. ASSUME NEW n \in N
      PROVE  n + 1 \in N
  <2> SUFFICES ASSUME a + (n + 1) <= c
               PROVE  SumOver(g, a .. a + (n + 1)) = SumOver(f, b .. (a + (n + 1)) + 1)
    OBVIOUS
  <2> DEFINE m == a + (n + 1)
             k == m + 1
  <2>1. /\ n \in Nat /\ m \in Nat /\ a <= m /\ m \in a .. c /\ m - 1 = a + n /\ m <= c
        /\ b \in Nat /\ k \in Nat /\ b <= k /\ k - 1 = (a + n) + 1
    OBVIOUS
  <2>2. SumOver(g, a .. a + n) = SumOver(f, b .. (a + n) + 1)
    BY <2>1
  <2>3. Ints(g, a .. m) /\ Ints(f, b .. k)
    <3>1. \A i \in b .. k : i \in a + 1 .. c + 1
      BY <2>1
    <3>2. \A i \in a .. m : i \in a .. c /\ i + 1 \in a + 1 .. c + 1
      BY <2>1
    <3> QED BY <3>1, <3>2 DEF Ints
  <2>4. g[m] = f[k]
    BY <2>1
  <2> HIDE DEF N, m, k, b
  <2>5. SumOver(g, a .. m) = SumOver(g, a .. m - 1) + g[m]
    BY <2>1, <2>3, SumOfInterval
  <2>6. SumOver(f, b .. k) = SumOver(f, b .. k - 1) + f[k]
    BY <2>1, <2>3, SumOfInterval
  <2>7. SumOver(g, a .. m) = SumOver(f, b .. k)
    BY <2>1, <2>2, <2>4, <2>5, <2>6
  <2> QED BY <2>7 DEF m, k
<1>3. c - a \in N
  <2> HIDE DEF N
  <2>1. N \in SUBSET Nat
    BY DEF N
  <2>2. N = Nat
    BY <1>1, <1>2, <2>1, ByInduction
  <2> QED BY <2>2
<1>4. a + (c - a) = c
  OBVIOUS
<1> QED BY <1>3, <1>4

=============================================================================
