---------------------------- MODULE NamingProofs ----------------------------
(***************************************************************************)
(* Proofs about the wire's names: the pending queues against the sets they *)
(* stand for, the server's slot table against the naming contract, and the *)
(* manifest lane, for any entities, slots, quarantine and caps.            *)
(***************************************************************************)
EXTENDS MCNaming, SequenceTheorems, FiniteSetTheorems, WellFoundedInduction, TLAPS

-----------------------------------------------------------------------------
(* Loops over finite sets of numbers.                                      *)

\* The member a loop takes last.
Greatest(S) == CHOOSE x \in S : \A y \in S : x >= y

\* What holds of zero and passes from each natural to the next holds of all.
LEMMA EveryNatural ==
    ASSUME NEW A, 0 \in A, \A n \in Nat : n \in A => n + 1 \in A
    PROVE  \A n \in Nat : n \in A
<1> DEFINE Bad == {n \in Nat : n \notin A}
<1>1. SUFFICES ASSUME Bad # {} PROVE FALSE
  OBVIOUS
<1>2. Bad \in SUBSET Nat
  OBVIOUS
<1>3. PICK m \in Bad : \A y \in Bad : m <= y
  <2>1. PICK x \in Bad : \A y \in Bad : ~(<<y, x>> \in OpToRel(<, Nat))
    BY <1>1, <1>2, NatLessThanWellFounded, WFMin
  <2>2. \A y \in Bad : ~(y < x)
    BY <1>2, <2>1 DEF OpToRel
  <2> QED  BY <1>2, <2>2
<1>4. m \in Nat /\ m \notin A /\ m # 0
  BY <1>3
<1>5. m - 1 \in Nat /\ (m - 1) + 1 = m /\ ~(m <= m - 1)
  BY <1>4
<1>6. m - 1 \in A
  BY <1>3, <1>5
<1> QED  BY <1>4, <1>5, <1>6

\* One member fewer.
LEMMA OneFewer ==
    ASSUME NEW T, IsFiniteSet(T), NEW s \in SUBSET T, NEW x \in s
    PROVE  /\ s \ {x} \in SUBSET T
           /\ Cardinality(s) \in Nat \ {0} /\ Cardinality(s \ {x}) = Cardinality(s) - 1
<1>1. IsFiniteSet(s)
  BY FS_Subset
<1>2. Cardinality(s) \in Nat /\ Cardinality(s) # 0
  BY <1>1, FS_CardinalityType, FS_EmptySet
<1>3. Cardinality(s \ {x}) = Cardinality(s) - 1
  BY <1>1, FS_RemoveElement
<1> QED  BY <1>2, <1>3

\* A finite set of numbers that has a member has a greatest one.
LEMMA SomeGreatest ==
    ASSUME NEW T, IsFiniteSet(T), T \subseteq Nat, T # {}
    PROVE  Greatest(T) \in T /\ \A y \in T : y <= Greatest(T)
<1> DEFINE Has(s) == s = {} \/ \E x \in s : \A y \in s : y <= x
           A == {n \in Nat : \A s \in SUBSET T : Cardinality(s) = n => Has(s)}
<1>1. 0 \in A
  <2>1. ASSUME NEW s \in SUBSET T, Cardinality(s) = 0 PROVE s = {}
    BY <2>1, OneFewer
  <2> QED  BY <2>1
<1>2. ASSUME NEW n \in Nat, n \in A PROVE n + 1 \in A
  <2>1. ASSUME NEW s \in SUBSET T, Cardinality(s) = n + 1 PROVE Has(s)
    <3>1. SUFFICES ASSUME s # {} PROVE \E x \in s : \A y \in s : y <= x
      OBVIOUS
    <3>2. PICK z \in s : TRUE
      BY <3>1
    <3>3. s \ {z} \in SUBSET T /\ Cardinality(s \ {z}) = n
      <4> HIDE DEF A, Has
      <4>1. s \ {z} \in SUBSET T /\ Cardinality(s \ {z}) = Cardinality(s) - 1
        BY OneFewer
      <4> QED  BY <2>1, <4>1
    <3>4. Has(s \ {z})
      BY <1>2, <3>3
    <3>5. CASE s \ {z} = {}
      <4>1. \A y \in s : y = z
        BY <3>5
      <4> QED  BY <3>2, <4>1
    <3>6. CASE \E x \in s \ {z} : \A y \in s \ {z} : y <= x
      <4>1. PICK x \in s \ {z} : \A y \in s \ {z} : y <= x
        BY <3>6
      <4>2. CASE z <= x
        BY <4>1, <4>2
      <4>3. CASE ~(z <= x)
        <5>1. \A y \in s : y <= z
          BY <4>1, <4>3
        <5> QED  BY <5>1
      <4> QED  BY <4>2, <4>3
    <3> QED  BY <3>4, <3>5, <3>6
  <2> HIDE DEF Has
  <2> QED  BY <2>1
<1>3. Cardinality(T) \in Nat
  BY FS_CardinalityType
<1> HIDE DEF A
<1>4. Cardinality(T) \in A
  BY <1>1, <1>2, <1>3, EveryNatural
<1>5. Has(T)
  BY <1>4 DEF A
<1>6. PICK x \in T : \A y \in T : y <= x
  BY <1>5
<1>7. \A y \in T : x >= y
  BY <1>6
<1> QED  BY <1>7 DEF Greatest

\* A loop over T that starts from base and takes the members in ascending order.
Loops(F, base, T, h) ==
    /\ h[{}] = base
    /\ \A s \in SUBSET T : s # {} => h[s] = F[<<Greatest(s), h[s \ {Greatest(s)}]>>]

LEMMA LoopExists ==
    ASSUME NEW T, IsFiniteSet(T), T \subseteq Nat, NEW V, NEW base \in V,
           NEW F \in [T \X V -> V]
    PROVE  \E h \in [SUBSET T -> V] : Loops(F, base, T, h)
<1> DEFINE Upto(h, n) == /\ h[{}] = base
                         /\ \A s \in SUBSET T : s # {} /\ Cardinality(s) <= n
                               => h[s] = F[<<Greatest(s), h[s \ {Greatest(s)}]>>]
           A == {n \in Nat : \E h \in [SUBSET T -> V] : Upto(h, n)}
<1>0. ASSUME NEW s \in SUBSET T, s # {}
      PROVE  /\ Greatest(s) \in T /\ s \ {Greatest(s)} \in SUBSET T
             /\ Cardinality(s) \in Nat \ {0}
             /\ Cardinality(s \ {Greatest(s)}) = Cardinality(s) - 1
  <2>1. Greatest(s) \in s
    BY <1>0, FS_Subset, SomeGreatest
  <2> QED  BY <2>1, OneFewer
<1>1. 0 \in A
  <2> DEFINE h == [s \in SUBSET T |-> base]
  <2>1. h \in [SUBSET T -> V] /\ h[{}] = base
    OBVIOUS
  <2>2. ASSUME NEW s \in SUBSET T, s # {} PROVE ~(Cardinality(s) <= 0)
    <3>1. Cardinality(s) \in Nat \ {0}
      BY <1>0, <2>2
    <3> QED  BY <3>1
  <2>3. Upto(h, 0)
    BY <2>1, <2>2
  <2> QED  BY <2>1, <2>3
<1>2. ASSUME NEW n \in Nat, n \in A PROVE n + 1 \in A
  <2>1. PICK h \in [SUBSET T -> V] : Upto(h, n)
    BY <1>2
  <2> DEFINE g == [s \in SUBSET T |-> IF s = {} \/ Cardinality(s) <= n THEN h[s]
                                      ELSE F[<<Greatest(s), h[s \ {Greatest(s)}]>>]]
  <2>2. ASSUME NEW s \in SUBSET T PROVE g[s] \in V
    <3>1. CASE s = {} \/ Cardinality(s) <= n
      BY <3>1
    <3>2. CASE ~(s = {} \/ Cardinality(s) <= n)
      <4>1. Greatest(s) \in T /\ h[s \ {Greatest(s)}] \in V
        BY <1>0, <3>2
      <4>2. F[<<Greatest(s), h[s \ {Greatest(s)}]>>] \in V
        BY <4>1
      <4> QED  BY <3>2, <4>2
    <3> QED  BY <3>1, <3>2
  <2>3. g \in [SUBSET T -> V] /\ g[{}] = base
    BY <2>1, <2>2
  <2>4. ASSUME NEW s \in SUBSET T, s # {}, Cardinality(s) <= n + 1
        PROVE  g[s] = F[<<Greatest(s), g[s \ {Greatest(s)}]>>]
    <3>1. s \ {Greatest(s)} \in SUBSET T /\ Cardinality(s \ {Greatest(s)}) <= n
      BY <1>0, <2>4
    <3>2. g[s \ {Greatest(s)}] = h[s \ {Greatest(s)}]
      BY <3>1
    <3>3. g[s] = F[<<Greatest(s), h[s \ {Greatest(s)}]>>]
      BY <2>1, <2>4
    <3> QED  BY <3>2, <3>3
  <2> HIDE DEF g
  <2>5. Upto(g, n + 1)
    BY <2>3, <2>4
  <2> HIDE DEF Upto
  <2>6. n + 1 \in Nat
    OBVIOUS
  <2> QED  BY <2>3, <2>5, <2>6
<1>3. Cardinality(T) \in A
  <2>1. Cardinality(T) \in Nat
    BY FS_CardinalityType
  <2> HIDE DEF A
  <2> QED  BY <1>1, <1>2, <2>1, EveryNatural
<1>4. PICK h \in [SUBSET T -> V] : Upto(h, Cardinality(T))
  BY <1>3
<1>5. \A s \in SUBSET T : Cardinality(s) <= Cardinality(T)
  BY FS_Subset
<1> QED  BY <1>4, <1>5 DEF Loops

\* What holds before the loop and is kept by each turn of it holds at its end.
LEMMA LoopReaches ==
    ASSUME NEW T, IsFiniteSet(T), T \subseteq Nat, NEW h, NEW R,
           <<{}, h[{}]>> \in R,
           \A s \in SUBSET T : \A x \in s :
              (\A y \in s : y <= x) /\ x = Greatest(s) /\ <<s \ {x}, h[s \ {x}]>> \in R
                 => <<s, h[s]>> \in R
    PROVE  <<T, h[T]>> \in R
<1> DEFINE A == {n \in Nat : \A s \in SUBSET T : Cardinality(s) = n => <<s, h[s]>> \in R}
<1>1. 0 \in A
  <2>1. ASSUME NEW s \in SUBSET T, Cardinality(s) = 0 PROVE <<s, h[s]>> \in R
    <3>1. s = {}
      BY <2>1, OneFewer
    <3> QED  BY <3>1
  <2> QED  BY <2>1
<1>2. ASSUME NEW n \in Nat, n \in A PROVE n + 1 \in A
  <2>1. ASSUME NEW s \in SUBSET T, Cardinality(s) = n + 1 PROVE <<s, h[s]>> \in R
    <3>1. s # {}
      <4>1. Cardinality({}) = 0 /\ n + 1 # 0
        BY FS_EmptySet
      <4> QED  BY <2>1, <4>1
    <3>2. Greatest(s) \in s /\ \A y \in s : y <= Greatest(s)
      BY <3>1, FS_Subset, SomeGreatest
    <3>3. PICK x \in s : x = Greatest(s) /\ \A y \in s : y <= x
      BY <3>2
    <3>4. s \ {x} \in SUBSET T /\ Cardinality(s \ {x}) = n
      <4> HIDE DEF A
      <4>1. s \ {x} \in SUBSET T /\ Cardinality(s \ {x}) = Cardinality(s) - 1
        BY OneFewer
      <4> QED  BY <2>1, <4>1
    <3>5. <<s \ {x}, h[s \ {x}]>> \in R
      BY <1>2, <3>4
    <3> QED  BY <3>3, <3>5
  <2> QED  BY <2>1
<1>3. Cardinality(T) \in Nat
  BY FS_CardinalityType
<1> HIDE DEF A
<1>4. Cardinality(T) \in A
  BY <1>1, <1>2, <1>3, EveryNatural
<1> QED  BY <1>4 DEF A

-----------------------------------------------------------------------------
(* The pending queues.                                                     *)

\* One turn of Vec::retain, and the loop it runs over a vector's indices.
Kept(list, S, i, kept) == IF list[i] \in S THEN Append(kept, list[i]) ELSE kept

RetainLoop(list, S, h) ==
    h = [s \in SUBSET DOMAIN list |->
           IF s = {} THEN <<>> ELSE Kept(list, S, Greatest(s), h[s \ {Greatest(s)}])]

LEMMA RetainIsALoop ==
    ASSUME NEW list, NEW S
    PROVE  Queue!Retain(list, S) = (CHOOSE h : RetainLoop(list, S, h))[DOMAIN list]
BY DEF Queue!Retain, Queue!FoldLeft, Queue!MapThenFoldSet, Queue!Max, RetainLoop, Kept, Greatest

\* What is left of a vector: the members of S, each in its order and as often.
Retained(list, S, s, v) ==
    /\ Queue!Range(v) = {list[i] : i \in {j \in s : list[j] \in S}}
    /\ \A k \in Nat : (\A y \in s : y <= k) => Len(v) <= k
    /\ Queue!IsInjective(list) => Queue!IsInjective(v)

LEMMA RetainKeeps ==
    ASSUME NEW E, NEW list \in Seq(E), NEW S
    PROVE  /\ Queue!Retain(list, S) \in Seq(E)
           /\ Queue!Range(Queue!Retain(list, S)) = Queue!Range(list) \cap S
           /\ Len(Queue!Retain(list, S)) <= Len(list)
           /\ Queue!IsInjective(list) => Queue!IsInjective(Queue!Retain(list, S))
<1> DEFINE T == DOMAIN list
           F == [p \in T \X Seq(E) |-> Kept(list, S, p[1], p[2])]
           h == CHOOSE g : RetainLoop(list, S, g)
           R == {p \in (SUBSET T) \X Seq(E) : Retained(list, S, p[1], p[2])}
<1>1. T = 1..Len(list) /\ Len(list) \in Nat /\ IsFiniteSet(T) /\ T \subseteq Nat
  <2>1. T = 1..Len(list) /\ Len(list) \in Nat
    OBVIOUS
  <2>2. IsFiniteSet(1..Len(list))
    BY <2>1, FS_Interval
  <2> QED  BY <2>1, <2>2
<1>2. ASSUME NEW i \in T, NEW v \in Seq(E)
      PROVE  Kept(list, S, i, v) \in Seq(E)
  <2>1. list[i] \in E
    BY <1>1
  <2> QED  BY <2>1 DEF Kept
<1>3. F \in [T \X Seq(E) -> Seq(E)]
  BY <1>2
<1>4. \E g : RetainLoop(list, S, g)
  <2>1. <<>> \in Seq(E)
    OBVIOUS
  <2> HIDE DEF F, T
  <2>2. PICK g \in [SUBSET T -> Seq(E)] : Loops(F, <<>>, T, g)
    BY <1>1, <1>3, <2>1, LoopExists
  <2>3. ASSUME NEW s \in SUBSET T, s # {}
        PROVE  g[s] = Kept(list, S, Greatest(s), g[s \ {Greatest(s)}])
    <3>1. IsFiniteSet(s) /\ s \subseteq Nat
      BY <1>1, FS_Subset
    <3>2. Greatest(s) \in T
      BY <2>3, <3>1, SomeGreatest
    <3>3. g[s \ {Greatest(s)}] \in Seq(E)
      OBVIOUS
    <3>4. g[s] = F[<<Greatest(s), g[s \ {Greatest(s)}]>>]
      BY <2>2, <2>3 DEF Loops
    <3> QED  BY <3>2, <3>3, <3>4 DEF F
  <2>4. g[{}] = <<>>
    BY <2>2 DEF Loops
  <2>5. g = [s \in SUBSET T |-> IF s = {} THEN <<>>
                                ELSE Kept(list, S, Greatest(s), g[s \ {Greatest(s)}])]
    BY <2>3, <2>4
  <2>6. RetainLoop(list, S, g)
    BY <2>5 DEF RetainLoop, T
  <2> QED  BY <2>6
<1>5. RetainLoop(list, S, h)
  BY <1>4
<1> HIDE DEF F, h
<1>6. <<{}, h[{}]>> \in R
  <2>1. h[{}] = <<>>
    BY <1>5 DEF RetainLoop
  <2>2. Retained(list, S, {}, <<>>)
    BY DEF Retained, Queue!Range, Queue!IsInjective
  <2>3. {} \in SUBSET T /\ <<>> \in Seq(E)
    OBVIOUS
  <2> HIDE DEF T
  <2> QED  BY <2>1, <2>2, <2>3
<1>7. ASSUME NEW s \in SUBSET T, NEW x \in s, \A y \in s : y <= x, x = Greatest(s),
             <<s \ {x}, h[s \ {x}]>> \in R
      PROVE  <<s, h[s]>> \in R
  <2> DEFINE v == h[s \ {x}]
             w == h[s]
  <2>1. v \in Seq(E) /\ Retained(list, S, s \ {x}, v) /\ x \in 1..Len(list)
    BY <1>1, <1>7
  <2>2. w = Kept(list, S, x, v)
    BY <1>5, <1>7 DEF RetainLoop
  <2> HIDE DEF v, w
  <2>3. w \in Seq(E) /\ Len(v) \in Nat
    BY <1>1, <1>2, <2>1, <2>2
  <2>4. Len(v) <= x - 1
    <3>1. x - 1 \in Nat /\ \A y \in s \ {x} : y <= x - 1
      BY <1>1, <1>7, <2>1
    <3> QED  BY <2>1, <3>1 DEF Retained
  <2>5. CASE list[x] \in S
    <3>1. w = Append(v, list[x]) /\ list[x] \in E
      BY <2>1, <2>2, <2>5 DEF Kept
    <3>2. Len(w) = Len(v) + 1 /\ w[Len(v) + 1] = list[x]
          /\ \A i \in 1..Len(v) : w[i] = v[i]
      BY <2>1, <2>3, <3>1
    <3>3. DOMAIN w = 1..(Len(v) + 1) /\ DOMAIN v = 1..Len(v)
      BY <2>1, <2>3, <3>2
    <3>4. Queue!Range(w) = Queue!Range(v) \cup {list[x]}
      BY <2>3, <3>2, <3>3 DEF Queue!Range
    <3>5. {list[i] : i \in {j \in s : list[j] \in S}}
          = {list[i] : i \in {j \in s \ {x} : list[j] \in S}} \cup {list[x]}
      BY <2>5
    <3>6. \A k \in Nat : (\A y \in s : y <= k) => Len(w) <= k
      BY <2>1, <2>3, <2>4, <3>2
    <3>7. ASSUME Queue!IsInjective(list) PROVE Queue!IsInjective(w)
      <4>1. list[x] \notin Queue!Range(v)
        BY <1>1, <2>1, <3>7 DEF Retained, Queue!IsInjective
      <4>2. Queue!IsInjective(v)
        BY <2>1, <3>7 DEF Retained
      <4> QED  BY <2>3, <3>2, <3>3, <4>1, <4>2 DEF Queue!IsInjective, Queue!Range
    <3>8. Retained(list, S, s, w)
      BY <2>1, <3>4, <3>5, <3>6, <3>7 DEF Retained
    <3> QED  BY <2>3, <3>8 DEF w
  <2>6. CASE list[x] \notin S
    <3>1. w = v
      BY <2>2, <2>6 DEF Kept
    <3>2. {j \in s : list[j] \in S} = {j \in s \ {x} : list[j] \in S}
      BY <2>6
    <3>3. Queue!Range(v) = {list[i] : i \in {j \in s : list[j] \in S}}
      BY <2>1, <3>2 DEF Retained
    <3>4. \A k \in Nat : (\A y \in s : y <= k) => Len(v) <= k
      BY <2>1, <2>3, <2>4
    <3>5. Retained(list, S, s, v)
      BY <2>1, <3>3, <3>4 DEF Retained
    <3> QED  BY <2>1, <3>1, <3>5 DEF w
  <2> QED  BY <2>5, <2>6
<1> HIDE DEF R, T
<1>8. <<T, h[T]>> \in R
  BY <1>1, <1>6, <1>7, LoopReaches
<1>9. h[T] \in Seq(E) /\ Retained(list, S, T, h[T])
  BY <1>8 DEF R
<1>10. Queue!Retain(list, S) = h[T]
  BY RetainIsALoop DEF h, T
<1>11. Queue!Range(h[T]) = Queue!Range(list) \cap S
  BY <1>9 DEF Retained, Queue!Range, T
<1>12. Len(h[T]) <= Len(list)
  BY <1>1, <1>9 DEF Retained
<1> QED  BY <1>9, <1>10, <1>11, <1>12 DEF Retained

\* The first n entries of a vector.
First(l, n) == {l[i] : i \in 1..n}

\* r is the vector l, without repetitions, once its entry `at` is gone and the
\* others have closed up.
Closes(E, l, at, r) ==
    /\ l \in Seq(E) /\ Queue!IsInjective(l) /\ at \in 1..Len(l)
    /\ r \in Seq(E) /\ Len(r) = Len(l) - 1
    /\ \A i \in 1..Len(r) : r[i] = IF i < at THEN l[i] ELSE l[i + 1]

LEMMA OneOut ==
    ASSUME NEW E, NEW l, NEW at, NEW r, Closes(E, l, at, r)
    PROVE  /\ Queue!IsInjective(r)
           /\ \A n, m \in Nat : at <= n /\ n <= Len(l) /\ n = m + 1
                 => First(r, m) = First(l, n) \ {l[at]}
           /\ \A n \in 0..(at - 1) : First(r, n) = First(l, n) /\ l[at] \notin First(l, n)
<1> USE DEF Closes
<1>0. Len(l) \in Nat /\ Len(r) \in Nat /\ DOMAIN l = 1..Len(l) /\ DOMAIN r = 1..Len(r)
  OBVIOUS
<1>a. \A i, j \in 1..Len(l) : l[i] = l[j] => i = j
  BY <1>0 DEF Queue!IsInjective
<1>1. Queue!IsInjective(r)
  <2>1. ASSUME NEW i \in 1..Len(r), NEW j \in 1..Len(r), r[i] = r[j] PROVE i = j
    <3>1. /\ i \in 1..Len(l) /\ i + 1 \in 1..Len(l) /\ j \in 1..Len(l) /\ j + 1 \in 1..Len(l)
          /\ i \in Int /\ j \in Int /\ at \in Int
      BY <1>0
    <3>2. CASE i < at /\ j < at
      BY <1>a, <2>1, <3>1, <3>2
    <3>3. CASE i < at /\ ~(j < at)
      <4>1. l[i] = l[j + 1]
        BY <2>1, <3>1, <3>3
      <4>2. i = j + 1
        BY <1>a, <3>1, <4>1
      <4> QED  BY <3>1, <3>3, <4>2
    <3>4. CASE ~(i < at) /\ j < at
      <4>1. l[i + 1] = l[j]
        BY <2>1, <3>1, <3>4
      <4>2. i + 1 = j
        BY <1>a, <3>1, <4>1
      <4> QED  BY <3>1, <3>4, <4>2
    <3>5. CASE ~(i < at) /\ ~(j < at)
      <4>1. l[i + 1] = l[j + 1]
        BY <2>1, <3>1, <3>5
      <4>2. i + 1 = j + 1
        BY <1>a, <3>1, <4>1
      <4> QED  BY <3>1, <4>2
    <3> QED  BY <3>2, <3>3, <3>4, <3>5
  <2> QED  BY <1>0, <2>1 DEF Queue!IsInjective
<1>2. ASSUME NEW n \in at..Len(l) PROVE First(r, n - 1) = First(l, n) \ {l[at]}
  <2>1. ASSUME NEW e \in First(r, n - 1) PROVE e \in First(l, n) \ {l[at]}
    <3>1. PICK i \in 1..(n - 1) : e = r[i]
      BY <2>1 DEF First
    <3>2. i \in 1..Len(r) /\ i \in 1..n /\ i + 1 \in 1..n /\ i \in DOMAIN l /\ i + 1 \in DOMAIN l
      BY <1>0, <3>1
    <3>3. CASE i < at
      <4>1. e = l[i] /\ i # at
        BY <3>1, <3>2, <3>3
      <4> QED  BY <1>0, <1>a, <3>2, <4>1 DEF First
    <3>4. CASE ~(i < at)
      <4>1. e = l[i + 1] /\ i + 1 # at
        BY <3>1, <3>2, <3>4
      <4> QED  BY <1>0, <1>a, <3>2, <4>1 DEF First
    <3> QED  BY <3>3, <3>4
  <2>2. ASSUME NEW e \in First(l, n) \ {l[at]} PROVE e \in First(r, n - 1)
    <3>1. PICK i \in 1..n : e = l[i]
      BY <2>2 DEF First
    <3>2. i # at /\ i \in Int
      BY <2>2, <3>1
    <3>3. CASE i < at
      <4>1. i \in 1..(n - 1) /\ i \in 1..Len(r)
        BY <1>0, <3>1, <3>3
      <4> QED  BY <3>1, <3>3, <4>1 DEF First
    <3>4. CASE i > at
      <4>1. i - 1 \in 1..(n - 1) /\ i - 1 \in 1..Len(r) /\ ~(i - 1 < at) /\ (i - 1) + 1 = i
        BY <1>0, <3>1, <3>4
      <4>2. r[i - 1] = l[i]
        BY <4>1
      <4> QED  BY <3>1, <4>1, <4>2 DEF First
    <3> QED  BY <3>2, <3>3, <3>4
  <2> QED  BY <2>1, <2>2
<1>3. ASSUME NEW n \in 0..(at - 1)
      PROVE  First(r, n) = First(l, n) /\ l[at] \notin First(l, n)
  <2>1. ASSUME NEW i \in 1..n PROVE r[i] = l[i] /\ l[i] # l[at]
    <3>1. i \in 1..Len(r) /\ i < at /\ i \in 1..Len(l) /\ i # at
      BY <1>0
    <3> QED  BY <1>a, <3>1
  <2>2. \A i \in 1..n : r[i] = l[i] /\ l[i] # l[at]
    BY <2>1
  <2> QED  BY <2>2 DEF First
<1>4. ASSUME NEW n \in Nat, NEW m \in Nat, at <= n, n <= Len(l), n = m + 1
      PROVE  First(r, m) = First(l, n) \ {l[at]}
  <2>1. n \in at..Len(l) /\ m = n - 1
    BY <1>0, <1>4
  <2> QED  BY <1>2, <2>1
<1> QED  BY <1>1, <1>3, <1>4

LEMMA OldestOut ==
    ASSUME NEW E, NEW l \in Seq(E), Queue!IsInjective(l), l # <<>>
    PROVE  /\ Tail(l) \in Seq(E) /\ Len(Tail(l)) = Len(l) - 1 /\ Queue!IsInjective(Tail(l))
           /\ \A n, m \in Nat : n <= Len(l) /\ n = m + 1
                 => First(Tail(l), m) = First(l, n) \ {l[1]}
<1> DEFINE r == Tail(l)
<1>1. Len(l) \in Nat /\ 1 \in 1..Len(l)
  OBVIOUS
<1>2. /\ r \in Seq(E) /\ Len(r) = Len(l) - 1
      /\ \A i \in 1..Len(r) : r[i] = l[i + 1]
  OBVIOUS
<1> HIDE DEF r
<1>3. PICK at \in 1..Len(l) : at = 1
  BY <1>1
<1>4. ASSUME NEW i \in 1..Len(r) PROVE r[i] = IF i < at THEN l[i] ELSE l[i + 1]
  <2>1. ~(i < at)
    BY <1>1, <1>3
  <2> QED  BY <1>2, <2>1
<1>5. /\ Queue!IsInjective(r)
      /\ \A n, m \in Nat : at <= n /\ n <= Len(l) /\ n = m + 1
            => First(r, m) = First(l, n) \ {l[at]}
  <2>1. Closes(E, l, at, r)
    BY <1>2, <1>3, <1>4 DEF Closes
  <2> QED  BY <2>1, OneOut
<1>6. ASSUME NEW n \in Nat, NEW m \in Nat, n <= Len(l), n = m + 1
      PROVE  First(r, m) = First(l, n) \ {l[1]}
  <2>1. at <= n
    BY <1>3, <1>6
  <2> QED  BY <1>3, <1>5, <1>6, <2>1
<1> QED  BY <1>2, <1>5, <1>6 DEF r

\* A stretch of a vector.
LEMMA Stretch ==
    ASSUME NEW E, NEW l \in Seq(E), NEW a \in Nat \ {0}, NEW b \in Nat, a <= b + 1, b <= Len(l)
    PROVE  /\ SubSeq(l, a, b) \in Seq(E) /\ Len(SubSeq(l, a, b)) = (b + 1) - a
           /\ \A i \in 1..((b + 1) - a) : SubSeq(l, a, b)[i] = l[(a + i) - 1]
<1>1. \A i \in a..b : l[i] \in E
  <2>1. ASSUME NEW i \in a..b PROVE l[i] \in E
    <3>1. i \in 1..Len(l)
      OBVIOUS
    <3> QED  BY <3>1
  <2> QED  BY <2>1
<1>2. a \in Int /\ b \in Int
  OBVIOUS
<1>3. /\ SubSeq(l, a, b) \in Seq(E)
      /\ Len(SubSeq(l, a, b)) = IF a <= b THEN b - a + 1 ELSE 0
      /\ \A i \in 1..(b - a + 1) : SubSeq(l, a, b)[i] = l[a + i - 1]
  BY <1>1, <1>2, SubSeqProperties
<1>4. (b - a) + 1 = (b + 1) - a /\ (~(a <= b) => (b + 1) - a = 0)
  BY <1>2
<1> QED  BY <1>3, <1>4

\* A pending half is well formed.
Fits(h) == h \in Queue!Half /\ Len(h.list) <= HardMax /\ h.sent <= Len(h.list)
           /\ Queue!IsInjective(h.list)

LEMMA HalfIs ==
    ASSUME NEW h \in Queue!Half
    PROVE  /\ h.list \in Seq(QueueEntity) /\ h.sent \in Nat
           /\ Len(h.list) \in Nat /\ DOMAIN h.list = 1..Len(h.list)
           /\ Queue!Range(h.list) = First(h.list, Len(h.list))
           /\ Queue!Prefix(h) = First(h.list, h.sent)
<1>1. h.list \in Seq(QueueEntity) /\ h.sent \in Nat
  BY DEF Queue!Half
<1>2. Len(h.list) \in Nat /\ DOMAIN h.list = 1..Len(h.list)
  BY <1>1
<1> QED  BY <1>1, <1>2 DEF Queue!Range, Queue!Prefix, First

LEMMA HalfOf ==
    ASSUME NEW l \in Seq(QueueEntity), NEW n \in Nat
    PROVE  /\ [list |-> l, sent |-> n] \in Queue!Half
           /\ [list |-> l, sent |-> n].list = l /\ [list |-> l, sent |-> n].sent = n
BY DEF Queue!Half

\* drop_pending takes the entry out wherever it stands, in flight or not.
LEMMA DropKeeps ==
    ASSUME NEW h, Fits(h), NEW e
    PROVE  LET d == Queue!DropPending(h, e)
           IN  /\ Fits(d) /\ (d.sent > 0 => h.sent > 0)
               /\ Queue!Range(d.list) = Queue!Range(h.list) \ {e}
               /\ Queue!Prefix(d) = Queue!Prefix(h) \ {e}
<1> DEFINE d == Queue!DropPending(h, e)
           l == h.list
<1>0. /\ h \in Queue!Half /\ Len(l) <= HardMax /\ h.sent <= Len(l) /\ Queue!IsInjective(l)
      /\ HardMax \in Nat
  BY NamingBounds DEF Fits, Queue!QueueAssumption
<1>1. /\ l \in Seq(QueueEntity) /\ h.sent \in Nat
      /\ Len(l) \in Nat /\ DOMAIN l = 1..Len(l)
      /\ Queue!Range(l) = First(l, Len(l)) /\ Queue!Prefix(h) = First(l, h.sent)
  BY <1>0, HalfIs
<1> HIDE DEF l
<1>2. CASE e \notin Queue!Range(l)
  <2>1. d = h
    BY <1>2 DEF Queue!DropPending, l
  <2>2. e \notin First(l, Len(l)) /\ e \notin First(l, h.sent)
    <3>1. \A i \in 1..h.sent : i \in 1..Len(l)
      BY <1>0, <1>1
    <3> QED  BY <1>1, <1>2, <3>1 DEF First
  <2> HIDE DEF d
  <2>3. Fits(d) /\ (d.sent > 0 => h.sent > 0)
    BY <2>1
  <2>4. Queue!Range(d.list) = Queue!Range(h.list) \ {e}
    BY <1>1, <2>1, <2>2 DEF l
  <2>5. Queue!Prefix(d) = Queue!Prefix(h) \ {e}
    BY <1>1, <2>1, <2>2 DEF l
  <2> QED  BY <2>3, <2>4, <2>5 DEF d
<1>3. CASE e \in Queue!Range(l)
  <2> DEFINE at == CHOOSE i \in DOMAIN l : l[i] = e
             r == SubSeq(l, 1, at - 1) \o SubSeq(l, at + 1, Len(l))
             n == IF at <= h.sent THEN h.sent - 1 ELSE h.sent
  <2>1. at \in 1..Len(l) /\ l[at] = e
    BY <1>1, <1>3 DEF Queue!Range
  <2>2. d = [list |-> r, sent |-> n]
    BY <1>3 DEF Queue!DropPending, Queue!RemoveAt, l
  <2> HIDE DEF at, d
  <2>3. /\ r \in Seq(QueueEntity) /\ Len(r) = Len(l) - 1
        /\ \A i \in 1..Len(r) : r[i] = IF i < at THEN l[i] ELSE l[i + 1]
    <3>1. at - 1 \in Int /\ at + 1 \in Int /\ Len(l) \in Int
      BY <1>1, <2>1
    <3> DEFINE p == SubSeq(l, 1, at - 1)
               q == SubSeq(l, at + 1, Len(l))
    <3>2. /\ p \in Seq(QueueEntity) /\ Len(p) = at - 1
          /\ \A i \in 1..(at - 1) : p[i] = l[i]
      BY <1>1, <2>1, <3>1
    <3>3. /\ q \in Seq(QueueEntity) /\ Len(q) = Len(l) - at
          /\ \A i \in 1..(Len(l) - at) : q[i] = l[at + i]
      <4>1. at + 1 \in Nat \ {0} /\ at + 1 <= Len(l) + 1 /\ (Len(l) + 1) - (at + 1) = Len(l) - at
            /\ \A i \in 1..(Len(l) - at) : ((at + 1) + i) - 1 = at + i
        BY <1>1, <2>1
      <4> HIDE DEF q
      <4>2. /\ q \in Seq(QueueEntity) /\ Len(q) = (Len(l) + 1) - (at + 1)
            /\ \A i \in 1..((Len(l) + 1) - (at + 1)) : q[i] = l[((at + 1) + i) - 1]
        BY <1>1, <4>1, Stretch DEF q
      <4> QED  BY <4>1, <4>2
    <3>4. r = p \o q
      OBVIOUS
    <3> HIDE DEF p, q, r
    <3>a. Len(p) \in Nat /\ Len(q) \in Nat /\ at \in Int
      <4>1. Len(p) \in Nat /\ Len(q) \in Nat
        BY <3>2, <3>3
      <4> QED  BY <2>1, <4>1
    <3>b. /\ r \in Seq(QueueEntity) /\ Len(r) = Len(p) + Len(q)
          /\ \A i \in 1..(Len(p) + Len(q)) :
               r[i] = IF i <= Len(p) THEN p[i] ELSE q[i - Len(p)]
      BY <3>2, <3>3, <3>4, ConcatProperties
    <3>5. r \in Seq(QueueEntity) /\ Len(r) = Len(l) - 1
      BY <3>1, <3>2, <3>3, <3>a, <3>b
    <3>6. ASSUME NEW i \in 1..Len(r) PROVE r[i] = IF i < at THEN l[i] ELSE l[i + 1]
      <4>1. /\ i \in Int /\ at \in Int /\ Len(l) \in Int /\ i >= 1
            /\ i <= (at - 1) + (Len(l) - at)
            /\ r[i] = IF i <= at - 1 THEN p[i] ELSE q[i - (at - 1)]
        BY <3>1, <3>2, <3>3, <3>a, <3>b
      <4>2. CASE i < at
        <5>1. i \in 1..(at - 1) /\ i <= at - 1
          BY <4>1, <4>2
        <5> QED  BY <3>2, <4>1, <4>2, <5>1
      <4>3. CASE ~(i < at)
        <5>1. i - (at - 1) \in 1..(Len(l) - at) /\ ~(i <= at - 1)
              /\ at + (i - (at - 1)) = i + 1
          BY <4>1, <4>3
        <5> QED  BY <3>3, <4>1, <4>3, <5>1
      <4> QED  BY <4>2, <4>3
    <3> QED  BY <3>5, <3>6
  <2> HIDE DEF r
  <2>4. /\ Queue!IsInjective(r)
        /\ \A k, m \in Nat : at <= k /\ k <= Len(l) /\ k = m + 1
              => First(r, m) = First(l, k) \ {l[at]}
        /\ \A k \in 0..(at - 1) : First(r, k) = First(l, k) /\ l[at] \notin First(l, k)
    <3>1. Closes(QueueEntity, l, at, r)
      BY <1>0, <1>1, <2>1, <2>3 DEF Closes
    <3> QED  BY <3>1, OneOut
  <2>5. n \in Nat /\ n <= Len(r) /\ n <= h.sent /\ Len(r) <= HardMax
    BY <1>0, <1>1, <2>1, <2>3
  <2>6. First(r, n) = First(l, h.sent) \ {e}
    <3>1. CASE at <= h.sent
      <4>1. n = h.sent - 1 /\ h.sent = n + 1 /\ n \in Nat /\ h.sent \in Nat
            /\ h.sent <= Len(l) /\ at <= h.sent
        BY <1>0, <1>1, <2>1, <3>1
      <4> QED  BY <2>1, <2>4, <4>1
    <3>2. CASE ~(at <= h.sent)
      <4>1. h.sent \in 0..(at - 1) /\ n = h.sent
        BY <1>0, <1>1, <2>1, <3>2
      <4> QED  BY <2>1, <2>4, <4>1
    <3> QED  BY <3>1, <3>2
  <2>7. First(r, Len(r)) = First(l, Len(l)) \ {e}
    <3>1. Len(l) \in Nat /\ Len(r) \in Nat /\ Len(l) = Len(r) + 1 /\ at <= Len(l)
      BY <1>1, <2>1, <2>3
    <3> QED  BY <2>1, <2>4, <3>1
  <2> HIDE DEF n
  <2>8. d \in Queue!Half /\ d.list = r /\ d.sent = n
    BY <2>2, <2>3, <2>5, HalfOf
  <2>9. Fits(d) /\ (d.sent > 0 => h.sent > 0)
    BY <1>1, <2>4, <2>5, <2>8 DEF Fits
  <2>10. Queue!Range(d.list) = First(r, Len(r)) /\ Queue!Prefix(d) = First(r, n)
    BY <2>8, HalfIs
  <2> QED  BY <1>1, <2>6, <2>7, <2>9, <2>10 DEF d, l
<1> QED  BY <1>2, <1>3 DEF l

\* push_pending loses the oldest entry at most, and then says so.
LEMMA PushKeeps ==
    ASSUME NEW h, Fits(h), NEW e \in QueueEntity, e \notin Queue!Range(h.list)
    PROVE  LET p == Queue!PushPending(h, e)
           IN  /\ Fits(p) /\ (p.sent > 0 => h.sent > 0)
               /\ \E lost \in SUBSET Queue!Range(h.list) :
                    /\ Cardinality(lost) <= 1 /\ (lost # {} => Queue!Overflows(h))
                    /\ Queue!Range(p.list) = (Queue!Range(h.list) \ lost) \cup {e}
                    /\ Queue!Prefix(p) = Queue!Prefix(h) \ lost
<1> DEFINE p == Queue!PushPending(h, e)
           l == h.list
           packed == Len(l) >= HardMax
           lost == IF packed THEN {l[1]} ELSE {}
           k == IF packed THEN Tail(l) ELSE l
           n == IF packed THEN (IF h.sent > 0 THEN h.sent - 1 ELSE 0) ELSE h.sent
           r == Append(k, e)
<1>0. /\ h \in Queue!Half /\ Len(l) <= HardMax /\ h.sent <= Len(l) /\ Queue!IsInjective(l)
      /\ HardMax \in Nat /\ PendingMax \in Nat \ {0} /\ PendingMax <= HardMax
  BY NamingBounds DEF Fits, Queue!QueueAssumption
<1>1. /\ l \in Seq(QueueEntity) /\ h.sent \in Nat
      /\ Len(l) \in Nat /\ DOMAIN l = 1..Len(l)
      /\ Queue!Range(l) = First(l, Len(l)) /\ Queue!Prefix(h) = First(l, h.sent)
  BY <1>0, HalfIs
<1>2. p = [list |-> r, sent |-> n]
  <2>1. h = [list |-> l, sent |-> h.sent]
    BY <1>0 DEF Queue!Half
  <2>2. CASE packed
    BY <2>2 DEF Queue!PushPending
  <2>3. CASE ~packed
    <3>1. p = [h EXCEPT !.list = Append(h.list, e)]
      BY <2>3 DEF Queue!PushPending
    <3> QED  BY <2>1, <2>3, <3>1
  <2> QED  BY <2>2, <2>3
<1> HIDE DEF l, p
<1>3. /\ k \in Seq(QueueEntity) /\ Len(k) \in Nat /\ Queue!IsInjective(k)
      /\ Len(k) + 1 <= HardMax /\ n \in Nat /\ n <= Len(k) /\ n <= h.sent
      /\ First(k, Len(k)) = First(l, Len(l)) \ lost
      /\ First(k, n) = First(l, h.sent) \ lost
  <2>1. CASE ~packed
    BY <1>0, <1>1, <2>1
  <2>2. CASE packed
    <3>1. l # <<>> /\ Len(l) >= 1
      BY <1>0, <1>1, <2>2
    <3>2. /\ k = Tail(l) /\ k \in Seq(QueueEntity) /\ Len(k) = Len(l) - 1
          /\ \A i \in 1..Len(k) : k[i] = l[i + 1]
      BY <1>1, <2>2, <3>1
    <3> HIDE DEF k, n, packed, lost
    <3>3. Len(k) \in Nat /\ 1 \in 1..Len(l)
          /\ \A i \in 1..Len(k) : k[i] = IF i < 1 THEN l[i] ELSE l[i + 1]
      <4>1. Len(k) \in Nat /\ 1 \in 1..Len(l)
        BY <1>1, <3>1, <3>2
      <4>2. \A i \in 1..Len(k) : ~(i < 1)
        BY <4>1
      <4> QED  BY <3>2, <4>1, <4>2
    <3>4. /\ Queue!IsInjective(k)
          /\ \A i, m \in Nat : i <= Len(l) /\ i = m + 1 => First(k, m) = First(l, i) \ {l[1]}
      BY <1>0, <1>1, <3>1, <3>2, OldestOut
    <3>5. First(k, Len(k)) = First(l, Len(l)) \ lost
      <4>1. Len(l) \in Nat /\ Len(k) \in Nat /\ Len(l) = Len(k) + 1
        BY <1>1, <3>1, <3>2, <3>3
      <4>2. lost = {l[1]}
        BY <2>2 DEF lost
      <4> QED  BY <3>4, <4>1, <4>2
    <3>6. First(k, n) = First(l, h.sent) \ lost
      <4>1. CASE h.sent > 0
        <5>1. h.sent \in Nat /\ n \in Nat /\ h.sent = n + 1 /\ h.sent <= Len(l)
          BY <1>0, <1>1, <2>2, <4>1 DEF n
        <5> QED  BY <2>2, <3>4, <5>1 DEF lost
      <4>2. CASE ~(h.sent > 0)
        <5>1. n = 0 /\ h.sent = 0
          BY <1>1, <2>2, <4>2 DEF n
        <5> QED  BY <5>1 DEF First
      <4> QED  BY <4>1, <4>2
    <3>7. n \in Nat /\ n <= Len(k) /\ n <= h.sent
      <4>1. CASE h.sent > 0
        <5>1. n = h.sent - 1
          BY <2>2, <4>1 DEF n
        <5> QED  BY <1>0, <1>1, <3>2, <4>1, <5>1
      <4>2. CASE ~(h.sent > 0)
        <5>1. n = 0 /\ h.sent = 0
          BY <1>1, <2>2, <4>2 DEF n
        <5> QED  BY <3>3, <5>1
      <4> QED  BY <4>1, <4>2
    <3>8. Len(k) + 1 <= HardMax
      BY <1>0, <1>1, <3>2
    <3> QED  BY <3>2, <3>3, <3>4, <3>5, <3>6, <3>7, <3>8
  <2> QED  BY <2>1, <2>2
<1>4. lost \in SUBSET First(l, Len(l)) /\ Cardinality(lost) <= 1
      /\ (lost # {} => Queue!Overflows(h))
  <2>1. CASE ~packed
    BY <2>1, FS_EmptySet
  <2>2. CASE packed
    <3>1. 1 \in 1..Len(l) /\ Len(l) >= PendingMax
      BY <1>0, <1>1, <2>2
    <3>2. Cardinality(lost) = 1
      BY <2>2, FS_Singleton
    <3> QED  BY <2>2, <3>1, <3>2 DEF First, Queue!Overflows, l
  <2> QED  BY <2>1, <2>2
<1> HIDE DEF k, n, lost, packed
<1>5. /\ r \in Seq(QueueEntity) /\ Len(r) = Len(k) + 1 /\ r[Len(k) + 1] = e
      /\ \A i \in 1..Len(k) : r[i] = k[i]
  BY <1>3
<1> HIDE DEF r
<1>6. e \notin First(k, Len(k))
  BY <1>1, <1>3 DEF l
<1>7. Queue!IsInjective(r)
  <2>1. DOMAIN r = 1..(Len(k) + 1) /\ DOMAIN k = 1..Len(k)
    BY <1>3, <1>5
  <2>2. \A i \in 1..Len(k) : k[i] # e
    BY <1>6 DEF First
  <2>3. \A i \in 1..(Len(k) + 1) : i \in 1..Len(k) \/ i = Len(k) + 1
    BY <1>3
  <2>4. \A i, j \in 1..Len(k) : k[i] = k[j] => i = j
    BY <1>3, <2>1 DEF Queue!IsInjective
  <2> QED  BY <1>5, <2>1, <2>2, <2>3, <2>4 DEF Queue!IsInjective
<1>8. First(r, Len(r)) = First(k, Len(k)) \cup {e} /\ First(r, n) = First(k, n)
  <2>1. \A i \in 1..(Len(k) + 1) : i \in 1..Len(k) \/ i = Len(k) + 1
    BY <1>3
  <2>2. Len(k) + 1 \in 1..(Len(k) + 1) /\ \A i \in 1..Len(k) : i \in 1..(Len(k) + 1)
    BY <1>3
  <2>3. \A i \in 1..n : i \in 1..Len(k)
    BY <1>3
  <2>4. First(r, Len(r)) = First(k, Len(k)) \cup {e}
    BY <1>5, <2>1, <2>2 DEF First
  <2>5. First(r, n) = First(k, n)
    BY <1>5, <2>3 DEF First
  <2> QED  BY <2>4, <2>5
<1>9. p \in Queue!Half /\ p.list = r /\ p.sent = n
  BY <1>2, <1>3, <1>5, HalfOf
<1>10. Fits(p) /\ (p.sent > 0 => h.sent > 0)
  BY <1>0, <1>1, <1>3, <1>5, <1>7, <1>9 DEF Fits
<1>11. Queue!Range(p.list) = (Queue!Range(h.list) \ lost) \cup {e}
       /\ Queue!Prefix(p) = Queue!Prefix(h) \ lost
  <2>1. Queue!Range(p.list) = First(r, Len(r)) /\ Queue!Prefix(p) = First(r, n)
    BY <1>9, HalfIs
  <2> QED  BY <1>1, <1>3, <1>8, <2>1 DEF l
<1>12. lost \in SUBSET Queue!Range(h.list)
  BY <1>1, <1>4 DEF l
<1> HIDE DEF p
<1> QED  BY <1>4, <1>10, <1>11, <1>12 DEF p

\* The ack of a prefix, or giving up on it, leaves what had not ridden.
LEMMA RetireKeeps ==
    ASSUME NEW h, Fits(h)
    PROVE  LET d == [list |-> SubSeq(h.list, h.sent + 1, Len(h.list)), sent |-> 0]
           IN  /\ Fits(d) /\ d.sent = 0 /\ Queue!Prefix(d) = {}
               /\ Queue!Range(d.list) = Queue!Range(h.list) \ Queue!Prefix(h)
<1> DEFINE l == h.list
           r == SubSeq(l, h.sent + 1, Len(l))
           d == [list |-> r, sent |-> 0]
<1>0. /\ h \in Queue!Half /\ Len(l) <= HardMax /\ h.sent <= Len(l) /\ Queue!IsInjective(l)
      /\ HardMax \in Nat
  BY NamingBounds DEF Fits, Queue!QueueAssumption
<1>1. /\ l \in Seq(QueueEntity) /\ h.sent \in Nat
      /\ Len(l) \in Nat /\ DOMAIN l = 1..Len(l)
      /\ Queue!Range(l) = First(l, Len(l)) /\ Queue!Prefix(h) = First(l, h.sent)
  BY <1>0, HalfIs
<1> HIDE DEF l, d
<1>2. /\ r \in Seq(QueueEntity) /\ Len(r) = Len(l) - h.sent
      /\ \A i \in 1..(Len(l) - h.sent) : r[i] = l[h.sent + i]
  <2>1. /\ h.sent + 1 \in Nat \ {0} /\ h.sent + 1 <= Len(l) + 1
        /\ (Len(l) + 1) - (h.sent + 1) = Len(l) - h.sent
        /\ \A i \in 1..(Len(l) - h.sent) : ((h.sent + 1) + i) - 1 = h.sent + i
    BY <1>0, <1>1
  <2> HIDE DEF r
  <2>2. /\ r \in Seq(QueueEntity) /\ Len(r) = (Len(l) + 1) - (h.sent + 1)
        /\ \A i \in 1..((Len(l) + 1) - (h.sent + 1)) : r[i] = l[((h.sent + 1) + i) - 1]
    BY <1>1, <2>1, Stretch DEF r
  <2> QED  BY <2>1, <2>2
<1> HIDE DEF r
<1>3. /\ Len(r) \in Nat /\ Len(r) <= HardMax /\ DOMAIN r = 1..Len(r)
      /\ \A i \in 1..Len(r) : h.sent + i \in 1..Len(l) /\ r[i] = l[h.sent + i]
  <2>1. Len(r) \in Nat /\ Len(r) <= HardMax /\ DOMAIN r = 1..Len(r)
    BY <1>0, <1>1, <1>2
  <2>2. \A i \in 1..Len(r) : h.sent + i \in 1..Len(l)
    BY <1>0, <1>1, <1>2
  <2> QED  BY <1>2, <2>1, <2>2
<1>4. \A i, j \in 1..Len(l) : l[i] = l[j] => i = j
  BY <1>0, <1>1 DEF Queue!IsInjective
<1>5. Queue!IsInjective(r)
  <2>1. ASSUME NEW i \in 1..Len(r), NEW j \in 1..Len(r), r[i] = r[j] PROVE i = j
    <3>1. h.sent + i = h.sent + j
      BY <1>3, <1>4, <2>1
    <3> QED  BY <1>1, <3>1
  <2> QED  BY <1>3, <2>1 DEF Queue!IsInjective
<1>6. First(r, Len(r)) = First(l, Len(l)) \ First(l, h.sent)
  <2>1. ASSUME NEW e \in First(r, Len(r)) PROVE e \in First(l, Len(l)) \ First(l, h.sent)
    <3>1. PICK i \in 1..Len(r) : e = r[i]
      BY <2>1 DEF First
    <3>2. h.sent + i \in 1..Len(l) /\ e = l[h.sent + i]
      BY <1>3, <3>1
    <3>3. \A j \in 1..h.sent : j \in 1..Len(l) /\ j # h.sent + i
      BY <1>0, <1>1, <3>1
    <3> QED  BY <1>4, <3>2, <3>3 DEF First
  <2>2. ASSUME NEW e \in First(l, Len(l)) \ First(l, h.sent) PROVE e \in First(r, Len(r))
    <3>1. PICK j \in 1..Len(l) : e = l[j]
      BY <2>2 DEF First
    <3>2. j \notin 1..h.sent
      BY <2>2, <3>1 DEF First
    <3>3. j - h.sent \in 1..Len(r) /\ h.sent + (j - h.sent) = j
      BY <1>0, <1>1, <1>2, <3>1, <3>2
    <3>4. r[j - h.sent] = e
      BY <1>3, <3>1, <3>3
    <3> QED  BY <3>3, <3>4 DEF First
  <2> QED  BY <2>1, <2>2
<1>7. d \in Queue!Half /\ d.list = r /\ d.sent = 0
  BY <1>2, HalfOf DEF d
<1>8. Fits(d)
  BY <1>3, <1>5, <1>7 DEF Fits
<1>9. Queue!Range(d.list) = First(r, Len(r)) /\ Queue!Prefix(d) = First(r, 0)
  BY <1>7, HalfIs
<1>10. First(r, 0) = {}
  BY DEF First
<1> QED  BY <1>1, <1>6, <1>7, <1>8, <1>9, <1>10 DEF d, l, r

\* The part of a vector in flight is part of it.
LEMMA RidesInHalf ==
    ASSUME NEW h \in Queue!Half, h.sent <= Len(h.list)
    PROVE  /\ Queue!Prefix(h) \subseteq Queue!Range(h.list)
           /\ h.sent = 0 => Queue!Prefix(h) = {}
<1>1. /\ h.sent \in Nat /\ Len(h.list) \in Nat
      /\ Queue!Range(h.list) = First(h.list, Len(h.list))
      /\ Queue!Prefix(h) = First(h.list, h.sent)
  BY HalfIs
<1>2. \A i \in 1..h.sent : i \in 1..Len(h.list)
  BY <1>1
<1> QED  BY <1>1, <1>2 DEF First

\* The walk over the enters of a fresh section ends inside the vector.
LEMMA EnterPrefixIs ==
    ASSUME NEW list \in Seq(QueueEntity)
    PROVE  Queue!EnterPrefix(list) \in Nat /\ Queue!EnterPrefix(list) <= Len(list)
<1> DEFINE reach == {n \in 0..Queue!AtMost(Len(list), PerFrame) : \A i \in 1..n : list[i] \in named}
<1>1. Len(list) \in Nat /\ PerFrame \in Nat
  BY NamingBounds DEF Queue!QueueAssumption
<1>2. Queue!AtMost(Len(list), PerFrame) \in Nat /\ Queue!AtMost(Len(list), PerFrame) <= Len(list)
  BY <1>1 DEF Queue!AtMost
<1>3. reach \subseteq Nat /\ 0 \in reach /\ \A n \in reach : n <= Len(list)
  BY <1>1, <1>2
<1>4. IsFiniteSet(reach)
  <2>1. IsFiniteSet(0..Queue!AtMost(Len(list), PerFrame))
    BY <1>2, FS_Interval
  <2> QED  BY <2>1, FS_Subset
<1> HIDE DEF reach
<1>5. \E n \in reach : \A m \in reach : m <= n
  BY <1>3, <1>4, SomeGreatest
<1>6. Queue!EnterPrefix(list) = CHOOSE n \in reach : \A m \in reach : m <= n
  BY DEF Queue!EnterPrefix, reach
<1>7. Queue!EnterPrefix(list) \in reach
  BY <1>5, <1>6
<1> QED  BY <1>3, <1>7

\* The two halves agree with the set, and each is well formed.
QueueInv ==
    /\ set \subseteq QueueEntity /\ named \subseteq QueueEntity
    /\ Fits(left) /\ Fits(entered)
    /\ left.sent > 0 => stamped
    /\ entered.sent > 0 => stamped
    /\ stamped \in BOOLEAN /\ owed \in BOOLEAN
    /\ Queue!Range(entered.list) \subseteq set
    /\ Queue!Range(left.list) \cap set = {}

LEMMA CountsAgree ==
    ASSUME NEW S PROVE Queue!Sets!Cardinality(S) = Cardinality(S)
BY DEF Queue!Sets!Cardinality, Cardinality

LEMMA LeaveStep ==
    ASSUME NEW e \in QueueEntity, QueueInv, Queue!NoteInterestLeave(e)
    PROVE  QueueInv' /\ Queue!Sets!NoteLeave(e)
<1>1. /\ set \subseteq QueueEntity /\ named \subseteq QueueEntity
      /\ Fits(left) /\ Fits(entered)
      /\ (left.sent > 0 => stamped) /\ (entered.sent > 0 => stamped)
      /\ stamped \in BOOLEAN /\ owed \in BOOLEAN
      /\ Queue!Range(entered.list) \subseteq set
      /\ Queue!Range(left.list) \cap set = {}
  BY DEF QueueInv
<1>2. /\ e \in set /\ set' = set \ {e}
      /\ entered' = Queue!DropPending(entered, e)
      /\ left' = Queue!PushPending(left, e)
      /\ owed' = (owed \/ Queue!Overflows(left))
      /\ named' = named /\ stamped' = stamped
  BY DEF Queue!NoteInterestLeave
<1>3. e \notin Queue!Range(left.list)
  BY <1>1, <1>2
<1>4. /\ Fits(entered') /\ (entered'.sent > 0 => entered.sent > 0)
      /\ Queue!Range(entered'.list) = Queue!Range(entered.list) \ {e}
      /\ Queue!Prefix(entered') = Queue!Prefix(entered) \ {e}
  BY <1>1, <1>2, DropKeeps
<1>5. /\ Fits(left') /\ (left'.sent > 0 => left.sent > 0)
      /\ \E lost \in SUBSET Queue!Range(left.list) :
           /\ Cardinality(lost) <= 1 /\ (lost # {} => Queue!Overflows(left))
           /\ Queue!Range(left'.list) = (Queue!Range(left.list) \ lost) \cup {e}
           /\ Queue!Prefix(left') = Queue!Prefix(left) \ lost
  BY <1>1, <1>2, <1>3, PushKeeps
<1>6. PICK lost \in SUBSET Queue!Range(left.list) :
           /\ Cardinality(lost) <= 1 /\ (lost # {} => Queue!Overflows(left))
           /\ Queue!Range(left'.list) = (Queue!Range(left.list) \ lost) \cup {e}
           /\ Queue!Prefix(left') = Queue!Prefix(left) \ lost
  BY <1>5
<1>7. QueueInv'
  <2>1. /\ set' \subseteq QueueEntity /\ named' \subseteq QueueEntity
        /\ stamped' \in BOOLEAN /\ owed' \in BOOLEAN
        /\ Queue!Range(entered'.list) \subseteq set'
        /\ Queue!Range(left'.list) \cap set' = {}
    BY <1>1, <1>2, <1>4, <1>6 DEF Queue!Overflows
  <2>2. (left'.sent > 0 => stamped') /\ (entered'.sent > 0 => stamped')
    BY <1>1, <1>2, <1>4, <1>5
  <2> QED  BY <1>4, <1>5, <2>1, <2>2 DEF QueueInv
<1>8. Queue!Sets!NoteLeave(e)
  BY <1>2, <1>4, <1>6, CountsAgree DEF Queue!Sets!NoteLeave, Queue!Sets!Evicted
<1> QED  BY <1>7, <1>8

LEMMA EnterStep ==
    ASSUME NEW e \in QueueEntity, QueueInv, Queue!NoteInterestEnter(e)
    PROVE  QueueInv' /\ Queue!Sets!NoteEnter(e)
<1>1. /\ set \subseteq QueueEntity /\ named \subseteq QueueEntity
      /\ Fits(left) /\ Fits(entered)
      /\ (left.sent > 0 => stamped) /\ (entered.sent > 0 => stamped)
      /\ stamped \in BOOLEAN /\ owed \in BOOLEAN
      /\ Queue!Range(entered.list) \subseteq set
      /\ Queue!Range(left.list) \cap set = {}
  BY DEF QueueInv
<1>2. /\ e \notin set /\ set' = set \cup {e}
      /\ left' = Queue!DropPending(left, e)
      /\ entered' = Queue!PushPending(entered, e)
      /\ owed' = (owed \/ Queue!Overflows(entered))
      /\ named' = named /\ stamped' = stamped
  BY DEF Queue!NoteInterestEnter
<1>3. e \notin Queue!Range(entered.list)
  BY <1>1, <1>2
<1>4. /\ Fits(left') /\ (left'.sent > 0 => left.sent > 0)
      /\ Queue!Range(left'.list) = Queue!Range(left.list) \ {e}
      /\ Queue!Prefix(left') = Queue!Prefix(left) \ {e}
  BY <1>1, <1>2, DropKeeps
<1>5. /\ Fits(entered') /\ (entered'.sent > 0 => entered.sent > 0)
      /\ \E lost \in SUBSET Queue!Range(entered.list) :
           /\ Cardinality(lost) <= 1 /\ (lost # {} => Queue!Overflows(entered))
           /\ Queue!Range(entered'.list) = (Queue!Range(entered.list) \ lost) \cup {e}
           /\ Queue!Prefix(entered') = Queue!Prefix(entered) \ lost
  BY <1>1, <1>2, <1>3, PushKeeps
<1>6. PICK lost \in SUBSET Queue!Range(entered.list) :
           /\ Cardinality(lost) <= 1 /\ (lost # {} => Queue!Overflows(entered))
           /\ Queue!Range(entered'.list) = (Queue!Range(entered.list) \ lost) \cup {e}
           /\ Queue!Prefix(entered') = Queue!Prefix(entered) \ lost
  BY <1>5
<1>7. QueueInv'
  <2>1. /\ set' \subseteq QueueEntity /\ named' \subseteq QueueEntity
        /\ stamped' \in BOOLEAN /\ owed' \in BOOLEAN
        /\ Queue!Range(entered'.list) \subseteq set'
        /\ Queue!Range(left'.list) \cap set' = {}
    BY <1>1, <1>2, <1>4, <1>6 DEF Queue!Overflows
  <2>2. (left'.sent > 0 => stamped') /\ (entered'.sent > 0 => stamped')
    BY <1>1, <1>2, <1>4, <1>5
  <2> QED  BY <1>4, <1>5, <2>1, <2>2 DEF QueueInv
<1>8. Queue!Sets!NoteEnter(e)
  BY <1>2, <1>4, <1>6, CountsAgree DEF Queue!Sets!NoteEnter, Queue!Sets!Evicted
<1> QED  BY <1>7, <1>8

LEMMA RetireStep ==
    ASSUME NEW acked \in BOOLEAN, QueueInv, Queue!RetireInterestDelta(acked)
    PROVE  QueueInv' /\ Queue!Sets!Retire
<1>1. /\ Fits(left) /\ Fits(entered) /\ set \subseteq QueueEntity /\ named \subseteq QueueEntity
      /\ owed \in BOOLEAN
      /\ Queue!Range(entered.list) \subseteq set
      /\ Queue!Range(left.list) \cap set = {}
  BY DEF QueueInv
<1>2. /\ left' = [list |-> SubSeq(left.list, left.sent + 1, Len(left.list)), sent |-> 0]
      /\ entered' = [list |-> SubSeq(entered.list, entered.sent + 1, Len(entered.list)),
                     sent |-> 0]
      /\ stamped' = FALSE /\ owed' = (owed \/ ~acked) /\ set' = set /\ named' = named
  BY DEF Queue!RetireInterestDelta
<1>3. /\ Fits(left') /\ left'.sent = 0 /\ Queue!Prefix(left') = {}
      /\ Queue!Range(left'.list) = Queue!Range(left.list) \ Queue!Prefix(left)
  BY <1>1, <1>2, RetireKeeps
<1>4. /\ Fits(entered') /\ entered'.sent = 0 /\ Queue!Prefix(entered') = {}
      /\ Queue!Range(entered'.list) = Queue!Range(entered.list) \ Queue!Prefix(entered)
  BY <1>1, <1>2, RetireKeeps
<1>5. QueueInv'
  <2>1. /\ set' \subseteq QueueEntity /\ named' \subseteq QueueEntity
        /\ stamped' \in BOOLEAN /\ owed' \in BOOLEAN
        /\ Queue!Range(entered'.list) \subseteq set'
        /\ Queue!Range(left'.list) \cap set' = {}
    BY <1>1, <1>2, <1>3, <1>4
  <2>2. ~(left'.sent > 0) /\ ~(entered'.sent > 0)
    BY <1>3, <1>4
  <2> QED  BY <1>3, <1>4, <2>1, <2>2 DEF QueueInv
<1>6. Queue!Sets!Retire
  BY <1>2, <1>3, <1>4 DEF Queue!Sets!Retire
<1> QED  BY <1>5, <1>6

\* What a vector keeps of itself is still well formed, whatever part of it rides.
LEMMA RetainedFits ==
    ASSUME NEW h, Fits(h), NEW S, NEW n \in Nat, n <= Len(Queue!Retain(h.list, S))
    PROVE  LET d == [list |-> Queue!Retain(h.list, S), sent |-> n]
           IN  /\ Fits(d) /\ d.sent = n /\ Queue!Prefix(d) \subseteq Queue!Range(d.list)
               /\ Queue!Range(d.list) = Queue!Range(h.list) \cap S
               /\ n = 0 => Queue!Prefix(d) = {}
<1> DEFINE r == Queue!Retain(h.list, S)
           d == [list |-> r, sent |-> n]
<1>0. h \in Queue!Half /\ Len(h.list) <= HardMax /\ Queue!IsInjective(h.list) /\ HardMax \in Nat
  BY NamingBounds DEF Fits, Queue!QueueAssumption
<1>1. h.list \in Seq(QueueEntity) /\ Len(h.list) \in Nat
  BY <1>0, HalfIs
<1>2. /\ r \in Seq(QueueEntity) /\ Len(r) <= Len(h.list) /\ Queue!IsInjective(r)
      /\ Queue!Range(r) = Queue!Range(h.list) \cap S
  BY <1>0, <1>1, RetainKeeps
<1>3. n <= Len(r)
  OBVIOUS
<1> HIDE DEF r, d
<1>4. Len(r) \in Nat
  BY <1>2
<1>5. d \in Queue!Half /\ d.list = r /\ d.sent = n
  BY <1>2, HalfOf DEF d
<1>6. Fits(d)
  BY <1>0, <1>1, <1>2, <1>3, <1>4, <1>5 DEF Fits
<1>7. Queue!Prefix(d) \subseteq Queue!Range(d.list) /\ (n = 0 => Queue!Prefix(d) = {})
  BY <1>3, <1>5, RidesInHalf
<1> QED  BY <1>2, <1>5, <1>6, <1>7 DEF d, r

LEMMA SectionStep ==
    ASSUME QueueInv, Queue!BuildInterestSection
    PROVE  QueueInv' /\ Queue!Sets!Ride
<1> DEFINE kept == Queue!Retain(left.list, named)
           n == Queue!AtMost(Len(kept), PerFrame)
           m == Queue!EnterPrefix(entered.list)
<1>1. /\ Fits(left) /\ Fits(entered) /\ set \subseteq QueueEntity /\ named \subseteq QueueEntity
      /\ owed \in BOOLEAN /\ (left.sent > 0 => stamped) /\ (entered.sent > 0 => stamped)
      /\ Queue!Range(entered.list) \subseteq set
      /\ Queue!Range(left.list) \cap set = {}
  BY DEF QueueInv
<1>2. /\ ~stamped
      /\ left' = [list |-> kept, sent |-> n] /\ entered' = [entered EXCEPT !.sent = m]
      /\ stamped' = (n + m > 0)
      /\ set' = set /\ named' = named /\ owed' = owed
  BY DEF Queue!BuildInterestSection
<1>3. /\ left \in Queue!Half /\ left.list \in Seq(QueueEntity) /\ left.sent = 0
      /\ entered \in Queue!Half /\ entered.list \in Seq(QueueEntity) /\ entered.sent = 0
      /\ Len(entered.list) \in Nat
  BY <1>1, <1>2, HalfIs DEF Fits
<1>4. n \in Nat /\ n <= Len(kept)
  <2>1. kept \in Seq(QueueEntity)
    BY <1>3, RetainKeeps
  <2>2. Len(kept) \in Nat /\ PerFrame \in Nat
    BY <2>1, NamingBounds DEF Queue!QueueAssumption
  <2> QED  BY <2>2 DEF Queue!AtMost
<1>5. m \in Nat /\ m <= Len(entered.list)
  BY <1>3, EnterPrefixIs
<1> HIDE DEF m, n
<1>6. /\ Fits(left') /\ left'.sent = n /\ Queue!Prefix(left') \subseteq Queue!Range(left'.list)
      /\ Queue!Range(left'.list) = Queue!Range(left.list) \cap named
  <2>1. n <= Len(Queue!Retain(left.list, named))
    BY <1>4
  <2> QED  BY <1>1, <1>2, <1>4, <2>1, RetainedFits
<1>7. /\ Fits(entered') /\ entered'.sent = m
      /\ Queue!Range(entered'.list) = Queue!Range(entered.list)
      /\ Queue!Prefix(entered') \subseteq Queue!Range(entered.list)
  <2>1. entered' = [list |-> entered.list, sent |-> m]
    BY <1>2, <1>3 DEF Queue!Half
  <2>2. entered' \in Queue!Half /\ entered'.list = entered.list /\ entered'.sent = m
    BY <1>3, <1>5, <2>1, HalfOf
  <2>3. Fits(entered')
    BY <1>1, <1>5, <2>2 DEF Fits
  <2>4. Queue!Prefix(entered') \subseteq Queue!Range(entered'.list)
    BY <1>5, <2>2, RidesInHalf
  <2> QED  BY <2>2, <2>3, <2>4
<1>8. QueueInv'
  <2>1. (n > 0 => stamped') /\ (m > 0 => stamped') /\ stamped' \in BOOLEAN
    <3>1. (n > 0 => n + m > 0) /\ (m > 0 => n + m > 0)
      BY <1>4, <1>5
    <3>2. stamped' = (n + m > 0)
      BY <1>2
    <3>3. (n + m > 0) \in BOOLEAN
      OBVIOUS
    <3> QED  BY <3>1, <3>2, <3>3, Zenon
  <2>2. /\ Queue!Range(entered'.list) \subseteq set'
        /\ Queue!Range(left'.list) \cap set' = {}
    BY <1>1, <1>2, <1>6, <1>7
  <2> QED  BY <1>1, <1>2, <1>6, <1>7, <2>1, <2>2 DEF QueueInv
<1>9. Queue!Sets!Ride
  <2>1. Queue!Prefix(left) = {} /\ Queue!Prefix(entered) = {}
    <3>1. left.sent <= Len(left.list) /\ entered.sent <= Len(entered.list)
      BY <1>1 DEF Fits
    <3> QED  BY <1>3, <3>1, RidesInHalf
  <2> DEFINE L == Queue!Prefix(left')
             E == Queue!Prefix(entered')
             gone == Queue!Range(left.list) \ named
  <2>2. /\ L \in SUBSET Queue!Range(left.list) /\ E \in SUBSET Queue!Range(entered.list)
        /\ gone \in SUBSET Queue!Range(left.list) /\ L \cap gone = {}
        /\ Queue!Range(left'.list) = Queue!Range(left.list) \ gone
    BY <1>6, <1>7
  <2> QED  BY <1>2, <1>7, <2>1, <2>2 DEF Queue!Sets!Ride
<1> QED  BY <1>8, <1>9

LEMMA StateStep ==
    ASSUME NEW settled \in BOOLEAN, QueueInv, Queue!StateWholeInterestSet(settled)
    PROVE  QueueInv' /\ Queue!Sets!StateWhole
<1>1. /\ Fits(left) /\ Fits(entered) /\ set \subseteq QueueEntity /\ named \subseteq QueueEntity
      /\ Queue!Range(entered.list) \subseteq set
  BY DEF QueueInv
<1> DEFINE S == QueueEntity \ (set \cap named)
<1>2. /\ owed /\ left' = [list |-> <<>>, sent |-> 0]
      /\ entered' = [list |-> Queue!Retain(entered.list, S), sent |-> 0]
      /\ stamped' = FALSE /\ owed' = ~settled /\ set' = set /\ named' = named
  BY DEF Queue!StateWholeInterestSet, Queue!Empty
<1> HIDE DEF S
<1>3. /\ Fits(left') /\ left'.sent = 0
      /\ Queue!Range(left'.list) = {} /\ Queue!Prefix(left') = {}
  <2>1. <<>> \in Seq(QueueEntity) /\ Len(<<>>) = 0 /\ HardMax \in Nat
    BY NamingBounds DEF Queue!QueueAssumption
  <2>2. left' \in Queue!Half /\ left'.list = <<>> /\ left'.sent = 0
    BY <1>2, <2>1, HalfOf
  <2>3. Fits(left')
    BY <2>1, <2>2 DEF Fits, Queue!IsInjective
  <2>4. Queue!Range(left'.list) = {}
    BY <2>2 DEF Queue!Range
  <2>5. Queue!Prefix(left') = {}
    BY <2>2 DEF Queue!Prefix
  <2> QED  BY <2>2, <2>3, <2>4, <2>5
<1>4. /\ Fits(entered') /\ entered'.sent = 0 /\ Queue!Prefix(entered') = {}
      /\ Queue!Range(entered'.list) = Queue!Range(entered.list) \cap S
  <2>1. entered.list \in Seq(QueueEntity)
    BY <1>1, HalfIs DEF Fits
  <2>2. Queue!Retain(entered.list, S) \in Seq(QueueEntity)
    BY <2>1, RetainKeeps
  <2>3. 0 \in Nat /\ 0 <= Len(Queue!Retain(entered.list, S))
    BY <2>2
  <2> QED  BY <1>1, <1>2, <2>3, RetainedFits
<1>5. QueueInv'
  <2>1. /\ Queue!Range(entered'.list) \subseteq set'
        /\ Queue!Range(left'.list) \cap set' = {}
        /\ stamped' \in BOOLEAN /\ owed' \in BOOLEAN
    BY <1>1, <1>2, <1>3, <1>4
  <2>2. ~(left'.sent > 0) /\ ~(entered'.sent > 0)
    BY <1>3, <1>4
  <2> QED  BY <1>1, <1>2, <1>3, <1>4, <2>1, <2>2 DEF QueueInv
<1>6. Queue!Sets!StateWhole
  BY <1>2, <1>3, <1>4 DEF Queue!Sets!StateWhole
<1> QED  BY <1>5, <1>6

\* Every step keeps the invariant and is a step of the sets, or changes none of them.
LEMMA QueueStep ==
    ASSUME QueueInv, [Queue!Next]_queueVars
    PROVE  QueueInv' /\ [Queue!Sets!Next]_(Queue!Sets!halves)
<1>1. CASE UNCHANGED queueVars
  BY <1>1 DEF queueVars, QueueInv, Queue!Sets!halves
<1>2. ASSUME NEW e \in QueueEntity, Queue!NoteInterestLeave(e)
      PROVE  QueueInv' /\ [Queue!Sets!Next]_(Queue!Sets!halves)
  BY <1>2, LeaveStep DEF Queue!Sets!Next
<1>3. ASSUME NEW e \in QueueEntity, Queue!NoteInterestEnter(e)
      PROVE  QueueInv' /\ [Queue!Sets!Next]_(Queue!Sets!halves)
  BY <1>3, EnterStep DEF Queue!Sets!Next
<1>4. ASSUME NEW e \in QueueEntity, Queue!Rename(e)
      PROVE  QueueInv' /\ [Queue!Sets!Next]_(Queue!Sets!halves)
  BY <1>4 DEF Queue!Rename, QueueInv, Queue!Sets!halves
<1>5. ASSUME NEW acked \in BOOLEAN, Queue!RetireInterestDelta(acked)
      PROVE  QueueInv' /\ [Queue!Sets!Next]_(Queue!Sets!halves)
  BY <1>5, RetireStep DEF Queue!Sets!Next
<1>6. CASE Queue!BuildInterestSection
  BY <1>6, SectionStep DEF Queue!Sets!Next
<1>7. ASSUME NEW settled \in BOOLEAN, Queue!StateWholeInterestSet(settled)
      PROVE  QueueInv' /\ [Queue!Sets!Next]_(Queue!Sets!halves)
  BY <1>7, StateStep DEF Queue!Sets!Next
<1> QED  BY <1>1, <1>2, <1>3, <1>4, <1>5, <1>6, <1>7 DEF Queue!Next

LEMMA QueuesStart ==
    ASSUME Queue!Init PROVE QueueInv /\ Queue!Sets!Init
<1>1. /\ set = {} /\ named = QueueEntity /\ stamped = FALSE /\ owed = FALSE
      /\ left = [list |-> <<>>, sent |-> 0] /\ entered = [list |-> <<>>, sent |-> 0]
  BY DEF Queue!Init, Queue!Empty
<1> DEFINE h == [list |-> <<>>, sent |-> 0]
<1>2. Fits(h) /\ Queue!Range(h.list) = {} /\ Queue!Prefix(h) = {} /\ ~(h.sent > 0)
  <2>1. <<>> \in Seq(QueueEntity) /\ Len(<<>>) = 0 /\ HardMax \in Nat
    BY NamingBounds DEF Queue!QueueAssumption
  <2>2. h \in Queue!Half /\ h.list = <<>> /\ h.sent = 0
    BY <2>1, HalfOf
  <2> HIDE DEF h
  <2>3. Fits(h)
    BY <2>1, <2>2 DEF Fits, Queue!IsInjective
  <2>4. Queue!Range(h.list) = {} /\ Queue!Prefix(h) = {}
    BY <2>2 DEF Queue!Range, Queue!Prefix
  <2> QED  BY <2>2, <2>3, <2>4
<1>3. left = h /\ entered = h
  BY <1>1
<1> HIDE DEF h
<1>4. QueueInv
  BY <1>1, <1>2, <1>3 DEF QueueInv
<1>5. Queue!Sets!Init
  BY <1>1, <1>2, <1>3 DEF Queue!Sets!Init
<1> QED  BY <1>4, <1>5

(* In every behaviour the pending halves keep their shape: each is well    *)
(* formed and without repetitions, a count is within its vector and only   *)
(* where there is a stamp, and what waits agrees with the set.             *)
THEOREM QueueInvariance == MCSpec => []QueueInv
<1>1. ASSUME MCInit PROVE QueueInv
  BY <1>1, QueuesStart DEF MCInit
<1>2. ASSUME QueueInv, [MCNext]_<<part, vars, allocVars, queueVars>> PROVE QueueInv'
  <2>1. [Queue!Next]_queueVars
    BY <1>2 DEF MCNext
  <2> QED  BY <1>2, <2>1, QueueStep
<1> QED  BY <1>1, <1>2, PTL DEF MCSpec

(* The vectors of push_pending, drop_pending and retire_interest_delta     *)
(* implement the sets InterestSync reasons with, for any caps: an ack      *)
(* retires what rode and no other entry, and nothing is lost in silence.   *)
THEOREM QueuesImplementHalves == MCSpec => ImplementsHalves
<1>1. ASSUME MCInit PROVE Queue!Sets!Init
  BY <1>1, QueuesStart DEF MCInit
<1>2. ASSUME QueueInv, [MCNext]_<<part, vars, allocVars, queueVars>>
      PROVE  [Queue!Sets!Next]_(Queue!Sets!halves)
  <2>1. [Queue!Next]_queueVars
    BY <1>2 DEF MCNext
  <2> QED  BY <1>2, <2>1, QueueStep
<1> QED  BY <1>1, <1>2, QueueInvariance, PTL
         DEF MCSpec, ImplementsHalves, Queue!ImplementsHalves, Queue!Sets!Spec

-----------------------------------------------------------------------------
(* The server's slot table.                                                *)

Cell == [slot : Slot, at : Nat]

\* A table at `now`: the two directions agree, and the free list is the vacant slots, each
\* once and in the order they were freed.
Sound(t, now) ==
    /\ t.ids \in Seq(Nat) /\ Len(t.ids) <= MaxSlots
    /\ DOMAIN t.slots \subseteq AllocEntity /\ t.slots \in [DOMAIN t.slots -> Slot]
    /\ t.free \in Seq(Cell)
    /\ \A s \in 1..Len(t.ids) :
         t.ids[s] # 0 => t.ids[s] \in DOMAIN t.slots /\ t.slots[t.ids[s]] = s
    /\ \A e \in DOMAIN t.slots : t.slots[e] \in 1..Len(t.ids) /\ t.ids[t.slots[e]] = e
    /\ \A i \in 1..Len(t.free) :
         /\ t.free[i].slot \in 1..Len(t.ids) /\ t.ids[t.free[i].slot] = 0
         /\ t.free[i].at \in 1..now
    /\ \A s \in 1..Len(t.ids) : t.ids[s] = 0 => \E i \in 1..Len(t.free) : t.free[i].slot = s
    /\ \A i, j \in 1..Len(t.free) : i < j =>
         t.free[i].slot # t.free[j].slot /\ t.free[i].at <= t.free[j].at

Fields(t) == t = [ids |-> t.ids, slots |-> t.slots, free |-> t.free]

LEMMA TheConstants ==
    /\ MaxSlots \in Nat /\ Slot = 1..MaxSlots /\ NoEntity = 0
    /\ AllocEntity \subseteq Nat \ {0} /\ IsFiniteSet(AllocEntity)
    /\ AllocQuarantine \in Nat \ {0}
BY TableAssumption, NamingBounds

LEMMA SoundIsSound ==
    ASSUME NEW now \in Nat, NEW t, Sound(t, now), Fields(t)
    PROVE  t \in Slots!Tables /\ Slots!Agrees(t) /\ Slots!FreeListIsExact(t)
<1>1. t.slots \in UNION {[S -> Slot] : S \in SUBSET AllocEntity}
  BY DEF Sound
<1>2. t \in Slots!Tables
  BY <1>1 DEF Sound, Fields, Slots!Tables, Cell
<1>3. DOMAIN t.ids = 1..Len(t.ids) /\ DOMAIN t.free = 1..Len(t.free)
  BY DEF Sound
<1>4. Slots!Agrees(t)
  BY <1>3, TheConstants DEF Sound, Slots!Agrees, Slots!NamedIds, Slots!IdOf
<1>5. Slots!FreeListIsExact(t)
  <2>1. ASSUME NEW s \in 1..Len(t.ids)
        PROVE  t.ids[s] = 0 <=> \E i \in 1..Len(t.free) : t.free[i].slot = s
    BY DEF Sound
  <2>2. \A i, j \in 1..Len(t.free) : i < j =>
           t.free[i].slot # t.free[j].slot /\ t.free[i].at <= t.free[j].at
    BY DEF Sound
  <2> QED  BY <1>3, <2>1, <2>2, TheConstants DEF Slots!FreeListIsExact
<1> QED  BY <1>2, <1>4, <1>5

\* What the free list says of a slot: the tick it holds for it, or none.
LEMMA FreedIs ==
    ASSUME NEW now \in Nat, NEW t, Sound(t, now)
    PROVE  /\ Slots!FreedOf(t) \in [Slot -> Nat]
           /\ \A i \in 1..Len(t.free) : Slots!FreedOf(t)[t.free[i].slot] = t.free[i].at
           /\ \A s \in Slot : (\A i \in 1..Len(t.free) : t.free[i].slot # s)
                => Slots!FreedOf(t)[s] = 0
<1>1. /\ t.free \in Seq(Cell) /\ Len(t.free) \in Nat /\ DOMAIN t.free = 1..Len(t.free)
      /\ \A i \in 1..Len(t.free) : t.free[i] \in Cell /\ t.free[i].at \in Nat /\ t.free[i].slot \in Slot
      /\ \A i, j \in 1..Len(t.free) : t.free[i].slot = t.free[j].slot => i = j
  <2>1. t.free \in Seq(Cell)
    BY DEF Sound
  <2>2. Len(t.free) \in Nat /\ DOMAIN t.free = 1..Len(t.free)
    BY <2>1
  <2>3. ASSUME NEW i \in 1..Len(t.free)
        PROVE  t.free[i] \in Cell /\ t.free[i].at \in Nat /\ t.free[i].slot \in Slot
    <3>1. t.free[i] \in Cell
      BY <2>1, <2>2
    <3> QED  BY <3>1 DEF Cell
  <2>4. ASSUME NEW i \in 1..Len(t.free), NEW j \in 1..Len(t.free), t.free[i].slot = t.free[j].slot
        PROVE  i = j
    <3>1. ~(i < j) /\ ~(j < i)
      BY <2>4 DEF Sound
    <3> QED  BY <3>1
  <2> QED  BY <2>1, <2>2, <2>3, <2>4
<1> DEFINE frees(s) == {i \in DOMAIN t.free : t.free[i].slot = s}
           value(s) == IF frees(s) = {} THEN 0 ELSE t.free[CHOOSE i \in frees(s) : TRUE].at
<1>2. Slots!FreedOf(t) = [s \in Slot |-> value(s)]
  BY DEF Slots!FreedOf, Slots!NoTick
<1>3. ASSUME NEW s \in Slot PROVE value(s) \in Nat
  BY <1>1
<1>4. ASSUME NEW i \in 1..Len(t.free) PROVE value(t.free[i].slot) = t.free[i].at
  <2>1. frees(t.free[i].slot) = {i}
    BY <1>1
  <2> QED  BY <2>1
<1>5. ASSUME NEW s \in Slot, \A i \in 1..Len(t.free) : t.free[i].slot # s PROVE value(s) = 0
  BY <1>1, <1>5
<1> HIDE DEF value, frees
<1>6. ASSUME NEW i \in 1..Len(t.free) PROVE Slots!FreedOf(t)[t.free[i].slot] = t.free[i].at
  BY <1>1, <1>2, <1>4
<1> QED  BY <1>2, <1>3, <1>5, <1>6

LEMMA NamesIs ==
    ASSUME NEW now \in Nat, NEW t, Sound(t, now)
    PROVE  /\ Slots!NamesOf(t) \in [Slot -> AllocEntity \cup {0}]
           /\ \A s \in Slot : Slots!NamesOf(t)[s] = IF s \in 1..Len(t.ids) THEN t.ids[s] ELSE 0
           /\ \A s \in Slot, e \in DOMAIN t.slots : Slots!NamesOf(t)[s] = e <=> s = t.slots[e]
           /\ \A s \in Slot : Slots!NamesOf(t)[s] # 0 => Slots!NamesOf(t)[s] \in DOMAIN t.slots
           /\ \A s \in Slot : Slots!NamesOf(t)[s] # 0 => Slots!FreedOf(t)[s] = 0
<1>1. DOMAIN t.ids = 1..Len(t.ids)
  BY DEF Sound
<1>2. \A s \in Slot : Slots!NamesOf(t)[s] = IF s \in 1..Len(t.ids) THEN t.ids[s] ELSE 0
  BY <1>1, TheConstants DEF Slots!NamesOf, Slots!IdOf
<1>3. ASSUME NEW s \in Slot PROVE Slots!NamesOf(t)[s] \in AllocEntity \cup {0}
  BY <1>1, <1>2 DEF Sound
<1>4. Slots!NamesOf(t) \in [Slot -> AllocEntity \cup {0}]
  <2>1. Slots!NamesOf(t) = [s \in Slot |-> Slots!NamesOf(t)[s]]
    BY DEF Slots!NamesOf
  <2> QED  BY <1>3, <2>1
<1>5. ASSUME NEW s \in Slot, NEW e \in DOMAIN t.slots
      PROVE  Slots!NamesOf(t)[s] = e <=> s = t.slots[e]
  <2>1. e # 0 /\ t.slots[e] \in 1..Len(t.ids) /\ t.ids[t.slots[e]] = e
    BY TheConstants DEF Sound
  <2>2. ASSUME s \in 1..Len(t.ids), t.ids[s] = e PROVE s = t.slots[e]
    BY <2>1, <2>2 DEF Sound
  <2> QED  BY <1>2, <2>1, <2>2
<1>6. ASSUME NEW s \in Slot, Slots!NamesOf(t)[s] # 0 PROVE Slots!NamesOf(t)[s] \in DOMAIN t.slots
  BY <1>2, <1>6 DEF Sound
<1>7. ASSUME NEW s \in Slot, Slots!NamesOf(t)[s] # 0 PROVE Slots!FreedOf(t)[s] = 0
  <2>1. \A i \in 1..Len(t.free) : t.free[i].slot # s
    BY <1>2, <1>7 DEF Sound
  <2> QED  BY <2>1, FreedIs
<1> QED  BY <1>2, <1>4, <1>5, <1>6, <1>7

LEMMA ReleaseIs ==
    ASSUME NEW now \in Nat \ {0}, NEW t, Sound(t, now), Fields(t), NEW id \in DOMAIN t.slots
    PROVE  Slots!Release(t, id, now) =
             [ids   |-> [i \in 1..Len(t.ids) |-> IF i = t.slots[id] THEN 0 ELSE t.ids[i]],
              slots |-> [e \in DOMAIN t.slots \ {id} |-> t.slots[e]],
              free  |-> Append(t.free, [slot |-> t.slots[id], at |-> now])]
<1> DEFINE s == t.slots[id]
           ids == [i \in 1..Len(t.ids) |-> IF i = s THEN 0 ELSE t.ids[i]]
           slots == [e \in DOMAIN t.slots \ {id} |-> t.slots[e]]
           free == Append(t.free, [slot |-> s, at |-> now])
<1>1. DOMAIN t.ids = 1..Len(t.ids)
  BY DEF Sound
<1>2. t = [ids |-> t.ids, slots |-> t.slots, free |-> t.free]
  BY DEF Fields
<1>3. Slots!Vacate(t, s) = [ids |-> ids, slots |-> t.slots, free |-> t.free]
  <2>1. Slots!Vacate(t, s) = [t EXCEPT !.ids = ids]
    BY <1>1, TheConstants DEF Slots!Vacate
  <2> HIDE DEF ids
  <2> QED  BY <1>2, <2>1
<1>4. Slots!Forget(Slots!Vacate(t, s), id) = [ids |-> ids, slots |-> slots, free |-> t.free]
  BY <1>3 DEF Slots!Forget
<1>5. Slots!Release(t, id, now) = [ids |-> ids, slots |-> slots, free |-> free]
  <2> DEFINE w == Slots!Forget(Slots!Vacate(t, s), id)
  <2>1. id \in Slots!NamedIds(t)
    BY DEF Slots!NamedIds
  <2>2. Slots!Release(t, id, now) = [w EXCEPT !.free = Append(w.free, [slot |-> s, at |-> now])]
    BY <2>1 DEF Slots!Release
  <2>3. w = [ids |-> ids, slots |-> slots, free |-> t.free]
    BY <1>4
  <2> HIDE DEF w, ids, slots
  <2> QED  BY <2>2, <2>3
<1> QED  BY <1>5

LEMMA ReleaseKeeps ==
    ASSUME NEW now \in Nat \ {0}, NEW t, Sound(t, now), Fields(t), NEW id \in DOMAIN t.slots
    PROVE  LET u == Slots!Release(t, id, now)
           IN  /\ Sound(u, now) /\ Fields(u) /\ DOMAIN u.slots = DOMAIN t.slots \ {id}
               /\ \A s \in Slot : Slots!NamesOf(u)[s] =
                    IF Slots!NamesOf(t)[s] = id THEN 0 ELSE Slots!NamesOf(t)[s]
               /\ \A s \in Slot : Slots!FreedOf(u)[s] =
                    IF Slots!NamesOf(t)[s] = id THEN now ELSE Slots!FreedOf(t)[s]
<1> DEFINE s == t.slots[id]
           u == Slots!Release(t, id, now)
<1>1. /\ Fields(u)
      /\ u.ids = [i \in 1..Len(t.ids) |-> IF i = s THEN 0 ELSE t.ids[i]]
      /\ u.slots = [e \in DOMAIN t.slots \ {id} |-> t.slots[e]]
      /\ u.free = Append(t.free, [slot |-> s, at |-> now])
  <2> HIDE DEF u
  <2>1. u = [ids   |-> [i \in 1..Len(t.ids) |-> IF i = t.slots[id] THEN 0 ELSE t.ids[i]],
             slots |-> [e \in DOMAIN t.slots \ {id} |-> t.slots[e]],
             free  |-> Append(t.free, [slot |-> t.slots[id], at |-> now])]
    BY ReleaseIs DEF u
  <2> QED  BY <2>1 DEF Fields
<1> HIDE DEF u
<1>2. /\ t.ids \in Seq(Nat) /\ Len(t.ids) \in Nat /\ Len(t.ids) <= MaxSlots
      /\ t.free \in Seq(Cell) /\ Len(t.free) \in Nat
      /\ s \in 1..Len(t.ids) /\ t.ids[s] = id /\ id \in AllocEntity /\ id # 0 /\ s \in Slot
  BY TheConstants DEF Sound
<1>3. u.ids \in Seq(Nat) /\ Len(u.ids) = Len(t.ids)
      /\ \A i \in 1..Len(t.ids) : u.ids[i] = IF i = s THEN 0 ELSE t.ids[i]
  BY <1>1, <1>2
<1>4. DOMAIN u.slots = DOMAIN t.slots \ {id} /\ \A e \in DOMAIN u.slots : u.slots[e] = t.slots[e]
  BY <1>1
<1>5. [slot |-> s, at |-> now] \in Cell
  BY <1>2 DEF Cell
<1>6. /\ u.free \in Seq(Cell) /\ Len(u.free) = Len(t.free) + 1
      /\ u.free[Len(t.free) + 1].slot = s /\ u.free[Len(t.free) + 1].at = now
      /\ \A i \in 1..Len(t.free) : u.free[i] = t.free[i]
  BY <1>1, <1>2, <1>5, AppendProperties
<1>7. \A i \in 1..(Len(t.free) + 1) : i \in 1..Len(t.free) \/ i = Len(t.free) + 1
  BY <1>2
<1>8. \A i \in 1..Len(t.free) : t.free[i].slot # s
  BY <1>2 DEF Sound
<1>9. Sound(u, now)
  <2>1. u.slots \in [DOMAIN u.slots -> Slot] /\ DOMAIN u.slots \subseteq AllocEntity
    <3>1. t.slots \in [DOMAIN t.slots -> Slot] /\ DOMAIN t.slots \subseteq AllocEntity
      BY DEF Sound
    <3> QED  BY <1>1, <3>1
  <2>2. ASSUME NEW x \in 1..Len(u.ids), u.ids[x] # 0
        PROVE  u.ids[x] \in DOMAIN u.slots /\ u.slots[u.ids[x]] = x
    <3>1. x \in 1..Len(t.ids) /\ x # s /\ u.ids[x] = t.ids[x]
      BY <1>3, <2>2
    <3>2. t.ids[x] \in DOMAIN t.slots /\ t.slots[t.ids[x]] = x
      BY <2>2, <3>1 DEF Sound
    <3> QED  BY <1>4, <3>1, <3>2
  <2>3. ASSUME NEW e \in DOMAIN u.slots
        PROVE  u.slots[e] \in 1..Len(u.ids) /\ u.ids[u.slots[e]] = e
    <3>1. e \in DOMAIN t.slots /\ e # id /\ u.slots[e] = t.slots[e]
      BY <1>4
    <3>2. t.slots[e] \in 1..Len(t.ids) /\ t.ids[t.slots[e]] = e
      BY <3>1 DEF Sound
    <3> QED  BY <1>2, <1>3, <3>1, <3>2
  <2>4. ASSUME NEW i \in 1..Len(u.free)
        PROVE  /\ u.free[i].slot \in 1..Len(u.ids) /\ u.ids[u.free[i].slot] = 0
               /\ u.free[i].at \in 1..now
    <3>1. CASE i \in 1..Len(t.free)
      <4>1. /\ t.free[i].slot \in 1..Len(t.ids) /\ t.ids[t.free[i].slot] = 0
            /\ t.free[i].at \in 1..now
        BY <3>1 DEF Sound
      <4> QED  BY <1>3, <1>6, <3>1, <4>1
    <3>2. CASE i = Len(t.free) + 1
      <4>1. u.free[i].slot = s /\ u.free[i].at = now /\ now \in 1..now
        BY <1>6, <3>2
      <4>2. s \in 1..Len(u.ids) /\ u.ids[s] = 0
        BY <1>2, <1>3
      <4> QED  BY <4>1, <4>2
    <3> QED  BY <1>6, <1>7, <3>1, <3>2
  <2>5. ASSUME NEW x \in 1..Len(u.ids), u.ids[x] = 0
        PROVE  \E i \in 1..Len(u.free) : u.free[i].slot = x
    <3>1. CASE x = s
      <4>1. Len(t.free) + 1 \in 1..Len(u.free)
        BY <1>2, <1>6
      <4> QED  BY <1>6, <3>1, <4>1
    <3>2. CASE x # s
      <4>1. x \in 1..Len(t.ids) /\ t.ids[x] = 0
        BY <1>3, <2>5, <3>2
      <4>2. PICK i \in 1..Len(t.free) : t.free[i].slot = x
        BY <4>1 DEF Sound
      <4>3. i \in 1..Len(u.free)
        BY <1>2, <1>6
      <4> QED  BY <1>6, <4>2, <4>3
    <3> QED  BY <3>1, <3>2
  <2>6. ASSUME NEW i \in 1..Len(u.free), NEW j \in 1..Len(u.free), i < j
        PROVE  u.free[i].slot # u.free[j].slot /\ u.free[i].at <= u.free[j].at
    <3>1. i \in 1..Len(t.free) /\ u.free[i] = t.free[i]
      BY <1>2, <1>6, <2>6
    <3>2. CASE j \in 1..Len(t.free)
      <4>1. t.free[i].slot # t.free[j].slot /\ t.free[i].at <= t.free[j].at
        BY <2>6, <3>1, <3>2 DEF Sound
      <4>2. u.free[j] = t.free[j]
        BY <1>6, <3>2
      <4> QED  BY <3>1, <4>1, <4>2
    <3>3. CASE j = Len(t.free) + 1
      <4>1. t.free[i].at \in 1..now
        BY <3>1 DEF Sound
      <4> QED  BY <1>6, <1>8, <3>1, <3>3, <4>1
    <3> QED  BY <1>6, <1>7, <3>2, <3>3
  <2> QED  BY <1>2, <1>3, <1>6, <2>1, <2>2, <2>3, <2>4, <2>5, <2>6 DEF Sound
<1>10. ASSUME NEW x \in Slot
       PROVE  Slots!NamesOf(u)[x] = IF Slots!NamesOf(t)[x] = id THEN 0 ELSE Slots!NamesOf(t)[x]
  <2>1. /\ Slots!NamesOf(t)[x] = IF x \in 1..Len(t.ids) THEN t.ids[x] ELSE 0
        /\ Slots!NamesOf(u)[x] = IF x \in 1..Len(u.ids) THEN u.ids[x] ELSE 0
        /\ (Slots!NamesOf(t)[x] = id <=> x = s)
    BY <1>9, NamesIs
  <2> QED  BY <1>2, <1>3, <2>1
<1>11. ASSUME NEW x \in Slot
       PROVE  Slots!FreedOf(u)[x] = IF Slots!NamesOf(t)[x] = id THEN now ELSE Slots!FreedOf(t)[x]
  <2>1. Slots!NamesOf(t)[x] = id <=> x = s
    BY NamesIs
  <2>2. CASE x = s
    <3>1. Len(t.free) + 1 \in 1..Len(u.free)
      BY <1>2, <1>6
    <3>2. Slots!FreedOf(u)[u.free[Len(t.free) + 1].slot] = u.free[Len(t.free) + 1].at
      BY <1>9, <3>1, FreedIs
    <3> QED  BY <1>6, <2>1, <2>2, <3>2
  <2>3. CASE x # s /\ \E i \in 1..Len(t.free) : t.free[i].slot = x
    <3>1. PICK i \in 1..Len(t.free) : t.free[i].slot = x
      BY <2>3
    <3>2. i \in 1..Len(u.free) /\ u.free[i] = t.free[i]
      BY <1>2, <1>6
    <3>3. Slots!FreedOf(u)[u.free[i].slot] = u.free[i].at
      BY <1>9, <3>2, FreedIs
    <3>4. Slots!FreedOf(t)[t.free[i].slot] = t.free[i].at
      BY FreedIs
    <3> QED  BY <2>1, <2>3, <3>1, <3>2, <3>3, <3>4
  <2>4. CASE x # s /\ \A i \in 1..Len(t.free) : t.free[i].slot # x
    <3>1. \A i \in 1..Len(u.free) : u.free[i].slot # x
      BY <1>6, <1>7, <2>4
    <3>2. Slots!FreedOf(u)[x] = 0
      BY <1>9, <3>1, FreedIs
    <3>3. Slots!FreedOf(t)[x] = 0
      BY <2>4, FreedIs
    <3> QED  BY <2>1, <2>4, <3>2, <3>3
  <2> QED  BY <2>2, <2>3, <2>4
<1> QED  BY <1>1, <1>4, <1>9, <1>10, <1>11 DEF u

\* u is t with s naming `id` as well; sh says where in t's free list each entry of u's was.
Takes(t, u, id, s, sh) ==
    /\ u.ids \in Seq(Nat) /\ Len(u.ids) <= MaxSlots /\ s \in 1..Len(u.ids)
    /\ \A x \in 1..Len(u.ids) : x = s \/ (x # s /\ x \in 1..Len(t.ids))
    /\ \A x \in 1..Len(t.ids) : x \in 1..Len(u.ids) /\ (x = s => t.ids[x] = 0)
    /\ \A x \in 1..Len(u.ids) : u.ids[x] = IF x = s THEN id ELSE t.ids[x]
    /\ u.slots = [e \in DOMAIN t.slots \cup {id} |-> IF e = id THEN s ELSE t.slots[e]]
    /\ u.free \in Seq(Cell)
    /\ \A i \in 1..Len(u.free) : /\ sh[i] \in 1..Len(t.free) /\ u.free[i] = t.free[sh[i]]
                                   /\ u.free[i].slot # s
    /\ \A i, j \in 1..Len(u.free) : i < j => sh[i] < sh[j]
    /\ \A j \in 1..Len(t.free) :
         t.free[j].slot = s \/ \E i \in 1..Len(u.free) : sh[i] = j

LEMMA NamingKeeps ==
    ASSUME NEW now \in Nat \ {0}, NEW t, Sound(t, now), NEW id \in AllocEntity,
           id \notin DOMAIN t.slots, NEW s \in Slot, NEW u, NEW sh, Takes(t, u, id, s, sh)
    PROVE  /\ Sound(u, now) /\ DOMAIN u.slots = DOMAIN t.slots \cup {id}
           /\ \A x \in Slot : Slots!NamesOf(u)[x] = IF x = s THEN id ELSE Slots!NamesOf(t)[x]
           /\ \A x \in Slot : Slots!FreedOf(u)[x] = IF x = s THEN 0 ELSE Slots!FreedOf(t)[x]
<1>0. /\ u.ids \in Seq(Nat) /\ Len(u.ids) <= MaxSlots /\ s \in 1..Len(u.ids)
      /\ \A x \in 1..Len(u.ids) : x = s \/ (x # s /\ x \in 1..Len(t.ids))
      /\ \A x \in 1..Len(t.ids) : x \in 1..Len(u.ids) /\ (x = s => t.ids[x] = 0)
      /\ \A x \in 1..Len(u.ids) : u.ids[x] = IF x = s THEN id ELSE t.ids[x]
      /\ u.slots = [e \in DOMAIN t.slots \cup {id} |-> IF e = id THEN s ELSE t.slots[e]]
      /\ u.free \in Seq(Cell)
      /\ \A i \in 1..Len(u.free) : /\ sh[i] \in 1..Len(t.free) /\ u.free[i] = t.free[sh[i]]
                                     /\ u.free[i].slot # s
      /\ \A i, j \in 1..Len(u.free) : i < j => sh[i] < sh[j]
      /\ \A j \in 1..Len(t.free) :
           t.free[j].slot = s \/ \E i \in 1..Len(u.free) : sh[i] = j
  BY DEF Takes
<1>1. /\ t.ids \in Seq(Nat) /\ Len(t.ids) \in Nat /\ Len(u.ids) \in Nat
      /\ t.free \in Seq(Cell) /\ Len(t.free) \in Nat /\ Len(u.free) \in Nat
      /\ t.slots \in [DOMAIN t.slots -> Slot] /\ DOMAIN t.slots \subseteq AllocEntity
      /\ id # 0
  <2>1. /\ t.ids \in Seq(Nat) /\ t.free \in Seq(Cell)
        /\ t.slots \in [DOMAIN t.slots -> Slot] /\ DOMAIN t.slots \subseteq AllocEntity
    BY DEF Sound
  <2>2. u.ids \in Seq(Nat) /\ u.free \in Seq(Cell)
    BY <1>0
  <2>3. id # 0
    BY TheConstants
  <2> QED  BY <2>1, <2>2, <2>3
<1>2. /\ DOMAIN u.slots = DOMAIN t.slots \cup {id}
      /\ \A e \in DOMAIN u.slots : u.slots[e] = IF e = id THEN s ELSE t.slots[e]
      /\ u.slots \in [DOMAIN u.slots -> Slot]
  BY <1>0, <1>1
<1>3. Sound(u, now)
  <2>1. ASSUME NEW x \in 1..Len(u.ids), u.ids[x] # 0
        PROVE  u.ids[x] \in DOMAIN u.slots /\ u.slots[u.ids[x]] = x
    <3>1. CASE x = s
      BY <1>0, <1>2, <3>1
    <3>2. CASE x # s
      <4>1. x \in 1..Len(t.ids) /\ u.ids[x] = t.ids[x]
        BY <1>0, <3>2
      <4>2. t.ids[x] \in DOMAIN t.slots /\ t.slots[t.ids[x]] = x
        BY <2>1, <4>1 DEF Sound
      <4> QED  BY <1>2, <4>1, <4>2
    <3> QED  BY <3>1, <3>2
  <2>2. ASSUME NEW e \in DOMAIN u.slots
        PROVE  u.slots[e] \in 1..Len(u.ids) /\ u.ids[u.slots[e]] = e
    <3>1. CASE e = id
      BY <1>0, <1>2, <3>1
    <3>2. CASE e # id
      <4>1. e \in DOMAIN t.slots /\ u.slots[e] = t.slots[e]
        BY <1>2, <3>2
      <4>2. t.slots[e] \in 1..Len(t.ids) /\ t.ids[t.slots[e]] = e /\ e # 0
        BY <4>1, TheConstants DEF Sound
      <4>3. t.slots[e] # s /\ t.slots[e] \in 1..Len(u.ids)
        BY <1>0, <4>2
      <4> QED  BY <1>0, <4>1, <4>2, <4>3
    <3> QED  BY <3>1, <3>2
  <2>3. ASSUME NEW i \in 1..Len(u.free)
        PROVE  /\ u.free[i].slot \in 1..Len(u.ids) /\ u.ids[u.free[i].slot] = 0
               /\ u.free[i].at \in 1..now
    <3>1. /\ sh[i] \in 1..Len(t.free) /\ u.free[i] = t.free[sh[i]] /\ u.free[i].slot # s
      BY <1>0
    <3>2. /\ t.free[sh[i]].slot \in 1..Len(t.ids) /\ t.ids[t.free[sh[i]].slot] = 0
          /\ t.free[sh[i]].at \in 1..now
      BY <3>1 DEF Sound
    <3>3. PICK x \in 1..Len(t.ids) : x = u.free[i].slot
      BY <3>1, <3>2
    <3>4. t.ids[x] = 0 /\ x # s
      BY <3>1, <3>2, <3>3
    <3>5. x \in 1..Len(u.ids) /\ u.ids[x] = 0
      BY <1>0, <3>4
    <3> QED  BY <3>1, <3>2, <3>3, <3>5
  <2>4. ASSUME NEW x \in 1..Len(u.ids), u.ids[x] = 0
        PROVE  \E i \in 1..Len(u.free) : u.free[i].slot = x
    <3>1. x # s /\ x \in 1..Len(t.ids) /\ t.ids[x] = 0
      BY <1>0, <1>1, <2>4
    <3>2. PICK j \in 1..Len(t.free) : t.free[j].slot = x
      BY <3>1 DEF Sound
    <3>3. PICK i \in 1..Len(u.free) : sh[i] = j
      BY <1>0, <3>1, <3>2
    <3> QED  BY <1>0, <3>2, <3>3
  <2>5. ASSUME NEW i \in 1..Len(u.free), NEW j \in 1..Len(u.free), i < j
        PROVE  u.free[i].slot # u.free[j].slot /\ u.free[i].at <= u.free[j].at
    <3>1. /\ sh[i] \in 1..Len(t.free) /\ u.free[i] = t.free[sh[i]]
          /\ sh[j] \in 1..Len(t.free) /\ u.free[j] = t.free[sh[j]]
          /\ sh[i] < sh[j]
      BY <1>0, <2>5
    <3>2. t.free[sh[i]].slot # t.free[sh[j]].slot /\ t.free[sh[i]].at <= t.free[sh[j]].at
      BY <3>1 DEF Sound
    <3> QED  BY <3>1, <3>2
  <2>6. u.ids \in Seq(Nat) /\ Len(u.ids) <= MaxSlots /\ u.free \in Seq(Cell)
    BY <1>0
  <2>7. DOMAIN u.slots \subseteq AllocEntity /\ u.slots \in [DOMAIN u.slots -> Slot]
    BY <1>1, <1>2
  <2> QED  BY <2>1, <2>2, <2>3, <2>4, <2>5, <2>6, <2>7 DEF Sound
<1>4. ASSUME NEW x \in Slot
      PROVE  Slots!NamesOf(u)[x] = IF x = s THEN id ELSE Slots!NamesOf(t)[x]
  <2>1. /\ Slots!NamesOf(t)[x] = IF x \in 1..Len(t.ids) THEN t.ids[x] ELSE 0
        /\ Slots!NamesOf(u)[x] = IF x \in 1..Len(u.ids) THEN u.ids[x] ELSE 0
    BY <1>3, NamesIs
  <2> QED  BY <1>0, <2>1
<1>5. ASSUME NEW x \in Slot
      PROVE  Slots!FreedOf(u)[x] = IF x = s THEN 0 ELSE Slots!FreedOf(t)[x]
  <2>1. CASE x = s
    <3>1. \A i \in 1..Len(u.free) : u.free[i].slot # x
      BY <1>0, <2>1
    <3> QED  BY <1>3, <2>1, <3>1, FreedIs
  <2>2. CASE x # s /\ \E j \in 1..Len(t.free) : t.free[j].slot = x
    <3>1. PICK j \in 1..Len(t.free) : t.free[j].slot = x
      BY <2>2
    <3>2. PICK i \in 1..Len(u.free) : sh[i] = j
      BY <1>0, <2>2, <3>1
    <3>3. u.free[i] = t.free[j]
      BY <1>0, <3>2
    <3>4. Slots!FreedOf(u)[u.free[i].slot] = u.free[i].at
      BY <1>3, <3>2, FreedIs
    <3>5. Slots!FreedOf(t)[t.free[j].slot] = t.free[j].at
      BY <3>1, FreedIs
    <3> QED  BY <2>2, <3>1, <3>3, <3>4, <3>5
  <2>3. CASE x # s /\ \A j \in 1..Len(t.free) : t.free[j].slot # x
    <3>1. ASSUME NEW i \in 1..Len(u.free) PROVE u.free[i].slot # x
      <4>1. sh[i] \in 1..Len(t.free) /\ u.free[i] = t.free[sh[i]]
        BY <1>0
      <4>2. t.free[sh[i]].slot # x
        BY <2>3, <4>1
      <4> QED  BY <4>1, <4>2
    <3>2. Slots!FreedOf(u)[x] = 0
      BY <1>3, <3>1, FreedIs
    <3>3. Slots!FreedOf(t)[x] = 0
      BY <2>3, FreedIs
    <3> QED  BY <2>3, <3>2, <3>3
  <2> QED  BY <2>1, <2>2, <2>3
<1> QED  BY <1>2, <1>3, <1>4, <1>5

\* The slots that may be given out at now, under the table's view of itself.
OpenAt(t, now) ==
    {s \in Slot : /\ Slots!NamesOf(t)[s] = 0
                  /\ Slots!FreedOf(t)[s] = 0 \/ now >= Slots!FreedOf(t)[s] + AllocQuarantine}

\* The table named `id` at s.
NamedAt(t, u, id, s) ==
    /\ DOMAIN u.slots = DOMAIN t.slots \cup {id}
    /\ \A x \in Slot : Slots!NamesOf(u)[x] = IF x = s THEN id ELSE Slots!NamesOf(t)[x]
    /\ \A x \in Slot : Slots!FreedOf(u)[x] = IF x = s THEN 0 ELSE Slots!FreedOf(t)[x]

LEMMA FreeWrite ==
    ASSUME NEW i, NEW s, NEW f, NEW a, NEW r, r = [ids |-> i, slots |-> s, free |-> f]
    PROVE  [r EXCEPT !.free = a] = [ids |-> i, slots |-> s, free |-> a]
OBVIOUS

LEMMA NameWrites ==
    ASSUME NEW i, NEW s, NEW f, NEW a, NEW b, NEW r, r = [ids |-> i, slots |-> s, free |-> f]
    PROVE  [r EXCEPT !.ids = a, !.slots = b] = [ids |-> a, slots |-> b, free |-> f]
<1> DEFINE q == [r EXCEPT !.ids = a]
<1>1. q = [ids |-> a, slots |-> s, free |-> f]
  OBVIOUS
<1>2. [r EXCEPT !.ids = a, !.slots = b] = [q EXCEPT !.slots = b]
  OBVIOUS
<1> HIDE DEF q
<1>3. [q EXCEPT !.slots = b] = [ids |-> a, slots |-> b, free |-> f]
  BY <1>1
<1> QED  BY <1>2, <1>3

LEMMA BindAtIs ==
    ASSUME NEW t, Fields(t), NEW s \in Nat, NEW id
    PROVE  Slots!BindAt(t, s, id) =
             [ids   |-> [i \in 1..(IF s > Len(t.ids) THEN s ELSE Len(t.ids)) |->
                           IF i = s THEN id ELSE Slots!IdOf(t, i)],
              slots |-> [e \in DOMAIN t.slots \cup {id} |-> IF e = id THEN s ELSE t.slots[e]],
              free  |-> t.free]
<1> DEFINE ids == [i \in 1..(IF s > Len(t.ids) THEN s ELSE Len(t.ids)) |->
                     IF i = s THEN id ELSE Slots!IdOf(t, i)]
           slots == [e \in DOMAIN t.slots \cup {id} |-> IF e = id THEN s ELSE t.slots[e]]
<1>1. Slots!BindAt(t, s, id) = [t EXCEPT !.ids = ids, !.slots = slots]
  BY DEF Slots!BindAt
<1> HIDE DEF ids, slots
<1>2. t = [ids |-> t.ids, slots |-> t.slots, free |-> t.free]
  BY DEF Fields
<1>3. Slots!BindAt(t, s, id) = [ids |-> ids, slots |-> slots, free |-> t.free]
  BY <1>1, <1>2, NameWrites
<1> QED  BY <1>3 DEF ids, slots

LEMMA AllocKeeps ==
    ASSUME NEW now \in Nat \ {0}, NEW t, Sound(t, now), Fields(t), NEW id \in AllocEntity,
           id \notin DOMAIN t.slots
    PROVE  LET u == Slots!Alloc(t, id, now)
           IN  \/ u = t /\ OpenAt(t, now) = {}
               \/ /\ Sound(u, now) /\ Fields(u)
                  /\ \E s \in OpenAt(t, now) : NamedAt(t, u, id, s)
<1> DEFINE u == Slots!Alloc(t, id, now)
<1>1. /\ t.ids \in Seq(Nat) /\ Len(t.ids) \in Nat /\ DOMAIN t.ids = 1..Len(t.ids)
      /\ Len(t.ids) <= MaxSlots /\ t.free \in Seq(Cell) /\ Len(t.free) \in Nat
      /\ id \in Nat /\ id # 0
  BY TheConstants DEF Sound
<1>2. id \notin Slots!NamedIds(t)
  BY DEF Slots!NamedIds
<1>3. CASE Slots!Expired(t, now)
  <2> DEFINE s == t.free[1].slot
             w == [t EXCEPT !.free = Tail(t.free)]
  <2>1. t.free # <<>> /\ Len(t.free) >= 1 /\ now >= t.free[1].at + AllocQuarantine
    BY <1>1, <1>3 DEF Slots!Expired
  <2>2. u = Slots!BindAt(w, s, id)
    BY <1>2, <1>3, <2>1 DEF Slots!Alloc
  <2>3. w = [ids |-> t.ids, slots |-> t.slots, free |-> Tail(t.free)]
    <3>1. t = [ids |-> t.ids, slots |-> t.slots, free |-> t.free]
      BY DEF Fields
    <3> DEFINE rest == Tail(t.free)
    <3> HIDE DEF rest
    <3>2. [t EXCEPT !.free = rest] = [ids |-> t.ids, slots |-> t.slots, free |-> rest]
      BY <3>1, FreeWrite
    <3> QED  BY <3>2 DEF rest
  <2> HIDE DEF w, u
  <2>4. 1 \in 1..Len(t.free) /\ s \in 1..Len(t.ids) /\ t.ids[s] = 0 /\ t.free[1].at \in 1..now
    BY <1>1, <2>1 DEF Sound
  <2>5. s \in Nat /\ s \in Slot /\ ~(s > Len(t.ids))
    BY <1>1, <2>4, TheConstants
  <2> HIDE DEF s
  <2>6. Fields(w) /\ w.ids = t.ids /\ w.slots = t.slots /\ w.free = Tail(t.free)
    BY <2>3 DEF Fields
  <2>7. u = [ids   |-> [i \in 1..Len(t.ids) |-> IF i = s THEN id ELSE Slots!IdOf(w, i)],
             slots |-> [e \in DOMAIN t.slots \cup {id} |-> IF e = id THEN s ELSE t.slots[e]],
             free  |-> Tail(t.free)]
    <3>1. u = [ids   |-> [i \in 1..(IF s > Len(w.ids) THEN s ELSE Len(w.ids)) |->
                            IF i = s THEN id ELSE Slots!IdOf(w, i)],
               slots |-> [e \in DOMAIN w.slots \cup {id} |-> IF e = id THEN s ELSE w.slots[e]],
               free  |-> w.free]
      BY <2>2, <2>5, <2>6, BindAtIs
    <3>2. (IF s > Len(w.ids) THEN s ELSE Len(w.ids)) = Len(t.ids)
      BY <2>5, <2>6
    <3> QED  BY <2>6, <3>1, <3>2
  <2>8. \A i \in 1..Len(t.ids) : Slots!IdOf(w, i) = t.ids[i]
    BY <1>1, <2>6 DEF Slots!IdOf
  <2>9. /\ Fields(u) /\ u.free = Tail(t.free)
        /\ u.slots = [e \in DOMAIN t.slots \cup {id} |-> IF e = id THEN s ELSE t.slots[e]]
        /\ u.ids = [i \in 1..Len(t.ids) |-> IF i = s THEN id ELSE t.ids[i]]
    BY <2>7, <2>8 DEF Fields
  <2>10. /\ u.ids \in Seq(Nat) /\ Len(u.ids) = Len(t.ids)
         /\ \A x \in 1..Len(u.ids) : u.ids[x] = IF x = s THEN id ELSE t.ids[x]
    <3>1. \A x \in 1..Len(t.ids) : (IF x = s THEN id ELSE t.ids[x]) \in Nat
      BY <1>1
    <3> QED  BY <1>1, <2>9, <3>1
  <2>11. /\ u.free \in Seq(Cell) /\ Len(u.free) = Len(t.free) - 1
         /\ \A i \in 1..Len(u.free) : u.free[i] = t.free[i + 1]
    BY <1>1, <2>1, <2>9, HeadTailProperties
  <2>12. ASSUME NEW i \in 1..Len(u.free)
         PROVE  i + 1 \in 1..Len(t.free) /\ u.free[i] = t.free[i + 1] /\ u.free[i].slot # s
    <3>1. i + 1 \in 1..Len(t.free) /\ 1 < i + 1
      BY <1>1, <2>11
    <3>2. t.free[1].slot # t.free[i + 1].slot
      BY <2>4, <3>1 DEF Sound
    <3> QED  BY <2>11, <3>1, <3>2 DEF s
  <2>13. ASSUME NEW j \in 1..Len(t.free) PROVE t.free[j].slot = s \/ j - 1 \in 1..Len(u.free)
    BY <1>1, <2>11 DEF s
  <2>14. /\ \A x \in 1..Len(u.ids) : x = s \/ (x # s /\ x \in 1..Len(t.ids))
         /\ \A x \in 1..Len(t.ids) : x \in 1..Len(u.ids) /\ (x = s => t.ids[x] = 0)
         /\ Len(u.ids) <= MaxSlots /\ s \in 1..Len(u.ids)
    BY <1>1, <2>4, <2>10
  <2>15. Sound(u, now) /\ NamedAt(t, u, id, s)
    <3> DEFINE sh == [i \in 1..Len(u.free) |-> i + 1]
    <3>1. /\ \A i \in 1..Len(u.free) : /\ sh[i] \in 1..Len(t.free) /\ u.free[i] = t.free[sh[i]]
                                       /\ u.free[i].slot # s
          /\ \A i, j \in 1..Len(u.free) : i < j => sh[i] < sh[j]
      BY <2>12
    <3>2. ASSUME NEW j \in 1..Len(t.free)
          PROVE  t.free[j].slot = s \/ \E i \in 1..Len(u.free) : sh[i] = j
      <4>1. CASE j - 1 \in 1..Len(u.free)
        <5>1. sh[j - 1] = j
          BY <1>1, <4>1
        <5> QED  BY <4>1, <5>1
      <4> QED  BY <2>13, <4>1
    <3> HIDE DEF sh
    <3>3. /\ Sound(u, now) /\ DOMAIN u.slots = DOMAIN t.slots \cup {id}
          /\ \A x \in Slot : Slots!NamesOf(u)[x] = IF x = s THEN id ELSE Slots!NamesOf(t)[x]
          /\ \A x \in Slot : Slots!FreedOf(u)[x] = IF x = s THEN 0 ELSE Slots!FreedOf(t)[x]
      <4>1. Takes(t, u, id, s, sh)
        BY <2>9, <2>10, <2>11, <2>14, <3>1, <3>2 DEF Takes
      <4> QED  BY <2>5, <4>1, NamingKeeps
    <3> QED  BY <3>3 DEF NamedAt
  <2>16. s \in OpenAt(t, now)
    <3>1. Slots!NamesOf(t)[s] = 0
      BY <2>4, <2>5, NamesIs
    <3>2. Slots!FreedOf(t)[s] = t.free[1].at
      BY <2>4, FreedIs DEF s
    <3> QED  BY <2>1, <2>5, <3>1, <3>2 DEF OpenAt
  <2> QED  BY <2>9, <2>15, <2>16 DEF u
<1>4. CASE ~Slots!Expired(t, now) /\ Len(t.ids) < MaxSlots
  <2> DEFINE s == Len(t.ids) + 1
  <2>1. u = Slots!BindAt(t, s, id)
    BY <1>2, <1>4 DEF Slots!Alloc
  <2>2. s \in Nat /\ s \in Slot /\ s > Len(t.ids) /\ s \notin 1..Len(t.ids)
    BY <1>1, <1>4, TheConstants
  <2> HIDE DEF s, u
  <2>3. u = [ids   |-> [i \in 1..s |-> IF i = s THEN id ELSE Slots!IdOf(t, i)],
             slots |-> [e \in DOMAIN t.slots \cup {id} |-> IF e = id THEN s ELSE t.slots[e]],
             free  |-> t.free]
    BY <2>1, <2>2, BindAtIs
  <2>4. \A i \in 1..s : i = s \/ (i # s /\ i \in 1..Len(t.ids) /\ Slots!IdOf(t, i) = t.ids[i])
    BY <1>1 DEF Slots!IdOf, s
  <2>5. /\ Fields(u) /\ u.free = t.free
        /\ u.slots = [e \in DOMAIN t.slots \cup {id} |-> IF e = id THEN s ELSE t.slots[e]]
        /\ u.ids = [i \in 1..s |-> IF i = s THEN id ELSE t.ids[i]]
    BY <2>3, <2>4 DEF Fields
  <2>6. /\ u.ids \in Seq(Nat) /\ Len(u.ids) = s
        /\ \A x \in 1..s : u.ids[x] = IF x = s THEN id ELSE t.ids[x]
    <3>1. \A x \in 1..s : (IF x = s THEN id ELSE t.ids[x]) \in Nat
      BY <1>1, <2>4
    <3> QED  BY <2>2, <2>5, <3>1
  <2>7. /\ Len(u.ids) <= MaxSlots /\ s \in 1..Len(u.ids)
        /\ \A x \in 1..Len(u.ids) : x = s \/ (x # s /\ x \in 1..Len(t.ids))
        /\ \A x \in 1..Len(t.ids) : x \in 1..Len(u.ids) /\ (x = s => t.ids[x] = 0)
    <3>1. \A x \in 1..Len(t.ids) : x \in 1..s
      BY <1>1 DEF s
    <3>2. s <= MaxSlots /\ s \in 1..s
      BY <1>1, <1>4, TheConstants DEF s
    <3> QED  BY <2>2, <2>4, <2>6, <3>1, <3>2
  <2>8. Sound(u, now) /\ NamedAt(t, u, id, s)
    <3> DEFINE sh == [i \in 1..Len(u.free) |-> i]
    <3>1. ASSUME NEW i \in 1..Len(u.free)
          PROVE  sh[i] \in 1..Len(t.free) /\ u.free[i] = t.free[sh[i]] /\ u.free[i].slot # s
      <4>1. t.free[i].slot \in 1..Len(t.ids)
        BY <2>5 DEF Sound
      <4> QED  BY <2>2, <2>5, <4>1
    <3>2. /\ \A i, j \in 1..Len(u.free) : i < j => sh[i] < sh[j]
          /\ \A j \in 1..Len(t.free) :
               t.free[j].slot = s \/ \E i \in 1..Len(u.free) : sh[i] = j
      BY <2>5
    <3>3. u.free \in Seq(Cell)
      BY <1>1, <2>5
    <3> HIDE DEF sh
    <3>4. /\ Sound(u, now) /\ DOMAIN u.slots = DOMAIN t.slots \cup {id}
          /\ \A x \in Slot : Slots!NamesOf(u)[x] = IF x = s THEN id ELSE Slots!NamesOf(t)[x]
          /\ \A x \in Slot : Slots!FreedOf(u)[x] = IF x = s THEN 0 ELSE Slots!FreedOf(t)[x]
      <4>1. Takes(t, u, id, s, sh)
        BY <2>5, <2>6, <2>7, <3>1, <3>2, <3>3 DEF Takes
      <4>2. s \in Slot
        BY <2>2
      <4> QED  BY <4>1, <4>2, NamingKeeps
    <3> QED  BY <3>4 DEF NamedAt
  <2>9. s \in OpenAt(t, now)
    <3>1. Slots!NamesOf(t)[s] = 0
      BY <2>2, NamesIs
    <3>2. Slots!FreedOf(t)[s] = 0
      <4>1. \A i \in 1..Len(t.free) : t.free[i].slot # s
        BY <2>2 DEF Sound
      <4> QED  BY <2>2, <4>1, FreedIs
    <3> QED  BY <2>2, <3>1, <3>2 DEF OpenAt
  <2> QED  BY <2>5, <2>8, <2>9 DEF u
<1>5. CASE ~Slots!Expired(t, now) /\ ~(Len(t.ids) < MaxSlots)
  <2>1. u = t
    BY <1>2, <1>5 DEF Slots!Alloc
  <2>2. ASSUME NEW s \in OpenAt(t, now) PROVE FALSE
    <3>1. s \in 1..Len(t.ids) /\ s \in Slot
      BY <1>1, <1>5, TheConstants DEF OpenAt
    <3>2. t.ids[s] = 0
      BY <3>1, NamesIs DEF OpenAt
    <3>3. PICK i \in 1..Len(t.free) : t.free[i].slot = s
      BY <3>1, <3>2 DEF Sound
    <3>4. t.free[i].at \in 1..now /\ 1 \in 1..Len(t.free) /\ t.free[1].at \in 1..now
      BY <1>1, <3>3 DEF Sound
    <3>5. Slots!FreedOf(t)[s] = t.free[i].at
      BY <3>3, FreedIs
    <3>6. t.free[1].at <= t.free[i].at
      <4>1. CASE i = 1
        BY <3>4, <4>1
      <4>2. CASE 1 < i
        BY <3>3, <3>4, <4>2 DEF Sound
      <4> QED  BY <3>3, <4>1, <4>2
    <3>7. t.free # <<>> /\ Head(t.free) = t.free[1]
      BY <1>1, <3>4
    <3>8. ~(now >= t.free[1].at + AllocQuarantine)
      BY <1>5, <3>7 DEF Slots!Expired
    <3>9. now >= t.free[i].at + AllocQuarantine
      BY <3>4, <3>5 DEF OpenAt
    <3> QED  BY <3>4, <3>6, <3>8, <3>9, TheConstants
  <2> QED  BY <2>1, <2>2
<1> QED  BY <1>3, <1>4, <1>5

\* One pass of the reconciliation's two loops.
ReleaseLoop(t, P, now, h) ==
    h = [s \in SUBSET P |->
           IF s = {} THEN t ELSE Slots!Release(h[s \ {Greatest(s)}], Greatest(s), now)]

AllocLoop(t, A, now, h) ==
    h = [s \in SUBSET A |->
           IF s = {} THEN t ELSE Slots!Alloc(h[s \ {Greatest(s)}], Greatest(s), now)]

Released(t, P, now) == (CHOOSE h : ReleaseLoop(t, P, now, h))[P]

Allocated(t, A, now) == (CHOOSE h : AllocLoop(t, A, now, h))[A]

LEMMA ReconcileIs ==
    ASSUME NEW t, NEW A, NEW now
    PROVE  Slots!Reconcile(t, A, now) =
             Allocated(Released(t, Slots!NamedIds(t) \ A, now), A, now)
BY DEF Slots!Reconcile, Slots!FoldAscending, Slots!MapThenFoldSet, Slots!Max,
       Allocated, Released, AllocLoop, ReleaseLoop, Greatest

SoundTables(now) == {t \in Slots!Tables : Sound(t, now)}

LEMMA SoundTablesAre ==
    ASSUME NEW now, NEW t
    PROVE  t \in SoundTables(now) <=> Sound(t, now) /\ Fields(t)
<1>1. ASSUME t \in Slots!Tables PROVE Fields(t)
  BY <1>1 DEF Slots!Tables, Fields
<1>2. ASSUME Sound(t, now), Fields(t) PROVE t \in Slots!Tables
  <2>1. t.slots \in UNION {[S -> Slot] : S \in SUBSET AllocEntity}
    BY <1>2 DEF Sound
  <2> QED  BY <1>2, <2>1 DEF Sound, Fields, Slots!Tables, Cell
<1> QED  BY <1>1, <1>2 DEF SoundTables

\* What the table says once the members of s are released from t.
Without(t, now, s, u) ==
    /\ DOMAIN u.slots = DOMAIN t.slots \ s
    /\ \A x \in Slot : Slots!NamesOf(u)[x] =
         IF Slots!NamesOf(t)[x] \in s THEN 0 ELSE Slots!NamesOf(t)[x]
    /\ \A x \in Slot : Slots!FreedOf(u)[x] =
         IF Slots!NamesOf(t)[x] \in s THEN now ELSE Slots!FreedOf(t)[x]

LEMMA ReleasedIs ==
    ASSUME NEW now \in Nat \ {0}, NEW t, Sound(t, now), Fields(t), NEW P \in SUBSET DOMAIN t.slots
    PROVE  LET u == Released(t, P, now)
           IN  Sound(u, now) /\ Fields(u) /\ Without(t, now, P, u)
<1> DEFINE V == SoundTables(now)
           F == [p \in P \X V |-> IF p[1] \in DOMAIN p[2].slots
                                  THEN Slots!Release(p[2], p[1], now) ELSE p[2]]
           h == CHOOSE g : ReleaseLoop(t, P, now, g)
           R == {p \in (SUBSET P) \X V : Without(t, now, p[1], p[2])}
<1>1. IsFiniteSet(P) /\ P \subseteq Nat /\ 0 \notin P /\ P \subseteq DOMAIN t.slots
  <2>1. P \subseteq AllocEntity
    BY DEF Sound
  <2> QED  BY <2>1, TheConstants, FS_Subset
<1>2. t \in V
  BY SoundTablesAre
<1>3. F \in [P \X V -> V]
  <2>1. ASSUME NEW id \in P, NEW u \in V, id \in DOMAIN u.slots
        PROVE  Slots!Release(u, id, now) \in V
    <3>1. Sound(u, now) /\ Fields(u)
      BY SoundTablesAre
    <3>2. Sound(Slots!Release(u, id, now), now) /\ Fields(Slots!Release(u, id, now))
      BY <2>1, <3>1, ReleaseKeeps
    <3> QED  BY <3>2, SoundTablesAre
  <2> HIDE DEF V
  <2> QED  BY <2>1
<1> HIDE DEF V, F
<1>4. PICK g \in [SUBSET P -> V] : Loops(F, t, P, g)
  BY <1>1, <1>2, <1>3, LoopExists
<1>5. ReleaseLoop(t, P, now, g)
  <2>1. ASSUME NEW s \in SUBSET P, s # {}
        PROVE  g[s] = Slots!Release(g[s \ {Greatest(s)}], Greatest(s), now)
    <3>1. Greatest(s) \in P /\ s \ {Greatest(s)} \in SUBSET P
      BY <1>1, <2>1, FS_Subset, SomeGreatest
    <3> DEFINE id == Greatest(s)
               u == g[s \ {id}]
    <3>2. u \in V /\ id \in P
      BY <1>4, <3>1
    <3>3. g[s] = F[<<id, u>>]
      BY <1>4, <2>1 DEF Loops
    <3> HIDE DEF id, u
    <3>4. g[s] = IF id \in DOMAIN u.slots THEN Slots!Release(u, id, now) ELSE u
      BY <3>2, <3>3 DEF F
    <3>5. id \notin DOMAIN u.slots => Slots!Release(u, id, now) = u
      BY DEF Slots!Release, Slots!NamedIds
    <3> QED  BY <3>4, <3>5 DEF id, u
  <2>2. g[{}] = t
    BY <1>4 DEF Loops
  <2> QED  BY <1>4, <2>1, <2>2 DEF ReleaseLoop
<1>6. ReleaseLoop(t, P, now, h)
  BY <1>5
<1> HIDE DEF h
<1>7. h[{}] = t /\ \A s \in SUBSET P : s # {} =>
        h[s] = Slots!Release(h[s \ {Greatest(s)}], Greatest(s), now)
  BY <1>6 DEF ReleaseLoop
<1>8. <<{}, h[{}]>> \in R
  <2>1. Without(t, now, {}, t)
    BY DEF Without
  <2> QED  BY <1>2, <1>7, <2>1
<1>9. ASSUME NEW s \in SUBSET P, NEW x \in s, x = Greatest(s), <<s \ {x}, h[s \ {x}]>> \in R
      PROVE  <<s, h[s]>> \in R
  <2> DEFINE u == h[s \ {x}]
             w == Slots!Release(u, x, now)
  <2>1. u \in V /\ Without(t, now, s \ {x}, u)
    BY <1>9
  <2>2. h[s] = w
    BY <1>7, <1>9
  <2>3. x \in DOMAIN u.slots /\ x # 0
    BY <1>1, <2>1 DEF Without
  <2> HIDE DEF u
  <2>4. Sound(u, now) /\ Fields(u)
    BY <2>1, SoundTablesAre DEF V
  <2>5. /\ Sound(w, now) /\ Fields(w) /\ DOMAIN w.slots = DOMAIN u.slots \ {x}
        /\ \A y \in Slot : Slots!NamesOf(w)[y] =
             IF Slots!NamesOf(u)[y] = x THEN 0 ELSE Slots!NamesOf(u)[y]
        /\ \A y \in Slot : Slots!FreedOf(w)[y] =
             IF Slots!NamesOf(u)[y] = x THEN now ELSE Slots!FreedOf(u)[y]
    BY <2>3, <2>4, ReleaseKeeps
  <2> HIDE DEF w
  <2>6. w \in V
    BY <2>5, SoundTablesAre DEF V
  <2>7. Without(t, now, s, w)
    <3>1. DOMAIN w.slots = DOMAIN t.slots \ s
      BY <2>1, <2>5 DEF Without
    <3>2. ASSUME NEW y \in Slot
          PROVE  /\ Slots!NamesOf(w)[y] =
                      IF Slots!NamesOf(t)[y] \in s THEN 0 ELSE Slots!NamesOf(t)[y]
                 /\ Slots!FreedOf(w)[y] =
                      IF Slots!NamesOf(t)[y] \in s THEN now ELSE Slots!FreedOf(t)[y]
      <4>1. /\ Slots!NamesOf(u)[y] =
                 IF Slots!NamesOf(t)[y] \in s \ {x} THEN 0 ELSE Slots!NamesOf(t)[y]
            /\ Slots!FreedOf(u)[y] =
                 IF Slots!NamesOf(t)[y] \in s \ {x} THEN now ELSE Slots!FreedOf(t)[y]
        BY <2>1 DEF Without
      <4>2. Slots!NamesOf(u)[y] = x <=> Slots!NamesOf(t)[y] = x
        BY <2>3, <4>1
      <4> QED  BY <2>5, <4>1, <4>2
    <3> QED  BY <3>1, <3>2 DEF Without
  <2> QED  BY <2>2, <2>6, <2>7
<1> HIDE DEF R
<1>10. <<P, h[P]>> \in R
  BY <1>1, <1>8, <1>9, LoopReaches
<1>11. h[P] \in V /\ Without(t, now, P, h[P])
  BY <1>10 DEF R
<1>12. Released(t, P, now) = h[P]
  BY DEF Released, h
<1> QED  BY <1>11, <1>12, SoundTablesAre DEF V

\* What the table says once the members of s have been offered a slot of r's.
Offered(r, now, s, u) ==
    /\ DOMAIN r.slots \subseteq DOMAIN u.slots /\ DOMAIN u.slots \subseteq DOMAIN r.slots \cup s
    /\ \A x \in Slot : Slots!NamesOf(r)[x] # 0 => Slots!NamesOf(u)[x] = Slots!NamesOf(r)[x]
    /\ \A x \in Slot : Slots!NamesOf(r)[x] = 0 =>
         \/ Slots!NamesOf(u)[x] = 0
         \/ x \in OpenAt(r, now) /\ Slots!NamesOf(u)[x] \in s \ DOMAIN r.slots
    /\ \A x \in Slot : Slots!FreedOf(u)[x] =
         IF Slots!NamesOf(u)[x] # 0 THEN 0 ELSE Slots!FreedOf(r)[x]
    /\ s \subseteq DOMAIN u.slots \/ \A x \in OpenAt(r, now) : Slots!NamesOf(u)[x] # 0

LEMMA OfferKeeps ==
    ASSUME NEW now \in Nat \ {0}, NEW r, NEW s \in SUBSET AllocEntity, NEW id \in s,
           NEW u, Sound(u, now), Fields(u), Offered(r, now, s \ {id}, u)
    PROVE  LET w == Slots!Alloc(u, id, now)
           IN  Sound(w, now) /\ Fields(w) /\ Offered(r, now, s, w)
<1> DEFINE w == Slots!Alloc(u, id, now)
<1>1. ASSUME NEW x \in OpenAt(u, now) PROVE x \in OpenAt(r, now)
  <2>1. x \in Slot /\ Slots!NamesOf(u)[x] = 0 /\ Slots!FreedOf(u)[x] = Slots!FreedOf(r)[x]
    BY <1>1 DEF OpenAt, Offered
  <2>2. Slots!NamesOf(r)[x] = 0
    BY <2>1 DEF Offered
  <2> QED  BY <1>1, <2>1, <2>2 DEF OpenAt
<1>2. ASSUME NEW x \in OpenAt(r, now), Slots!NamesOf(u)[x] = 0 PROVE x \in OpenAt(u, now)
  <2>1. x \in Slot /\ Slots!FreedOf(u)[x] = Slots!FreedOf(r)[x]
    BY <1>2 DEF OpenAt, Offered
  <2> QED  BY <1>2, <2>1 DEF OpenAt
<1>3. CASE id \in DOMAIN u.slots
  <2>1. w = u
    BY <1>3 DEF Slots!Alloc, Slots!NamedIds
  <2>2. Offered(r, now, s, u)
    BY <1>3 DEF Offered
  <2> QED  BY <2>1, <2>2
<1>4. CASE id \notin DOMAIN u.slots
  <2>1. \/ w = u /\ OpenAt(u, now) = {}
        \/ /\ Sound(w, now) /\ Fields(w)
           /\ \E x \in OpenAt(u, now) : NamedAt(u, w, id, x)
    BY <1>4, AllocKeeps
  <2> HIDE DEF w
  <2>2. CASE w = u /\ OpenAt(u, now) = {}
    <3>1. \A x \in OpenAt(r, now) : Slots!NamesOf(u)[x] # 0
      BY <1>2, <2>2
    <3>2. Offered(r, now, s, u)
      BY <3>1 DEF Offered
    <3> QED  BY <2>2, <3>2 DEF w
  <2>3. CASE /\ Sound(w, now) /\ Fields(w)
             /\ \E x \in OpenAt(u, now) : NamedAt(u, w, id, x)
    <3>1. PICK x \in OpenAt(u, now) : NamedAt(u, w, id, x)
      BY <2>3
    <3>2. /\ x \in Slot /\ x \in OpenAt(r, now) /\ id # 0 /\ id \notin DOMAIN r.slots
          /\ Slots!NamesOf(r)[x] = 0
      <4>1. x \in OpenAt(r, now)
        BY <1>1
      <4>2. id \notin DOMAIN r.slots
        BY <1>4 DEF Offered
      <4> QED  BY <4>1, <4>2, TheConstants DEF OpenAt
    <3>3. /\ DOMAIN w.slots = DOMAIN u.slots \cup {id}
          /\ \A y \in Slot : Slots!NamesOf(w)[y] = IF y = x THEN id ELSE Slots!NamesOf(u)[y]
          /\ \A y \in Slot : Slots!FreedOf(w)[y] = IF y = x THEN 0 ELSE Slots!FreedOf(u)[y]
      BY <3>1 DEF NamedAt
    <3>4. /\ DOMAIN r.slots \subseteq DOMAIN w.slots
          /\ DOMAIN w.slots \subseteq DOMAIN r.slots \cup s
      BY <3>3 DEF Offered
    <3>5. ASSUME NEW y \in Slot, Slots!NamesOf(r)[y] # 0
          PROVE  Slots!NamesOf(w)[y] = Slots!NamesOf(r)[y]
      BY <3>2, <3>3, <3>5 DEF Offered
    <3>6. ASSUME NEW y \in Slot, Slots!NamesOf(r)[y] = 0
          PROVE  \/ Slots!NamesOf(w)[y] = 0
                 \/ y \in OpenAt(r, now) /\ Slots!NamesOf(w)[y] \in s \ DOMAIN r.slots
      <4>1. CASE y = x
        BY <3>2, <3>3, <4>1
      <4>2. CASE y # x
        <5>1. Slots!NamesOf(w)[y] = Slots!NamesOf(u)[y]
          BY <3>3, <4>2
        <5>2. \/ Slots!NamesOf(u)[y] = 0
              \/ y \in OpenAt(r, now) /\ Slots!NamesOf(u)[y] \in s \ DOMAIN r.slots
          BY <3>6 DEF Offered
        <5> QED  BY <5>1, <5>2
      <4> QED  BY <4>1, <4>2
    <3>7. ASSUME NEW y \in Slot
          PROVE  Slots!FreedOf(w)[y] = IF Slots!NamesOf(w)[y] # 0 THEN 0 ELSE Slots!FreedOf(r)[y]
      <4>1. Slots!FreedOf(u)[y] = IF Slots!NamesOf(u)[y] # 0 THEN 0 ELSE Slots!FreedOf(r)[y]
        BY DEF Offered
      <4> QED  BY <3>2, <3>3, <4>1
    <3>8. s \subseteq DOMAIN w.slots \/ \A y \in OpenAt(r, now) : Slots!NamesOf(w)[y] # 0
      <4>1. CASE s \ {id} \subseteq DOMAIN u.slots
        BY <3>3, <4>1
      <4>2. CASE \A y \in OpenAt(r, now) : Slots!NamesOf(u)[y] # 0
        <5>1. ASSUME NEW y \in OpenAt(r, now) PROVE Slots!NamesOf(w)[y] # 0
          <6>1. y \in Slot
            BY DEF OpenAt
          <6> QED  BY <3>2, <3>3, <4>2, <6>1
        <5> QED  BY <5>1
      <4> QED  BY <4>1, <4>2 DEF Offered
    <3>9. Offered(r, now, s, w)
      BY <3>4, <3>5, <3>6, <3>7, <3>8 DEF Offered
    <3> QED  BY <2>3, <3>9 DEF w
  <2> QED  BY <2>1, <2>2, <2>3
<1> QED  BY <1>3, <1>4

LEMMA AllocatedIs ==
    ASSUME NEW now \in Nat \ {0}, NEW r, Sound(r, now), Fields(r), NEW A \in SUBSET AllocEntity
    PROVE  LET u == Allocated(r, A, now)
           IN  Sound(u, now) /\ Fields(u) /\ Offered(r, now, A, u)
<1> DEFINE V == SoundTables(now)
           F == [p \in A \X V |-> Slots!Alloc(p[2], p[1], now)]
           h == CHOOSE g : AllocLoop(r, A, now, g)
           R == {p \in (SUBSET A) \X V : Offered(r, now, p[1], p[2])}
<1>1. IsFiniteSet(A) /\ A \subseteq Nat
  BY TheConstants, FS_Subset
<1>2. r \in V
  BY SoundTablesAre
<1>3. ASSUME NEW id \in A, NEW u \in V PROVE Slots!Alloc(u, id, now) \in V
  <2>1. Sound(u, now) /\ Fields(u) /\ id \in AllocEntity
    BY SoundTablesAre
  <2> DEFINE w == Slots!Alloc(u, id, now)
  <2>2. CASE id \in DOMAIN u.slots
    <3>1. w = u
      BY <2>2 DEF Slots!Alloc, Slots!NamedIds
    <3> QED  BY <3>1
  <2>3. CASE id \notin DOMAIN u.slots
    <3>1. w = u \/ (Sound(w, now) /\ Fields(w))
      BY <2>1, <2>3, AllocKeeps
    <3> QED  BY <3>1, SoundTablesAre
  <2> QED  BY <2>2, <2>3
<1>4. F \in [A \X V -> V]
  <2> HIDE DEF V
  <2> QED  BY <1>3
<1> HIDE DEF V, F
<1>5. PICK g \in [SUBSET A -> V] : Loops(F, r, A, g)
  BY <1>1, <1>2, <1>4, LoopExists
<1>6. AllocLoop(r, A, now, g)
  <2>1. ASSUME NEW s \in SUBSET A, s # {}
        PROVE  g[s] = Slots!Alloc(g[s \ {Greatest(s)}], Greatest(s), now)
    <3>1. Greatest(s) \in A /\ s \ {Greatest(s)} \in SUBSET A
      BY <1>1, <2>1, FS_Subset, SomeGreatest
    <3> DEFINE id == Greatest(s)
               u == g[s \ {id}]
    <3>2. u \in V /\ id \in A
      BY <1>5, <3>1
    <3>3. g[s] = F[<<id, u>>]
      BY <1>5, <2>1 DEF Loops
    <3> HIDE DEF id, u
    <3>4. g[s] = Slots!Alloc(u, id, now)
      BY <3>2, <3>3 DEF F
    <3> QED  BY <3>4 DEF id, u
  <2>2. g[{}] = r
    BY <1>5 DEF Loops
  <2> QED  BY <1>5, <2>1, <2>2 DEF AllocLoop
<1>7. AllocLoop(r, A, now, h)
  BY <1>6
<1> HIDE DEF h
<1>8. h[{}] = r /\ \A s \in SUBSET A : s # {} =>
        h[s] = Slots!Alloc(h[s \ {Greatest(s)}], Greatest(s), now)
  BY <1>7 DEF AllocLoop
<1>9. <<{}, h[{}]>> \in R
  <2>1. \A x \in Slot : Slots!NamesOf(r)[x] # 0 => Slots!FreedOf(r)[x] = 0
    BY NamesIs
  <2>2. Offered(r, now, {}, r)
    BY <2>1 DEF Offered
  <2> QED  BY <1>2, <1>8, <2>2
<1>10. ASSUME NEW s \in SUBSET A, NEW x \in s, x = Greatest(s), <<s \ {x}, h[s \ {x}]>> \in R
       PROVE  <<s, h[s]>> \in R
  <2> DEFINE u == h[s \ {x}]
             w == Slots!Alloc(u, x, now)
  <2>1. u \in V /\ Offered(r, now, s \ {x}, u)
    BY <1>10
  <2>2. h[s] = w
    BY <1>8, <1>10
  <2> HIDE DEF u
  <2>3. Sound(u, now) /\ Fields(u)
    BY <2>1, SoundTablesAre DEF V
  <2>4. s \in SUBSET AllocEntity
    OBVIOUS
  <2>5. Sound(w, now) /\ Fields(w) /\ Offered(r, now, s, w)
    BY <2>1, <2>3, <2>4, OfferKeeps
  <2> HIDE DEF w
  <2>6. w \in V
    BY <2>5, SoundTablesAre DEF V
  <2> QED  BY <2>2, <2>5, <2>6
<1> HIDE DEF R
<1>11. <<A, h[A]>> \in R
  BY <1>1, <1>9, <1>10, LoopReaches
<1>12. h[A] \in V /\ Offered(r, now, A, h[A])
  BY <1>11 DEF R
<1>13. Allocated(r, A, now) = h[A]
  BY DEF Allocated, h
<1> QED  BY <1>12, <1>13, SoundTablesAre DEF V

\* Both loops together: one reconciliation is one renaming of the contract's.
LEMMA ReconcileRenames ==
    ASSUME NEW now \in Nat \ {0}, NEW t, Sound(t, now), Fields(t), NEW A \in SUBSET AllocEntity
    PROVE  LET u == Slots!Reconcile(t, A, now)
               n0 == Slots!NamesOf(t)
               n == Slots!NamesOf(u)
           IN  /\ Sound(u, now) /\ Fields(u)
               /\ n \in Slots!Naming!Renamings(n0, Slots!FreedOf(t), A, now)
               /\ Slots!FreedOf(u) = Slots!Naming!FreedAfter(n0, n, Slots!FreedOf(t), now)
<1> DEFINE P == DOMAIN t.slots \ A
           r == Released(t, P, now)
           u == Slots!Reconcile(t, A, now)
           n0 == Slots!NamesOf(t)
           f0 == Slots!FreedOf(t)
           n == Slots!NamesOf(u)
<1>1. Sound(r, now) /\ Fields(r) /\ Without(t, now, P, r)
  BY ReleasedIs
<1>2. u = Allocated(r, A, now)
  BY ReconcileIs DEF Slots!NamedIds
<1> HIDE DEF r, u
<1>3. Sound(u, now) /\ Fields(u) /\ Offered(r, now, A, u)
  BY <1>1, <1>2, AllocatedIs
<1>4. /\ n0 \in [Slot -> AllocEntity \cup {0}]
      /\ \A x \in Slot : n0[x] # 0 => n0[x] \in DOMAIN t.slots /\ f0[x] = 0
      /\ \A e \in DOMAIN t.slots : t.slots[e] \in Slot /\ n0[t.slots[e]] = e
      /\ DOMAIN t.slots \subseteq AllocEntity
  BY NamesIs DEF Sound
<1>5. /\ n \in [Slot -> AllocEntity \cup {0}]
      /\ \A x \in Slot : n[x] # 0 => n[x] \in DOMAIN u.slots
      /\ \A e \in DOMAIN u.slots : u.slots[e] \in Slot /\ n[u.slots[e]] = e
      /\ \A x \in Slot, e \in DOMAIN u.slots : n[x] = e <=> x = u.slots[e]
  BY <1>3, NamesIs DEF Sound
<1>6. f0 \in [Slot -> Nat] /\ Slots!FreedOf(u) \in [Slot -> Nat]
  BY <1>3, FreedIs
<1>7. /\ \A x \in Slot : Slots!NamesOf(r)[x] = IF n0[x] \in P THEN 0 ELSE n0[x]
      /\ \A x \in Slot : Slots!FreedOf(r)[x] = IF n0[x] \in P THEN now ELSE f0[x]
      /\ DOMAIN r.slots = DOMAIN t.slots \ P
  BY <1>1 DEF Without
<1>8. 0 \notin A /\ 0 \notin P /\ AllocQuarantine \in Nat \ {0}
  BY <1>4, TheConstants
<1> HIDE DEF n0, f0, n
<1>9. ASSUME NEW x \in Slot
      PROVE  x \in OpenAt(r, now) <=> n0[x] = 0 /\ (f0[x] = 0 \/ now >= f0[x] + AllocQuarantine)
  <2>1. CASE n0[x] \in P
    <3>1. Slots!FreedOf(r)[x] = now /\ ~(now >= now + AllocQuarantine) /\ now # 0 /\ n0[x] # 0
      BY <1>7, <1>8, <2>1
    <3> QED  BY <3>1 DEF OpenAt
  <2>2. CASE n0[x] \notin P
    <3>1. Slots!NamesOf(r)[x] = n0[x] /\ Slots!FreedOf(r)[x] = f0[x]
      BY <1>7, <2>2
    <3> QED  BY <3>1 DEF OpenAt
  <2> QED  BY <2>1, <2>2
<1> DEFINE open == Slots!Naming!Open(n0, f0, now)
           fresh == A \ Slots!Naming!Named(n0)
<1>10. ASSUME NEW x \in Slot PROVE x \in open <=> x \in OpenAt(r, now)
  BY <1>9, TheConstants DEF Slots!Naming!Open, Slots!Naming!NoTick
<1>11. Slots!Naming!Named(n0) = DOMAIN t.slots /\ Slots!Naming!Named(n) = DOMAIN u.slots
  <2>1. Slots!Naming!Named(n0) = {n0[x] : x \in Slot} \ {0}
    BY TheConstants DEF Slots!Naming!Named, Slots!Naming!IdsOf
  <2>2. Slots!Naming!Named(n) = {n[x] : x \in Slot} \ {0}
    BY TheConstants DEF Slots!Naming!Named, Slots!Naming!IdsOf
  <2>3. 0 \notin DOMAIN t.slots /\ 0 \notin DOMAIN u.slots
    BY <1>3, TheConstants DEF Sound
  <2>4. {n0[x] : x \in Slot} \ {0} = DOMAIN t.slots
    BY <1>4, <2>3
  <2>5. {n[x] : x \in Slot} \ {0} = DOMAIN u.slots
    BY <1>5, <2>3
  <2> QED  BY <2>1, <2>2, <2>4, <2>5
<1> HIDE DEF open
<1>12. ASSUME NEW x \in Slot, n0[x] \in A PROVE n[x] = n0[x]
  <2>1. Slots!NamesOf(r)[x] = n0[x] /\ n0[x] # 0
    BY <1>7, <1>8, <1>12
  <2> QED  BY <1>3, <2>1 DEF Offered, n
<1>13. ASSUME NEW x \in Slot, n0[x] \notin A
       PROVE  n[x] = 0 \/ (x \in open /\ n[x] \in fresh)
  <2>1. Slots!NamesOf(r)[x] = 0
    BY <1>4, <1>7, <1>13
  <2>2. n[x] = 0 \/ (x \in OpenAt(r, now) /\ n[x] \in A \ DOMAIN r.slots)
    BY <1>3, <2>1 DEF Offered, n
  <2>3. ASSUME n[x] \in A \ DOMAIN r.slots PROVE n[x] \in fresh
    BY <1>7, <1>11, <2>3
  <2> QED  BY <1>10, <2>2, <2>3
<1>14. \A x, y \in Slot : n[x] = n[y] /\ n[x] # 0 => x = y
  BY <1>5
<1>15. A \subseteq Slots!Naming!Named(n) \/ \A x \in open : n[x] # 0
  <2>1. A \subseteq DOMAIN u.slots \/ \A x \in OpenAt(r, now) : n[x] # 0
    BY <1>3 DEF Offered, n
  <2>2. open \subseteq Slot
    BY DEF open, Slots!Naming!Open
  <2> QED  BY <1>10, <1>11, <2>1, <2>2
<1>16. n \in Slots!Naming!Renamings(n0, f0, A, now)
  <2> HIDE DEF fresh
  <2> DEFINE Fair(m) == /\ \A s \in Slot : n0[s] \in A => m[s] = n0[s]
                        /\ \A s \in Slot : n0[s] \notin A =>
                             m[s] = 0 \/ (s \in open /\ m[s] \in fresh)
                        /\ Slots!Naming!OneName(m)
                        /\ A \subseteq Slots!Naming!Named(m) \/ \A s \in open : m[s] # 0
  <2>1. Slots!Naming!OneName(n)
    BY <1>14, TheConstants DEF Slots!Naming!OneName
  <2>2. Fair(n)
    BY <1>12, <1>13, <1>15, <2>1
  <2>3. Slots!Naming!Renamings(n0, f0, A, now) = {m \in [Slot -> AllocEntity \cup {0}] : Fair(m)}
    BY TheConstants DEF Slots!Naming!Renamings, open, fresh
  <2> HIDE DEF Fair
  <2> QED  BY <1>5, <2>2, <2>3
<1>17. Slots!FreedOf(u) = Slots!Naming!FreedAfter(n0, n, f0, now)
  <2> DEFINE After(x) == CASE n[x] # 0 -> 0
                           [] n[x] = 0 /\ n0[x] # 0 -> now
                           [] OTHER -> f0[x]
  <2>1. Slots!Naming!FreedAfter(n0, n, f0, now) = [x \in Slot |-> After(x)]
    BY TheConstants DEF Slots!Naming!FreedAfter, Slots!Naming!NoTick
  <2>2. ASSUME NEW x \in Slot PROVE Slots!FreedOf(u)[x] = After(x)
    <3>1. Slots!FreedOf(u)[x] = IF n[x] # 0 THEN 0 ELSE Slots!FreedOf(r)[x]
      BY <1>3 DEF Offered, n
    <3>2. CASE n[x] # 0
      BY <3>1, <3>2
    <3>3. CASE n[x] = 0 /\ n0[x] # 0
      <4>1. n0[x] \in P
        BY <1>4, <1>12, <3>3
      <4> QED  BY <1>7, <3>1, <3>3, <4>1
    <3>4. CASE n[x] = 0 /\ n0[x] = 0
      BY <1>7, <1>8, <3>1, <3>4
    <3> QED  BY <3>2, <3>3, <3>4
  <2> HIDE DEF After
  <2>3. Slots!FreedOf(u) = [x \in Slot |-> Slots!FreedOf(u)[x]]
    BY <1>6
  <2>4. [x \in Slot |-> Slots!FreedOf(u)[x]] = [x \in Slot |-> After(x)]
    BY <2>2
  <2> QED  BY <2>1, <2>3, <2>4
<1> QED  BY <1>3, <1>16, <1>17 DEF n0, f0, n, u

-----------------------------------------------------------------------------

\* What the table's own session never loses.
SlotsInv ==
    /\ allocTick \in Nat
    /\ allocRegistered \in SUBSET AllocEntity
    /\ Sound(allocTable, allocTick) /\ Fields(allocTable)
    /\ allocDirty \in BOOLEAN
    /\ ~allocDirty => allocRegistered \subseteq DOMAIN allocTable.slots

LEMMA SoundLater ==
    ASSUME NEW now \in Nat, NEW t, Sound(t, now)
    PROVE  Sound(t, now + 1)
<1>1. ASSUME NEW i \in 1..Len(t.free) PROVE t.free[i].at \in 1..(now + 1)
  <2>1. t.free[i].at \in 1..now
    BY DEF Sound
  <2> QED  BY <2>1
<1> QED  BY <1>1 DEF Sound

LEMMA SlotsStart == MCInit => SlotsInv
<1> SUFFICES ASSUME MCInit PROVE SlotsInv
  OBVIOUS
<1>1. /\ allocTick = 0 /\ allocRegistered \in SUBSET AllocEntity /\ allocDirty = TRUE
      /\ allocTable = [ids |-> <<>>, slots |-> [e \in {} |-> 0], free |-> <<>>]
  BY DEF MCInit, Slots!Init, Slots!EmptyTable
<1>2. /\ allocTable.ids = <<>> /\ allocTable.slots = [e \in {} |-> 0]
      /\ allocTable.free = <<>> /\ Fields(allocTable)
  BY <1>1 DEF Fields
<1>3. /\ allocTable.ids \in Seq(Nat) /\ allocTable.free \in Seq(Cell)
      /\ Len(allocTable.ids) = 0 /\ Len(allocTable.free) = 0 /\ 1..0 = {}
  BY <1>2
<1>4. DOMAIN allocTable.slots = {} /\ allocTable.slots \in [DOMAIN allocTable.slots -> Slot]
  BY <1>2
<1>5. Sound(allocTable, allocTick)
  BY <1>3, <1>4, TheConstants DEF Sound
<1> QED  BY <1>1, <1>2, <1>5 DEF SlotsInv

\* The flush of one tick.
LEMMA FlushStep ==
    ASSUME SlotsInv, Slots!ReconcileSlots
    PROVE  SlotsInv' /\ Slots!Naming!Rename
<1> DEFINE now == allocTick + 1
           u == Slots!Reconcile(allocTable, allocRegistered, now)
           n0 == Slots!NamesOf(allocTable)
           f0 == Slots!FreedOf(allocTable)
<1>1. /\ allocTick' = now /\ allocRegistered' = allocRegistered
      /\ \/ Slots!ReconcileOwed /\ allocTable' = u /\ allocDirty' = Slots!StillOwed(u)
         \/ ~Slots!ReconcileOwed /\ allocTable' = allocTable /\ allocDirty' = allocDirty
  BY DEF Slots!ReconcileSlots
<1>2. now \in Nat \ {0} /\ Sound(allocTable, now) /\ Fields(allocTable)
      /\ allocRegistered \in SUBSET AllocEntity
  BY SoundLater DEF SlotsInv
<1> HIDE DEF now, u
<1>3. CASE Slots!ReconcileOwed /\ allocTable' = u /\ allocDirty' = Slots!StillOwed(u)
  <2>1. /\ Sound(u, now) /\ Fields(u)
        /\ Slots!NamesOf(u) \in Slots!Naming!Renamings(n0, f0, allocRegistered, now)
        /\ Slots!FreedOf(u) =
             Slots!Naming!FreedAfter(n0, Slots!NamesOf(u), f0, now)
    BY <1>2, ReconcileRenames DEF u
  <2>2. SlotsInv'
    <3>1. allocDirty' \in BOOLEAN /\ (~allocDirty' => allocRegistered \subseteq DOMAIN u.slots)
      BY <1>3 DEF Slots!StillOwed, Slots!NamedIds
    <3> QED  BY <1>1, <1>2, <1>3, <2>1, <3>1 DEF SlotsInv
  <2>3. Slots!NamesOf(allocTable)' = Slots!NamesOf(u) /\ Slots!FreedOf(allocTable)' = Slots!FreedOf(u)
    BY <1>3
  <2>4. Slots!Naming!Rename
    BY <1>1, <2>1, <2>3 DEF Slots!Naming!Rename, now
  <2> QED  BY <2>2, <2>4
<1>4. CASE ~Slots!ReconcileOwed /\ allocTable' = allocTable /\ allocDirty' = allocDirty
  <2>1. SlotsInv'
    BY <1>1, <1>2, <1>4 DEF SlotsInv
  <2>2. DOMAIN allocTable.slots = allocRegistered
    <3>1. allocRegistered \subseteq DOMAIN allocTable.slots /\ DOMAIN allocTable.slots \subseteq AllocEntity
      BY <1>4 DEF SlotsInv, Sound, Slots!ReconcileOwed
    <3>2. Slots!Cardinality(DOMAIN allocTable.slots) = Slots!Cardinality(allocRegistered)
      BY <1>4 DEF Slots!ReconcileOwed, Slots!NamedIds
    <3>3. Cardinality(DOMAIN allocTable.slots) = Cardinality(allocRegistered)
      BY <3>2 DEF Slots!Cardinality, Cardinality
    <3>4. IsFiniteSet(DOMAIN allocTable.slots)
      BY <3>1, TheConstants, FS_Subset
    <3> QED  BY <3>1, <3>3, <3>4, FS_Subset
  <2>3. /\ n0 \in [Slot -> AllocEntity \cup {0}] /\ f0 \in [Slot -> Nat]
        /\ \A x \in Slot : n0[x] # 0 => n0[x] \in allocRegistered /\ f0[x] = 0
        /\ \A e \in allocRegistered : allocTable.slots[e] \in Slot /\ n0[allocTable.slots[e]] = e
        /\ \A x \in Slot : \A e \in allocRegistered : n0[x] = e <=> x = allocTable.slots[e]
    <3>1. /\ n0 \in [Slot -> AllocEntity \cup {0}]
          /\ \A x \in Slot, e \in DOMAIN allocTable.slots : n0[x] = e <=> x = allocTable.slots[e]
          /\ \A x \in Slot : n0[x] # 0 => n0[x] \in DOMAIN allocTable.slots
          /\ \A x \in Slot : n0[x] # 0 => f0[x] = 0
      BY <1>2, NamesIs
    <3>2. f0 \in [Slot -> Nat]
      BY <1>2, FreedIs
    <3>3. \A e \in DOMAIN allocTable.slots : allocTable.slots[e] \in Slot
      BY <1>2 DEF Sound
    <3> HIDE DEF n0, f0
    <3> QED  BY <2>2, <3>1, <3>2, <3>3
  <2> HIDE DEF n0, f0
  <2>4. 0 \notin allocRegistered
    BY <1>2, TheConstants
  <2>5. Slots!Naming!OneName(n0)
    BY <2>3, TheConstants DEF Slots!Naming!OneName
  <2>6. allocRegistered \subseteq Slots!Naming!Named(n0)
    BY <2>3, <2>4, TheConstants DEF Slots!Naming!Named, Slots!Naming!IdsOf
  <2>7. n0 \in Slots!Naming!Renamings(n0, f0, allocRegistered, now)
    BY <2>3, <2>5, <2>6, TheConstants DEF Slots!Naming!Renamings
  <2>8. f0 = Slots!Naming!FreedAfter(n0, n0, f0, now)
    BY <2>3, TheConstants DEF Slots!Naming!FreedAfter, Slots!Naming!NoTick
  <2>9. Slots!NamesOf(allocTable)' = n0 /\ Slots!FreedOf(allocTable)' = f0
    BY <1>4 DEF n0, f0
  <2>10. Slots!Naming!Rename
    BY <1>1, <2>7, <2>8, <2>9 DEF Slots!Naming!Rename, now, n0, f0
  <2> QED  BY <2>1, <2>10
<1> QED  BY <1>1, <1>3, <1>4

\* Entities come and go; the table waits for the flush.
LEMMA ComeStep ==
    ASSUME SlotsInv, NEW e \in AllocEntity,
           Slots!Register(e) \/ Slots!Unregister(e) \/ Slots!Sweep(e)
    PROVE  SlotsInv' /\ Slots!Naming!Come
<1>1. /\ allocTick' = allocTick /\ allocTable' = allocTable
      /\ allocRegistered' \in SUBSET AllocEntity
      /\ allocDirty' \in BOOLEAN
      /\ allocDirty' = TRUE \/ (allocDirty' = allocDirty /\ allocRegistered' \subseteq allocRegistered)
  <2>1. allocRegistered \in SUBSET AllocEntity /\ allocDirty \in BOOLEAN
    BY DEF SlotsInv
  <2>2. CASE Slots!Register(e)
    BY <2>1, <2>2 DEF Slots!Register
  <2>3. CASE Slots!Unregister(e)
    BY <2>1, <2>3 DEF Slots!Unregister
  <2>4. CASE Slots!Sweep(e)
    BY <2>1, <2>4 DEF Slots!Sweep
  <2> QED  BY <2>2, <2>3, <2>4
<1>2. SlotsInv'
  BY <1>1 DEF SlotsInv
<1>3. Slots!NamesOf(allocTable)' = Slots!NamesOf(allocTable)
      /\ Slots!FreedOf(allocTable)' = Slots!FreedOf(allocTable)
  BY <1>1
<1> QED  BY <1>1, <1>2, <1>3 DEF Slots!Naming!Come

LEMMA SlotsStep ==
    ASSUME SlotsInv, [MCNext]_<<part, vars, allocVars, queueVars>>
    PROVE  /\ SlotsInv'
           /\ [Slots!Naming!Come \/ Slots!Naming!Rename]_<<allocTick, allocRegistered,
                  Slots!NamesOf(allocTable), Slots!FreedOf(allocTable)>>
<1>1. CASE Slots!Next
  <2>1. CASE Slots!ReconcileSlots
    BY <2>1, FlushStep
  <2>2. CASE \E e \in AllocEntity : Slots!Register(e) \/ Slots!Unregister(e) \/ Slots!Sweep(e)
    <3>1. PICK e \in AllocEntity : Slots!Register(e) \/ Slots!Unregister(e) \/ Slots!Sweep(e)
      BY <2>2
    <3> QED  BY <3>1, ComeStep
  <2> QED  BY <1>1, <2>1, <2>2 DEF Slots!Next
<1>2. CASE UNCHANGED allocVars
  <2>1. UNCHANGED <<allocTick, allocRegistered, allocTable, allocDirty>>
    BY <1>2 DEF allocVars
  <2>2. SlotsInv'
    BY <2>1 DEF SlotsInv
  <2>3. Slots!NamesOf(allocTable)' = Slots!NamesOf(allocTable)
        /\ Slots!FreedOf(allocTable)' = Slots!FreedOf(allocTable)
    BY <2>1
  <2> QED  BY <2>1, <2>2, <2>3
<1> QED  BY <1>1, <1>2 DEF MCNext

LEMMA ContractStart ==
    ASSUME MCInit
    PROVE  Slots!Naming!Init
<1>1. allocTick = 0 /\ allocRegistered \in SUBSET AllocEntity /\ allocTable = Slots!EmptyTable
  BY DEF MCInit, Slots!Init
<1>2. Slots!NamesOf(allocTable) = [s \in Slot |-> NoEntity]
  BY <1>1, TheConstants DEF Slots!NamesOf, Slots!IdOf, Slots!EmptyTable
<1>3. Slots!FreedOf(allocTable) = [s \in Slot |-> 0]
  <2>1. DOMAIN allocTable.free = {}
    BY <1>1 DEF Slots!EmptyTable
  <2> QED  BY <2>1 DEF Slots!FreedOf, Slots!NoTick
<1> QED  BY <1>1, <1>2, <1>3 DEF Slots!Naming!Init, Slots!Naming!Unnamed, Slots!Naming!NoTick

(* The table's two directions agree and its free list is exact at every     *)
(* tick, whatever comes and goes (SlotTable::allocate, ::release), and a    *)
(* registry that is not flagged dirty has every entity of it named.         *)
THEOREM TableInvariance == MCSpec => []SlotsInv
<1>1. MCInit => SlotsInv
  BY SlotsStart
<1>2. SlotsInv /\ [MCNext]_<<part, vars, allocVars, queueVars>> => SlotsInv'
  BY SlotsStep
<1> QED  BY <1>1, <1>2, PTL DEF MCSpec

(* slot_of and id_of never disagree, and the free list holds each vacant    *)
(* slot once, oldest first: what NamesAreTrue says of the server's table.   *)
THEOREM TableStaysSound == MCSpec => []Slots!TableIsSound
<1>1. SlotsInv => Slots!TableIsSound
  BY SoundIsSound DEF SlotsInv, Slots!TableIsSound
<1> QED  BY <1>1, TableInvariance, PTL

(* reconcile_slots keeps the naming contract: an entity keeps its slot for  *)
(* as long as it is registered, no slot names another before its quarantine *)
(* is over, and none is withheld while one is open.                         *)
THEOREM TableImplementsNaming == MCSpec => ImplementsNaming
<1>1. MCInit => Slots!Naming!Init
  BY ContractStart
<1>2. SlotsInv /\ [MCNext]_<<part, vars, allocVars, queueVars>> =>
        [Slots!Naming!Come \/ Slots!Naming!Rename]_<<allocTick, allocRegistered,
           Slots!NamesOf(allocTable), Slots!FreedOf(allocTable)>>
  BY SlotsStep
<1> QED
  BY <1>1, <1>2, TableInvariance, PTL
  DEF MCSpec, ImplementsNaming, Slots!ImplementsNaming, Slots!Naming!Spec

-----------------------------------------------------------------------------
(* The manifest lane: the client's table.                                  *)

\* A client's table: the two directions agree.  Its free list is the server's affair.
Plain(t) ==
    /\ t.ids \in Seq(Nat) /\ Len(t.ids) <= MaxSlots
    /\ DOMAIN t.slots \subseteq Entity /\ t.slots \in [DOMAIN t.slots -> Slot]
    /\ \A s \in 1..Len(t.ids) :
         t.ids[s] # 0 => t.ids[s] \in DOMAIN t.slots /\ t.slots[t.ids[s]] = s
    /\ \A e \in DOMAIN t.slots : t.slots[e] \in 1..Len(t.ids) /\ t.ids[t.slots[e]] = e
    /\ t.free \in Seq([slot : Slot, at : Nat])

LEMMA TheNames == MaxSlots \in Nat /\ Slot = 1..MaxSlots /\ NoEntity = 0 /\ Entity \subseteq Nat \ {0}
BY TableAssumption

LEMMA PlainNames ==
    ASSUME NEW t, Plain(t)
    PROVE  /\ NamesOf(t) \in [Slot -> Entity \cup {0}]
           /\ \A s \in Slot : IdOf(t, s) = NamesOf(t)[s]
           /\ \A s \in Slot : NamesOf(t)[s] = IF s \in 1..Len(t.ids) THEN t.ids[s] ELSE 0
           /\ \A s \in Slot : \A e \in DOMAIN t.slots : NamesOf(t)[s] = e <=> s = t.slots[e]
           /\ \A s \in Slot : NamesOf(t)[s] # 0 => NamesOf(t)[s] \in DOMAIN t.slots
<1>1. DOMAIN t.ids = 1..Len(t.ids)
  BY DEF Plain
<1>2. \A s \in Slot : NamesOf(t)[s] = IF s \in 1..Len(t.ids) THEN t.ids[s] ELSE 0
  BY <1>1, TheNames DEF NamesOf, IdOf
<1>3. ASSUME NEW s \in Slot PROVE NamesOf(t)[s] \in Entity \cup {0}
  BY <1>1, <1>2 DEF Plain
<1>4. NamesOf(t) \in [Slot -> Entity \cup {0}]
  <2>1. NamesOf(t) = [s \in Slot |-> NamesOf(t)[s]]
    BY DEF NamesOf
  <2> QED  BY <1>3, <2>1
<1>5. ASSUME NEW s \in Slot, NEW e \in DOMAIN t.slots PROVE NamesOf(t)[s] = e <=> s = t.slots[e]
  <2>1. e # 0 /\ t.slots[e] \in 1..Len(t.ids) /\ t.ids[t.slots[e]] = e
    BY TheNames DEF Plain
  <2>2. ASSUME s \in 1..Len(t.ids), t.ids[s] = e PROVE s = t.slots[e]
    BY <2>1, <2>2 DEF Plain
  <2> QED  BY <1>2, <2>1, <2>2
<1>6. ASSUME NEW s \in Slot, NamesOf(t)[s] # 0 PROVE NamesOf(t)[s] \in DOMAIN t.slots
  BY <1>2, <1>6 DEF Plain
<1>7. \A s \in Slot : IdOf(t, s) = NamesOf(t)[s]
  BY DEF NamesOf
<1> QED  BY <1>2, <1>4, <1>5, <1>6, <1>7

LEMMA PlainAgrees == ASSUME NEW t, Plain(t) PROVE Agrees(t)
<1>1. DOMAIN t.ids = 1..Len(t.ids)
  BY DEF Plain
<1> QED  BY <1>1, TheNames DEF Plain, Agrees, NamedIds, IdOf

LEMMA IdsWrite ==
    ASSUME NEW i, NEW s, NEW f, NEW a, NEW r, r = [ids |-> i, slots |-> s, free |-> f]
    PROVE  [r EXCEPT !.ids = a] = [ids |-> a, slots |-> s, free |-> f]
OBVIOUS

LEMMA SlotsWrite ==
    ASSUME NEW i, NEW s, NEW f, NEW a, NEW r, r = [ids |-> i, slots |-> s, free |-> f]
    PROVE  [r EXCEPT !.slots = a] = [ids |-> i, slots |-> a, free |-> f]
OBVIOUS

LEMMA VacateIs ==
    ASSUME NEW t, Fields(t), t.ids \in Seq(Nat), NEW s
    PROVE  Vacate(t, s) = [ids |-> [i \in 1..Len(t.ids) |-> IF i = s THEN 0 ELSE t.ids[i]],
                           slots |-> t.slots, free |-> t.free]
<1> DEFINE ids == [i \in 1..Len(t.ids) |-> IF i = s THEN 0 ELSE t.ids[i]]
<1>1. Vacate(t, s) = [t EXCEPT !.ids = ids]
  <2>1. DOMAIN t.ids = 1..Len(t.ids)
    OBVIOUS
  <2> QED  BY <2>1, TheNames DEF Vacate
<1> HIDE DEF ids
<1>2. t = [ids |-> t.ids, slots |-> t.slots, free |-> t.free]
  BY DEF Fields
<1>3. [t EXCEPT !.ids = ids] = [ids |-> ids, slots |-> t.slots, free |-> t.free]
  BY <1>2, IdsWrite
<1> QED  BY <1>1, <1>3 DEF ids

LEMMA ForgetIs ==
    ASSUME NEW t, Fields(t), NEW e
    PROVE  Forget(t, e) = [ids |-> t.ids, slots |-> [x \in DOMAIN t.slots \ {e} |-> t.slots[x]],
                           free |-> t.free]
<1> DEFINE slots == [x \in DOMAIN t.slots \ {e} |-> t.slots[x]]
<1>1. Forget(t, e) = [t EXCEPT !.slots = slots]
  BY DEF Forget
<1> HIDE DEF slots
<1>2. t = [ids |-> t.ids, slots |-> t.slots, free |-> t.free]
  BY DEF Fields
<1>3. [t EXCEPT !.slots = slots] = [ids |-> t.ids, slots |-> slots, free |-> t.free]
  BY <1>2, SlotsWrite
<1> QED  BY <1>1, <1>3 DEF slots

LEMMA WritesIs ==
    ASSUME NEW t, Fields(t), NEW s \in Nat, NEW id
    PROVE  BindAt(t, s, id) =
             [ids   |-> [i \in 1..(IF s > Len(t.ids) THEN s ELSE Len(t.ids)) |->
                           IF i = s THEN id ELSE IdOf(t, i)],
              slots |-> [e \in DOMAIN t.slots \cup {id} |-> IF e = id THEN s ELSE t.slots[e]],
              free  |-> t.free]
<1> DEFINE ids == [i \in 1..(IF s > Len(t.ids) THEN s ELSE Len(t.ids)) |->
                     IF i = s THEN id ELSE IdOf(t, i)]
           slots == [e \in DOMAIN t.slots \cup {id} |-> IF e = id THEN s ELSE t.slots[e]]
<1>1. BindAt(t, s, id) = [t EXCEPT !.ids = ids, !.slots = slots]
  BY DEF BindAt
<1> HIDE DEF ids, slots
<1>2. t = [ids |-> t.ids, slots |-> t.slots, free |-> t.free]
  BY DEF Fields
<1>3. BindAt(t, s, id) = [ids |-> ids, slots |-> slots, free |-> t.free]
  BY <1>1, <1>2, NameWrites
<1> QED  BY <1>3 DEF ids, slots

\* The table with `gone`'s slot bare and its name with it.
LEMMA UnbindKeeps ==
    ASSUME NEW t, Plain(t), Fields(t), NEW s \in Slot
    PROVE  LET u == Unbind(t, s)
           IN  /\ Plain(u) /\ Fields(u)
               /\ \A x \in Slot : NamesOf(u)[x] = IF x = s THEN 0 ELSE NamesOf(t)[x]
<1> DEFINE u == Unbind(t, s)
           e == NamesOf(t)[s]
<1>1. CASE e = 0
  <2>1. u = t
    BY <1>1, PlainNames, TheNames DEF Unbind
  <2> QED  BY <1>1, <2>1
<1>2. CASE e # 0
  <2> DEFINE v == Vacate(t, s)
  <2>1. u = Forget(v, e)
    BY <1>2, PlainNames, TheNames DEF Unbind
  <2>2. t.ids \in Seq(Nat) /\ Len(t.ids) \in Nat
    BY DEF Plain
  <2>3. v = [ids |-> [i \in 1..Len(t.ids) |-> IF i = s THEN 0 ELSE t.ids[i]],
             slots |-> t.slots, free |-> t.free]
    BY <2>2, VacateIs
  <2> HIDE DEF v, u
  <2>4. /\ Fields(v) /\ v.ids = [i \in 1..Len(t.ids) |-> IF i = s THEN 0 ELSE t.ids[i]]
        /\ v.slots = t.slots /\ v.free = t.free
    BY <2>3 DEF Fields
  <2> HIDE DEF e
  <2>5. u = [ids |-> v.ids, slots |-> [x \in DOMAIN v.slots \ {e} |-> v.slots[x]],
             free |-> v.free]
    BY <2>1, <2>4, ForgetIs
  <2>6. /\ Fields(u) /\ u.ids = [i \in 1..Len(t.ids) |-> IF i = s THEN 0 ELSE t.ids[i]]
        /\ u.slots = [x \in DOMAIN t.slots \ {e} |-> t.slots[x]] /\ u.free = t.free
    BY <2>4, <2>5 DEF Fields
  <2>7. e \in DOMAIN t.slots /\ t.slots[e] = s /\ s \in 1..Len(t.ids)
    BY <1>2, PlainNames DEF e, Plain
  <2>8. /\ u.ids \in Seq(Nat) /\ Len(u.ids) = Len(t.ids)
        /\ \A i \in 1..Len(t.ids) : u.ids[i] = IF i = s THEN 0 ELSE t.ids[i]
    BY <2>2, <2>6
  <2>9. DOMAIN u.slots = DOMAIN t.slots \ {e} /\ \A x \in DOMAIN u.slots : u.slots[x] = t.slots[x]
    BY <2>6
  <2>10. Plain(u)
    <3>1. u.slots \in [DOMAIN u.slots -> Slot] /\ DOMAIN u.slots \subseteq Entity
      <4>1. t.slots \in [DOMAIN t.slots -> Slot] /\ DOMAIN t.slots \subseteq Entity
        BY DEF Plain
      <4> QED  BY <2>6, <4>1
    <3>2. ASSUME NEW x \in 1..Len(u.ids), u.ids[x] # 0
          PROVE  u.ids[x] \in DOMAIN u.slots /\ u.slots[u.ids[x]] = x
      <4>1. x \in 1..Len(t.ids) /\ x # s /\ u.ids[x] = t.ids[x]
        BY <2>8, <3>2
      <4>2. t.ids[x] \in DOMAIN t.slots /\ t.slots[t.ids[x]] = x
        BY <3>2, <4>1 DEF Plain
      <4> QED  BY <2>7, <2>9, <4>1, <4>2
    <3>3. ASSUME NEW x \in DOMAIN u.slots
          PROVE  u.slots[x] \in 1..Len(u.ids) /\ u.ids[u.slots[x]] = x
      <4>1. x \in DOMAIN t.slots /\ x # e /\ u.slots[x] = t.slots[x]
        BY <2>9
      <4>2. t.slots[x] \in 1..Len(t.ids) /\ t.ids[t.slots[x]] = x
        BY <4>1 DEF Plain
      <4>3. t.slots[x] # s
        BY <2>7, <4>1, <4>2 DEF Plain
      <4> QED  BY <2>8, <4>1, <4>2, <4>3
    <3>4. Len(u.ids) <= MaxSlots /\ u.free \in Seq([slot : Slot, at : Nat])
      BY <2>6, <2>8 DEF Plain
    <3> QED  BY <2>8, <3>1, <3>2, <3>3, <3>4 DEF Plain
  <2>11. ASSUME NEW x \in Slot PROVE NamesOf(u)[x] = IF x = s THEN 0 ELSE NamesOf(t)[x]
    <3>1. /\ NamesOf(t)[x] = IF x \in 1..Len(t.ids) THEN t.ids[x] ELSE 0
          /\ NamesOf(u)[x] = IF x \in 1..Len(u.ids) THEN u.ids[x] ELSE 0
      BY <2>10, PlainNames
    <3> QED  BY <2>7, <2>8, <3>1
  <2> QED  BY <2>6, <2>10, <2>11 DEF u
<1> QED  BY <1>1, <1>2

\* What bind writes, field by field.
LEMMA BindIs ==
    ASSUME NEW t, Plain(t), Fields(t), NEW s \in Slot, NEW id \in Entity
    PROVE  LET u == Bind(t, s, id)
               old == NamesOf(t)[s]
           IN  /\ Fields(u) /\ u.free = t.free
               /\ u.ids \in Seq(Nat)
               /\ Len(u.ids) = IF s > Len(t.ids) THEN s ELSE Len(t.ids)
               /\ \A i \in 1..Len(u.ids) : u.ids[i] =
                    IF i = s THEN id
                    ELSE IF i \in 1..Len(t.ids) /\ ~(id \in DOMAIN t.slots \ {old} /\ i = t.slots[id])
                         THEN t.ids[i] ELSE 0
               /\ DOMAIN u.slots = (DOMAIN t.slots \ {old}) \cup {id}
               /\ \A e \in DOMAIN u.slots : u.slots[e] = IF e = id THEN s ELSE t.slots[e]
               /\ u.slots \in [DOMAIN u.slots -> Slot]
<1> DEFINE u == Bind(t, s, id)
           old == NamesOf(t)[s]
           bare == IF old # 0 THEN Forget(t, old) ELSE t
           moved == IF id \in DOMAIN bare.slots THEN Vacate(bare, bare.slots[id]) ELSE bare
<1>1. /\ t.ids \in Seq(Nat) /\ Len(t.ids) \in Nat /\ id # 0 /\ id \in Nat /\ s \in Nat /\ s >= 1
      /\ t.slots \in [DOMAIN t.slots -> Slot] /\ 0 \notin DOMAIN t.slots
      /\ t = [ids |-> t.ids, slots |-> t.slots, free |-> t.free]
  BY TheNames DEF Plain, Fields
<1>2. u = BindAt(moved, s, id)
  BY <1>1, PlainNames, TheNames DEF Bind, NamedIds
<1> HIDE DEF u
<1>3. bare = [ids |-> t.ids, slots |-> [x \in DOMAIN t.slots \ {old} |-> t.slots[x]], free |-> t.free]
  <2> HIDE DEF old
  <2>1. CASE old # 0
    BY <2>1, ForgetIs
  <2>2. CASE old = 0
    <3>1. t.slots = [x \in DOMAIN t.slots \ {old} |-> t.slots[x]]
      BY <1>1, <2>2
    <3>2. bare = t
      BY <2>2
    <3> QED  BY <1>1, <3>1, <3>2
  <2> QED  BY <2>1, <2>2
<1> HIDE DEF bare
<1>4. /\ Fields(bare) /\ bare.ids = t.ids /\ bare.free = t.free
      /\ bare.slots = [x \in DOMAIN t.slots \ {old} |-> t.slots[x]]
  BY <1>3 DEF Fields
<1>5. /\ Fields(moved) /\ moved.free = t.free /\ moved.slots = bare.slots
      /\ moved.ids \in Seq(Nat) /\ Len(moved.ids) = Len(t.ids)
      /\ \A i \in 1..Len(t.ids) : moved.ids[i] =
           IF id \in DOMAIN t.slots \ {old} /\ i = t.slots[id] THEN 0 ELSE t.ids[i]
  <2>1. CASE id \in DOMAIN bare.slots
    <3>1. moved = Vacate(bare, bare.slots[id])
      BY <2>1
    <3> DEFINE k == bare.slots[id]
    <3> HIDE DEF moved, k
    <3>2. moved = [ids |-> [i \in 1..Len(bare.ids) |-> IF i = k THEN 0 ELSE bare.ids[i]],
                   slots |-> bare.slots, free |-> bare.free]
      <4>1. Fields(bare) /\ bare.ids \in Seq(Nat)
        BY <1>1, <1>4
      <4>2. moved = Vacate(bare, k)
        BY <3>1 DEF k
      <4>3. QED
        BY <4>1, <4>2, VacateIs
    <3>3. /\ Fields(moved) /\ moved.free = t.free /\ moved.slots = bare.slots
          /\ moved.ids = [i \in 1..Len(t.ids) |-> IF i = k THEN 0 ELSE t.ids[i]]
      BY <1>4, <3>2 DEF Fields
    <3>4. id \in DOMAIN t.slots \ {old} /\ k = t.slots[id]
      BY <1>4, <2>1 DEF k
    <3>5. moved.ids \in Seq(Nat) /\ Len(moved.ids) = Len(t.ids)
      BY <1>1, <3>3
    <3>6. \A i \in 1..Len(t.ids) : moved.ids[i] = IF i = k THEN 0 ELSE t.ids[i]
      BY <3>3
    <3> QED  BY <3>3, <3>4, <3>5, <3>6
  <2>2. CASE id \notin DOMAIN bare.slots
    <3>1. moved = bare
      BY <2>2
    <3> HIDE DEF moved
    <3>2. id \notin DOMAIN t.slots \ {old}
      BY <1>4, <2>2
    <3> QED  BY <1>1, <1>4, <3>1, <3>2
  <2> QED  BY <2>1, <2>2
<1> HIDE DEF moved
<1> DEFINE len == IF s > Len(t.ids) THEN s ELSE Len(t.ids)
<1>6. u = [ids   |-> [i \in 1..len |-> IF i = s THEN id ELSE IdOf(moved, i)],
           slots |-> [e \in DOMAIN moved.slots \cup {id} |-> IF e = id THEN s ELSE moved.slots[e]],
           free  |-> moved.free]
  <2>1. (IF s > Len(moved.ids) THEN s ELSE Len(moved.ids)) = len
    BY <1>5
  <2>2. s \in Nat /\ Fields(moved)
    BY <1>1, <1>5
  <2>3. u = [ids   |-> [i \in 1..(IF s > Len(moved.ids) THEN s ELSE Len(moved.ids)) |->
                         IF i = s THEN id ELSE IdOf(moved, i)],
             slots |-> [e \in DOMAIN moved.slots \cup {id} |-> IF e = id THEN s ELSE moved.slots[e]],
             free  |-> moved.free]
    BY <1>2, <2>2, WritesIs
  <2> HIDE DEF len
  <2> QED  BY <2>1, <2>3
<1>7. /\ Fields(u) /\ u.free = t.free
      /\ u.ids = [i \in 1..len |-> IF i = s THEN id ELSE IdOf(moved, i)]
      /\ u.slots = [e \in DOMAIN moved.slots \cup {id} |-> IF e = id THEN s ELSE moved.slots[e]]
  <2> HIDE DEF len
  <2> QED  BY <1>5, <1>6 DEF Fields
<1>8. len \in Nat
  BY <1>1
<1> HIDE DEF len
<1>9. \A i \in 1..len : IdOf(moved, i) = IF i \in 1..Len(t.ids) THEN moved.ids[i] ELSE 0
  <2>1. DOMAIN moved.ids = 1..Len(t.ids)
    BY <1>5
  <2> QED  BY <2>1, TheNames DEF IdOf
<1>10. \A i \in 1..len : IdOf(moved, i) \in Nat
  BY <1>5, <1>9
<1>11. /\ u.ids \in Seq(Nat) /\ Len(u.ids) = len
       /\ \A i \in 1..len : u.ids[i] = IF i = s THEN id ELSE IdOf(moved, i)
  BY <1>1, <1>7, <1>8, <1>10
<1>12. ASSUME NEW i \in 1..Len(u.ids)
       PROVE  u.ids[i] = IF i = s THEN id
                    ELSE IF i \in 1..Len(t.ids) /\ ~(id \in DOMAIN t.slots \ {old} /\ i = t.slots[id])
                         THEN t.ids[i] ELSE 0
  BY <1>5, <1>9, <1>11
<1>13. /\ DOMAIN u.slots = (DOMAIN t.slots \ {old}) \cup {id}
       /\ \A e \in DOMAIN u.slots : u.slots[e] = IF e = id THEN s ELSE t.slots[e]
       /\ u.slots \in [DOMAIN u.slots -> Slot]
  BY <1>1, <1>4, <1>5, <1>7
<1>14. Len(u.ids) = IF s > Len(t.ids) THEN s ELSE Len(t.ids)
  BY <1>11 DEF len
<1> QED  BY <1>7, <1>11, <1>12, <1>13, <1>14 DEF u

LEMMA BindKeeps ==
    ASSUME NEW t, Plain(t), Fields(t), NEW s \in Slot, NEW id \in Entity
    PROVE  LET u == Bind(t, s, id)
           IN  /\ Plain(u) /\ Fields(u)
               /\ \A x \in Slot : NamesOf(u)[x] =
                    IF x = s THEN id ELSE IF NamesOf(t)[x] = id THEN 0 ELSE NamesOf(t)[x]
<1> DEFINE u == Bind(t, s, id)
           old == NamesOf(t)[s]
           taken(i) == id \in DOMAIN t.slots \ {old} /\ i = t.slots[id]
<1>1. /\ Fields(u) /\ u.free = t.free
      /\ u.ids \in Seq(Nat) /\ Len(u.ids) = IF s > Len(t.ids) THEN s ELSE Len(t.ids)
      /\ \A i \in 1..Len(u.ids) : u.ids[i] =
           IF i = s THEN id ELSE IF i \in 1..Len(t.ids) /\ ~taken(i) THEN t.ids[i] ELSE 0
      /\ DOMAIN u.slots = (DOMAIN t.slots \ {old}) \cup {id}
      /\ \A e \in DOMAIN u.slots : u.slots[e] = IF e = id THEN s ELSE t.slots[e]
      /\ u.slots \in [DOMAIN u.slots -> Slot]
  BY BindIs
<1> HIDE DEF u
<1>2. /\ t.ids \in Seq(Nat) /\ Len(t.ids) \in Nat /\ Len(t.ids) <= MaxSlots /\ MaxSlots \in Nat
      /\ id # 0 /\ s \in 1..MaxSlots /\ DOMAIN t.slots \subseteq Entity
  BY TheNames DEF Plain
<1>3. /\ Len(u.ids) \in Nat /\ Len(u.ids) <= MaxSlots /\ s \in 1..Len(u.ids)
      /\ \A i \in 1..Len(t.ids) : i \in 1..Len(u.ids)
      /\ \A i \in 1..Len(u.ids) : i \in Slot
  BY <1>1, <1>2, TheNames
<1>4. /\ \A e \in DOMAIN t.slots : old = e <=> s = t.slots[e]
      /\ \A e \in DOMAIN t.slots : t.slots[e] \in 1..Len(t.ids) /\ t.ids[t.slots[e]] = e
      /\ \A i \in 1..Len(t.ids) : t.ids[i] # 0 => t.ids[i] \in DOMAIN t.slots /\ t.slots[t.ids[i]] = i
  <2>1. \A e \in DOMAIN t.slots : old = e <=> s = t.slots[e]
    BY PlainNames
  <2> QED  BY <2>1 DEF Plain
<1> HIDE DEF old
<1>5. Plain(u)
  <2>1. ASSUME NEW i \in 1..Len(u.ids), u.ids[i] # 0
        PROVE  u.ids[i] \in DOMAIN u.slots /\ u.slots[u.ids[i]] = i
    <3>1. CASE i = s
      BY <1>1, <3>1
    <3>2. CASE i # s
      <4>1. i \in 1..Len(t.ids) /\ ~taken(i) /\ u.ids[i] = t.ids[i]
        BY <1>1, <2>1, <3>2
      <4>2. t.ids[i] \in DOMAIN t.slots /\ t.slots[t.ids[i]] = i
        BY <1>4, <2>1, <4>1
      <4>3. t.ids[i] # old
        BY <1>4, <3>2, <4>2
      <4>4. t.ids[i] # id
        BY <4>1, <4>2, <4>3
      <4> QED  BY <1>1, <4>1, <4>2, <4>3, <4>4
    <3> QED  BY <3>1, <3>2
  <2>2. ASSUME NEW e \in DOMAIN u.slots
        PROVE  u.slots[e] \in 1..Len(u.ids) /\ u.ids[u.slots[e]] = e
    <3>1. CASE e = id
      BY <1>1, <1>3, <3>1
    <3>2. CASE e # id
      <4>1. e \in DOMAIN t.slots /\ e # old /\ u.slots[e] = t.slots[e]
        BY <1>1, <3>2
      <4>2. t.slots[e] \in 1..Len(t.ids) /\ t.ids[t.slots[e]] = e /\ t.slots[e] # s
        BY <1>4, <4>1
      <4>3. ~taken(t.slots[e])
        <5>1. ASSUME taken(t.slots[e]) PROVE FALSE
          <6>1. t.ids[t.slots[id]] = id /\ t.slots[e] = t.slots[id]
            BY <1>4, <5>1
          <6> QED  BY <3>2, <4>2, <6>1
        <5> QED  BY <5>1
      <4>4. t.slots[e] \in 1..Len(u.ids)
        BY <1>3, <4>2
      <4> HIDE DEF taken
      <4> QED  BY <1>1, <4>1, <4>2, <4>3, <4>4
    <3> QED  BY <3>1, <3>2
  <2>3. u.free \in Seq([slot : Slot, at : Nat]) /\ DOMAIN u.slots \subseteq Entity
    BY <1>1, <1>2 DEF Plain
  <2> QED  BY <1>1, <1>3, <2>1, <2>2, <2>3 DEF Plain
<1>6. ASSUME NEW x \in Slot
      PROVE  NamesOf(u)[x] = IF x = s THEN id ELSE IF NamesOf(t)[x] = id THEN 0 ELSE NamesOf(t)[x]
  <2>1. /\ NamesOf(t)[x] = IF x \in 1..Len(t.ids) THEN t.ids[x] ELSE 0
        /\ NamesOf(u)[x] = IF x \in 1..Len(u.ids) THEN u.ids[x] ELSE 0
        /\ \A e \in DOMAIN t.slots : NamesOf(t)[x] = e <=> x = t.slots[e]
        /\ NamesOf(t)[x] # 0 => NamesOf(t)[x] \in DOMAIN t.slots
    BY <1>5, PlainNames
  <2>2. CASE x = s
    BY <1>1, <1>3, <2>1, <2>2
  <2>3. CASE x # s /\ x \notin 1..Len(t.ids)
    <3>1. x \notin 1..Len(u.ids) \/ (x \in 1..Len(u.ids) /\ u.ids[x] = 0)
      BY <1>1, <2>3
    <3> QED  BY <2>1, <2>3, <3>1
  <2>4. CASE x # s /\ x \in 1..Len(t.ids)
    <3>1. u.ids[x] = (IF ~taken(x) THEN t.ids[x] ELSE 0) /\ x \in 1..Len(u.ids)
      BY <1>1, <1>3, <2>4
    <3>2. taken(x) <=> NamesOf(t)[x] = id
      <4>1. ASSUME NamesOf(t)[x] = id PROVE taken(x)
        <5>1. id \in DOMAIN t.slots /\ x = t.slots[id]
          BY <1>2, <2>1, <4>1
        <5>2. id # old
          BY <1>4, <2>4, <5>1
        <5> QED  BY <5>1, <5>2
      <4> QED  BY <2>1, <4>1
    <3> HIDE DEF taken
    <3> QED  BY <2>1, <2>4, <3>1, <3>2
  <2> QED  BY <2>2, <2>3, <2>4
<1> QED  BY <1>1, <1>5, <1>6 DEF u

-----------------------------------------------------------------------------
(* The client's table, row by row.                                         *)

\* A table of rows: every slot its entity, no entity twice.
GoodRows(rows) ==
    /\ rows \in Rows
    /\ \A s \in DOMAIN rows : \A x \in DOMAIN rows : rows[s].id = rows[x].id => s = x

\* The names a table of rows gives its slots.
RowNames(rows) == [s \in Slot |-> IF s \in DOMAIN rows THEN rows[s].id ELSE NoEntity]

LEMMA RowsAre ==
    ASSUME NEW rows \in Rows
    PROVE  /\ DOMAIN rows \subseteq Slot /\ rows = [s \in DOMAIN rows |-> rows[s]]
           /\ \A s \in DOMAIN rows : rows[s].id \in Entity /\ rows[s] \in [id : Entity, owner : Owner]
<1>1. PICK S \in SUBSET Slot : rows \in [S -> [id : Entity, owner : Owner]]
  BY DEF Rows
<1>2. \A s \in S : rows[s] \in [id : Entity, owner : Owner]
  BY <1>1
<1> QED  BY <1>1, <1>2

LEMMA SlotSets == \A S \in SUBSET Slot : IsFiniteSet(S) /\ S \subseteq Nat
<1>1. IsFiniteSet(Slot)
  BY TheNames, FS_Interval
<1>2. Slot \subseteq Nat
  BY TheNames
<1> QED  BY <1>1, <1>2, FS_Subset

PlainTables == {t \in Tables : Plain(t)}

LEMMA PlainTablesAre ==
    ASSUME NEW t
    PROVE  t \in PlainTables <=> Plain(t) /\ Fields(t)
<1>1. ASSUME t \in Tables PROVE Fields(t)
  BY <1>1 DEF Tables, Fields
<1>2. ASSUME Plain(t), Fields(t) PROVE t \in Tables
  <2>1. t.slots \in UNION {[S -> Slot] : S \in SUBSET Entity}
    BY <1>2 DEF Plain
  <2> QED  BY <1>2, <2>1 DEF Plain, Fields, Tables
<1> QED  BY <1>1, <1>2 DEF PlainTables

UnbindLoop(t, P, h) ==
    h = [s \in SUBSET P |-> IF s = {} THEN t ELSE Unbind(h[s \ {Greatest(s)}], Greatest(s))]

BindLoop(t, rows, h) ==
    h = [s \in SUBSET DOMAIN rows |->
           IF s = {} THEN t
           ELSE Bind(h[s \ {Greatest(s)}], Greatest(s), rows[Greatest(s)].id)]

LEMMA UnbindRowsIs ==
    ASSUME NEW t, NEW P
    PROVE  UnbindRows(t, P) = (CHOOSE h : UnbindLoop(t, P, h))[P]
BY DEF UnbindRows, FoldAscending, MapThenFoldSet, Max, UnbindLoop, Greatest

LEMMA BindRowsIs ==
    ASSUME NEW t, NEW rows
    PROVE  BindRows(t, rows) = (CHOOSE h : BindLoop(t, rows, h))[DOMAIN rows]
BY DEF BindRows, FoldAscending, MapThenFoldSet, Max, BindLoop, Greatest

\* Bare(t, s, u): u is t with the slots of s bare.
Bare(t, s, u) == \A x \in Slot : NamesOf(u)[x] = IF x \in s THEN 0 ELSE NamesOf(t)[x]

LEMMA UnbindRowsKeeps ==
    ASSUME NEW t, Plain(t), Fields(t), NEW P \in SUBSET Slot
    PROVE  LET u == UnbindRows(t, P) IN Plain(u) /\ Fields(u) /\ Bare(t, P, u)
<1> DEFINE V == PlainTables
           F == [p \in P \X V |-> Unbind(p[2], p[1])]
           h == CHOOSE g : UnbindLoop(t, P, g)
           R == {p \in (SUBSET P) \X V : Bare(t, p[1], p[2])}
<1>1. IsFiniteSet(P) /\ P \subseteq Nat /\ P \subseteq Slot
  BY SlotSets
<1>2. t \in V
  BY PlainTablesAre
<1>3. ASSUME NEW s \in P, NEW u \in V PROVE Unbind(u, s) \in V
  <2>1. Plain(u) /\ Fields(u) /\ s \in Slot
    BY PlainTablesAre
  <2>2. Plain(Unbind(u, s)) /\ Fields(Unbind(u, s))
    BY <2>1, UnbindKeeps
  <2> QED  BY <2>2, PlainTablesAre
<1>4. F \in [P \X V -> V]
  <2> HIDE DEF V
  <2> QED  BY <1>3
<1> HIDE DEF V, F
<1>5. PICK g \in [SUBSET P -> V] : Loops(F, t, P, g)
  BY <1>1, <1>2, <1>4, LoopExists
<1>6. UnbindLoop(t, P, g)
  <2>1. ASSUME NEW s \in SUBSET P, s # {} PROVE g[s] = Unbind(g[s \ {Greatest(s)}], Greatest(s))
    <3>1. Greatest(s) \in P /\ s \ {Greatest(s)} \in SUBSET P
      BY <1>1, <2>1, FS_Subset, SomeGreatest
    <3> DEFINE x == Greatest(s)
               u == g[s \ {x}]
    <3>2. u \in V /\ x \in P
      BY <1>5, <3>1
    <3>3. g[s] = F[<<x, u>>]
      BY <1>5, <2>1 DEF Loops
    <3> HIDE DEF x, u
    <3>4. g[s] = Unbind(u, x)
      BY <3>2, <3>3 DEF F
    <3> QED  BY <3>4 DEF x, u
  <2>2. g[{}] = t
    BY <1>5 DEF Loops
  <2> QED  BY <1>5, <2>1, <2>2 DEF UnbindLoop
<1>7. UnbindLoop(t, P, h)
  BY <1>6
<1> HIDE DEF h
<1>8. h[{}] = t /\ \A s \in SUBSET P : s # {} => h[s] = Unbind(h[s \ {Greatest(s)}], Greatest(s))
  BY <1>7 DEF UnbindLoop
<1>9. <<{}, h[{}]>> \in R
  <2>1. Bare(t, {}, t)
    BY DEF Bare
  <2> QED  BY <1>2, <1>8, <2>1
<1>10. ASSUME NEW s \in SUBSET P, NEW x \in s, x = Greatest(s), <<s \ {x}, h[s \ {x}]>> \in R
       PROVE  <<s, h[s]>> \in R
  <2> DEFINE u == h[s \ {x}]
             w == Unbind(u, x)
  <2>1. u \in V /\ Bare(t, s \ {x}, u)
    BY <1>10
  <2>2. h[s] = w
    BY <1>8, <1>10
  <2> HIDE DEF u
  <2>3. Plain(u) /\ Fields(u) /\ x \in Slot
    BY <1>1, <2>1, PlainTablesAre DEF V
  <2>4. /\ Plain(w) /\ Fields(w)
        /\ \A y \in Slot : NamesOf(w)[y] = IF y = x THEN 0 ELSE NamesOf(u)[y]
    BY <2>3, UnbindKeeps
  <2> HIDE DEF w
  <2>5. w \in V
    BY <2>4, PlainTablesAre DEF V
  <2>6. Bare(t, s, w)
    BY <2>1, <2>4 DEF Bare
  <2> QED  BY <2>2, <2>5, <2>6
<1> HIDE DEF R
<1>11. <<P, h[P]>> \in R
  BY <1>1, <1>9, <1>10, LoopReaches
<1>12. h[P] \in V /\ Bare(t, P, h[P])
  BY <1>11 DEF R
<1>13. UnbindRows(t, P) = h[P]
  BY UnbindRowsIs DEF h
<1> QED  BY <1>12, <1>13, PlainTablesAre DEF V

\* u is t with the rows of s written over it.
Written(t, rows, s, u) ==
    \A x \in Slot : NamesOf(u)[x] =
       IF x \in s THEN rows[x].id
       ELSE IF \E y \in s : rows[y].id = NamesOf(t)[x] THEN 0 ELSE NamesOf(t)[x]

LEMMA BindRowsKeeps ==
    ASSUME NEW t, Plain(t), Fields(t), NEW rows, GoodRows(rows)
    PROVE  LET u == BindRows(t, rows) IN Plain(u) /\ Fields(u) /\ Written(t, rows, DOMAIN rows, u)
<1> DEFINE P == DOMAIN rows
           V == PlainTables
           F == [p \in P \X V |-> Bind(p[2], p[1], rows[p[1]].id)]
           h == CHOOSE g : BindLoop(t, rows, g)
           R == {p \in (SUBSET P) \X V : Written(t, rows, p[1], p[2])}
<1>0. \A s \in P : rows[s].id \in Entity /\ rows[s].id # 0
  BY RowsAre, TheNames DEF GoodRows
<1>1. IsFiniteSet(P) /\ P \subseteq Nat /\ P \subseteq Slot
  BY SlotSets, RowsAre DEF GoodRows
<1>2. t \in V
  BY PlainTablesAre
<1>3. ASSUME NEW s \in P, NEW u \in V PROVE Bind(u, s, rows[s].id) \in V
  <2> DEFINE e == rows[s].id
  <2>1. Plain(u) /\ Fields(u) /\ s \in Slot /\ e \in Entity
    BY <1>0, <1>1, PlainTablesAre
  <2> HIDE DEF e
  <2>2. Plain(Bind(u, s, e)) /\ Fields(Bind(u, s, e))
    BY <2>1, BindKeeps
  <2>3. Bind(u, s, e) \in V
    BY <2>2, PlainTablesAre
  <2> QED  BY <2>3 DEF e
<1>4. F \in [P \X V -> V]
  <2> HIDE DEF V, P
  <2> QED  BY <1>3
<1> HIDE DEF V, F
<1>5. PICK g \in [SUBSET P -> V] : Loops(F, t, P, g)
  <2> HIDE DEF P
  <2> QED  BY <1>1, <1>2, <1>4, LoopExists
<1>6. BindLoop(t, rows, g)
  <2>1. ASSUME NEW s \in SUBSET P, s # {}
        PROVE  g[s] = Bind(g[s \ {Greatest(s)}], Greatest(s), rows[Greatest(s)].id)
    <3>1. Greatest(s) \in P /\ s \ {Greatest(s)} \in SUBSET P
      BY <1>1, <2>1, FS_Subset, SomeGreatest
    <3> DEFINE x == Greatest(s)
               u == g[s \ {x}]
    <3>2. u \in V /\ x \in P
      BY <1>5, <3>1
    <3>3. g[s] = F[<<x, u>>]
      BY <1>5, <2>1 DEF Loops
    <3> HIDE DEF x, u
    <3>4. g[s] = Bind(u, x, rows[x].id)
      BY <3>2, <3>3 DEF F
    <3> QED  BY <3>4 DEF x, u
  <2>2. g[{}] = t
    BY <1>5 DEF Loops
  <2> QED  BY <1>5, <2>1, <2>2 DEF BindLoop
<1>7. BindLoop(t, rows, h)
  BY <1>6
<1> HIDE DEF h
<1>8. h[{}] = t /\ \A s \in SUBSET P : s # {} =>
        h[s] = Bind(h[s \ {Greatest(s)}], Greatest(s), rows[Greatest(s)].id)
  BY <1>7 DEF BindLoop
<1>9. <<{}, h[{}]>> \in R
  <2>1. Written(t, rows, {}, t)
    BY DEF Written
  <2> QED  BY <1>2, <1>8, <2>1
<1>10. ASSUME NEW s \in SUBSET P, NEW x \in s, x = Greatest(s), <<s \ {x}, h[s \ {x}]>> \in R
       PROVE  <<s, h[s]>> \in R
  <2> DEFINE u == h[s \ {x}]
             e == rows[x].id
             w == Bind(u, x, e)
  <2>1. u \in V /\ Written(t, rows, s \ {x}, u)
    BY <1>10
  <2>2. h[s] = w
    BY <1>8, <1>10
  <2>3. x \in P /\ \A y \in s \ {x} : rows[y].id # e
    BY DEF GoodRows
  <2>4. e \in Entity /\ e # 0 /\ e = rows[x].id
    BY <1>0, <2>3
  <2> HIDE DEF u, e
  <2>5. Plain(u) /\ Fields(u) /\ x \in Slot
    BY <1>1, <2>1, PlainTablesAre DEF V
  <2>6. /\ Plain(w) /\ Fields(w)
        /\ \A y \in Slot : NamesOf(w)[y] =
             IF y = x THEN e ELSE IF NamesOf(u)[y] = e THEN 0 ELSE NamesOf(u)[y]
    BY <2>4, <2>5, BindKeeps
  <2> HIDE DEF w
  <2>7. w \in V
    BY <2>6, PlainTablesAre DEF V
  <2>8. ASSUME NEW y \in Slot
        PROVE  NamesOf(w)[y] = IF y \in s THEN rows[y].id
                 ELSE IF \E z \in s : rows[z].id = NamesOf(t)[y] THEN 0 ELSE NamesOf(t)[y]
    <3>1. NamesOf(u)[y] = IF y \in s \ {x} THEN rows[y].id
            ELSE IF \E z \in s \ {x} : rows[z].id = NamesOf(t)[y] THEN 0 ELSE NamesOf(t)[y]
      BY <2>1 DEF Written
    <3>2. CASE y = x
      BY <2>4, <2>6, <3>2
    <3>3. CASE y \in s \ {x}
      <4>1. NamesOf(u)[y] = rows[y].id /\ rows[y].id # e
        BY <2>3, <3>1, <3>3
      <4> QED  BY <2>6, <3>3, <4>1
    <3>4. CASE y \notin s
      <4>1. NamesOf(w)[y] = IF NamesOf(u)[y] = e THEN 0 ELSE NamesOf(u)[y]
        BY <2>6, <3>4
      <4>2. NamesOf(u)[y] = IF \E z \in s \ {x} : rows[z].id = NamesOf(t)[y] THEN 0 ELSE NamesOf(t)[y]
        BY <3>1, <3>4
      <4>3. CASE \E z \in s \ {x} : rows[z].id = NamesOf(t)[y]
        <5>1. NamesOf(w)[y] = 0
          BY <2>4, <4>1, <4>2, <4>3
        <5> QED  BY <3>4, <4>3, <5>1
      <4>4. CASE ~\E z \in s \ {x} : rows[z].id = NamesOf(t)[y]
        <5>1. NamesOf(w)[y] = IF NamesOf(t)[y] = e THEN 0 ELSE NamesOf(t)[y]
          BY <4>1, <4>2, <4>4
        <5>2. (\E z \in s : rows[z].id = NamesOf(t)[y]) <=> NamesOf(t)[y] = e
          BY <2>4, <4>4
        <5> QED  BY <3>4, <5>1, <5>2
      <4> QED  BY <4>3, <4>4
    <3> QED  BY <3>2, <3>3, <3>4
  <2>9. Written(t, rows, s, w)
    BY <2>8 DEF Written
  <2> QED  BY <2>2, <2>7, <2>9
<1> HIDE DEF R, P
<1>11. <<P, h[P]>> \in R
  BY <1>1, <1>9, <1>10, LoopReaches
<1>12. h[P] \in V /\ Written(t, rows, P, h[P])
  BY <1>11 DEF R
<1>13. BindRows(t, rows) = h[P]
  BY BindRowsIs DEF h, P
<1> QED  BY <1>12, <1>13, PlainTablesAre DEF V, P

\* u names what the rows say.
Says(u, rows) == Plain(u) /\ Fields(u) /\ NamesOf(u) = RowNames(rows)

LEMMA EmptyIs == Says(EmptyTable, NoRows)
<1> DEFINE t == EmptyTable
<1>1. t = [ids |-> <<>>, slots |-> [e \in {} |-> 0], free |-> <<>>]
  BY DEF EmptyTable
<1> HIDE DEF t
<1>2. t.ids = <<>> /\ t.slots = [e \in {} |-> 0] /\ t.free = <<>> /\ Fields(t)
  BY <1>1 DEF Fields
<1>3. /\ t.ids \in Seq(Nat) /\ Len(t.ids) = 0 /\ 1..0 = {}
      /\ t.free \in Seq([slot : Slot, at : Nat])
      /\ DOMAIN t.slots = {} /\ t.slots \in [DOMAIN t.slots -> Slot]
  BY <1>2
<1>4. Plain(t)
  BY <1>3, TheNames DEF Plain
<1>5. NamesOf(t) = [s \in Slot |-> 0]
  <2>1. DOMAIN t.ids = {}
    BY <1>2
  <2> QED  BY <2>1, TheNames DEF NamesOf, IdOf
<1>6. RowNames(NoRows) = [s \in Slot |-> 0]
  BY TheNames DEF RowNames, NoRows
<1> QED  BY <1>2, <1>4, <1>5, <1>6 DEF Says, t

LEMMA NoRowsAre == GoodRows(NoRows)
<1>1. {} \in SUBSET Slot /\ NoRows \in [{} -> [id : Entity, owner : Owner]]
  BY DEF NoRows
<1>2. NoRows \in Rows
  BY <1>1 DEF Rows
<1> QED  BY <1>2 DEF GoodRows, NoRows

\* Two tables that name the same are written alike.
LEMMA SaysIs ==
    ASSUME NEW u, Plain(u), Fields(u), NEW rows,
           \A s \in Slot : NamesOf(u)[s] = IF s \in DOMAIN rows THEN rows[s].id ELSE 0
    PROVE  Says(u, rows)
<1>1. NamesOf(u) = [s \in Slot |-> NamesOf(u)[s]]
  BY DEF NamesOf
<1>2. RowNames(rows) = [s \in Slot |-> IF s \in DOMAIN rows THEN rows[s].id ELSE 0]
  BY TheNames DEF RowNames
<1>3. [s \in Slot |-> NamesOf(u)[s]] = [s \in Slot |-> IF s \in DOMAIN rows THEN rows[s].id ELSE 0]
  OBVIOUS
<1> QED  BY <1>1, <1>2, <1>3 DEF Says

LEMMA FullAdopts ==
    ASSUME NEW rows, GoodRows(rows)
    PROVE  Says(BindRows(EmptyTable, rows), rows)
<1> DEFINE u == BindRows(EmptyTable, rows)
<1>1. Plain(EmptyTable) /\ Fields(EmptyTable) /\ \A s \in Slot : NamesOf(EmptyTable)[s] = 0
  BY EmptyIs, TheNames DEF Says, RowNames, NoRows
<1>2. Plain(u) /\ Fields(u) /\ Written(EmptyTable, rows, DOMAIN rows, u)
  BY <1>1, BindRowsKeeps
<1> HIDE DEF u
<1>3. ASSUME NEW s \in Slot PROVE NamesOf(u)[s] = IF s \in DOMAIN rows THEN rows[s].id ELSE 0
  BY <1>1, <1>2 DEF Written
<1>4. Says(u, rows)
  BY <1>2, <1>3, SaysIs
<1> QED  BY <1>4 DEF u

\* What a delta states and retires, laid over the rows it was computed from.
LEMMA DiffIs ==
    ASSUME NEW was \in Rows, NEW is \in Rows
    PROVE  LET d == DiffManifest(was, is)
           IN  /\ d.removed = DOMAIN was \ DOMAIN is /\ d.removed \in SUBSET Slot
               /\ d.added \in Rows /\ DOMAIN d.added \subseteq DOMAIN is
               /\ \A s \in DOMAIN d.added : d.added[s] = is[s]
               /\ \A s \in DOMAIN is \ DOMAIN d.added : s \in DOMAIN was /\ was[s] = is[s]
               /\ is = [s \in (DOMAIN was \ d.removed) \cup DOMAIN d.added |->
                          IF s \in DOMAIN d.added THEN d.added[s] ELSE was[s]]
<1> DEFINE d == DiffManifest(was, is)
           A == {t \in DOMAIN is : t \in DOMAIN was => was[t] # is[t]}
<1>1. d.removed = DOMAIN was \ DOMAIN is /\ d.added = [s \in A |-> is[s]]
  BY DEF DiffManifest
<1> HIDE DEF d
<1>2. /\ DOMAIN was \subseteq Slot /\ DOMAIN is \subseteq Slot
      /\ is = [s \in DOMAIN is |-> is[s]]
      /\ \A s \in DOMAIN is : is[s] \in [id : Entity, owner : Owner]
  BY RowsAre
<1>3. d.added \in Rows
  <2>1. A \in SUBSET Slot
    BY <1>2
  <2>2. d.added \in [A -> [id : Entity, owner : Owner]]
    BY <1>1, <1>2
  <2> QED  BY <2>1, <2>2 DEF Rows
<1>4. DOMAIN d.added = A /\ \A s \in A : d.added[s] = is[s]
  BY <1>1
<1>5. \A s \in DOMAIN is \ A : s \in DOMAIN was /\ was[s] = is[s]
  OBVIOUS
<1>6. is = [s \in (DOMAIN was \ d.removed) \cup DOMAIN d.added |->
              IF s \in DOMAIN d.added THEN d.added[s] ELSE was[s]]
  <2>1. (DOMAIN was \ d.removed) \cup DOMAIN d.added = DOMAIN is
    BY <1>1, <1>4, <1>5
  <2>2. \A s \in DOMAIN is : is[s] = IF s \in DOMAIN d.added THEN d.added[s] ELSE was[s]
    BY <1>4, <1>5
  <2> QED  BY <1>2, <2>1, <2>2
<1> QED  BY <1>1, <1>2, <1>3, <1>4, <1>5, <1>6 DEF d

LEMMA DeltaAdopts ==
    ASSUME NEW was, GoodRows(was), NEW is, GoodRows(is), NEW t, Says(t, was)
    PROVE  LET d == DiffManifest(was, is)
           IN  Says(BindRows(UnbindRows(t, d.removed), d.added), is)
<1> DEFINE d == DiffManifest(was, is)
           u == UnbindRows(t, d.removed)
           w == BindRows(u, d.added)
<1>1. was \in Rows /\ is \in Rows
  BY DEF GoodRows
<1>2. /\ d.removed = DOMAIN was \ DOMAIN is /\ d.removed \in SUBSET Slot
      /\ d.added \in Rows /\ DOMAIN d.added \subseteq DOMAIN is
      /\ \A s \in DOMAIN d.added : d.added[s] = is[s]
      /\ \A s \in DOMAIN is \ DOMAIN d.added : s \in DOMAIN was /\ was[s] = is[s]
      /\ is = [s \in (DOMAIN was \ d.removed) \cup DOMAIN d.added |->
                 IF s \in DOMAIN d.added THEN d.added[s] ELSE was[s]]
  BY <1>1, DiffIs
<1> HIDE DEF d
<1>3. GoodRows(d.added)
  BY <1>2 DEF GoodRows
<1>4. Plain(t) /\ Fields(t) /\ \A s \in Slot : NamesOf(t)[s] = IF s \in DOMAIN was THEN was[s].id ELSE 0
  BY TheNames DEF Says, RowNames
<1>5. Plain(u) /\ Fields(u) /\ Bare(t, d.removed, u)
  BY <1>2, <1>4, UnbindRowsKeeps
<1> HIDE DEF u
<1>6. Plain(w) /\ Fields(w) /\ Written(u, d.added, DOMAIN d.added, w)
  BY <1>3, <1>5, BindRowsKeeps
<1> HIDE DEF w
<1>7. ASSUME NEW s \in Slot PROVE NamesOf(w)[s] = IF s \in DOMAIN is THEN is[s].id ELSE 0
  <2>1. NamesOf(u)[s] = IF s \in DOMAIN was /\ s \in DOMAIN is THEN was[s].id ELSE 0
    BY <1>2, <1>4, <1>5 DEF Bare
  <2>2. NamesOf(w)[s] = IF s \in DOMAIN d.added THEN d.added[s].id
          ELSE IF \E y \in DOMAIN d.added : d.added[y].id = NamesOf(u)[s] THEN 0 ELSE NamesOf(u)[s]
    BY <1>6 DEF Written
  <2>3. CASE s \in DOMAIN d.added
    BY <1>2, <2>2, <2>3
  <2>4. CASE s \notin DOMAIN is
    <3>1. NamesOf(u)[s] = 0 /\ s \notin DOMAIN d.added
      BY <1>2, <2>1, <2>4
    <3> QED  BY <2>2, <2>4, <3>1
  <2>5. CASE s \in DOMAIN is \ DOMAIN d.added
    <3>1. NamesOf(u)[s] = is[s].id
      BY <1>2, <2>1, <2>5
    <3>2. \A y \in DOMAIN d.added : d.added[y].id # is[s].id
      BY <1>2, <2>5 DEF GoodRows
    <3> QED  BY <2>2, <2>5, <3>1, <3>2
  <2> QED  BY <2>3, <2>4, <2>5
<1>8. Says(w, is)
  BY <1>6, <1>7, SaysIs
<1> QED  BY <1>8 DEF w, u, d

-----------------------------------------------------------------------------
(* A snapshot read by the client.                                          *)

\* The clients that differ from c in nothing but what they watch and want.
Watching(c) ==
    [table : {c.table}, rows : {c.rows}, gen : {c.gen}, want : BOOLEAN,
     since : [Slot -> Nat], at : {c.at}]

\* One block's name looked up, and the loop over a frame's.
ReadName(d, e, c) ==
    LET s == CHOOSE x \in Slot : d.blocks[x] = e
    IN  IF IdOf(c.table, s) # NoEntity THEN [c EXCEPT !.since[s] = NoTick]
        ELSE Unbound(c, s, d.tick)

ReadLoop(d, c, P, h) ==
    h = [s \in SUBSET P |-> IF s = {} THEN c ELSE ReadName(d, Greatest(s), h[s \ {Greatest(s)}])]

LEMMA ReadKeeps ==
    ASSUME NEW c0, NEW c \in Watching(c0), NEW d \in Snapshot, NEW e \in IdsOf(d.blocks, Slot)
    PROVE  ReadName(d, e, c) \in Watching(c0)
<1> DEFINE s == CHOOSE x \in Slot : d.blocks[x] = e
<1>1. s \in Slot
  <2>1. \E x \in Slot : d.blocks[x] = e
    BY DEF IdsOf
  <2> QED  BY <2>1
<1>2. /\ c = [table |-> c0.table, rows |-> c0.rows, gen |-> c0.gen, want |-> c.want,
              since |-> c.since, at |-> c0.at]
      /\ c.want \in BOOLEAN /\ c.since \in [Slot -> Nat] /\ d.tick \in Nat
  BY DEF Watching, Snapshot
<1> HIDE DEF s
<1>3. CASE IdOf(c.table, s) # NoEntity
  <2> DEFINE x == [c.since EXCEPT ![s] = 0]
  <2>1. x \in [Slot -> Nat]
    BY <1>2
  <2>2. ReadName(d, e, c) = [c EXCEPT !.since = x]
    BY <1>3 DEF ReadName, NoTick, s
  <2> HIDE DEF x
  <2>3. [c EXCEPT !.since = x] = [table |-> c0.table, rows |-> c0.rows, gen |-> c0.gen,
           want |-> c.want, since |-> x, at |-> c0.at]
    BY <1>2
  <2> QED  BY <1>2, <2>1, <2>2, <2>3 DEF Watching
<1>4. CASE IdOf(c.table, s) = NoEntity
  <2> DEFINE watched == {t \in Slot : c.since[t] # NoTick}
             full == Cardinality(watched) >= UnboundMax /\ s \notin watched
             oldest == CHOOSE t \in watched : \A u \in watched :
                         c.since[t] < c.since[u] \/ (c.since[t] = c.since[u] /\ t <= u)
             kept == IF full THEN [c.since EXCEPT ![oldest] = NoTick] ELSE c.since
             first == IF kept[s] = NoTick THEN d.tick ELSE kept[s]
             due == d.tick >= first + RetryTicks
             x == [kept EXCEPT ![s] = IF due THEN d.tick ELSE first]
             w == c.want \/ due
  <2>1. Unbound(c, s, d.tick) = [c EXCEPT !.since = x, !.want = c.want \/ due]
    BY DEF Unbound
  <2>2. kept \in [Slot -> Nat]
    <3> HIDE DEF oldest, full
    <3> QED  BY <1>2 DEF NoTick
  <2> HIDE DEF kept
  <2>3. first \in Nat
    BY <1>1, <1>2, <2>2
  <2> HIDE DEF first
  <2>4. x \in [Slot -> Nat]
    BY <1>2, <2>2, <2>3
  <2>5. w \in BOOLEAN
    BY <1>2
  <2>6. ReadName(d, e, c) = [c EXCEPT !.since = x, !.want = w]
    BY <1>4, <2>1 DEF ReadName, s
  <2> HIDE DEF x, w
  <2> DEFINE q == [c EXCEPT !.since = x]
  <2>7. q = [table |-> c0.table, rows |-> c0.rows, gen |-> c0.gen,
             want |-> c.want, since |-> x, at |-> c0.at]
    BY <1>2
  <2>8. [c EXCEPT !.since = x, !.want = w] = [q EXCEPT !.want = w]
    OBVIOUS
  <2> HIDE DEF q
  <2>9. [q EXCEPT !.want = w] = [table |-> c0.table, rows |-> c0.rows, gen |-> c0.gen,
           want |-> w, since |-> x, at |-> c0.at]
    BY <2>7
  <2> QED  BY <2>4, <2>5, <2>6, <2>8, <2>9 DEF Watching
<1> QED  BY <1>3, <1>4

LEMMA SnapshotReads ==
    ASSUME NEW d \in Snapshot, HandleSnapshot(d), client \in Watching(client)
    PROVE  client' \in Watching(client)
<1> DEFINE P == IdsOf(d.blocks, Slot)
           V == Watching(client)
           F == [p \in P \X V |-> ReadName(d, p[1], p[2])]
           h == CHOOSE g : ReadLoop(d, client, P, g)
           R == {p \in (SUBSET P) \X V : TRUE}
<1>1. client' = h[P]
  BY DEF HandleSnapshot, FoldAscending, MapThenFoldSet, Max, ReadLoop, ReadName, Greatest
<1>2. IsFiniteSet(P) /\ P \subseteq Nat
  <2>1. d.blocks \in [Slot -> Entity \cup {NoEntity}]
    BY DEF Snapshot, Names
  <2>2. P \subseteq Nat
    BY <2>1, TheNames DEF IdsOf
  <2>3. IsFiniteSet(Slot)
    BY SlotSets
  <2> DEFINE I == {d.blocks[s] : s \in Slot}
  <2>4. IsFiniteSet(I)
    <3> DEFINE f == [s \in Slot |-> d.blocks[s]]
    <3>1. f \in Surjection(Slot, I)
      BY DEF Surjection
    <3> HIDE DEF f, I
    <3> QED  BY <2>3, <3>1, FS_Surjection
  <2>5. P \subseteq I
    BY DEF IdsOf
  <2> HIDE DEF P, I
  <2>6. IsFiniteSet(P)
    BY <2>4, <2>5, FS_Subset
  <2> QED  BY <2>2, <2>6
<1>3. F \in [P \X V -> V]
  <2>1. ASSUME NEW e \in P, NEW c \in V PROVE ReadName(d, e, c) \in V
    BY ReadKeeps
  <2> HIDE DEF P, V
  <2> QED  BY <2>1
<1>4. client \in V
  OBVIOUS
<1> HIDE DEF P, V, F
<1>5. PICK g \in [SUBSET P -> V] : Loops(F, client, P, g)
  BY <1>2, <1>3, <1>4, LoopExists
<1>6. ReadLoop(d, client, P, g)
  <2>1. ASSUME NEW s \in SUBSET P, s # {} PROVE g[s] = ReadName(d, Greatest(s), g[s \ {Greatest(s)}])
    <3>1. Greatest(s) \in P /\ s \ {Greatest(s)} \in SUBSET P
      BY <1>2, <2>1, FS_Subset, SomeGreatest
    <3> DEFINE x == Greatest(s)
               u == g[s \ {x}]
    <3>2. u \in V /\ x \in P
      BY <1>5, <3>1
    <3>3. g[s] = F[<<x, u>>]
      BY <1>5, <2>1 DEF Loops
    <3> HIDE DEF x, u
    <3>4. g[s] = ReadName(d, x, u)
      BY <3>2, <3>3 DEF F
    <3> QED  BY <3>4 DEF x, u
  <2>2. g[{}] = client
    BY <1>5 DEF Loops
  <2> QED  BY <1>5, <2>1, <2>2 DEF ReadLoop
<1>7. ReadLoop(d, client, P, h)
  BY <1>6
<1> HIDE DEF h
<1>8. h[{}] = client /\ \A s \in SUBSET P : s # {} =>
        h[s] = ReadName(d, Greatest(s), h[s \ {Greatest(s)}])
  BY <1>7 DEF ReadLoop
<1>9. <<{}, h[{}]>> \in R
  BY <1>4, <1>8
<1>10. ASSUME NEW s \in SUBSET P, NEW x \in s, x = Greatest(s), <<s \ {x}, h[s \ {x}]>> \in R
       PROVE  <<s, h[s]>> \in R
  <2> DEFINE u == h[s \ {x}]
  <2>1. u \in V /\ x \in P
    BY <1>10
  <2>2. h[s] = ReadName(d, x, u)
    BY <1>8, <1>10
  <2> HIDE DEF u
  <2>3. ReadName(d, x, u) \in V
    BY <2>1, ReadKeeps DEF P, V
  <2> QED  BY <2>2, <2>3
<1> HIDE DEF R
<1>11. <<P, h[P]>> \in R
  BY <1>2, <1>9, <1>10, LoopReaches
<1> QED  BY <1>1, <1>11 DEF R, V

-----------------------------------------------------------------------------
(* What the lane never loses.                                              *)

\* The table published at a generation, of a history.
Issued(hist, g) == IF g = 0 THEN NoRows ELSE hist[g]

\* A manifest says what was published, a delta what changed since its base.
Truthful(hist, m) ==
    /\ m.gen \in 1..Len(hist)
    /\ m.kind = "full" => m.rows = Issued(hist, m.gen)
    /\ m.kind = "delta" =>
         LET d == DiffManifest(Issued(hist, m.base), Issued(hist, m.gen))
         IN  m.gen = m.base + 1 /\ m.removed = d.removed /\ m.added = d.added

\* The inductive invariant, whatever is lost or refused: generations, rows and tables.
LaneInv ==
    /\ TypeOK
    /\ OneName(names)
    /\ \A g \in 1..Len(history) : GoodRows(history[g])
    /\ RowNames(Issued(history, Len(history))) = names
    /\ peerGen \in {0, Len(history)}
    /\ client.gen \in 0..Len(history)
    /\ Says(client.table, client.rows)
    /\ \E g \in 0..Len(history) : client.rows = Issued(history, g)
    /\ client.gen # 0 => client.rows = Issued(history, client.gen)
    /\ Len(history) = 0 => reliable = <<>>
    /\ \A i \in 1..Len(reliable) : Truthful(history, reliable[i])
    /\ \A i \in 1..Len(reliable) :
         reliable[i].kind = "delta" /\ reliable[i].base = 0 => i = 1 /\ client.rows = NoRows

\* p as the slots stood: what it names is named so still, or was freed at k or later and
\* cools yet.
Since(p, k, nm, fr) ==
    \A s \in Slot : p[s] # 0 => nm[s] = p[s] \/ (nm[s] = 0 /\ fr[s] >= k)

Compatible(p, q) == \A s \in Slot : p[s] # 0 /\ q[s] # 0 => p[s] = q[s]

\* The generation the client holds once it has read the first i manifests of r.
GenAt(c, r, i) == IF i = 0 THEN c.gen ELSE r[i].gen

Follows(g, m) == IF m.kind = "full" THEN m.gen >= g ELSE m.base = g

Late(k, now) == k \in 1..now /\ now <= k + Lag

\* What holds besides for as long as no manifest was refused: each manifest in flight is read
\* at the generation it was written for, and every table the client is yet to hold, like every
\* frame's blocks, names what the server's slots named a moment ago.
OrderInv ==
    refused = 0 =>
    /\ \A d \in down : Late(d.tick, tick) /\ Since(d.blocks, d.tick, names, freed)
    /\ \A i \in 1..Len(reliable) :
         /\ Late(reliable[i].at, tick)
         /\ Follows(GenAt(client, reliable, i - 1), reliable[i])
         /\ Since(RowNames(Issued(history, GenAt(client, reliable, i - 1))), reliable[i].at,
                  names, freed)
    /\ client.gen = 0 => client.rows = NoRows
    /\ \/ GenAt(client, reliable, Len(reliable)) = Len(history)
       \/ reliable = <<>> /\ peerGen = 0 /\ client.gen = 0
    /\ \A d \in down : \A i \in 0..Len(reliable) :
         Compatible(d.blocks, RowNames(Issued(history, GenAt(client, reliable, i))))

LEMMA LaneBounds == Lag \in Nat \ {0} /\ Quarantine \in Nat \ {0} /\ RetryTicks \in Nat \ {0}
BY ManifestAssumption, NamingAssumption

\* A step that leaves the slots, the history, the manifests in flight and the client's
\* table alone.
LEMMA QuietStep ==
    ASSUME LaneInv, TypeOK',
           UNCHANGED <<tick, names, freed, history, reliable, refused>>,
           peerGen' \in {0, peerGen}, down' \subseteq down,
           client'.table = client.table, client'.rows = client.rows, client'.gen = client.gen
    PROVE  LaneInv' /\ (OrderInv => OrderInv')
<1>1. LaneInv'
  BY DEF LaneInv
<1>2. OrderInv => OrderInv'
  <2> SUFFICES ASSUME OrderInv PROVE OrderInv'
    OBVIOUS
  <2>1. \A i : GenAt(client', reliable', i) = GenAt(client, reliable, i)
    BY DEF GenAt
  <2>2. SUFFICES ASSUME refused = 0 PROVE OrderInv'
    BY DEF OrderInv
  <2>3. \A d \in down' : Late(d.tick, tick) /\ Since(d.blocks, d.tick, names, freed)
    BY <2>2 DEF OrderInv
  <2>4. \A i \in 1..Len(reliable) :
          /\ Late(reliable[i].at, tick)
          /\ Follows(GenAt(client', reliable', i - 1), reliable[i])
          /\ Since(RowNames(Issued(history, GenAt(client', reliable', i - 1))), reliable[i].at,
                   names, freed)
    BY <2>1, <2>2 DEF OrderInv
  <2>5. /\ client'.gen = 0 => client'.rows = NoRows
        /\ \/ GenAt(client', reliable', Len(reliable)) = Len(history)
           \/ reliable = <<>> /\ peerGen' = 0 /\ client'.gen = 0
    BY <2>1, <2>2 DEF OrderInv
  <2>6. \A d \in down' : \A i \in 0..Len(reliable) :
          Compatible(d.blocks, RowNames(Issued(history, GenAt(client', reliable', i))))
    BY <2>1, <2>2 DEF OrderInv
  <2> QED  BY <2>3, <2>4, <2>5, <2>6 DEF OrderInv
<1> QED  BY <1>1, <1>2

LEMMA ClientFields ==
    ASSUME NEW c \in ClientState
    PROVE  /\ c = [table |-> c.table, rows |-> c.rows, gen |-> c.gen, want |-> c.want,
                   since |-> c.since, at |-> c.at]
           /\ c.table \in Tables /\ c.rows \in Rows /\ c.gen \in Nat /\ c.want \in BOOLEAN
           /\ c.since \in [Slot -> Nat] /\ c.at \in Nat
BY DEF ClientState

LEMMA WorldStep ==
    ASSUME LaneInv, NEW e \in Entity,
           Register(e) \/ Unregister(e) \/ \E o \in Owner : ChangeOwner(e, o)
    PROVE  LaneInv' /\ (OrderInv => OrderInv')
<1>1. /\ UNCHANGED <<tick, names, freed, history, reliable, refused, peerGen, down, client, up>>
      /\ registered' \subseteq Entity /\ owner' \in [Entity -> Owner]
      /\ dirty' \in BOOLEAN /\ churn' \in Nat /\ losses' = losses
  <2>1. TypeOK
    BY DEF LaneInv
  <2>2. CASE Register(e)
    BY <2>1, <2>2 DEF Register, TypeOK
  <2>3. CASE Unregister(e)
    BY <2>1, <2>3 DEF Unregister, TypeOK
  <2>4. CASE \E o \in Owner : ChangeOwner(e, o)
    <3>1. PICK o \in Owner : ChangeOwner(e, o)
      BY <2>4
    <3> QED  BY <2>1, <3>1 DEF ChangeOwner, TypeOK
  <2> QED  BY <2>2, <2>3, <2>4
<1>2. TypeOK'
  BY <1>1 DEF LaneInv, TypeOK
<1> QED  BY <1>1, <1>2, QuietStep

LEMMA AskStep ==
    ASSUME LaneInv, NEW m \in up, HandleClientInput(m)
    PROVE  LaneInv' /\ (OrderInv => OrderInv')
<1>1. /\ UNCHANGED <<tick, names, freed, history, reliable, refused, down, client, registered,
                     owner, churn, losses>>
      /\ peerGen' = 0 /\ dirty' = TRUE /\ up' \subseteq up
  BY DEF HandleClientInput, world, spent
<1>2. TypeOK'
  BY <1>1 DEF LaneInv, TypeOK
<1> QED  BY <1>1, <1>2, QuietStep

LEMMA LossStep ==
    ASSUME LaneInv,
           (\E d \in down : LoseSnapshot(d)) \/ (\E m \in up : LoseInput(m))
    PROVE  LaneInv' /\ (OrderInv => OrderInv')
<1>1. /\ UNCHANGED <<tick, names, freed, history, reliable, refused, client, registered,
                     owner, churn, dirty, peerGen>>
      /\ down' \subseteq down /\ up' \subseteq up /\ losses' = losses + 1
  BY DEF LoseSnapshot, LoseInput, world
<1>2. TypeOK'
  BY <1>1 DEF LaneInv, TypeOK
<1> QED  BY <1>1, <1>2, QuietStep

LEMMA AskRidesStep ==
    ASSUME LaneInv, ClientFlush
    PROVE  LaneInv' /\ (OrderInv => OrderInv')
<1>1. /\ UNCHANGED <<tick, names, freed, history, reliable, refused, registered, down,
                     owner, churn, losses, dirty, peerGen>>
      /\ up' = up \/ up' = up \cup {[at |-> tick]}
      /\ client' = [client EXCEPT !.at = tick, !.want = FALSE]
  BY DEF ClientFlush, world, spent
<1>2. TypeOK /\ client \in ClientState /\ tick \in Nat
  BY DEF LaneInv, TypeOK
<1>3. client' = [table |-> client.table, rows |-> client.rows, gen |-> client.gen, want |-> FALSE,
                 since |-> client.since, at |-> tick]
  <2> DEFINE q == [client EXCEPT !.at = tick]
  <2>1. q = [table |-> client.table, rows |-> client.rows, gen |-> client.gen,
             want |-> client.want, since |-> client.since, at |-> tick]
    BY <1>2, ClientFields
  <2>2. client' = [q EXCEPT !.want = FALSE]
    BY <1>1
  <2> HIDE DEF q
  <2> QED  BY <2>1, <2>2
<1>4. client' \in ClientState
  BY <1>2, <1>3, ClientFields DEF ClientState
<1>5. [at |-> tick] \in Ask
  BY <1>2 DEF Ask
<1>6. TypeOK'
  BY <1>1, <1>2, <1>4, <1>5 DEF TypeOK
<1>7. client'.table = client.table /\ client'.rows = client.rows /\ client'.gen = client.gen
  BY <1>3
<1> QED  BY <1>1, <1>6, <1>7, QuietStep

LEMMA ReadStep ==
    ASSUME LaneInv, NEW d \in down, HandleSnapshot(d)
    PROVE  LaneInv' /\ (OrderInv => OrderInv')
<1>1. /\ UNCHANGED <<tick, names, freed, history, reliable, refused, registered, up,
                     owner, churn, losses, dirty, peerGen>>
      /\ down' \subseteq down
  BY DEF HandleSnapshot, world, spent
<1>2. TypeOK /\ client \in ClientState /\ d \in Snapshot
  BY DEF LaneInv, TypeOK
<1>3. client \in Watching(client)
  BY <1>2, ClientFields DEF Watching
<1>4. client' \in Watching(client)
  BY <1>2, <1>3, SnapshotReads
<1>5. client'.table = client.table /\ client'.rows = client.rows /\ client'.gen = client.gen
  BY <1>4 DEF Watching
<1>6. client' \in ClientState
  BY <1>2, <1>4, ClientFields DEF Watching, ClientState
<1>7. TypeOK'
  BY <1>1, <1>2, <1>6 DEF TypeOK
<1> QED  BY <1>1, <1>5, <1>7, QuietStep

LEMMA FreshIs ==
    ASSUME NEW now \in Nat
    PROVE  LET c == FreshClient(now)
           IN  /\ c \in ClientState /\ c.gen = 0 /\ c.rows = NoRows
               /\ Says(c.table, c.rows)
<1> DEFINE c == FreshClient(now)
<1>1. c = [table |-> EmptyTable, rows |-> NoRows, gen |-> 0, want |-> FALSE,
           since |-> [s \in Slot |-> 0], at |-> now]
  BY DEF FreshClient, NoTick
<1> HIDE DEF c
<1>2. c.table = EmptyTable /\ c.rows = NoRows /\ c.gen = 0
  BY <1>1
<1>3. EmptyTable \in Tables
  BY EmptyIs, PlainTablesAre DEF Says, PlainTables
<1>4. NoRows \in Rows
  BY NoRowsAre DEF GoodRows
<1>5. c \in ClientState
  BY <1>1, <1>3, <1>4 DEF ClientState
<1> QED  BY <1>2, <1>5, EmptyIs DEF c

LEMMA RekeyStep ==
    ASSUME LaneInv, Rekey
    PROVE  LaneInv' /\ (OrderInv => OrderInv')
<1>1. /\ UNCHANGED <<tick, names, freed, history, refused, registered, owner, losses>>
      /\ peerGen' = 0 /\ dirty' = TRUE /\ client' = FreshClient(tick)
      /\ down' = {} /\ reliable' = <<>> /\ up' = {} /\ churn' = churn + 1
  BY DEF Rekey, world
<1>2. TypeOK /\ tick \in Nat /\ history \in Seq(Rows) /\ Len(history) \in Nat
  BY DEF LaneInv, TypeOK
<1>3. /\ client' \in ClientState /\ client'.gen = 0 /\ client'.rows = NoRows
      /\ Says(client'.table, client'.rows)
  BY <1>1, <1>2, FreshIs
<1>4. TypeOK'
  <2>1. reliable' \in Seq(Full \cup Delta)
    BY <1>1
  <2> QED  BY <1>1, <1>2, <1>3, <2>1 DEF TypeOK
<1>5. Len(reliable') = 0 /\ 1..0 = {}
  BY <1>1
<1>6. LaneInv'
  <2>1. client'.rows = Issued(history, 0) /\ 0 \in 0..Len(history)
    BY <1>2, <1>3 DEF Issued
  <2> QED  BY <1>1, <1>2, <1>3, <1>4, <1>5, <2>1 DEF LaneInv
<1>7. OrderInv'
  BY <1>1, <1>3, <1>5 DEF OrderInv
<1> QED  BY <1>6, <1>7

\* The manifests in flight without the first.
LEMMA RestIs ==
    ASSUME NEW E, NEW r \in Seq(E), r # <<>>
    PROVE  /\ Tail(r) \in Seq(E) /\ Head(r) = r[1] /\ 1 \in 1..Len(r)
           /\ Len(r) \in Nat \ {0} /\ Len(Tail(r)) = Len(r) - 1
           /\ \A i \in 1..Len(Tail(r)) : i + 1 \in 1..Len(r) /\ Tail(r)[i] = r[i + 1]
<1>1. Len(r) \in Nat /\ Len(r) # 0
  OBVIOUS
<1>2. Tail(r) \in Seq(E) /\ Len(Tail(r)) = Len(r) - 1
      /\ \A i \in 1..Len(Tail(r)) : Tail(r)[i] = r[i + 1]
  BY HeadTailProperties
<1>3. \A i \in 1..Len(Tail(r)) : i + 1 \in 1..Len(r)
  BY <1>1, <1>2
<1> QED  BY <1>1, <1>2, <1>3

LEMMA RefuseStep ==
    ASSUME LaneInv, RefuseReplay
    PROVE  LaneInv' /\ (OrderInv => OrderInv')
<1>1. /\ UNCHANGED <<tick, names, freed, history, registered, owner, losses, churn, peerGen,
                     dirty, client, down, up>>
      /\ reliable # <<>> /\ reliable' = Tail(reliable) /\ refused' = refused + 1
  BY DEF RefuseReplay, world
<1>2. TypeOK /\ refused \in Nat /\ reliable \in Seq(Full \cup Delta)
  BY DEF LaneInv, TypeOK
<1>3. /\ reliable' \in Seq(Full \cup Delta) /\ refused' \in Nat /\ refused' # 0
      /\ Len(reliable') = Len(reliable) - 1
      /\ \A i \in 1..Len(reliable') : i + 1 \in 1..Len(reliable) /\ reliable'[i] = reliable[i + 1]
  BY <1>1, <1>2, RestIs
<1>4. TypeOK'
  BY <1>1, <1>2, <1>3 DEF TypeOK
<1>5. LaneInv'
  <2>1. \A i \in 1..Len(reliable') : Truthful(history, reliable'[i])
    BY <1>3 DEF LaneInv
  <2>2. ASSUME NEW i \in 1..Len(reliable'), reliable'[i].kind = "delta", reliable'[i].base = 0
        PROVE  FALSE
    <3>1. i + 1 = 1
      BY <1>3, <2>2 DEF LaneInv
    <3> QED  BY <3>1
  <2>3. Len(history) # 0
    BY <1>1 DEF LaneInv
  <2> QED  BY <1>1, <1>4, <2>1, <2>2, <2>3 DEF LaneInv
<1>6. OrderInv'
  BY <1>3 DEF OrderInv
<1> QED  BY <1>5, <1>6

\* A client that adopts a table of rows.
Adopted(c, a, b, g, x) == [c EXCEPT !.table = a, !.rows = b, !.gen = g, !.since = x]

LEMMA Adopts ==
    ASSUME NEW c \in ClientState, NEW a, NEW b \in Rows, NEW g \in Nat, Says(a, b),
           NEW x \in [Slot -> Nat]
    PROVE  LET w == Adopted(c, a, b, g, x)
           IN  w \in ClientState /\ w.table = a /\ w.rows = b /\ w.gen = g
<1> DEFINE w == Adopted(c, a, b, g, x)
           p == [c EXCEPT !.table = a]
           q == [p EXCEPT !.rows = b]
           r == [q EXCEPT !.gen = g]
<1>1. a \in Tables
  BY PlainTablesAre DEF Says, PlainTables
<1>2. p = [table |-> a, rows |-> c.rows, gen |-> c.gen, want |-> c.want, since |-> c.since,
           at |-> c.at]
  BY ClientFields
<1>3. w = [r EXCEPT !.since = x]
  BY DEF Adopted
<1> HIDE DEF p, w
<1>4. q = [table |-> a, rows |-> b, gen |-> c.gen, want |-> c.want, since |-> c.since, at |-> c.at]
  BY <1>2
<1> HIDE DEF q
<1>5. r = [table |-> a, rows |-> b, gen |-> g, want |-> c.want, since |-> c.since, at |-> c.at]
  BY <1>4
<1> HIDE DEF r
<1>6. w = [table |-> a, rows |-> b, gen |-> g, want |-> c.want, since |-> x, at |-> c.at]
  BY <1>3, <1>5
<1>7. w \in ClientState /\ w.table = a /\ w.rows = b /\ w.gen = g
  BY <1>1, <1>6, ClientFields DEF ClientState
<1> QED  BY <1>7 DEF w

LEMMA IssuedAre ==
    ASSUME LaneInv, NEW g \in 0..Len(history)
    PROVE  GoodRows(Issued(history, g)) /\ Issued(history, g) \in Rows
<1>1. Len(history) \in Nat
  BY DEF LaneInv, TypeOK
<1>2. g = 0 \/ g \in 1..Len(history)
  BY <1>1
<1> QED  BY <1>2, NoRowsAre DEF LaneInv, Issued, GoodRows

\* The client reads the first manifest in flight.
LEMMA ManifestReads ==
    ASSUME LaneInv, NEW m \in Full \cup Delta, Truthful(history, m),
           m.kind = "delta" /\ m.base = 0 => client.rows = NoRows
    PROVE  LET c == ReceiveManifest(client, m)
           IN  /\ c \in ClientState /\ Says(c.table, c.rows)
               /\ \/ Follows(client.gen, m) /\ c.gen = m.gen /\ c.rows = Issued(history, m.gen)
                  \/ /\ ~Follows(client.gen, m)
                     /\ c.rows = client.rows /\ c.gen \in {0, client.gen}
<1> DEFINE c == ReceiveManifest(client, m)
<1>1. /\ client \in ClientState /\ client.gen \in Nat /\ Says(client.table, client.rows)
      /\ Len(history) \in Nat /\ client.gen \in 0..Len(history)
      /\ client.gen # 0 => client.rows = Issued(history, client.gen)
  BY ClientFields DEF LaneInv, TypeOK
<1>2. m.gen \in 1..Len(history) /\ m.gen \in Nat /\ m.gen \in 0..Len(history)
  BY <1>1 DEF Truthful
<1>3. GoodRows(Issued(history, m.gen)) /\ Issued(history, m.gen) \in Rows
  BY <1>2, IssuedAre
<1>4. CASE m.kind = "full" /\ m.gen >= client.gen
  <2>1. m.rows = Issued(history, m.gen)
    BY <1>4 DEF Truthful
  <2> DEFINE a == BindRows(EmptyTable, m.rows)
  <2>2. Says(a, m.rows)
    BY <1>3, <2>1, FullAdopts
  <2> DEFINE x == [s \in Slot |-> NoTick]
  <2>3. c = Adopted(client, a, m.rows, m.gen, x)
        /\ x \in [Slot -> Nat]
    BY <1>4 DEF ReceiveManifest, AdoptFull, NoTick, Adopted
  <2> HIDE DEF a, c, x
  <2>4. c \in ClientState /\ c.table = a /\ c.rows = m.rows /\ c.gen = m.gen
    <3>1. m.rows \in Rows
      BY <1>3, <2>1
    <3> QED  BY <1>1, <1>2, <2>2, <2>3, <3>1, Adopts
  <2>5. Follows(client.gen, m)
    BY <1>4 DEF Follows
  <2> QED  BY <2>1, <2>2, <2>4, <2>5 DEF c
<1>5. CASE m.kind = "full" /\ ~(m.gen >= client.gen)
  <2>1. c = client /\ ~Follows(client.gen, m)
    BY <1>5 DEF ReceiveManifest, Follows
  <2> QED  BY <1>1, <2>1
<1>6. CASE m.kind = "delta" /\ m.base = client.gen
  <2> DEFINE was == Issued(history, m.base)
             is == Issued(history, m.gen)
             d == DiffManifest(was, is)
  <2>1. m.gen = m.base + 1 /\ m.removed = d.removed /\ m.added = d.added
    BY <1>6 DEF Truthful
  <2>2. client.rows = was /\ GoodRows(was) /\ was \in Rows
    <3>1. client.rows = was
      BY <1>1, <1>6 DEF Issued
    <3> QED  BY <1>1, <1>6, <3>1, IssuedAre
  <2>3. GoodRows(is) /\ is \in Rows
    BY <1>3
  <2> HIDE DEF was, is
  <2> DEFINE a == BindRows(UnbindRows(client.table, m.removed), m.added)
  <2>4. Says(a, is)
    <3>1. Says(client.table, was)
      BY <1>1, <2>2
    <3>2. Says(BindRows(UnbindRows(client.table, d.removed), d.added), is)
      BY <2>2, <2>3, <3>1, DeltaAdopts
    <3> HIDE DEF d
    <3> QED  BY <2>1, <3>2
  <2> DEFINE b == [s \in (DOMAIN client.rows \ m.removed) \cup DOMAIN m.added |->
                     IF s \in DOMAIN m.added THEN m.added[s] ELSE client.rows[s]]
  <2>5. b = is
    <3>1. is = [s \in (DOMAIN was \ d.removed) \cup DOMAIN d.added |->
                  IF s \in DOMAIN d.added THEN d.added[s] ELSE was[s]]
      BY <2>2, <2>3, DiffIs
    <3> HIDE DEF d
    <3> QED  BY <2>1, <2>2, <3>1
  <2> DEFINE x == [s \in Slot |-> NoTick]
  <2>6. c = Adopted(client, a, b, m.gen, x)
        /\ x \in [Slot -> Nat]
    BY <1>6 DEF ReceiveManifest, AdoptDelta, NoTick, Adopted
  <2> HIDE DEF a, b, c, d, x
  <2>7. c \in ClientState /\ c.table = a /\ c.rows = is /\ c.gen = m.gen
    BY <1>1, <1>2, <2>3, <2>4, <2>5, <2>6, Adopts
  <2>8. Follows(client.gen, m)
    BY <1>6 DEF Follows
  <2> QED  BY <2>4, <2>7, <2>8 DEF c, is
<1>7. CASE m.kind = "delta" /\ m.base # client.gen
  <2>1. c = [client EXCEPT !.gen = 0, !.want = TRUE] /\ ~Follows(client.gen, m)
    BY <1>7 DEF ReceiveManifest, RefuseManifest, Follows
  <2> DEFINE q == [client EXCEPT !.gen = 0]
  <2>2. q = [table |-> client.table, rows |-> client.rows, gen |-> 0, want |-> client.want,
             since |-> client.since, at |-> client.at]
    BY <1>1, ClientFields
  <2>3. c = [q EXCEPT !.want = TRUE]
    BY <2>1
  <2> HIDE DEF q, c
  <2>4. c = [table |-> client.table, rows |-> client.rows, gen |-> 0, want |-> TRUE,
             since |-> client.since, at |-> client.at]
    BY <2>2, <2>3
  <2>5. c \in ClientState /\ c.table = client.table /\ c.rows = client.rows /\ c.gen = 0
    BY <1>1, <2>4, ClientFields DEF ClientState
  <2> QED  BY <1>1, <2>1, <2>5 DEF c
<1>8. m.kind = "full" \/ m.kind = "delta"
  BY DEF Full, Delta
<1> QED  BY <1>4, <1>5, <1>6, <1>7, <1>8

LEMMA ManifestStep ==
    ASSUME LaneInv, HandleReliable
    PROVE  LaneInv' /\ (OrderInv => OrderInv')
<1> DEFINE m == reliable[1]
<1>1. /\ UNCHANGED <<tick, names, freed, history, registered, owner, losses, churn, refused,
                     peerGen, dirty, down, up>>
      /\ reliable # <<>> /\ reliable' = Tail(reliable)
      /\ client' = ReceiveManifest(client, Head(reliable))
  BY DEF HandleReliable, world, spent
<1>2. TypeOK /\ reliable \in Seq(Full \cup Delta) /\ Len(history) \in Nat
  BY DEF LaneInv, TypeOK
<1>3. /\ reliable' \in Seq(Full \cup Delta) /\ Head(reliable) = m /\ 1 \in 1..Len(reliable)
      /\ Len(reliable) \in Nat \ {0} /\ Len(reliable') = Len(reliable) - 1
      /\ \A i \in 1..Len(reliable') : i + 1 \in 1..Len(reliable) /\ reliable'[i] = reliable[i + 1]
  BY <1>1, <1>2, RestIs
<1>4. /\ m \in Full \cup Delta /\ Truthful(history, m)
      /\ m.kind = "delta" /\ m.base = 0 => client.rows = NoRows
  BY <1>2, <1>3 DEF LaneInv
<1>5. m.gen \in 1..Len(history)
  BY <1>4 DEF Truthful
<1> HIDE DEF m
<1>6. /\ client' \in ClientState /\ Says(client'.table, client'.rows)
      /\ \/ Follows(client.gen, m) /\ client'.gen = m.gen /\ client'.rows = Issued(history, m.gen)
         \/ /\ ~Follows(client.gen, m)
            /\ client'.rows = client.rows /\ client'.gen \in {0, client.gen}
  BY <1>1, <1>3, <1>4, ManifestReads
<1>7. TypeOK'
  BY <1>1, <1>2, <1>3, <1>6 DEF TypeOK
<1>8. LaneInv'
  <2>1. \A i \in 1..Len(reliable') : Truthful(history, reliable'[i])
    BY <1>3 DEF LaneInv
  <2>2. ASSUME NEW i \in 1..Len(reliable'), reliable'[i].kind = "delta", reliable'[i].base = 0
        PROVE  FALSE
    <3>1. i + 1 = 1
      BY <1>3, <2>2 DEF LaneInv
    <3> QED  BY <3>1
  <2>3. /\ client'.gen \in 0..Len(history)
        /\ \E g \in 0..Len(history) : client'.rows = Issued(history, g)
        /\ client'.gen # 0 => client'.rows = Issued(history, client'.gen)
    <3>1. CASE client'.gen = m.gen /\ client'.rows = Issued(history, m.gen)
      BY <1>2, <1>5, <3>1
    <3>2. CASE client'.rows = client.rows /\ client'.gen \in {0, client.gen}
      BY <1>2, <3>2 DEF LaneInv
    <3> QED  BY <1>6, <3>1, <3>2
  <2>4. Len(history) # 0
    BY <1>1 DEF LaneInv
  <2> QED  BY <1>1, <1>6, <1>7, <2>1, <2>2, <2>3, <2>4 DEF LaneInv
<1>9. OrderInv => OrderInv'
  <2> SUFFICES ASSUME OrderInv PROVE OrderInv'
    OBVIOUS
  <2>1. SUFFICES ASSUME refused = 0 PROVE OrderInv'
    BY <1>1 DEF OrderInv
  <2>2. GenAt(client, reliable, 0) = client.gen /\ 1 - 1 = 0
    BY DEF GenAt
  <2>3. Follows(client.gen, m)
    BY <1>3, <2>1, <2>2 DEF OrderInv, m
  <2>4. client'.gen = m.gen /\ client'.rows = Issued(history, m.gen) /\ client'.gen # 0
    BY <1>5, <1>6, <2>3
  <2>5. ASSUME NEW i \in 0..Len(reliable')
        PROVE  i + 1 \in 0..Len(reliable) /\ GenAt(client', reliable', i) = GenAt(client, reliable, i + 1)
    <3>1. CASE i = 0
      BY <1>3, <2>4, <3>1 DEF GenAt, m
    <3>2. CASE i # 0
      <4>1. i \in 1..Len(reliable')
        BY <3>2
      <4> QED  BY <1>3, <3>2, <4>1 DEF GenAt
    <3> QED  BY <3>1, <3>2
  <2>6. ASSUME NEW i \in 1..Len(reliable')
        PROVE  /\ Late(reliable'[i].at, tick)
               /\ Follows(GenAt(client', reliable', i - 1), reliable'[i])
               /\ Since(RowNames(Issued(history, GenAt(client', reliable', i - 1))),
                        reliable'[i].at, names, freed)
    <3> DEFINE j == i + 1
    <3>1. j \in 1..Len(reliable) /\ reliable'[i] = reliable[j]
      BY <1>3
    <3>2. i - 1 \in 0..Len(reliable') /\ (i - 1) + 1 = j - 1
      BY <1>3
    <3>3. GenAt(client', reliable', i - 1) = GenAt(client, reliable, j - 1)
      BY <2>5, <3>2
    <3> HIDE DEF j
    <3> QED  BY <2>1, <3>1, <3>3 DEF OrderInv
  <2>7. GenAt(client', reliable', Len(reliable')) = Len(history)
    <3>1. Len(reliable') \in 0..Len(reliable') /\ Len(reliable') + 1 = Len(reliable)
      BY <1>3
    <3>2. GenAt(client', reliable', Len(reliable')) = GenAt(client, reliable, Len(reliable))
      BY <2>5, <3>1
    <3> QED  BY <1>1, <2>1, <3>2 DEF OrderInv
  <2>8. ASSUME NEW d \in down, NEW i \in 0..Len(reliable')
        PROVE  Compatible(d.blocks, RowNames(Issued(history, GenAt(client', reliable', i))))
    BY <2>1, <2>5 DEF OrderInv
  <2>9. \A d \in down : Late(d.tick, tick) /\ Since(d.blocks, d.tick, names, freed)
    BY <2>1 DEF OrderInv
  <2> QED  BY <1>1, <2>4, <2>6, <2>7, <2>8, <2>9 DEF OrderInv
<1> QED  BY <1>8, <1>9

\* What the tables of a client hold when it names what n names.
LEMMA RowsOfNames ==
    ASSUME NEW n \in Names, OneName(n), owner \in [Entity -> Owner]
    PROVE  RowsOf(n) \in Rows /\ GoodRows(RowsOf(n)) /\ RowNames(RowsOf(n)) = n
<1> DEFINE D == {t \in Slot : n[t] # NoEntity}
           r == RowsOf(n)
<1>1. r = [s \in D |-> [id |-> n[s], owner |-> owner[n[s]]]]
  BY DEF RowsOf
<1>2. n \in [Slot -> Entity \cup {0}] /\ \A s \in D : n[s] \in Entity
  BY TheNames DEF Names
<1> HIDE DEF r
<1>3. r \in Rows
  <2>1. D \in SUBSET Slot
    OBVIOUS
  <2>2. r \in [D -> [id : Entity, owner : Owner]]
    BY <1>1, <1>2
  <2> QED  BY <2>1, <2>2 DEF Rows
<1>4. DOMAIN r = D /\ \A s \in D : r[s].id = n[s]
  BY <1>1
<1>5. GoodRows(r)
  BY <1>3, <1>4 DEF GoodRows, OneName
<1>6. RowNames(r) = n
  <2>1. ASSUME NEW s \in Slot PROVE (IF s \in DOMAIN r THEN r[s].id ELSE NoEntity) = n[s]
    BY <1>4
  <2>2. n = [s \in Slot |-> n[s]]
    BY <1>2
  <2> QED  BY <2>1, <2>2 DEF RowNames
<1> QED  BY <1>3, <1>5, <1>6 DEF r

\* What a flush sends a peer it believes behind, and what it publishes; g is the generation
\* it leaves.
Sends(m, n, g) ==
    /\ g # 0 /\ m.at = tick + 1 /\ m.gen = g
    /\ g = Len(history) => RowsOf(n) = Issued(history, g)
    /\ m.kind = "full" => m.rows = RowsOf(n)
    /\ m.kind = "delta" =>
         LET d == DiffManifest(Issued(history, Len(history)), RowsOf(n))
         IN  /\ peerGen = Len(history) /\ m.base = Len(history) /\ g = Len(history) + 1
             /\ m.removed = d.removed /\ m.added = d.added

Publishes(n, g) ==
    /\ g \in Nat
    /\ \/ g = Len(history) /\ history' = history /\ n = names
       \/ g = Len(history) + 1 /\ history' = Append(history, RowsOf(n))
    /\ \/ reliable' = reliable /\ peerGen' = peerGen /\ history' = history
       \/ \E m \in Full \cup Delta :
            Sends(m, n, g) /\ reliable' = Append(reliable, m) /\ peerGen' = g

LEMMA FlushPublishes ==
    ASSUME LaneInv, NEW n \in Names, NEW blocks, ServerFlush(n, blocks), OneName(n)
    PROVE  \E g \in Nat : Publishes(n, g)
<1> DEFINE N == Len(history)
           was == Issued(history, N)
           is == RowsOf(n)
           d == DiffManifest(was, is)
           publish == dirty \/ n # names
           g == IF publish /\ was # is THEN N + 1 ELSE N
           debt == IF publish THEN ManifestOwed(peerGen, N, g) ELSE "nothing"
           delta == [kind |-> "delta", base |-> N, gen |-> g,
                     removed |-> d.removed, added |-> d.added, at |-> tick + 1]
           full == [kind |-> "full", gen |-> g, rows |-> is, at |-> tick + 1]
<1>1. /\ history' = IF g # N THEN Append(history, is) ELSE history
      /\ debt = "nothing" => reliable' = reliable /\ peerGen' = peerGen
      /\ debt = "delta" => reliable' = Append(reliable, delta) /\ peerGen' = g
      /\ debt = "full" => reliable' = Append(reliable, full) /\ peerGen' = g
  BY DEF ServerFlush, generation, Published, Issued
<1>2. /\ N \in Nat /\ tick \in Nat /\ owner \in [Entity -> Owner] /\ peerGen \in {0, N}
      /\ RowNames(was) = names /\ history \in Seq(Rows)
  BY DEF LaneInv, TypeOK
<1>3. is \in Rows /\ GoodRows(is) /\ RowNames(is) = n
  BY <1>2, RowsOfNames
<1>4. was \in Rows
  BY <1>2, IssuedAre
<1>5. d.removed \in SUBSET Slot /\ d.added \in Rows
  BY <1>3, <1>4, DiffIs
<1> HIDE DEF is, was, d
<1>6. g \in Nat /\ (g = N \/ g = N + 1)
  BY <1>2
<1>7. g = N => n = names
  <2>1. CASE publish
    BY <1>2, <1>3, <2>1
  <2>2. CASE ~publish
    BY <2>2
  <2> QED  BY <2>1, <2>2
<1>8. /\ debt \in {"nothing", "delta", "full"}
      /\ debt = "nothing" => g = N
      /\ debt = "delta" => g = N + 1 /\ peerGen = N
      /\ debt = "full" => g # 0 /\ (g = N => was = is)
  BY <1>2 DEF ManifestOwed
<1>9. full \in Full /\ delta \in Delta
  BY <1>2, <1>3, <1>5, <1>6 DEF Full, Delta
<1> HIDE DEF debt, g
<1>10. \/ g = N /\ history' = history /\ n = names
       \/ g = N + 1 /\ history' = Append(history, is)
  BY <1>1, <1>2, <1>6, <1>7
<1>11. \/ reliable' = reliable /\ peerGen' = peerGen /\ history' = history
       \/ \E m \in Full \cup Delta :
            Sends(m, n, g) /\ reliable' = Append(reliable, m) /\ peerGen' = g
  <2>1. CASE debt = "nothing"
    BY <1>1, <1>8, <2>1
  <2>2. CASE debt = "full"
    <3>1. g # 0 /\ reliable' = Append(reliable, full) /\ peerGen' = g
      BY <1>1, <1>8, <2>2
    <3>2. g = N => is = was
      BY <1>8, <2>2
    <3>3. Sends(full, n, g)
      BY <3>1, <3>2 DEF Sends, is, was
    <3> HIDE DEF full
    <3> QED  BY <1>9, <3>1, <3>3
  <2>3. CASE debt = "delta"
    <3>1. g = N + 1 /\ peerGen = N /\ reliable' = Append(reliable, delta) /\ peerGen' = g
      BY <1>1, <1>8, <2>3
    <3>2. g # 0 /\ g # N
      BY <1>2, <3>1
    <3>3. Sends(delta, n, g)
      BY <3>1, <3>2 DEF Sends, is, was, d
    <3> HIDE DEF delta
    <3> QED  BY <1>9, <3>1, <3>3
  <2> QED  BY <1>8, <2>1, <2>2, <2>3
<1>12. Publishes(n, g)
  BY <1>6, <1>10, <1>11 DEF Publishes, is, was, d
<1> QED  BY <1>6, <1>12

LEMMA HistoryGrows ==
    ASSUME LaneInv, NEW n \in Names, OneName(n), NEW g \in Nat, Publishes(n, g)
    PROVE  /\ history' \in Seq(Rows) /\ Len(history') = g
           /\ Len(history) <= g
           /\ \A i \in 0..Len(history) : Issued(history', i) = Issued(history, i)
           /\ \A i \in 1..g : GoodRows(history'[i])
           /\ RowNames(Issued(history', g)) = n
           /\ g = Len(history) => n = names /\ history' = history
           /\ g # Len(history) => g = Len(history) + 1 /\ Issued(history', g) = RowsOf(n)
<1> DEFINE N == Len(history)
<1>1. /\ history \in Seq(Rows) /\ N \in Nat /\ owner \in [Entity -> Owner]
      /\ RowNames(Issued(history, N)) = names /\ \A i \in 1..N : GoodRows(history[i])
  BY DEF LaneInv, TypeOK
<1>2. RowsOf(n) \in Rows /\ GoodRows(RowsOf(n)) /\ RowNames(RowsOf(n)) = n
  BY <1>1, RowsOfNames
<1>3. CASE g = N /\ history' = history /\ n = names
  BY <1>1, <1>3
<1>4. CASE g = N + 1 /\ history' = Append(history, RowsOf(n))
  <2> DEFINE is == RowsOf(n)
  <2> HIDE DEF is
  <2>1. /\ history' \in Seq(Rows) /\ Len(history') = g /\ g # N /\ N <= g /\ g # 0
        /\ \A i \in 1..N : history'[i] = history[i]
        /\ history'[g] = is
    BY <1>1, <1>2, <1>4 DEF is
  <2>2. \A i \in 0..N : Issued(history', i) = Issued(history, i)
    BY <1>1, <2>1 DEF Issued
  <2>3. \A i \in 1..g : GoodRows(history'[i])
    BY <1>1, <1>2, <1>4, <2>1 DEF is
  <2>4. Issued(history', g) = is
    BY <2>1 DEF Issued
  <2> QED  BY <1>2, <1>4, <2>1, <2>2, <2>3, <2>4 DEF is
<1> QED  BY <1>3, <1>4 DEF Publishes

\* A manifest that told the truth tells it still, and the one a flush sends does.
LEMMA TruthKeeps ==
    ASSUME LaneInv, NEW n \in Names, OneName(n), NEW g \in Nat, Publishes(n, g),
           NEW m \in Full \cup Delta, Truthful(history, m)
    PROVE  Truthful(history', m)
<1>1. /\ Len(history') = g /\ Len(history) <= g /\ Len(history) \in Nat
      /\ \A i \in 0..Len(history) : Issued(history', i) = Issued(history, i)
  BY HistoryGrows DEF LaneInv, TypeOK
<1>2. m.gen \in 1..Len(history) /\ m.gen \in 0..Len(history) /\ m.gen \in 1..Len(history')
  BY <1>1 DEF Truthful
<1>3. m.kind = "delta" => m.base \in 0..Len(history)
  <2>1. SUFFICES ASSUME m.kind = "delta" PROVE m.base \in 0..Len(history)
    OBVIOUS
  <2>2. m.base \in Nat
    BY <2>1 DEF Full, Delta
  <2> QED  BY <1>1, <1>2, <2>1, <2>2 DEF Truthful
<1> QED  BY <1>1, <1>2, <1>3 DEF Truthful

LEMMA TruthIsSent ==
    ASSUME LaneInv, NEW n \in Names, OneName(n), NEW g \in Nat, Publishes(n, g),
           NEW m \in Full \cup Delta, Sends(m, n, g)
    PROVE  Truthful(history', m)
<1>1. /\ Len(history') = g /\ Len(history) \in Nat
      /\ \A i \in 0..Len(history) : Issued(history', i) = Issued(history, i)
      /\ g # Len(history) => Issued(history', g) = RowsOf(n)
      /\ g = Len(history) => history' = history
  BY HistoryGrows DEF LaneInv, TypeOK
<1>2. g # 0 /\ m.gen = g /\ (g = Len(history) => RowsOf(n) = Issued(history, g))
  BY DEF Sends
<1>3. Issued(history', g) = RowsOf(n)
  BY <1>1, <1>2
<1>4. m.gen \in 1..Len(history')
  BY <1>1, <1>2
<1>5. m.kind = "full" => m.rows = Issued(history', m.gen)
  BY <1>2, <1>3 DEF Sends
<1>6. ASSUME m.kind = "delta"
      PROVE  LET d == DiffManifest(Issued(history', m.base), Issued(history', m.gen))
             IN  m.gen = m.base + 1 /\ m.removed = d.removed /\ m.added = d.added
  <2>1. /\ m.base = Len(history) /\ g = Len(history) + 1
        /\ m.removed = DiffManifest(Issued(history, Len(history)), RowsOf(n)).removed
        /\ m.added = DiffManifest(Issued(history, Len(history)), RowsOf(n)).added
    BY <1>6 DEF Sends
  <2>2. Issued(history', m.base) = Issued(history, Len(history))
    BY <1>1, <2>1
  <2> QED  BY <1>2, <1>3, <2>1, <2>2
<1> QED  BY <1>4, <1>5, <1>6 DEF Truthful

LEMMA FlushLane ==
    ASSUME LaneInv, NEW n \in Names, NEW blocks \in SUBSET Slot, ServerFlush(n, blocks)
    PROVE  LaneInv'
<1> DEFINE frame == [tick |-> tick + 1,
                     blocks |-> [s \in Slot |-> IF s \in blocks THEN n[s] ELSE NoEntity]]
           N == Len(history)
<1>1. /\ UNCHANGED <<registered, owner, client, up, churn, losses, refused>>
      /\ tick' = tick + 1 /\ names' = n /\ OneName(n)
      /\ freed' = FreedAfter(names, n, freed, tick + 1)
      /\ dirty' = FALSE /\ down' = down \cup {frame}
  BY DEF ServerFlush, spent, Renamings
<1>2. PICK g \in Nat : Publishes(n, g)
  BY <1>1, FlushPublishes
<1>3. /\ history' \in Seq(Rows) /\ Len(history') = g /\ N <= g
      /\ \A i \in 0..N : Issued(history', i) = Issued(history, i)
      /\ \A i \in 1..g : GoodRows(history'[i])
      /\ RowNames(Issued(history', g)) = n
  BY <1>1, <1>2, HistoryGrows
<1>4. TypeOK /\ N \in Nat /\ tick \in Nat /\ reliable \in Seq(Full \cup Delta)
      /\ peerGen \in {0, N} /\ freed \in [Slot -> Nat]
  BY DEF LaneInv, TypeOK
<1>5. frame \in Snapshot
  <2>1. n \in [Slot -> Entity \cup {NoEntity}]
    BY DEF Names
  <2> QED  BY <1>4, <2>1 DEF Snapshot, Names
<1>6. freed' \in [Slot -> Nat]
  BY <1>1, <1>4 DEF FreedAfter, NoTick
<1>7. /\ reliable' \in Seq(Full \cup Delta) /\ peerGen' \in {0, g} /\ peerGen' \in Nat
      /\ \A i \in 1..Len(reliable') : Truthful(history', reliable'[i])
      /\ g = 0 => reliable' = <<>>
      /\ \A i \in 1..Len(reliable') :
           reliable'[i].kind = "delta" /\ reliable'[i].base = 0 => i = 1 /\ client.rows = NoRows
  <2>1. \A i \in 1..Len(reliable) : Truthful(history', reliable[i])
    <3>1. ASSUME NEW i \in 1..Len(reliable) PROVE Truthful(history', reliable[i])
      <4>1. reliable[i] \in Full \cup Delta /\ Truthful(history, reliable[i])
        BY <1>4 DEF LaneInv
      <4> QED  BY <1>1, <1>2, <4>1, TruthKeeps
    <3> QED  BY <3>1
  <2>2. N = 0 => reliable = <<>> /\ client.rows = NoRows
    <3>1. SUFFICES ASSUME N = 0 PROVE client.rows = NoRows
      BY DEF LaneInv
    <3>2. PICK i \in 0..N : client.rows = Issued(history, i)
      BY DEF LaneInv
    <3> QED  BY <3>1, <3>2 DEF Issued
  <2>3. CASE reliable' = reliable /\ peerGen' = peerGen /\ history' = history
    BY <1>3, <1>4, <2>1, <2>2, <2>3 DEF LaneInv
  <2>4. CASE \E m \in Full \cup Delta :
               Sends(m, n, g) /\ reliable' = Append(reliable, m) /\ peerGen' = g
    <3>1. PICK m \in Full \cup Delta :
               Sends(m, n, g) /\ reliable' = Append(reliable, m) /\ peerGen' = g
      BY <2>4
    <3>2. Truthful(history', m)
      BY <1>1, <1>2, <3>1, TruthIsSent
    <3>3. /\ reliable' \in Seq(Full \cup Delta) /\ Len(reliable') = Len(reliable) + 1
          /\ Len(reliable) \in Nat
          /\ \A i \in 1..Len(reliable) : reliable'[i] = reliable[i]
          /\ reliable'[Len(reliable) + 1] = m
      BY <1>4, <3>1
    <3>4. ASSUME NEW i \in 1..Len(reliable') PROVE Truthful(history', reliable'[i])
      BY <2>1, <3>2, <3>3
    <3>5. ASSUME NEW i \in 1..Len(reliable'), reliable'[i].kind = "delta", reliable'[i].base = 0
          PROVE  i = 1 /\ client.rows = NoRows
      <4>1. CASE i \in 1..Len(reliable)
        BY <3>3, <3>5, <4>1 DEF LaneInv
      <4>2. CASE i = Len(reliable) + 1
        <5>1. m.kind = "delta" /\ m.base = 0
          BY <3>3, <3>5, <4>2
        <5>2. N = 0
          BY <3>1, <5>1 DEF Sends
        <5>3. Len(reliable) = 0
          BY <2>2, <5>2
        <5> QED  BY <2>2, <4>2, <5>2, <5>3
      <4> QED  BY <3>3, <4>1, <4>2
    <3>6. g # 0
      BY <3>1 DEF Sends
    <3> QED  BY <1>2, <3>1, <3>3, <3>4, <3>5, <3>6
  <2> QED  BY <1>2, <2>3, <2>4 DEF Publishes
<1>8. TypeOK'
  <2> HIDE DEF frame, N
  <2>1. tick' \in Nat /\ dirty' \in BOOLEAN /\ names' \in Names
    <3>1. tick' \in Nat
      BY <1>1, <1>4
    <3>2. dirty' \in BOOLEAN
      BY <1>1, Zenon
    <3>3. names' \in Names
      BY <1>1
    <3> QED  BY <3>1, <3>2, <3>3
  <2>2. down' \subseteq Snapshot
    BY <1>1, <1>4, <1>5 DEF TypeOK
  <2> QED  BY <1>1, <1>3, <1>4, <1>6, <1>7, <2>1, <2>2 DEF TypeOK
<1>9. /\ client.gen \in 0..Len(history')
      /\ client.gen # 0 => client.rows = Issued(history', client.gen)
      /\ Says(client.table, client.rows)
      /\ \E i \in 0..Len(history') : client.rows = Issued(history', i)
  <2>1. client.gen \in 0..N /\ (client.gen # 0 => client.rows = Issued(history, client.gen))
    BY DEF LaneInv
  <2>2. PICK i \in 0..N : client.rows = Issued(history, i)
    BY DEF LaneInv
  <2>3. i \in 0..Len(history') /\ client.rows = Issued(history', i)
    BY <1>2, <1>3, <1>4, <2>2
  <2>4. client.gen \in 0..Len(history')
    BY <1>2, <1>3, <1>4, <2>1
  <2> QED  BY <1>3, <2>1, <2>3, <2>4 DEF LaneInv
<1> QED  BY <1>1, <1>3, <1>7, <1>8, <1>9 DEF LaneInv

\* A name that stood a moment ago stands, or its slot cools, after a flush too: nothing a frame
\* in flight names is old enough for its slot to have left quarantine.
LEMMA SinceKeeps ==
    ASSUME TypeOK, Lag < Quarantine, NEW n,
           n \in Renamings(names, freed, registered, tick + 1), NEW p, NEW k,
           Late(k, tick), tick < k + Lag, Since(p, k, names, freed)
    PROVE  Since(p, k, n, FreedAfter(names, n, freed, tick + 1))
<1> DEFINE fr == FreedAfter(names, n, freed, tick + 1)
<1>1. /\ tick \in Nat /\ freed \in [Slot -> Nat] /\ Lag \in Nat /\ Quarantine \in Nat
      /\ k \in Nat /\ k >= 1 /\ k <= tick
  BY LaneBounds DEF TypeOK, Late
<1>2. /\ \A s \in Slot : names[s] \in registered => n[s] = names[s]
      /\ \A s \in Slot : names[s] \notin registered =>
           n[s] = 0 \/ (names[s] = 0 /\ (freed[s] = 0 \/ tick + 1 >= freed[s] + Quarantine))
  BY TheNames DEF Renamings, Open, NoTick
<1>3. \A s \in Slot : fr[s] = IF n[s] # 0 THEN 0 ELSE IF names[s] # 0 THEN tick + 1 ELSE freed[s]
  BY TheNames DEF FreedAfter, NoTick
<1> HIDE DEF fr
<1>4. ASSUME NEW s \in Slot, p[s] # 0 PROVE n[s] = p[s] \/ (n[s] = 0 /\ fr[s] >= k)
  <2>1. CASE names[s] = p[s]
    <3>1. n[s] = p[s] \/ n[s] = 0
      BY <1>2, <1>4, <2>1
    <3>2. n[s] = 0 => fr[s] = tick + 1
      BY <1>3, <1>4, <2>1
    <3> QED  BY <1>1, <3>1, <3>2
  <2>2. CASE names[s] = 0 /\ freed[s] >= k
    <3>1. freed[s] \in Nat /\ freed[s] # 0 /\ ~(tick + 1 >= freed[s] + Quarantine)
      BY <1>1, <2>2
    <3>2. n[s] = 0
      <4>1. CASE names[s] \in registered
        BY <1>2, <2>2, <4>1
      <4>2. CASE names[s] \notin registered
        BY <1>2, <3>1, <4>2
      <4> QED  BY <4>1, <4>2
    <3>3. fr[s] = freed[s]
      BY <1>3, <2>2, <3>2
    <3> QED  BY <2>2, <3>2, <3>3
  <2> QED  BY <1>4, <2>1, <2>2 DEF Since
<1> QED  BY <1>4 DEF Since, fr

\* The names a flush replaces.
LEMMA SinceStarts ==
    ASSUME TypeOK, NEW n, n \in Renamings(names, freed, registered, tick + 1)
    PROVE  Since(names, tick + 1, n, FreedAfter(names, n, freed, tick + 1))
<1> DEFINE fr == FreedAfter(names, n, freed, tick + 1)
<1>1. tick \in Nat
  BY DEF TypeOK
<1>2. \A s \in Slot : names[s] # 0 => n[s] = names[s] \/ n[s] = 0
  BY TheNames DEF Renamings, Open
<1>3. \A s \in Slot : fr[s] = IF n[s] # 0 THEN 0 ELSE IF names[s] # 0 THEN tick + 1 ELSE freed[s]
  BY TheNames DEF FreedAfter, NoTick
<1> HIDE DEF fr
<1>4. ASSUME NEW s \in Slot, names[s] # 0 PROVE n[s] = names[s] \/ (n[s] = 0 /\ fr[s] >= tick + 1)
  BY <1>1, <1>2, <1>3, <1>4
<1> QED  BY <1>4 DEF Since, fr

\* Two tables that n still says, where it says anything, do not contradict each other there.
LEMMA SinceCompatible ==
    ASSUME NEW p, NEW k, NEW n, NEW fr, Since(p, k, n, fr)
    PROVE  Compatible(p, n) /\ Compatible(n, p)
BY DEF Since, Compatible

LEMMA LateKeeps ==
    ASSUME TypeOK, NEW k, Late(k, tick), tick < k + Lag
    PROVE  Late(k, tick + 1)
<1>1. tick \in Nat /\ Lag \in Nat
  BY LaneBounds DEF TypeOK
<1>2. k \in 1..tick
  BY DEF Late
<1> QED  BY <1>1, <1>2 DEF Late

\* The generations the client is yet to pass through.
LEMMA GenIs ==
    ASSUME LaneInv, NEW i \in 0..Len(reliable)
    PROVE  GenAt(client, reliable, i) \in 0..Len(history)
<1>1. Len(history) \in Nat /\ Len(reliable) \in Nat /\ client.gen \in 0..Len(history)
  BY DEF LaneInv, TypeOK
<1>2. CASE i = 0
  BY <1>1, <1>2 DEF GenAt
<1>3. CASE i # 0
  <2>1. i \in 1..Len(reliable)
    BY <1>1, <1>3
  <2>2. reliable[i].gen \in 1..Len(history)
    BY <2>1 DEF LaneInv, Truthful
  <2> QED  BY <1>1, <1>3, <2>2 DEF GenAt
<1> QED  BY <1>2, <1>3

\* The table the client will hold once every manifest in flight is read.
LEMMA LastHeld ==
    ASSUME LaneInv, OrderInv, refused = 0
    PROVE  LET p == RowNames(Issued(history, GenAt(client, reliable, Len(reliable))))
           IN  p = names \/ p = [s \in Slot |-> 0]
<1> DEFINE g == GenAt(client, reliable, Len(reliable))
<1>1. g = Len(history) \/ (reliable = <<>> /\ client.gen = 0)
  BY DEF OrderInv
<1>2. CASE g = Len(history)
  BY <1>2 DEF LaneInv
<1>3. CASE reliable = <<>> /\ client.gen = 0
  <2>1. g = 0
    BY <1>3 DEF GenAt
  <2>2. RowNames(NoRows) = [s \in Slot |-> 0]
    BY TheNames DEF RowNames, NoRows
  <2>3. Issued(history, g) = NoRows
    BY <2>1 DEF Issued
  <2> QED  BY <2>2, <2>3
<1> QED  BY <1>1, <1>2, <1>3

LEMMA FlushOrder ==
    ASSUME LaneInv, OrderInv, Lag < Quarantine,
           NEW n \in Names, NEW blocks \in SUBSET Slot, ServerFlush(n, blocks)
    PROVE  OrderInv'
<1> DEFINE frame == [tick |-> tick + 1,
                     blocks |-> [s \in Slot |-> IF s \in blocks THEN n[s] ELSE NoEntity]]
           N == Len(history)
           L == Len(reliable)
           fr == FreedAfter(names, n, freed, tick + 1)
           held(i) == RowNames(Issued(history, GenAt(client, reliable, i)))
           held2(i) == RowNames(Issued(history', GenAt(client, reliable', i)))
<1>1. SUFFICES ASSUME refused = 0 PROVE OrderInv'
  BY DEF ServerFlush, spent, OrderInv
<1>2. /\ UNCHANGED <<client, refused>> /\ Timely
      /\ tick' = tick + 1 /\ names' = n /\ OneName(n)
      /\ n \in Renamings(names, freed, registered, tick + 1)
      /\ freed' = fr /\ down' = down \cup {frame}
  BY DEF ServerFlush, spent, Renamings
<1>3. PICK g \in Nat : Publishes(n, g)
  BY <1>2, FlushPublishes
<1>4. /\ Len(history') = g /\ N <= g
      /\ \A i \in 0..N : Issued(history', i) = Issued(history, i)
      /\ RowNames(Issued(history', g)) = n
      /\ g = N => n = names /\ history' = history
  BY <1>2, <1>3, HistoryGrows
<1>5. /\ TypeOK /\ N \in Nat /\ L \in Nat /\ tick \in Nat /\ reliable \in Seq(Full \cup Delta)
      /\ peerGen \in {0, N} /\ Lag \in Nat \ {0}
  BY LaneBounds DEF LaneInv, TypeOK
<1> HIDE DEF fr, frame, N
<1>6. \/ reliable' = reliable /\ peerGen' = peerGen /\ history' = history
      \/ \E m \in Full \cup Delta :
           Sends(m, n, g) /\ reliable' = Append(reliable, m) /\ peerGen' = g
  BY <1>3 DEF Publishes
\* Whatever was in flight, and its place in the line.
<1>7. /\ Len(reliable') \in Nat /\ L <= Len(reliable')
      /\ \A i \in 1..L : reliable'[i] = reliable[i]
  BY <1>5, <1>6
<1>8. ASSUME NEW i \in 0..L
      PROVE  GenAt(client, reliable', i) = GenAt(client, reliable, i) /\ held2(i) = held(i)
  <2>1. GenAt(client, reliable', i) = GenAt(client, reliable, i)
    BY <1>5, <1>7 DEF GenAt
  <2>2. GenAt(client, reliable, i) \in 0..N
    BY GenIs DEF N
  <2> QED  BY <1>4, <2>1, <2>2
<1>9. Since(names, tick + 1, n, fr) /\ Since([s \in Slot |-> 0], tick + 1, n, fr)
  <2>1. Since(names, tick + 1, n, fr)
    BY <1>2, <1>5, SinceStarts DEF fr
  <2> QED  BY <2>1 DEF Since
<1>10. Since(held(L), tick + 1, n, fr)
  BY <1>1, <1>9, LastHeld
<1> HIDE DEF held, held2
<1>11. Late(tick + 1, tick + 1)
  BY <1>5 DEF Late
<1>12. ASSUME NEW d \in down
       PROVE  Late(d.tick, tick + 1) /\ Since(d.blocks, d.tick, n, fr)
  <2>1. Late(d.tick, tick) /\ Since(d.blocks, d.tick, names, freed) /\ tick < d.tick + Lag
    BY <1>1, <1>2 DEF OrderInv, Timely
  <2> DEFINE k == d.tick
             p == d.blocks
  <2> HIDE DEF k, p
  <2>2. Late(k, tick) /\ Since(p, k, names, freed) /\ tick < k + Lag
    BY <2>1 DEF k, p
  <2>3. Late(k, tick + 1) /\ Since(p, k, n, fr)
    BY <1>2, <1>5, <2>2, LateKeeps, SinceKeeps DEF fr
  <2> QED  BY <2>3 DEF k, p
<1>13. Late(frame.tick, tick + 1) /\ Since(frame.blocks, frame.tick, n, fr)
       /\ Compatible(frame.blocks, n)
  <2>1. frame.tick = tick + 1
        /\ \A s \in Slot : frame.blocks[s] = n[s] \/ frame.blocks[s] = 0
    BY TheNames DEF frame
  <2> QED  BY <1>11, <2>1 DEF Since, Compatible
<1>14. ASSUME NEW i \in 1..L
       PROVE  /\ Late(reliable[i].at, tick + 1) /\ Since(held(i - 1), reliable[i].at, n, fr)
              /\ Follows(GenAt(client, reliable, i - 1), reliable[i])
  <2> DEFINE k == reliable[i].at
             p == held(i - 1)
  <2>1. Late(k, tick) /\ Since(p, k, names, freed) /\ tick < k + Lag
        /\ Follows(GenAt(client, reliable, i - 1), reliable[i])
    BY <1>1, <1>2 DEF OrderInv, Timely, held
  <2> HIDE DEF k, p
  <2>2. Late(k, tick + 1) /\ Since(p, k, n, fr)
    BY <1>2, <1>5, <2>1, LateKeeps, SinceKeeps DEF fr
  <2> QED  BY <2>1, <2>2 DEF k, p
<1>15. ASSUME NEW i \in 0..L PROVE Compatible(held(i), n) /\ Compatible(n, held(i))
  <2>1. CASE i = L
    BY <1>10, <2>1, SinceCompatible
  <2>2. CASE i # L
    <3>1. i + 1 \in 1..L /\ (i + 1) - 1 = i
      BY <1>5, <2>2
    <3> DEFINE k == reliable[i + 1].at
               p == held(i)
    <3>2. Since(p, k, n, fr)
      BY <1>14, <3>1
    <3> HIDE DEF k, p
    <3>3. Compatible(p, n) /\ Compatible(n, p)
      BY <3>2, SinceCompatible
    <3> QED  BY <3>3 DEF p
  <2> QED  BY <2>1, <2>2
<1>16. ASSUME NEW d \in down', NEW i \in 0..L PROVE Compatible(d.blocks, held2(i))
  <2>1. CASE d \in down
    <3>1. Compatible(d.blocks, held(i))
      BY <1>1, <2>1 DEF OrderInv, held
    <3> QED  BY <1>8, <3>1
  <2>2. CASE d = frame
    <3>1. Compatible(n, held(i))
      BY <1>15
    <3>2. \A s \in Slot : frame.blocks[s] # 0 => frame.blocks[s] = n[s]
      BY TheNames DEF frame
    <3> QED  BY <1>8, <2>2, <3>1, <3>2 DEF Compatible
  <2> QED  BY <1>2, <2>1, <2>2
<1>17. /\ \A d \in down' : Late(d.tick, tick + 1) /\ Since(d.blocks, d.tick, n, fr)
       /\ \A d \in down' : Compatible(d.blocks, n)
       /\ client.gen = 0 => client.rows = NoRows
  <2>1. \A d \in down : Compatible(d.blocks, n)
    BY <1>12, SinceCompatible
  <2> QED  BY <1>1, <1>2, <1>12, <1>13, <2>1 DEF OrderInv
<1>18. ASSUME NEW i \in 1..L
       PROVE  /\ Late(reliable'[i].at, tick + 1) /\ Since(held2(i - 1), reliable'[i].at, n, fr)
              /\ Follows(GenAt(client, reliable', i - 1), reliable'[i])
  <2>1. i - 1 \in 0..L
    BY <1>5
  <2> QED  BY <1>7, <1>8, <1>14, <2>1
<1>19. CASE reliable' = reliable /\ peerGen' = peerGen /\ history' = history
  <2>1. \/ GenAt(client, reliable, Len(reliable)) = Len(history)
        \/ reliable = <<>> /\ peerGen = 0 /\ client.gen = 0
    BY <1>1 DEF OrderInv
  <2>2. \/ GenAt(client', reliable', Len(reliable')) = Len(history')
        \/ reliable' = <<>> /\ peerGen' = 0 /\ client'.gen = 0
    BY <1>2, <1>19, <2>1
  <2>3. Len(reliable') = L
    BY <1>19
  <2> HIDE DEF L
  <2> QED  BY <1>2, <1>16, <1>17, <1>18, <2>2, <2>3 DEF OrderInv, held2
<1>20. CASE \E m \in Full \cup Delta :
              Sends(m, n, g) /\ reliable' = Append(reliable, m) /\ peerGen' = g
  <2>1. PICK m \in Full \cup Delta :
              Sends(m, n, g) /\ reliable' = Append(reliable, m) /\ peerGen' = g
    BY <1>20
  <2>2. Len(reliable') = L + 1 /\ reliable'[L + 1] = m /\ L + 1 # 0 /\ (L + 1) - 1 = L
        /\ L \in 0..L
    BY <1>5, <2>1
  <2>3. g # 0 /\ m.at = tick + 1 /\ m.gen = g
        /\ (m.kind = "delta" => peerGen = N /\ m.base = N)
        /\ (m.kind = "full" \/ m.kind = "delta")
    BY <2>1 DEF Sends, N, Full, Delta
  <2>4. GenAt(client, reliable', L + 1) = g
    BY <2>2, <2>3 DEF GenAt
  <2>5. held2(L + 1) = n
    BY <1>4, <2>4 DEF held2
  <2>6. Follows(GenAt(client, reliable', L), m)
    <3> DEFINE h == GenAt(client, reliable, L)
    <3>1. GenAt(client, reliable', L) = h
      BY <1>8, <2>2
    <3>2. h \in 0..N
      BY <2>2, GenIs DEF N
    <3>3. h = N \/ (peerGen = 0 /\ h = 0)
      BY <1>1 DEF OrderInv, GenAt, N
    <3> HIDE DEF h
    <3>4. m.kind = "delta" => m.base = h
      BY <1>5, <2>3, <3>3
    <3>5. m.gen >= h
      BY <1>4, <1>5, <2>3, <3>2
    <3> QED  BY <2>3, <3>1, <3>4, <3>5 DEF Follows
  <2>7. Late(m.at, tick + 1) /\ Since(held2(L), m.at, n, fr)
    BY <1>8, <1>10, <1>11, <2>2, <2>3
  <2>8. ASSUME NEW i \in 1..Len(reliable')
        PROVE  /\ Late(reliable'[i].at, tick + 1) /\ Since(held2(i - 1), reliable'[i].at, n, fr)
               /\ Follows(GenAt(client, reliable', i - 1), reliable'[i])
    <3>1. CASE i \in 1..L
      BY <1>18, <3>1
    <3>2. CASE i = L + 1
      BY <2>2, <2>6, <2>7, <3>2
    <3> QED  BY <1>5, <2>2, <3>1, <3>2
  <2>9. ASSUME NEW d \in down', NEW i \in 0..Len(reliable')
        PROVE  Compatible(d.blocks, held2(i))
    <3>1. CASE i \in 0..L
      BY <1>16, <3>1
    <3>2. CASE i = L + 1
      BY <1>17, <2>5, <3>2
    <3> QED  BY <1>5, <2>2, <3>1, <3>2
  <2>10. GenAt(client', reliable', Len(reliable')) = Len(history')
    BY <1>2, <1>4, <2>2, <2>4
  <2> HIDE DEF L
  <2> QED  BY <1>2, <1>17, <2>8, <2>9, <2>10 DEF OrderInv, held2
<1> QED  BY <1>6, <1>19, <1>20

-----------------------------------------------------------------------------
(* The lane from its first states, step by step.                           *)

LEMMA LaneStarts ==
    ASSUME Init
    PROVE  LaneInv /\ OrderInv
<1>1. /\ tick = 0 /\ registered \in SUBSET Entity /\ owner \in [Entity -> Owner]
      /\ names = [s \in Slot |-> 0] /\ freed = [s \in Slot |-> 0] /\ dirty = TRUE
      /\ history = <<>> /\ peerGen = 0 /\ client = FreshClient(0) /\ down = {}
      /\ reliable = <<>> /\ up = {} /\ churn = 0 /\ losses = 0 /\ refused = 0
  BY TheNames DEF Init, Unnamed, NoTick
<1>2. /\ client \in ClientState /\ client.gen = 0 /\ client.rows = NoRows
      /\ Says(client.table, client.rows)
  BY <1>1, FreshIs
<1>3. Len(history) = 0 /\ Len(reliable) = 0 /\ 1..0 = {} /\ 0 \in 0..0
  BY <1>1
<1>4. TypeOK
  <2>1. history \in Seq(Rows) /\ reliable \in Seq(Full \cup Delta)
    BY <1>1
  <2>2. names \in Names /\ freed \in [Slot -> Nat]
    BY <1>1, TheNames DEF Names
  <2> QED  BY <1>1, <1>2, <2>1, <2>2 DEF TypeOK
<1>5. OneName(names)
  BY <1>1, TheNames DEF OneName
<1>6. Issued(history, 0) = NoRows /\ RowNames(NoRows) = names
  BY <1>1, TheNames DEF Issued, RowNames, NoRows
<1>7. LaneInv
  BY <1>1, <1>2, <1>3, <1>4, <1>5, <1>6 DEF LaneInv
<1>8. OrderInv
  BY <1>1, <1>2, <1>3 DEF OrderInv, GenAt
<1> QED  BY <1>7, <1>8

LEMMA SessionStarts ==
    ASSUME Established
    PROVE  LaneInv /\ OrderInv
<1> DEFINE rows == RowsOf(names)
           table == BindRows(EmptyTable, rows)
<1>1. /\ tick = 0 /\ registered = {1} /\ owner = [e \in Entity |-> CHOOSE o \in Owner : TRUE]
      /\ names = [s \in Slot |-> IF s = 1 THEN 1 ELSE 0] /\ freed = [s \in Slot |-> 0]
      /\ dirty = FALSE /\ history = <<rows>> /\ peerGen = 1 /\ down = {}
      /\ reliable = <<>> /\ up = {} /\ churn = 0 /\ losses = 0 /\ refused = 0
      /\ client = [FreshClient(0) EXCEPT !.table = table, !.rows = rows, !.gen = 1]
  BY TheNames DEF Established, NoTick
<1>2. 1 \in Entity /\ owner \in [Entity -> Owner]
  BY <1>1, NamingBounds
<1>3. names \in Names /\ OneName(names)
  BY <1>1, <1>2, TheNames DEF Names, OneName
<1>4. rows \in Rows /\ GoodRows(rows) /\ RowNames(rows) = names
  BY <1>2, <1>3, RowsOfNames
<1>5. Says(table, rows)
  BY <1>4, FullAdopts
<1> HIDE DEF rows, table
<1>6. /\ client \in ClientState /\ client.table = table /\ client.rows = rows /\ client.gen = 1
  <2> DEFINE c == FreshClient(0)
             p == [c EXCEPT !.table = table]
             q == [p EXCEPT !.rows = rows]
  <2>1. c \in ClientState
    BY FreshIs
  <2> HIDE DEF c
  <2>2. p = [table |-> table, rows |-> c.rows, gen |-> c.gen, want |-> c.want,
             since |-> c.since, at |-> c.at]
    BY <2>1, ClientFields
  <2>3. client = [q EXCEPT !.gen = 1]
    BY <1>1 DEF c
  <2> HIDE DEF p
  <2>4. q = [table |-> table, rows |-> rows, gen |-> c.gen, want |-> c.want,
             since |-> c.since, at |-> c.at]
    BY <2>2
  <2> HIDE DEF q
  <2>5. client = [table |-> table, rows |-> rows, gen |-> 1, want |-> c.want,
                  since |-> c.since, at |-> c.at]
    BY <2>3, <2>4
  <2>6. table \in Tables
    BY <1>5, PlainTablesAre DEF Says, PlainTables
  <2> QED  BY <1>4, <2>1, <2>5, <2>6, ClientFields DEF ClientState
<1>7. /\ Len(history) = 1 /\ history[1] = rows /\ Len(reliable) = 0 /\ 1..0 = {}
      /\ 1..1 = {1} /\ 1 \in 0..1 /\ history \in Seq(Rows) /\ reliable \in Seq(Full \cup Delta)
  BY <1>1, <1>4
<1>8. freed \in [Slot -> Nat]
  BY <1>1
<1>9. TypeOK
  <2>1. dirty \in BOOLEAN
    BY <1>1, Zenon
  <2> QED  BY <1>1, <1>2, <1>3, <1>6, <1>7, <1>8, <2>1 DEF TypeOK
<1>10. Issued(history, 1) = rows
  BY <1>7 DEF Issued
<1>11. LaneInv
  BY <1>1, <1>3, <1>4, <1>5, <1>6, <1>7, <1>9, <1>10 DEF LaneInv
<1>12. OrderInv
  <2>1. GenAt(client, reliable, Len(reliable)) = Len(history)
    BY <1>6, <1>7 DEF GenAt
  <2> QED  BY <1>1, <1>6, <1>7, <2>1 DEF OrderInv
<1> QED  BY <1>11, <1>12

\* Every step of the lane, whoever takes it.
LEMMA LaneStep ==
    ASSUME LaneInv, [Next]_vars
    PROVE  LaneInv' /\ (OrderInv /\ Lag < Quarantine => OrderInv')
<1>1. CASE Flush
  <2>1. PICK n \in Names : \E blocks \in SUBSET SlotsOf(n, Entity) : ServerFlush(n, blocks)
    BY <1>1 DEF Flush
  <2>2. PICK blocks \in SUBSET SlotsOf(n, Entity) : ServerFlush(n, blocks)
    BY <2>1
  <2>3. blocks \in SUBSET Slot
    BY <2>2 DEF SlotsOf
  <2> QED  BY <2>1, <2>2, <2>3, FlushLane, FlushOrder
<1>2. CASE \E e \in Entity : Register(e) \/ Unregister(e)
  BY <1>2, WorldStep
<1>3. CASE \E e \in Entity, o \in Owner : ChangeOwner(e, o)
  BY <1>3, WorldStep
<1>4. CASE \E m \in up : HandleClientInput(m)
  BY <1>4, AskStep
<1>5. CASE Rekey
  BY <1>5, RekeyStep
<1>6. CASE \E d \in down : HandleSnapshot(d)
  BY <1>6, ReadStep
<1>7. CASE HandleReliable
  BY <1>7, ManifestStep
<1>8. CASE ClientFlush
  BY <1>8, AskRidesStep
<1>9. CASE (\E d \in down : LoseSnapshot(d)) \/ (\E m \in up : LoseInput(m))
  BY <1>9, LossStep
<1>10. CASE RefuseReplay
  BY <1>10, RefuseStep
<1>11. CASE UNCHANGED vars
  <2>1. /\ UNCHANGED <<tick, names, freed, history, reliable, refused, peerGen, down, client,
                       registered, owner, dirty, up, churn, losses>>
    BY <1>11 DEF vars
  <2>2. TypeOK'
    BY <2>1 DEF LaneInv, TypeOK
  <2> QED  BY <2>1, <2>2, QuietStep
<1> QED
  BY <1>1, <1>2, <1>3, <1>4, <1>5, <1>6, <1>7, <1>8, <1>9, <1>10, <1>11 DEF Next

LEMMA LaneMoves ==
    ASSUME LaneInv, [MCNext]_<<part, vars, allocVars, queueVars>>
    PROVE  LaneInv' /\ (OrderInv /\ Lag < Quarantine => OrderInv')
<1>1. [Next]_vars
  BY DEF MCNext
<1> QED  BY <1>1, LaneStep

(* In every behaviour, whatever is lost, refused or restarted: a manifest   *)
(* in flight says what was published at its generation or what changed      *)
(* since its base, and the client's rows are rows of some generation, of    *)
(* its own if it claims one, with the table that follows from them.         *)
THEOREM LaneInvariance == MCSpec => []LaneInv
<1>1. MCInit => LaneInv
  BY SessionStarts DEF MCInit
<1>2. LaneInv /\ [MCNext]_<<part, vars, allocVars, queueVars>> => LaneInv'
  BY LaneMoves
<1> QED  BY <1>1, <1>2, PTL DEF MCSpec

(* The same from a server and a client with nothing yet.                    *)
THEOREM LaneInvarianceFromNothing == Spec => []LaneInv
<1>1. Init => LaneInv
  BY LaneStarts
<1>2. LaneInv /\ [Next]_vars => LaneInv'
  BY LaneStep
<1> QED  BY <1>1, <1>2, PTL DEF Spec

LEMMA LaneIsHeld ==
    ASSUME LaneInv
    PROVE  HeldIsPublished /\ TableFollowsRows
<1>1. HeldIsPublished
  BY DEF LaneInv, HeldIsPublished, Published, Issued
<1>2. Plain(client.table) /\ NamesOf(client.table) = RowNames(client.rows)
  BY DEF LaneInv, Says
<1>3. TableFollowsRows
  BY <1>2, PlainAgrees DEF TableFollowsRows, RowNames
<1> QED  BY <1>1, <1>3

LEMMA OrderIsTrue ==
    ASSUME LaneInv, OrderInv
    PROVE  NoAliasing
<1>1. SUFFICES ASSUME refused = 0, NEW d \in down, NEW s \in Slot, d.blocks[s] # NoEntity
               PROVE  IdOf(client.table, s) \in {NoEntity, d.blocks[s]}
  BY DEF NoAliasing
<1>2. GenAt(client, reliable, 0) = client.gen /\ 0 \in 0..Len(reliable)
  BY DEF GenAt, LaneInv, TypeOK
<1>3. client.rows = Issued(history, client.gen)
  <2>1. client.gen = 0 => client.rows = NoRows
    BY <1>1 DEF OrderInv
  <2>2. client.gen # 0 => client.rows = Issued(history, client.gen)
    BY DEF LaneInv
  <2> QED  BY <2>1, <2>2 DEF Issued
<1>4. Compatible(d.blocks, RowNames(client.rows))
  BY <1>1, <1>2, <1>3 DEF OrderInv
<1>5. IdOf(client.table, s) = RowNames(client.rows)[s]
  <2>1. Plain(client.table) /\ NamesOf(client.table) = RowNames(client.rows)
    BY DEF LaneInv, Says
  <2> QED  BY <2>1, PlainNames
<1> QED  BY <1>1, <1>4, <1>5, TheNames DEF Compatible

(* As long as no frame is late by a whole quarantine and no manifest was    *)
(* refused, the manifests in flight are read in the order they were written *)
(* for, and every name a frame in flight uses is a name its slot had when   *)
(* the frame was sent, and has or has lost since.                           *)
THEOREM OrderInvariance ==
    ASSUME Lag < Quarantine PROVE MCSpec => []OrderInv
<1>1. MCInit => OrderInv
  BY SessionStarts DEF MCInit
<1>2. LaneInv /\ OrderInv /\ [MCNext]_<<part, vars, allocVars, queueVars>> => OrderInv'
  BY LaneMoves
<1> QED  BY <1>1, <1>2, LaneInvariance, PTL DEF MCSpec

(* No block is applied to an entity other than the one it was written for:  *)
(* the quarantine outlasts every frame that still uses a slot's old name.   *)
THEOREM SlotsNeverAlias ==
    ASSUME Lag < Quarantine PROVE Spec => []NoAliasing
<1>1. Init => LaneInv /\ OrderInv
  BY LaneStarts
<1>2. LaneInv /\ OrderInv /\ [Next]_vars => LaneInv' /\ OrderInv'
  BY LaneStep
<1>3. LaneInv /\ OrderInv => NoAliasing
  BY OrderIsTrue
<1> QED  BY <1>1, <1>2, <1>3, PTL DEF Spec

LEMMA HalvesDiffer ==
    ASSUME QueueInv PROVE Queue!OneHalf
BY DEF QueueInv, Fits, Queue!OneHalf

(* Whatever name an end uses means what the other end means by it: the      *)
(* whole of NamesAreTrue, for any number of slots, entities, ticks and      *)
(* losses, as long as the quarantine outlasts the frames in flight.         *)
THEOREM NamesStayTrue ==
    ASSUME Lag < Quarantine PROVE MCSpec => []NamesAreTrue
<1>1. LaneInv /\ OrderInv => NoAliasing
  BY OrderIsTrue
<1>2. LaneInv => HeldIsPublished /\ TableFollowsRows
  BY LaneIsHeld
<1>3. QueueInv => Queue!OneHalf
  BY HalvesDiffer
<1> QED
  BY <1>1, <1>2, <1>3, LaneInvariance, OrderInvariance, TableStaysSound, QueueInvariance, PTL
  DEF NamesAreTrue

=============================================================================
