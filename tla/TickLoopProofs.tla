--------------------------- MODULE TickLoopProofs ---------------------------
(***************************************************************************)
(* The clock window, for every rate, cap, frame length and round trip.     *)
(*                                                                         *)
(* SamplesAreCurrent is about sums that cancel, so it needs every figure   *)
(* the pacing computes to be an integer: the offset is a sum over the      *)
(* samples a ranking picks divided by how many there are, and the stretch  *)
(* and the accumulator go on from it.  The shape of the client's state     *)
(* says so; with it a frame either leaves the timeline and the samples     *)
(* alone, moves both by the same amount, empties the window, or is a slew. *)
(***************************************************************************)
EXTENDS TickLoop, SequenceTheorems, FiniteSetTheorems, WellFoundedInduction, TLAPS

-----------------------------------------------------------------------------
(* Extremes.                                                               *)

LEMMA MaxOfPair ==
    ASSUME NEW a \in Int, NEW b \in Int
    PROVE  Max({a, b}) = IF a >= b THEN a ELSE b
<1>1. CASE a >= b
  <2>1. \A x \in {a, b} : (\A y \in {a, b} : x >= y) <=> x = a
    BY <1>1
  <2> QED  BY <1>1, <2>1 DEF Max
<1>2. CASE ~(a >= b)
  <2>1. \A x \in {a, b} : (\A y \in {a, b} : x >= y) <=> x = b
    BY <1>2
  <2> QED  BY <1>2, <2>1 DEF Max
<1> QED  BY <1>1, <1>2

LEMMA MinOfPair ==
    ASSUME NEW a \in Int, NEW b \in Int
    PROVE  Min({a, b}) = IF a <= b THEN a ELSE b
<1>1. CASE a <= b
  <2>1. \A x \in {a, b} : (\A y \in {a, b} : x <= y) <=> x = a
    BY <1>1
  <2> QED  BY <1>1, <2>1 DEF Min
<1>2. CASE ~(a <= b)
  <2>1. \A x \in {a, b} : (\A y \in {a, b} : x <= y) <=> x = b
    BY <1>2
  <2> QED  BY <1>2, <2>1 DEF Min
<1> QED  BY <1>1, <1>2

LEMMA MinOfThree ==
    ASSUME NEW a \in Int, NEW b \in Int, NEW c \in Int
    PROVE  Min({a, b, c}) \in Int
<1>1. \E x \in {a, b, c} : \A y \in {a, b, c} : x <= y
  <2>1. CASE a <= b /\ a <= c
    BY <2>1
  <2>2. CASE b <= a /\ b <= c
    BY <2>2
  <2>3. CASE c <= a /\ c <= b
    BY <2>3
  <2> QED  BY <2>1, <2>2, <2>3
<1>2. Min({a, b, c}) \in {a, b, c}
  BY <1>1 DEF Min
<1> QED  BY <1>2

LEMMA ClampIsInt ==
    ASSUME NEW x \in Int, NEW low \in Int, NEW high \in Int
    PROVE  Clamp(x, low, high) \in Int
<1>1. Min({x, high}) \in Int
  BY MinOfPair
<1> QED  BY <1>1, MaxOfPair DEF Clamp

\* A set of naturals that has a member has a least one.
LEMMA SomeLeast ==
    ASSUME NEW S \in SUBSET Nat, S # {}
    PROVE  \E x \in S : \A y \in S : x <= y
<1>1. PICK x \in S : \A y \in S : ~(<<y, x>> \in OpToRel(<, Nat))
  BY NatLessThanWellFounded, WFMin
<1>2. \A y \in S : ~(y < x)
  BY <1>1 DEF OpToRel
<1> QED  BY <1>2

\* What holds of zero and passes from each natural to the next holds of all.
LEMMA EveryNatural ==
    ASSUME NEW A, 0 \in A, \A n \in Nat : n \in A => n + 1 \in A
    PROVE  \A n \in Nat : n \in A
<1> DEFINE Bad == {n \in Nat : n \notin A}
<1>1. SUFFICES ASSUME Bad # {} PROVE FALSE
  OBVIOUS
<1>2. Bad \in SUBSET Nat
  OBVIOUS
<1>3. PICK m \in Bad : \A y \in Bad : m <= y
  BY <1>1, <1>2, SomeLeast
<1>4. m \in Nat /\ m \notin A /\ m # 0
  BY <1>3
<1>5. m - 1 \in Nat /\ (m - 1) + 1 = m /\ ~(m <= m - 1)
  BY <1>4
<1>6. m - 1 \in A
  BY <1>3, <1>5
<1> QED  BY <1>4, <1>5, <1>6

-----------------------------------------------------------------------------
(* Sums over a finite set.                                                 *)

\* A sum over the subsets of T that takes members out in the order c picks them.
Sums(v, T, c, f) ==
    /\ f[{}] = 0
    /\ \A s \in SUBSET T : s # {} => f[s] = v[c[s]] + f[s \ {c[s]}]

\* One member fewer.
LEMMA OneFewer ==
    ASSUME NEW T, IsFiniteSet(T), NEW s \in SUBSET T, NEW x \in s
    PROVE  /\ s \ {x} \in SUBSET T
           /\ Cardinality(s) \in Nat \ {0} /\ Cardinality(s \ {x}) = Cardinality(s) - 1
<1>1. IsFiniteSet(s)
  BY FS_Subset
<1>2. Cardinality(s) \in Nat /\ Cardinality(s) # 0
  BY <1>1, FS_CardinalityType, FS_EmptySet
<1>3. Cardinality(s \ {x}) = Cardinality(s) - 1
  BY <1>1, FS_RemoveElement
<1> QED  BY <1>2, <1>3

LEMMA SumExists ==
    ASSUME NEW T, IsFiniteSet(T), NEW v \in [T -> Int],
           NEW c, \A s \in SUBSET T : s # {} => c[s] \in s
    PROVE  \E f \in [SUBSET T -> Int] : Sums(v, T, c, f)
<1> DEFINE Upto(f, n) == /\ f[{}] = 0
                         /\ \A s \in SUBSET T : s # {} /\ Cardinality(s) <= n
                               => f[s] = v[c[s]] + f[s \ {c[s]}]
           A == {n \in Nat : \E f \in [SUBSET T -> Int] : Upto(f, n)}
<1>0. ASSUME NEW s \in SUBSET T, s # {}
      PROVE  /\ c[s] \in T /\ s \ {c[s]} \in SUBSET T
             /\ Cardinality(s) \in Nat \ {0}
             /\ Cardinality(s \ {c[s]}) = Cardinality(s) - 1
  <2>1. c[s] \in s
    BY <1>0
  <2> QED  BY <2>1, OneFewer
<1>1. 0 \in A
  <2> DEFINE f == [s \in SUBSET T |-> 0]
  <2>1. f \in [SUBSET T -> Int] /\ f[{}] = 0
    OBVIOUS
  <2>2. ASSUME NEW s \in SUBSET T, s # {} PROVE ~(Cardinality(s) <= 0)
    <3>1. Cardinality(s) \in Nat \ {0}
      BY <1>0, <2>2
    <3> QED  BY <3>1
  <2>3. Upto(f, 0)
    BY <2>1, <2>2
  <2> QED  BY <2>1, <2>3
<1>2. ASSUME NEW n \in Nat, n \in A PROVE n + 1 \in A
  <2>1. PICK f \in [SUBSET T -> Int] : Upto(f, n)
    BY <1>2
  <2> DEFINE g == [s \in SUBSET T |-> IF s = {} \/ Cardinality(s) <= n THEN f[s]
                                      ELSE v[c[s]] + f[s \ {c[s]}]]
  <2>2. ASSUME NEW s \in SUBSET T PROVE g[s] \in Int
    <3>1. CASE s = {} \/ Cardinality(s) <= n
      BY <3>1
    <3>2. CASE ~(s = {} \/ Cardinality(s) <= n)
      <4>1. v[c[s]] \in Int /\ f[s \ {c[s]}] \in Int
        BY <1>0, <3>2
      <4> QED  BY <3>2, <4>1
    <3> QED  BY <3>1, <3>2
  <2>3. g \in [SUBSET T -> Int] /\ g[{}] = 0
    BY <2>1, <2>2
  <2>4. ASSUME NEW s \in SUBSET T, s # {}, Cardinality(s) <= n + 1
        PROVE  g[s] = v[c[s]] + g[s \ {c[s]}]
    <3>1. s \ {c[s]} \in SUBSET T /\ Cardinality(s \ {c[s]}) <= n
      BY <1>0, <2>4
    <3>2. g[s \ {c[s]}] = f[s \ {c[s]}]
      BY <3>1
    <3>3. g[s] = v[c[s]] + f[s \ {c[s]}]
      BY <2>1, <2>4
    <3> QED  BY <3>2, <3>3
  <2> HIDE DEF g
  <2>5. Upto(g, n + 1)
    BY <2>3, <2>4
  <2> HIDE DEF Upto
  <2>6. n + 1 \in Nat
    OBVIOUS
  <2> QED  BY <2>3, <2>5, <2>6
<1>3. Cardinality(T) \in A
  <2>1. Cardinality(T) \in Nat
    BY FS_CardinalityType
  <2> HIDE DEF A
  <2>2. \A n \in Nat : n \in A
    BY <1>1, <1>2, EveryNatural
  <2> QED  BY <2>1, <2>2
<1>4. PICK f \in [SUBSET T -> Int] : Upto(f, Cardinality(T))
  BY <1>3
<1>5. \A s \in SUBSET T : Cardinality(s) <= Cardinality(T)
  BY FS_Subset
<1> QED  BY <1>4, <1>5 DEF Sums

\* Such a sum is an integer.
LEMMA SumIsInt ==
    ASSUME NEW T, IsFiniteSet(T), NEW v \in [T -> Int],
           NEW c, \A s \in SUBSET T : s # {} => c[s] \in s,
           NEW f, Sums(v, T, c, f)
    PROVE  f[T] \in Int
<1> DEFINE A == {n \in Nat : \A s \in SUBSET T : Cardinality(s) = n => f[s] \in Int}
<1>1. 0 \in A
  <2>1. ASSUME NEW s \in SUBSET T, Cardinality(s) = 0 PROVE f[s] \in Int
    <3>1. s = {}
      BY <2>1, OneFewer
    <3> QED  BY <3>1 DEF Sums
  <2> QED  BY <2>1
<1>2. ASSUME NEW n \in Nat, n \in A PROVE n + 1 \in A
  <2>1. ASSUME NEW s \in SUBSET T, Cardinality(s) = n + 1 PROVE f[s] \in Int
    <3>1. s # {}
      BY <2>1, FS_EmptySet
    <3>2. PICK x \in s : x = c[s]
      BY <3>1
    <3>3. s \ {x} \in SUBSET T /\ Cardinality(s \ {x}) = n
      BY <2>1, OneFewer
    <3>4. f[s \ {x}] \in Int /\ v[x] \in Int
      BY <1>2, <3>3
    <3>5. f[s] = v[x] + f[s \ {x}]
      BY <3>1, <3>2 DEF Sums
    <3> QED  BY <3>4, <3>5
  <2> QED  BY <2>1
<1>3. Cardinality(T) \in Nat
  BY FS_CardinalityType
<1> HIDE DEF A
<1>4. \A n \in Nat : n \in A
  BY <1>1, <1>2, EveryNatural
<1> QED  BY <1>3, <1>4 DEF A

-----------------------------------------------------------------------------
(* The offset.                                                             *)

Sample == [trip : Nat, offset : Int, err : Int]

LEMMA SamplesHaveFields ==
    ASSUME NEW rows \in Seq(Sample)
    PROVE  /\ DOMAIN rows = 1 .. Len(rows) /\ Len(rows) \in Nat
           /\ rows # << >> => Len(rows) # 0
           /\ \A i \in DOMAIN rows : /\ rows[i] \in Sample /\ rows[i].trip \in Nat
                                     /\ rows[i].offset \in Int /\ rows[i].err \in Int
<1>1. DOMAIN rows = 1 .. Len(rows) /\ Len(rows) \in Nat /\ (rows # << >> => Len(rows) # 0)
  BY EmptySeq
<1>2. ASSUME NEW i \in DOMAIN rows PROVE rows[i] \in Sample
  BY <1>1
<1>3. \A r \in Sample : r.trip \in Nat /\ r.offset \in Int /\ r.err \in Int
  BY DEF Sample
<1> QED  BY <1>1, <1>2, <1>3

\* The sample no other comes before is trusted.
LEMMA SomebodyIsTrusted ==
    ASSUME NEW rows \in Seq(Sample), rows # << >>
    PROVE  IsFiniteSet(Trusted(rows)) /\ Cardinality(Trusted(rows)) \in Nat \ {0}
<1> DEFINE Before(j, i) == \/ rows[j].trip < rows[i].trip
                           \/ rows[j].trip = rows[i].trip /\ j < i
           Trips0 == {rows[i].trip : i \in DOMAIN rows}
<1>1. /\ DOMAIN rows = 1 .. Len(rows) /\ Len(rows) \in Nat \ {0}
      /\ \A i \in DOMAIN rows : rows[i].trip \in Nat
  BY SamplesHaveFields
<1>2. IsFiniteSet(DOMAIN rows)
  BY <1>1, FS_Interval
<1>3. Trusted(rows) \subseteq DOMAIN rows
  BY DEF Trusted
<1>4. IsFiniteSet(Trusted(rows))
  BY <1>2, <1>3, FS_Subset
<1>5. PICK t \in Trips0 : \A u \in Trips0 : t <= u
  <2>1. Trips0 \in SUBSET Nat /\ Trips0 # {}
    BY <1>1
  <2> HIDE DEF Trips0
  <2> QED  BY <2>1, SomeLeast
<1> DEFINE Quickest == {i \in DOMAIN rows : rows[i].trip = t}
<1>6. PICK m \in Quickest : \A i \in Quickest : m <= i
  <2>1. Quickest \in SUBSET Nat /\ Quickest # {}
    BY <1>1, <1>5
  <2> HIDE DEF Quickest
  <2> QED  BY <2>1, SomeLeast
<1>7. m \in DOMAIN rows /\ \A j \in DOMAIN rows : ~Before(j, m)
  <2>1. m \in DOMAIN rows /\ m \in Nat /\ rows[m].trip = t
    BY <1>1
  <2>2. ASSUME NEW j \in DOMAIN rows PROVE ~Before(j, m)
    <3>1. rows[j].trip \in Nat /\ t <= rows[j].trip /\ t \in Nat /\ j \in Nat
      BY <1>1, <1>5, <2>1
    <3>2. rows[j].trip = t => m <= j
      BY <1>6
    <3> QED  BY <2>1, <3>1, <3>2
  <2> QED  BY <2>1, <2>2
<1>8. {j \in DOMAIN rows : Before(j, m)} = {}
  BY <1>7
<1>9. Cardinality({j \in DOMAIN rows : Before(j, m)}) = 0
  BY <1>8, FS_EmptySet
<1>10. 0 < (Len(rows) + 1) \div 2
  BY <1>1
<1>11. m \in Trusted(rows)
  BY <1>7, <1>9, <1>10 DEF Trusted
<1>12. Cardinality(Trusted(rows)) \in Nat /\ Cardinality(Trusted(rows)) # 0
  BY <1>4, <1>11, FS_CardinalityType, FS_EmptySet
<1> QED  BY <1>4, <1>12

LEMMA OffsetIsInt ==
    ASSUME NEW clock, clock.rows \in Seq(Sample)
    PROVE  Offset(clock) \in Int
<1>1. CASE clock.rows = << >>
  BY <1>1 DEF Offset
<1>2. CASE clock.rows # << >>
  <2> DEFINE T == Trusted(clock.rows)
             v == [i \in T |-> clock.rows[i].offset]
             c == [s \in SUBSET T |-> CHOOSE x \in s : TRUE]
             Folds(f) == f = [s \in SUBSET T |->
                                IF s = {} THEN 0
                                ELSE clock.rows[CHOOSE x \in s : TRUE].offset
                                       + f[s \ {CHOOSE x \in s : TRUE}]]
  <2>1. IsFiniteSet(T) /\ Cardinality(T) \in Nat \ {0}
    BY <1>2, SomebodyIsTrusted
  <2>2. v \in [T -> Int]
    <3>1. T \subseteq DOMAIN clock.rows
      BY DEF Trusted
    <3> HIDE DEF T
    <3>2. ASSUME NEW i \in T PROVE clock.rows[i].offset \in Int
      BY <3>1, SamplesHaveFields
    <3> QED  BY <3>2
  <2> HIDE DEF T
  <2>3. \A s \in SUBSET T : s # {} => c[s] \in s
    OBVIOUS
  <2>4. ASSUME NEW f, Folds(f) PROVE Sums(v, T, c, f)
    <3>1. f[{}] = 0
      BY <2>4
    <3>2. ASSUME NEW s \in SUBSET T, s # {} PROVE f[s] = v[c[s]] + f[s \ {c[s]}]
      <4>1. c[s] \in T /\ c[s] = CHOOSE x \in s : TRUE
        BY <2>3, <3>2
      <4>2. f[s] = clock.rows[CHOOSE x \in s : TRUE].offset + f[s \ {CHOOSE x \in s : TRUE}]
        BY <2>4, <3>2
      <4> QED  BY <4>1, <4>2
    <3> HIDE DEF v, c
    <3> QED  BY <3>1, <3>2 DEF Sums
  <2>5. PICK f \in [SUBSET T -> Int] : Sums(v, T, c, f)
    <3> HIDE DEF v, c
    <3> QED  BY <2>1, <2>2, <2>3, SumExists
  <2>6. Folds(f)
    <3>1. ASSUME NEW s \in SUBSET T
          PROVE  f[s] = IF s = {} THEN 0
                        ELSE clock.rows[CHOOSE x \in s : TRUE].offset
                               + f[s \ {CHOOSE x \in s : TRUE}]
      <4>1. CASE s = {}
        BY <2>5, <4>1 DEF Sums
      <4>2. CASE s # {}
        <5>1. f[s] = v[c[s]] + f[s \ {c[s]}]
          <6> HIDE DEF v, c
          <6> QED  BY <2>5, <4>2 DEF Sums
        <5>2. c[s] \in T /\ c[s] = CHOOSE x \in s : TRUE
          BY <2>3, <4>2
        <5> QED  BY <4>2, <5>1, <5>2
      <4> QED  BY <4>1, <4>2
    <3> QED  BY <3>1
  <2>7. (CHOOSE g : Folds(g))[T] \in Int
    <3> DEFINE h == CHOOSE g : Folds(g)
    <3> HIDE DEF Folds
    <3>1. Folds(h)
      BY <2>6
    <3> HIDE DEF h
    <3>2. Sums(v, T, c, h)
      BY <2>4, <3>1
    <3> HIDE DEF v, c
    <3>3. h[T] \in Int
      BY <2>1, <2>2, <2>3, <3>2, SumIsInt
    <3> QED  BY <3>3 DEF h
  <2>8. MapThenSumSet(LAMBDA i : clock.rows[i].offset, T) = (CHOOSE g : Folds(g))[T]
    BY DEF MapThenSumSet, MapThenFoldSet
  <2>9. MapThenSumSet(LAMBDA i : clock.rows[i].offset, T) \in Int
    BY <2>7, <2>8
  <2>10. Offset(clock) = MapThenSumSet(LAMBDA i : clock.rows[i].offset, T) \div Cardinality(T)
    BY <1>2 DEF Offset, T
  <2> QED  BY <2>1, <2>9, <2>10
<1> QED  BY <1>1, <1>2

-----------------------------------------------------------------------------
(* The shape of the client's state.                                        *)

Window(cap, S) == {w \in [rows : Seq(S), next : Nat] : Len(w.rows) <= cap /\ w.next < cap}

ClientPace == [off : Int, acc : Int, bias : Int, cool : Int,
               clock : Window(ClockCap, Sample), lead : Window(LeadCap, Int)]

\* The client's figures are integers and its windows are within their caps.
PaceShape == cli \in ClientPace /\ held \in Int /\ slewed \in BOOLEAN

PaceInv == PaceShape /\ SamplesAreCurrent

LEMMA EmptyWindowFits ==
    ASSUME NEW cap \in Nat \ {0}, NEW S
    PROVE  EmptyWindow \in Window(cap, S) /\ EmptyWindow.rows = << >>
<1>1. << >> \in Seq(S) /\ Len(<< >>) = 0
  OBVIOUS
<1> QED  BY <1>1 DEF EmptyWindow, Window

\* A push keeps the cap, and every row it leaves is the new one or an old one.
LEMMA PushKeeps ==
    ASSUME NEW cap \in Nat \ {0}, NEW S, NEW w \in Window(cap, S), NEW row \in S
    PROVE  /\ Push(w, cap, row) \in Window(cap, S)
           /\ \A i \in DOMAIN Push(w, cap, row).rows :
                \/ Push(w, cap, row).rows[i] = row
                \/ i \in DOMAIN w.rows /\ Push(w, cap, row).rows[i] = w.rows[i]
<1> DEFINE new == Push(w, cap, row)
<1>1. w.rows \in Seq(S) /\ w.next \in Nat /\ w.next < cap /\ Len(w.rows) <= cap /\ Len(w.rows) \in Nat
  BY DEF Window
<1>2. (w.next + 1) % cap \in Nat /\ (w.next + 1) % cap < cap
  BY <1>1
<1>3. CASE Len(w.rows) < cap
  <2>1. new = [rows |-> Append(w.rows, row), next |-> (w.next + 1) % cap]
    BY <1>3 DEF Push
  <2>2. /\ Append(w.rows, row) \in Seq(S) /\ Len(Append(w.rows, row)) = Len(w.rows) + 1
        /\ \A i \in 1 .. Len(w.rows) : Append(w.rows, row)[i] = w.rows[i]
        /\ Append(w.rows, row)[Len(w.rows) + 1] = row
    BY <1>1, AppendProperties
  <2>3. new \in Window(cap, S)
    BY <1>1, <1>2, <1>3, <2>1, <2>2 DEF Window
  <2>4. ASSUME NEW i \in DOMAIN new.rows
        PROVE  new.rows[i] = row \/ (i \in DOMAIN w.rows /\ new.rows[i] = w.rows[i])
    <3>1. new.rows = Append(w.rows, row) /\ i \in 1 .. Len(w.rows) + 1
      BY <2>1, <2>2
    <3>2. i = Len(w.rows) + 1 \/ i \in 1 .. Len(w.rows)
      BY <1>1, <3>1
    <3>3. DOMAIN w.rows = 1 .. Len(w.rows)
      BY <1>1
    <3> QED  BY <2>2, <3>1, <3>2, <3>3
  <2> QED  BY <2>3, <2>4
<1>4. CASE ~(Len(w.rows) < cap)
  <2>1. new = [rows |-> [w.rows EXCEPT ![w.next + 1] = row], next |-> (w.next + 1) % cap]
    BY <1>4 DEF Push
  <2>2. w.next + 1 \in 1 .. Len(w.rows)
    BY <1>1, <1>4
  <2>3. /\ [w.rows EXCEPT ![w.next + 1] = row] \in Seq(S)
        /\ Len([w.rows EXCEPT ![w.next + 1] = row]) = Len(w.rows)
        /\ \A i \in 1 .. Len(w.rows) : [w.rows EXCEPT ![w.next + 1] = row][i]
                                         = IF i = w.next + 1 THEN row ELSE w.rows[i]
    BY <1>1, <2>2, ExceptSeq
  <2>4. new \in Window(cap, S)
    BY <1>1, <1>2, <2>1, <2>3 DEF Window
  <2>5. ASSUME NEW i \in DOMAIN new.rows
        PROVE  new.rows[i] = row \/ (i \in DOMAIN w.rows /\ new.rows[i] = w.rows[i])
    <3>1. new.rows = [w.rows EXCEPT ![w.next + 1] = row] /\ DOMAIN w.rows = 1 .. Len(w.rows)
      BY <1>1, <2>1
    <3>2. i \in 1 .. Len(w.rows)
      BY <2>3, <3>1
    <3> QED  BY <2>3, <3>1, <3>2
  <2> QED  BY <2>4, <2>5
<1> QED  BY <1>3, <1>4

LEMMA CeilDivIsInt ==
    ASSUME NEW x \in Int
    PROVE  CeilDiv(x, Unit) \in Int
<1>1. (-x) \div Unit \in Int
  BY PaceAssumption
<1> QED  BY <1>1 DEF CeilDiv

\* What the accumulator discards is never negative.
LEMMA AdvanceShape ==
    ASSUME NEW acc \in Int, NEW fed \in Int
    PROVE  /\ Advance(acc, fed).acc \in Int /\ Advance(acc, fed).ticks \in Int
           /\ Advance(acc, fed).lost \in Nat
<1> DEFINE full == acc + fed
           ticks == Min({full \div Unit, FrameCap, CeilDiv(fed, Unit) + CatchUp})
           rest == full - ticks * Unit
           lost == IF rest > MaxBacklog THEN rest - Min({rest, Unit}) ELSE 0
<1>1. /\ Unit \in Nat \ {0} /\ FrameCap \in Int /\ CatchUp \in Int /\ MaxBacklog \in Nat
  BY PaceAssumption
<1>2. full \in Int /\ full \div Unit \in Int /\ CeilDiv(fed, Unit) + CatchUp \in Int
  BY <1>1, CeilDivIsInt
<1>3. ticks \in Int
  <2> HIDE DEF full
  <2> QED  BY <1>1, <1>2, MinOfThree
<1>4. rest \in Int
  <2> HIDE DEF full, ticks
  <2> QED  BY <1>1, <1>2, <1>3
<1>5. lost \in Nat
  <2> HIDE DEF rest
  <2>1. Min({rest, Unit}) = IF rest <= Unit THEN rest ELSE Unit
    BY <1>1, <1>4, MinOfPair
  <2> QED  BY <1>1, <1>4, <2>1
<1>6. Advance(acc, fed) = IF full < Unit THEN [acc |-> full, ticks |-> 0, lost |-> 0]
                          ELSE [acc |-> rest - lost, ticks |-> ticks, lost |-> lost]
  BY DEF Advance
<1>7. rest - lost \in Int
  <2> HIDE DEF rest, lost
  <2> QED  BY <1>4, <1>5
<1> HIDE DEF full, ticks, rest, lost
<1> QED  BY <1>2, <1>3, <1>5, <1>6, <1>7

LEMMA ResidualIsInt ==
    ASSUME NEW c \in ClientPace
    PROVE  Residual(c) \in Int
<1>1. c.clock.rows \in Seq(Sample) /\ c.bias \in Int
  BY DEF ClientPace, Window
<1>2. Offset(c.clock) \in Int
  BY <1>1, OffsetIsInt
<1> QED  BY <1>1, <1>2, PaceAssumption DEF Residual

LEMMA StretchIsInt ==
    ASSUME NEW c \in ClientPace, NEW delta \in Nat
    PROVE  Stretch(c, delta) \in Int
<1> DEFINE r == Residual(c) * delta
<1>1. StretchWindow \in Nat \ {0} /\ MaxStretch \in Nat \ {0} /\ MaxStretch + 1 \in Nat \ {0}
  BY PaceAssumption
<1>2. r \in Int
  BY ResidualIsInt
<1> HIDE DEF r
<1>3. r \div StretchWindow \in Int
  BY <1>1, <1>2
<1>4. delta \div (MaxStretch + 1) \in Int /\ delta \div MaxStretch \in Int
  BY <1>1
<1>5. -(delta \div (MaxStretch + 1)) \in Int
  BY <1>4
<1> QED  BY <1>3, <1>4, <1>5, ClampIsInt DEF Stretch, r

-----------------------------------------------------------------------------
(* The steps.                                                              *)

LEMMA Reseeked ==
    ASSUME NEW c \in ClientPace, NEW off \in Int, NEW clock \in Window(ClockCap, Sample),
           NEW lead \in Window(LeadCap, Int),
           NEW d, d = [c EXCEPT !.off = off, !.acc = 0, !.cool = 0, !.clock = clock, !.lead = lead]
    PROVE  d \in ClientPace
<1>1. 0 \in Int
  OBVIOUS
<1> QED  BY <1>1 DEF ClientPace

LEMMA ResyncKeeps ==
    ASSUME NEW c \in ClientPace
    PROVE  /\ MaybeHardResync(c) \in ClientPace
           /\ \/ MaybeHardResync(c).clock.rows = << >>
              \/ MaybeHardResync(c).clock = c.clock /\ MaybeHardResync(c).off = c.off
<1>1. CASE ~NeedsHardResync(c)
  BY <1>1 DEF MaybeHardResync
<1>2. CASE NeedsHardResync(c)
  <2> DEFINE offset == Offset(c.clock)
             lead == InitialLead + Max({c.bias, 0})
             target == lead * Unit + offset - ((c.acc + offset) % Unit)
  <2>1. /\ c.off \in Int /\ c.acc \in Int /\ c.bias \in Int /\ offset \in Int
        /\ Unit \in Nat \ {0} /\ InitialLead \in Int
    BY OffsetIsInt, PaceAssumption DEF ClientPace, Window
  <2>2. lead \in Int
    BY <2>1, MaxOfPair
  <2> HIDE DEF offset, lead
  <2>3. target \in Int
    BY <2>1, <2>2
  <2>4. MaybeHardResync(c) = [c EXCEPT !.off = c.off - target, !.acc = 0, !.cool = 0,
                                       !.clock = EmptyWindow, !.lead = EmptyWindow]
    BY <1>2 DEF MaybeHardResync, offset, lead
  <2>5. /\ EmptyWindow \in Window(ClockCap, Sample) /\ EmptyWindow \in Window(LeadCap, Int)
        /\ EmptyWindow.rows = << >>
    BY PaceAssumption, EmptyWindowFits
  <2>6. c.off - target \in Int
    <3> HIDE DEF target
    <3> QED  BY <2>1, <2>3
  <2> HIDE DEF target
  <2> DEFINE off == c.off - target
             new == MaybeHardResync(c)
  <2>7. new \in ClientPace
    <3> HIDE DEF off, new
    <3>1. off \in Int
      BY <2>6 DEF off
    <3>2. new = [c EXCEPT !.off = off, !.acc = 0, !.cool = 0,
                          !.clock = EmptyWindow, !.lead = EmptyWindow]
      BY <2>4 DEF off, new
    <3> QED  BY <2>5, <3>1, <3>2, Reseeked
  <2>8. MaybeHardResync(c).clock = EmptyWindow
    BY <2>4 DEF ClientPace
  <2> QED  BY <2>5, <2>7, <2>8
<1> QED  BY <1>1, <1>2

LEMMA BiasKeeps ==
    ASSUME NEW c \in ClientPace
    PROVE  /\ UpdateLeadBias(c) \in ClientPace
           /\ UpdateLeadBias(c).clock = c.clock /\ UpdateLeadBias(c).off = c.off
<1> DEFINE step == Suggest(c.lead)
<1>1. step \in {-1, 0, 1}
  BY DEF Suggest
<1> HIDE DEF step
<1>2. Clamp(c.bias + step, -BiasLow, BiasHigh) \in Int
  <2>1. c.bias + step \in Int /\ -BiasLow \in Int /\ BiasHigh \in Int
    BY <1>1, PaceAssumption DEF ClientPace
  <2> QED  BY <2>1, ClampIsInt
<1>3. EmptyWindow \in Window(LeadCap, Int)
  BY PaceAssumption, EmptyWindowFits
<1>4. UpdateLeadBias(c) = IF step = 0 THEN c
                          ELSE [c EXCEPT !.bias = Clamp(c.bias + step, -BiasLow, BiasHigh),
                                         !.lead = EmptyWindow]
  BY DEF UpdateLeadBias, step
<1> QED  BY <1>2, <1>3, <1>4 DEF ClientPace

\* The pacing a frame starts from: after a reseek and a move of the lead.
Ready(c) == UpdateLeadBias(MaybeHardResync(c))

LEMMA ReadyKeeps ==
    ASSUME NEW c \in ClientPace
    PROVE  /\ Ready(c) \in ClientPace
           /\ \/ Ready(c).clock.rows = << >>
              \/ Ready(c).clock = c.clock /\ Ready(c).off = c.off
BY ResyncKeeps, BiasKeeps DEF Ready

\* Moving every sample by the same amount.
LEMMA CorrectionKeeps ==
    ASSUME NEW w \in Window(ClockCap, Sample), NEW moved \in Int
    PROVE  /\ ApplyLocalCorrection(w, moved) \in Window(ClockCap, Sample)
           /\ DOMAIN ApplyLocalCorrection(w, moved).rows = DOMAIN w.rows
           /\ \A i \in DOMAIN w.rows :
                /\ ApplyLocalCorrection(w, moved).rows[i].offset = w.rows[i].offset - moved
                /\ ApplyLocalCorrection(w, moved).rows[i].err = w.rows[i].err
<1> DEFINE new == [i \in DOMAIN w.rows |-> [w.rows[i] EXCEPT !.offset = w.rows[i].offset - moved]]
<1>1. /\ w.rows \in Seq(Sample) /\ w.next \in Nat /\ w.next < ClockCap
      /\ Len(w.rows) <= ClockCap /\ w \in [rows : Seq(Sample), next : Nat]
  BY DEF Window
<1>2. ApplyLocalCorrection(w, moved) = [w EXCEPT !.rows = new]
  BY DEF ApplyLocalCorrection
<1>3. ASSUME NEW i \in DOMAIN w.rows
      PROVE  /\ new[i] \in Sample
             /\ new[i].offset = w.rows[i].offset - moved /\ new[i].err = w.rows[i].err
  <2>1. w.rows[i] \in Sample
    BY <1>1, SamplesHaveFields
  <2>2. w.rows[i].offset - moved \in Int
    BY <2>1 DEF Sample
  <2> QED  BY <2>1, <2>2 DEF Sample
<1>4. DOMAIN w.rows = 1 .. Len(w.rows) /\ Len(w.rows) \in Nat
  BY <1>1
<1>5. new \in Seq(Sample) /\ Len(new) = Len(w.rows) /\ DOMAIN new = DOMAIN w.rows
  <2>1. new \in [1 .. Len(w.rows) -> Sample]
    BY <1>3, <1>4
  <2> HIDE DEF new
  <2> QED  BY <1>4, <2>1
<1> HIDE DEF new
<1>6. [w EXCEPT !.rows = new] \in Window(ClockCap, Sample) /\ [w EXCEPT !.rows = new].rows = new
  BY <1>1, <1>5 DEF Window
<1> QED  BY <1>2, <1>3, <1>5, <1>6

\* A decoupled frame empties the window, or moves the timeline and every sample
\* in it by the same amount.
LEMMA DecoupledKeeps ==
    ASSUME NEW c \in ClientPace, NEW delta \in Nat
    PROVE  /\ StepDecoupled(c, delta) \in ClientPace
           /\ \/ StepDecoupled(c, delta).clock.rows = << >>
              \/ \E moved \in Int :
                   /\ StepDecoupled(c, delta).off = c.off - moved
                   /\ DOMAIN StepDecoupled(c, delta).clock.rows = DOMAIN c.clock.rows
                   /\ \A i \in DOMAIN c.clock.rows :
                        /\ StepDecoupled(c, delta).clock.rows[i].offset
                             = c.clock.rows[i].offset - moved
                        /\ StepDecoupled(c, delta).clock.rows[i].err = c.clock.rows[i].err
<1> DEFINE ready == Ready(c)
           moved == Stretch(ready, delta)
           step == Advance(ready.acc, delta + moved)
           clock == IF step.lost > 0 THEN EmptyWindow ELSE ApplyLocalCorrection(ready.clock, moved)
<1>1. /\ ready \in ClientPace
      /\ ready.clock.rows = << >> \/ (ready.clock = c.clock /\ ready.off = c.off)
  BY ReadyKeeps
<1>2. StepDecoupled(c, delta) = [ready EXCEPT !.off = ready.off - moved + step.lost,
                                              !.acc = step.acc, !.clock = clock]
  BY DEF StepDecoupled, Ready
<1> HIDE DEF ready
<1>3. moved \in Int
  BY <1>1, StretchIsInt
<1> HIDE DEF moved
<1>4. ready.acc \in Int /\ ready.off \in Int /\ ready.clock \in Window(ClockCap, Sample)
  BY <1>1 DEF ClientPace
<1>5. step.acc \in Int /\ step.lost \in Nat
  BY <1>3, <1>4, AdvanceShape
<1> HIDE DEF step
<1>6. EmptyWindow \in Window(ClockCap, Sample) /\ EmptyWindow.rows = << >>
  BY PaceAssumption, EmptyWindowFits
<1>7. clock \in Window(ClockCap, Sample)
  BY <1>3, <1>4, <1>6, CorrectionKeeps
<1>8. /\ StepDecoupled(c, delta) \in ClientPace
      /\ StepDecoupled(c, delta).off = ready.off - moved + step.lost
      /\ StepDecoupled(c, delta).clock = clock
  <2> HIDE DEF clock
  <2>1. ready.off - moved + step.lost \in Int
    BY <1>3, <1>4, <1>5
  <2> QED  BY <1>1, <1>2, <1>5, <1>7, <2>1 DEF ClientPace
<1>9. CASE step.lost > 0
  BY <1>6, <1>8, <1>9
<1>10. CASE ready.clock.rows = << >> /\ ~(step.lost > 0)
  <2>1. DOMAIN clock.rows = DOMAIN ready.clock.rows
    BY <1>3, <1>4, <1>10, CorrectionKeeps
  <2>2. clock.rows \in Seq(Sample)
    BY <1>7 DEF Window
  <2> HIDE DEF clock
  <2>3. DOMAIN clock.rows = {}
    BY <1>10, <2>1
  <2>4. clock.rows = << >>
    BY <2>2, <2>3, SamplesHaveFields
  <2> QED  BY <1>8, <2>4
<1>11. CASE ready.clock = c.clock /\ ready.off = c.off /\ ~(step.lost > 0)
  <2>1. /\ DOMAIN clock.rows = DOMAIN c.clock.rows
        /\ \A i \in DOMAIN c.clock.rows : /\ clock.rows[i].offset = c.clock.rows[i].offset - moved
                                          /\ clock.rows[i].err = c.clock.rows[i].err
    <3>1. clock = ApplyLocalCorrection(ready.clock, moved)
      BY <1>11
    <3>2. c.clock \in Window(ClockCap, Sample)
      BY DEF ClientPace
    <3> QED  BY <1>3, <1>11, <3>1, <3>2, CorrectionKeeps
  <2> HIDE DEF clock
  <2>2. StepDecoupled(c, delta).off = c.off - moved
    BY <1>3, <1>4, <1>5, <1>8, <1>11
  <2> QED  BY <1>3, <1>8, <2>1, <2>2
<1> QED  BY <1>1, <1>9, <1>10, <1>11

\* A coupled frame leaves the samples alone.
LEMMA CoupledKeeps ==
    ASSUME NEW c \in ClientPace, NEW wall \in Nat
    PROVE  /\ StepCoupled(c, wall) \in ClientPace
           /\ \/ StepCoupled(c, wall).clock.rows = << >>
              \/ StepCoupled(c, wall).clock = c.clock
<1> DEFINE ready == Ready(c)
           ticks == IF ~Slews(ready) THEN 1 ELSE IF Residual(ready) > 0 THEN 2 ELSE 0
           step == Advance(ready.acc, ticks * Unit)
           cool == IF Slews(ready) THEN SlewCooldown ELSE Max({ready.cool - 1, 0})
<1>1. /\ ready \in ClientPace
      /\ ready.clock.rows = << >> \/ (ready.clock = c.clock /\ ready.off = c.off)
  BY ReadyKeeps
<1>2. StepCoupled(c, wall) = [ready EXCEPT !.off = ready.off + wall - ticks * Unit + step.lost,
                                           !.acc = step.acc, !.cool = cool]
  BY DEF StepCoupled, Ready
<1> HIDE DEF ready
<1>3. ready.acc \in Int /\ ready.off \in Int /\ ready.cool \in Int
  BY <1>1 DEF ClientPace
<1>4. ticks \in {0, 1, 2} /\ ticks * Unit \in Int
  BY PaceAssumption
<1> HIDE DEF ticks
<1>5. step.acc \in Int /\ step.lost \in Nat
  BY <1>3, <1>4, AdvanceShape
<1> HIDE DEF step
<1>6. cool \in Int
  BY <1>3, PaceAssumption, MaxOfPair
<1> HIDE DEF cool
<1>7. ready.off + wall - ticks * Unit + step.lost \in Int
  BY <1>3, <1>4, <1>5
<1>8. StepCoupled(c, wall) \in ClientPace /\ StepCoupled(c, wall).clock = ready.clock
  BY <1>1, <1>2, <1>5, <1>6, <1>7 DEF ClientPace
<1> QED  BY <1>1, <1>8

-----------------------------------------------------------------------------
(* The actions.                                                            *)

LEMMA LongPastIsInt == LongPast \in Int
<1>1. SeekHorizon \in Nat /\ Unit \in Nat
  BY PaceAssumption
<1> QED  BY <1>1 DEF LongPast

LEMMA PaceInitHolds == PaceInit => PaceInv
<1> SUFFICES ASSUME PaceInit PROVE PaceInv
  OBVIOUS
<1>1. PICK age \in {0, Latency} :
        cli = [off |-> age - InitialLead * Unit, acc |-> 0, bias |-> 0, cool |-> 0,
               clock |-> EmptyWindow, lead |-> EmptyWindow]
  BY DEF PaceInit
<1>2. age - InitialLead * Unit \in Int
  BY PaceAssumption
<1>3. /\ EmptyWindow \in Window(ClockCap, Sample) /\ EmptyWindow \in Window(LeadCap, Int)
      /\ EmptyWindow.rows = << >>
  BY PaceAssumption, EmptyWindowFits
<1> DEFINE off == age - InitialLead * Unit
<1> HIDE DEF off
<1>4. cli \in ClientPace
  <2>1. off \in Int /\ 0 \in Int
    BY <1>2 DEF off
  <2>2. cli = [off |-> off, acc |-> 0, bias |-> 0, cool |-> 0,
               clock |-> EmptyWindow, lead |-> EmptyWindow]
    BY <1>1 DEF off
  <2> QED  BY <1>3, <2>1, <2>2 DEF ClientPace
<1>5. cli.clock.rows = << >>
  BY <1>1, <1>3
<1>6. SamplesAreCurrent
  BY <1>5 DEF SamplesAreCurrent
<1>7. held \in Int /\ slewed \in BOOLEAN
  BY LongPastIsInt DEF PaceInit
<1> QED  BY <1>4, <1>6, <1>7 DEF PaceInv, PaceShape

\* A frame keeps every stored sample true of the clocks, or empties the window,
\* or is a slew and says so.
LEMMA RunFrameKeeps ==
    ASSUME PaceInv, NEW wall \in Nat, RunFrame(wall)
    PROVE  PaceInv'
<1>1. /\ cli \in ClientPace /\ held \in Int /\ SamplesAreCurrent /\ slewed \in BOOLEAN
      /\ cli.off \in Int /\ cli.clock.rows \in Seq(Sample)
  BY DEF PaceInv, PaceShape, ClientPace, Window
<1>2. cli' = IF mode = "coupled" THEN StepCoupled(cli, wall) ELSE StepDecoupled(cli, wall)
  BY DEF RunFrame, Stepped
<1>3. cli' \in ClientPace
  BY <1>1, <1>2, CoupledKeeps, DecoupledKeeps
<1>4. held' \in Int
  <2>1. held - wall \in Int /\ LongPast \in Int
    BY <1>1, LongPastIsInt
  <2>2. held' = Max({held - wall, LongPast})
    BY DEF RunFrame
  <2> QED  BY <2>1, <2>2, MaxOfPair
<1>5. slewed' = /\ cli'.clock.rows # << >>
                /\ slewed \/ (mode = "coupled" /\ cli'.off # cli.off)
  BY DEF RunFrame
<1>6. slewed' \in BOOLEAN
  BY <1>5
<1>7. ASSUME ~slewed', NEW i \in DOMAIN cli'.clock.rows
      PROVE  cli'.clock.rows[i].offset = cli'.off + cli'.clock.rows[i].err
  <2>1. cli'.clock.rows # << >>
    BY <1>7
  <2>2. ~slewed /\ ~(mode = "coupled" /\ cli'.off # cli.off)
    BY <1>5, <1>7, <2>1
  <2>3. \A j \in DOMAIN cli.clock.rows :
          /\ cli.clock.rows[j].offset = cli.off + cli.clock.rows[j].err
          /\ cli.clock.rows[j].err \in Int
    BY <1>1, <2>2, SamplesHaveFields DEF SamplesAreCurrent
  <2>4. CASE mode = "coupled"
    <3>1. cli'.off = cli.off /\ cli'.clock = cli.clock
      BY <1>1, <1>2, <2>1, <2>2, <2>4, CoupledKeeps
    <3> QED  BY <1>7, <2>3, <3>1
  <2>5. CASE mode # "coupled"
    <3>1. cli' = StepDecoupled(cli, wall)
      BY <1>2, <2>5
    <3>2. PICK moved \in Int :
            /\ cli'.off = cli.off - moved
            /\ DOMAIN cli'.clock.rows = DOMAIN cli.clock.rows
            /\ \A j \in DOMAIN cli.clock.rows :
                 /\ cli'.clock.rows[j].offset = cli.clock.rows[j].offset - moved
                 /\ cli'.clock.rows[j].err = cli.clock.rows[j].err
      BY <1>1, <2>1, <3>1, DecoupledKeeps
    <3>3. i \in DOMAIN cli.clock.rows
      BY <1>7, <3>2
    <3>4. /\ cli'.clock.rows[i].offset = (cli.off + cli.clock.rows[i].err) - moved
          /\ cli'.clock.rows[i].err = cli.clock.rows[i].err /\ cli.clock.rows[i].err \in Int
      BY <2>3, <3>2, <3>3
    <3> QED  BY <1>1, <3>2, <3>4
  <2> QED  BY <2>4, <2>5
<1>8. SamplesAreCurrent'
  BY <1>7 DEF SamplesAreCurrent
<1> QED  BY <1>3, <1>4, <1>6, <1>8 DEF PaceInv, PaceShape

\* A pong's sample is true of the clocks it was taken on.
LEMMA IntegratePongKeeps ==
    ASSUME PaceInv, IntegratePong
    PROVE  PaceInv'
<1>1. /\ cli \in ClientPace /\ held \in Int /\ SamplesAreCurrent /\ slewed \in BOOLEAN
      /\ cli.off \in Int /\ cli.clock.rows \in Seq(Sample)
      /\ cli.clock \in Window(ClockCap, Sample)
  BY DEF PaceInv, PaceShape, ClientPace, Window
<1>2a. PICK trip \in Trips : \E err \in -(trip \div 2) .. trip \div 2 :
        cli' = [cli EXCEPT !.clock = Push(cli.clock, ClockCap,
                  [trip |-> trip, offset |-> cli.off + err, err |-> err])]
  BY DEF IntegratePong
<1>2. PICK err \in -(trip \div 2) .. trip \div 2 :
        cli' = [cli EXCEPT !.clock = Push(cli.clock, ClockCap,
                  [trip |-> trip, offset |-> cli.off + err, err |-> err])]
  BY <1>2a
<1> DEFINE row == [trip |-> trip, offset |-> cli.off + err, err |-> err]
           new == Push(cli.clock, ClockCap, row)
<1>3. row \in Sample /\ row.offset = cli.off + row.err
  <2>1. trip \in Nat /\ trip \div 2 \in Int
    BY PaceAssumption
  <2>2. err \in Int
    BY <2>1
  <2>3. cli.off + err \in Int
    BY <1>1, <2>2
  <2> QED  BY <2>1, <2>2, <2>3 DEF Sample
<1>4. cli' = [cli EXCEPT !.clock = new]
  BY <1>2
<1> HIDE DEF row
<1>5. /\ new \in Window(ClockCap, Sample)
      /\ \A i \in DOMAIN new.rows :
           \/ new.rows[i] = row
           \/ i \in DOMAIN cli.clock.rows /\ new.rows[i] = cli.clock.rows[i]
  BY <1>1, <1>3, PaceAssumption, PushKeeps
<1> HIDE DEF new
<1>6. cli' \in ClientPace /\ cli'.clock = new /\ cli'.off = cli.off
  BY <1>1, <1>4, <1>5 DEF ClientPace
<1>7. held' = held /\ slewed' = slewed
  BY DEF IntegratePong
<1>8. SamplesAreCurrent'
  BY <1>1, <1>3, <1>5, <1>6, <1>7 DEF SamplesAreCurrent
<1> QED  BY <1>1, <1>6, <1>7, <1>8 DEF PaceInv, PaceShape

LEMMA InputArrivesKeeps ==
    ASSUME PaceInv, NEW late \in Int, InputArrives(late)
    PROVE  PaceInv'
<1>1. /\ cli \in ClientPace /\ held \in Int /\ SamplesAreCurrent /\ slewed \in BOOLEAN
      /\ cli.off \in Int /\ cli.acc \in Int /\ cli.lead \in Window(LeadCap, Int)
  BY DEF PaceInv, PaceShape, ClientPace
<1> DEFINE sent == -cli.off - cli.acc - late * Unit
<1>2. sent - Latency \in Int
  BY <1>1, PaceAssumption
<1>3. held' \in Int
  <2>1. held' = NoteInputTick(held, sent - Latency)
    BY DEF InputArrives
  <2> DEFINE arriving == sent - Latency
  <2>2. arriving \in Int
    BY <1>2
  <2> HIDE DEF arriving
  <2>3. NoteInputTick(held, arriving) \in Int
    <3>1. Max({held, arriving}) \in Int
      BY <1>1, <2>2, MaxOfPair
    <3> QED  BY <2>2, <3>1 DEF NoteInputTick
  <2> QED  BY <2>1, <2>3 DEF arriving
<1> DEFINE new == Push(cli.lead, LeadCap, CeilDiv(held', Unit))
<1>4. new \in Window(LeadCap, Int)
  <2>1. CeilDiv(held', Unit) \in Int
    BY <1>3, CeilDivIsInt
  <2> QED  BY <1>1, <2>1, PaceAssumption, PushKeeps
<1>5. cli' = [cli EXCEPT !.lead = new]
  BY DEF InputArrives
<1> HIDE DEF new
<1>6. cli' \in ClientPace /\ cli'.clock = cli.clock /\ cli'.off = cli.off
  BY <1>1, <1>4, <1>5 DEF ClientPace
<1>7. slewed' = slewed
  BY DEF InputArrives
<1>8. SamplesAreCurrent'
  BY <1>1, <1>6, <1>7 DEF SamplesAreCurrent
<1> QED  BY <1>1, <1>3, <1>6, <1>7, <1>8 DEF PaceInv, PaceShape

\* A torn server timeline moves the truth; the samples keep their offsets and
\* are wrong by the tear.
LEMMA ServerTearKeeps ==
    ASSUME PaceInv, ServerTear
    PROVE  PaceInv'
<1>1. /\ cli \in ClientPace /\ held \in Int /\ SamplesAreCurrent /\ slewed \in BOOLEAN
      /\ cli.off \in Int /\ cli.clock.rows \in Seq(Sample)
      /\ cli.clock \in Window(ClockCap, Sample)
  BY DEF PaceInv, PaceShape, ClientPace, Window
<1>2. PICK tear \in Tears :
        cli' = [cli EXCEPT !.off = cli.off - tear,
                           !.clock.rows = [i \in DOMAIN cli.clock.rows |->
                              [cli.clock.rows[i] EXCEPT !.err = cli.clock.rows[i].err + tear]]]
  BY DEF ServerTear
<1> DEFINE new == [i \in DOMAIN cli.clock.rows |->
                      [cli.clock.rows[i] EXCEPT !.err = cli.clock.rows[i].err + tear]]
<1>3. tear \in Int
  BY PaceAssumption
<1>4. ASSUME NEW i \in DOMAIN cli.clock.rows
      PROVE  /\ new[i] \in Sample
             /\ new[i].offset = cli.clock.rows[i].offset
             /\ new[i].err = cli.clock.rows[i].err + tear
             /\ cli.clock.rows[i].err \in Int
  <2>1. cli.clock.rows[i] \in Sample /\ cli.clock.rows[i].err \in Int
    BY <1>1, SamplesHaveFields
  <2>2. cli.clock.rows[i].err + tear \in Int
    BY <1>3, <2>1
  <2> QED  BY <2>1, <2>2 DEF Sample
<1>5. new \in Seq(Sample) /\ Len(new) = Len(cli.clock.rows) /\ DOMAIN new = DOMAIN cli.clock.rows
  <2>1. DOMAIN cli.clock.rows = 1 .. Len(cli.clock.rows) /\ Len(cli.clock.rows) \in Nat
    BY <1>1
  <2>2. new \in [1 .. Len(cli.clock.rows) -> Sample]
    BY <1>4, <2>1
  <2> HIDE DEF new
  <2> QED  BY <2>1, <2>2
<1>6. cli' = [cli EXCEPT !.off = cli.off - tear, !.clock.rows = new]
  BY <1>2
<1> DEFINE clock == [cli.clock EXCEPT !.rows = new]
<1> HIDE DEF new
<1>7. clock \in Window(ClockCap, Sample) /\ clock.rows = new
  BY <1>1, <1>5 DEF Window
<1>8. cli' = [cli EXCEPT !.off = cli.off - tear, !.clock = clock]
  BY <1>1, <1>6 DEF ClientPace
<1> HIDE DEF clock
<1>9. cli' \in ClientPace /\ cli'.clock = clock /\ cli'.off = cli.off - tear
  <2>1. cli.off - tear \in Int
    BY <1>1, <1>3
  <2> QED  BY <1>1, <1>7, <1>8, <2>1 DEF ClientPace
<1>10. held' = held /\ slewed' = slewed
  BY DEF ServerTear
<1>11. ASSUME ~slewed', NEW i \in DOMAIN cli'.clock.rows
       PROVE  cli'.clock.rows[i].offset = cli'.off + cli'.clock.rows[i].err
  <2>1. i \in DOMAIN cli.clock.rows
    BY <1>5, <1>7, <1>9, <1>11
  <2>2. cli.clock.rows[i].offset = cli.off + cli.clock.rows[i].err
    BY <1>1, <1>10, <1>11, <2>1 DEF SamplesAreCurrent
  <2>3. /\ cli'.clock.rows[i].offset = cli.off + cli.clock.rows[i].err
        /\ cli'.clock.rows[i].err = cli.clock.rows[i].err + tear
        /\ cli.clock.rows[i].err \in Int
    BY <1>4, <1>7, <1>9, <2>1, <2>2
  <2> QED  BY <1>1, <1>3, <1>9, <2>3
<1>12. SamplesAreCurrent'
  BY <1>11 DEF SamplesAreCurrent
<1> QED  BY <1>1, <1>9, <1>10, <1>12 DEF PaceInv, PaceShape

LEMMA PaceStepKeeps == PaceInv /\ [PaceNext]_paceVars => PaceInv'
<1> SUFFICES ASSUME PaceInv, [PaceNext]_paceVars PROVE PaceInv'
  OBVIOUS
<1>1. CASE Frame
  <2>1. PICK delta \in Deltas : RunFrame(delta)
    BY <1>1 DEF Frame
  <2>2. delta \in Nat
    BY PaceAssumption
  <2> QED  BY <2>1, <2>2, RunFrameKeeps
<1>2. CASE Hitch
  <2>1. PICK delta \in Hitches : RunFrame(delta)
    BY <1>2 DEF Hitch
  <2>2. delta \in Nat
    BY PaceAssumption
  <2> QED  BY <2>1, <2>2, RunFrameKeeps
<1>3. CASE IntegratePong
  BY <1>3, IntegratePongKeeps
<1>4. CASE HandleInputTick
  <2>1. 0 \in Int /\ InputArrives(0)
    BY <1>4 DEF HandleInputTick
  <2> QED  BY <2>1, InputArrivesKeeps
<1>5. CASE ReorderedInput
  <2>1. 1 \in Int /\ InputArrives(1)
    BY <1>5 DEF ReorderedInput
  <2> QED  BY <2>1, InputArrivesKeeps
<1>6. CASE ServerTear
  BY <1>6, ServerTearKeeps
<1>7. CASE LosePong \/ SetSyncToPhysics \/ UNCHANGED paceVars
  <2>1. cli' = cli /\ held' = held /\ slewed' = slewed
    BY <1>7 DEF LosePong, SetSyncToPhysics, paceVars
  <2> QED  BY <2>1 DEF PaceInv, PaceShape, SamplesAreCurrent
<1> QED  BY <1>1, <1>2, <1>3, <1>4, <1>5, <1>6, <1>7 DEF PaceNext

\* The figures of the client's pacing are integers, its windows are within their
\* caps, and every stored sample describes the clocks as they stand.
THEOREM PaceInvariance == PaceSpec => []PaceInv
<1>1. PaceInit => PaceInv
  BY PaceInitHolds
<1>2. PaceInv /\ [PaceNext]_paceVars => PaceInv'
  BY PaceStepKeeps
<1> QED  BY <1>1, <1>2, PTL DEF PaceSpec

\* Whatever the stretch, a discard, a reseek, a torn server timeline or a late
\* pong did, a stored sample is the difference of the clocks now, up to the
\* error the link gave it.
THEOREM SamplesAreAlwaysCurrent == PaceSpec => []SamplesAreCurrent
<1>1. PaceInv => SamplesAreCurrent
  BY DEF PaceInv
<1> QED  BY <1>1, PaceInvariance, PTL

=============================================================================
