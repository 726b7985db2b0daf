--------------------------- MODULE RollbackProofs ---------------------------
(***************************************************************************)
(* Proofs about Rollback, for any poses, inputs and game code, any ring    *)
(* size, horizon, redundancy and batch within WindowAssumption, any delays *)
(* and any run of frames, datagrams and faults.                            *)
(*                                                                         *)
(* The module goes up from the rings: what a write, a look-up and the      *)
(* freshness ledger do; one simulated tick; a replay, as a run of them; a  *)
(* frame's batch; a block of input rows; a snapshot row.  Each is described*)
(* by an operator of its own (Fed, Replays, Ran, Prepared, Integrated,     *)
(* Receives) that says what an end keeps and what it gains, and the proofs *)
(* that an action keeps the invariant use nothing else about it.           *)
(*                                                                         *)
(* RollbackInv is the inductive invariant.  Exactness needs, besides       *)
(* itself, that no row of a ring is so far ahead that a lap could hide a   *)
(* tick yet to run; freshness, that the ledger's marks are the reads there *)
(* have been; and an orphaned body, that nothing the returned player sends *)
(* reaches a tick the server ran without it.                               *)
(***************************************************************************)
EXTENDS Rollback, FiniteSetTheorems, WellFoundedInduction, TLAPS

-----------------------------------------------------------------------------
(* Recurrences and extremes.                                               *)

(* A set of naturals that has a member has a least one.                    *)
LEMMA LeastMember ==
    ASSUME NEW S \in SUBSET Nat, S # {}
    PROVE  Min(S) \in S /\ \A y \in S : Min(S) <= y
<1>1. PICK x \in S : \A y \in S : ~(<<y, x>> \in OpToRel(<, Nat))
  BY NatLessThanWellFounded, WFMin
<1>2. \A y \in S : ~(y < x)
  BY <1>1 DEF OpToRel
<1>3. \A y \in S : x <= y
  BY <1>2
<1>4. QED
  BY <1>3 DEF Min

(* A set of naturals that something bounds has a greatest member.          *)
LEMMA GreatestMember ==
    ASSUME NEW S \in SUBSET Nat, S # {}, NEW n \in Nat, \A x \in S : x <= n
    PROVE  Max(S) \in S
<1> DEFINE D == {n - x : x \in S}
<1>0. \A x \in S : n - x \in Nat
  OBVIOUS
<1>1. D \in SUBSET Nat /\ D # {}
  BY <1>0
<1>2. PICK d \in D : \A y \in D : d <= y
  BY <1>1, LeastMember
<1>3. PICK x \in S : d = n - x
  BY <1>2
<1>4. \A y \in S : x >= y
  <2> TAKE y \in S
  <2>1. d <= n - y /\ x \in Nat /\ y \in Nat
    BY <1>2
  <2>2. QED
    BY <1>3, <2>1
<1>5. QED
  BY <1>4 DEF Max

\* f starts at `first` and goes on from each tick of lo .. hi to the next by G.
Solution(X, lo, hi, first, G, f) ==
    /\ f \in [lo .. hi -> X]
    /\ \A t \in lo .. hi : f[t] = IF t = lo THEN first ELSE G[t - 1][f[t - 1]]

(* A recurrence over an interval of ticks has a solution.                  *)
LEMMA RecurrenceHasSolution ==
    ASSUME NEW X, NEW lo \in Nat, NEW hi \in Nat, NEW a \in X, NEW G \in [Nat -> [X -> X]]
    PROVE  \E f : Solution(X, lo, hi, a, G, f)
<1> DEFINE Unsolved == {n \in Nat : ~ \E f : Solution(X, lo, lo + n, a, G, f)}
<1>1. 0 \notin Unsolved
  <2>1. [t \in lo .. lo |-> a] \in [lo .. lo + 0 -> X]
    OBVIOUS
  <2>2. Solution(X, lo, lo + 0, a, G, [t \in lo .. lo |-> a])
    BY <2>1 DEF Solution
  <2>3. QED
    BY <2>2
<1>2. ASSUME NEW n \in Nat, n \notin Unsolved PROVE n + 1 \notin Unsolved
  <2>1. PICK f : Solution(X, lo, lo + n, a, G, f)
    BY <1>2
  <2> DEFINE g == [t \in lo .. lo + (n + 1) |->
                     IF t = lo + (n + 1) THEN G[t - 1][f[t - 1]] ELSE f[t]]
  <2>2. lo + (n + 1) - 1 = lo + n /\ lo + n \in lo .. lo + n
    OBVIOUS
  <2>3. f \in [lo .. lo + n -> X] /\ f[lo + n] \in X
    BY <2>1, <2>2 DEF Solution
  <2>4. G[lo + n][f[lo + n]] \in X
    BY <2>3
  <2>5. g \in [lo .. lo + (n + 1) -> X]
    BY <2>2, <2>3, <2>4
  <2>6. ASSUME NEW t \in lo .. lo + (n + 1)
        PROVE  g[t] = IF t = lo THEN a ELSE G[t - 1][g[t - 1]]
    <3>1. CASE t = lo + (n + 1)
      BY <3>1, <2>2
    <3>2. CASE t # lo + (n + 1)
      <4>1. t \in lo .. lo + n /\ (t # lo => t - 1 \in lo .. lo + n)
        BY <3>2
      <4>2. f[t] = IF t = lo THEN a ELSE G[t - 1][f[t - 1]]
        BY <2>1, <4>1 DEF Solution
      <4>3. g[t] = f[t] /\ (t # lo => g[t - 1] = f[t - 1])
        BY <3>2, <4>1
      <4>4. QED
        BY <4>2, <4>3
    <3>3. QED
      BY <3>1, <3>2
  <2> HIDE DEF g
  <2>7. Solution(X, lo, lo + (n + 1), a, G, g)
    BY <2>5, <2>6 DEF Solution
  <2>8. QED
    BY <2>7
<1>3. Unsolved = {}
  <2> SUFFICES ASSUME Unsolved # {} PROVE FALSE
    OBVIOUS
  <2> HIDE DEF Unsolved
  <2>0. Unsolved \in SUBSET Nat
    BY DEF Unsolved
  <2>1. PICK m \in Unsolved : \A y \in Unsolved : m <= y
    BY <2>0, LeastMember
  <2>2. m \in Nat /\ m # 0
    BY <2>0, <2>1, <1>1
  <2>3. m - 1 \in Nat /\ ~(m <= m - 1) /\ (m - 1) + 1 = m
    BY <2>2
  <2>4. m - 1 \notin Unsolved
    BY <2>1, <2>3
  <2>5. (m - 1) + 1 \notin Unsolved
    BY <2>3, <2>4, <1>2
  <2>6. QED
    BY <2>1, <2>3, <2>5
<1>4. CASE lo <= hi
  <2>1. hi - lo \in Nat /\ lo + (hi - lo) = hi
    BY <1>4
  <2>2. \E f : Solution(X, lo, lo + (hi - lo), a, G, f)
    BY <1>3, <2>1
  <2>3. QED
    BY <2>1, <2>2
<1>5. CASE ~(lo <= hi)
  <2>1. lo .. hi = {}
    BY <1>5
  <2>2. [t \in lo .. hi |-> a] \in [lo .. hi -> X]
    OBVIOUS
  <2>3. Solution(X, lo, hi, a, G, [t \in lo .. hi |-> a])
    BY <2>1, <2>2 DEF Solution
  <2>4. QED
    BY <2>3
<1>6. QED
  BY <1>4, <1>5

(* The greatest of two and of three integers.                              *)
LEMMA GreaterOfTwo ==
    ASSUME NEW a \in Int, NEW b \in Int
    PROVE  Max({a, b}) = IF a >= b THEN a ELSE b
<1>1. CASE a >= b
  <2>1. \A y \in {a, b} : a >= y
    BY <1>1
  <2>2. \A x \in {a, b} : (\A y \in {a, b} : x >= y) => x = a
    BY <1>1
  <2>3. QED
    BY <1>1, <2>1, <2>2 DEF Max
<1>2. CASE ~(a >= b)
  <2>1. \A y \in {a, b} : b >= y
    BY <1>2
  <2>2. \A x \in {a, b} : (\A y \in {a, b} : x >= y) => x = b
    BY <1>2
  <2>3. QED
    BY <1>2, <2>1, <2>2 DEF Max
<1>3. QED
  BY <1>1, <1>2

(* The greatest of three is one of them and no less than any.              *)
LEMMA GreatestOfThree ==
    ASSUME NEW a \in Int, NEW b \in Int, NEW c \in Int
    PROVE  /\ Max({a, b, c}) \in Int
           /\ Max({a, b, c}) \in {a, b, c}
           /\ Max({a, b, c}) >= a /\ Max({a, b, c}) >= b /\ Max({a, b, c}) >= c
<1>1. \E x \in {a, b, c} : \A y \in {a, b, c} : x >= y
  <2>1. CASE a >= b /\ a >= c
    BY <2>1
  <2>2. CASE b >= a /\ b >= c
    BY <2>2
  <2>3. CASE c >= a /\ c >= b
    BY <2>3
  <2>4. QED
    BY <2>1, <2>2, <2>3
<1>2. Max({a, b, c}) \in {a, b, c} /\ \A y \in {a, b, c} : Max({a, b, c}) >= y
  BY <1>1 DEF Max
<1>3. QED
  BY <1>2

(* Two ticks of one slot are a lap or more apart.                          *)
LEMMA SlotsAreALapApart ==
    ASSUME NEW t \in Int, NEW u \in Int, Slot(u) = Slot(t), u > t
    PROVE  u >= t + Cap
<1> DEFINE q == t \div Cap
           p == u \div Cap
<1>1. Cap \in Nat \ {0}
  BY CapAssumption
<1>2. q \in Int /\ p \in Int /\ t = Cap * q + (t % Cap) /\ u = Cap * p + (u % Cap)
  BY <1>1, SMT
<1>3. t % Cap = u % Cap /\ t % Cap \in Int
  BY <1>1 DEF Slot
<1> HIDE DEF p, q
<1>4. u - t = Cap * (p - q)
  BY <1>1, <1>2, <1>3
<1>5. p - q >= 1
  <2>1. SUFFICES ASSUME p - q <= 0 PROVE FALSE
    BY <1>2
  <2>2. Cap * (p - q) <= 0
    BY <1>1, <1>2, <2>1
  <2>3. QED
    BY <1>4, <2>2
<1>6. Cap * (p - q) >= Cap
  BY <1>1, <1>2, <1>5
<1>7. QED
  BY <1>1, <1>4, <1>6

-----------------------------------------------------------------------------
(* Rings.                                                                  *)

Bounded == {S \in SUBSET Nat : \E n \in Nat : \A t \in S : t <= n}

Ring(X) == UNION {[S -> X] : S \in Bounded}

(* A ring is a function on ticks with a last one.                          *)
LEMMA RingIsFunction ==
    ASSUME NEW X, NEW ring \in Ring(X)
    PROVE  ring \in [DOMAIN ring -> X] /\ DOMAIN ring \in Bounded /\ DOMAIN ring \subseteq Nat
<1>1. PICK S \in Bounded : ring \in [S -> X]
  BY DEF Ring
<1>2. DOMAIN ring = S
  BY <1>1
<1>3. QED
  BY <1>1, <1>2 DEF Bounded

(* A function on finitely many ticks is a ring.                            *)
LEMMA FunctionIsRing ==
    ASSUME NEW X, NEW S \in Bounded, NEW f \in [S -> X]
    PROVE  f \in Ring(X)
  BY DEF Ring

(* The ring that was never written is one.                                 *)
LEMMA EmptyIsRing ==
    ASSUME NEW X PROVE EmptyRing \in Ring(X) /\ DOMAIN EmptyRing = {}
<1>1. {} \in Bounded
  BY DEF Bounded
<1>2. EmptyRing \in [{} -> X] /\ DOMAIN EmptyRing = {}
  BY DEF EmptyRing
<1>3. QED
  BY <1>1, <1>2, FunctionIsRing

(* The latest tick is a resident one, and none is later.                   *)
LEMMA LatestIsGreatest ==
    ASSUME NEW ring, DOMAIN ring \in Bounded
    PROVE  /\ LatestTick(ring) \in Int
           /\ DOMAIN ring # {} => LatestTick(ring) \in DOMAIN ring
           /\ \A t \in DOMAIN ring : t <= LatestTick(ring)
<1>1. DOMAIN ring \in Bounded /\ DOMAIN ring \subseteq Nat
  BY DEF Bounded
<1>2. CASE DOMAIN ring = {}
  BY <1>2 DEF LatestTick, NoTick
<1>3. CASE DOMAIN ring # {}
  <2>1. PICK n \in Nat : \A t \in DOMAIN ring : t <= n
    BY <1>1 DEF Bounded
  <2>2. \E x \in DOMAIN ring : \A y \in DOMAIN ring : x >= y
    <3> DEFINE D == {n - x : x \in DOMAIN ring}
    <3>2. D \in SUBSET Nat /\ D # {}
      BY <1>1, <1>3, <2>1
    <3>3. PICK d \in D : \A y \in D : d <= y
      BY <3>2, LeastMember
    <3>4. PICK x \in DOMAIN ring : d = n - x
      BY <3>3
    <3>5. ASSUME NEW y \in DOMAIN ring PROVE x >= y
      <4>1. d <= n - y /\ x \in Nat /\ y \in Nat
        BY <1>1, <3>3
      <4>2. QED
        BY <3>4, <4>1
    <3>6. QED
      BY <3>5
  <2>3. Max(DOMAIN ring) \in DOMAIN ring /\ \A y \in DOMAIN ring : Max(DOMAIN ring) >= y
    BY <2>2 DEF Max
  <2>4. QED
    BY <1>1, <1>3, <2>3 DEF LatestTick
<1>4. QED
  BY <1>2, <1>3

(* What a write leaves behind it is a set of ticks with a last one.        *)
LEMMA WrittenTicks ==
    ASSUME NEW ring, DOMAIN ring \in Bounded, NEW t \in Nat
    PROVE  Survivors(ring, t) \cup {t} \in Bounded
<1>1. DOMAIN ring \in Bounded /\ DOMAIN ring \subseteq Nat
  BY DEF Bounded
<1>2. PICK n \in Nat : \A u \in DOMAIN ring : u <= n
  BY <1>1 DEF Bounded
<1>3. \E m \in Nat : m >= n /\ m >= t
  OBVIOUS
<1>4. PICK m \in Nat : m >= n /\ m >= t
  BY <1>3
<1>5. \A u \in Survivors(ring, t) \cup {t} : u \in Nat /\ u <= m
  BY <1>1, <1>2, <1>4 DEF Survivors
<1>6. QED
  BY <1>5 DEF Bounded

(* A write changes no row but the one it writes, and what it writes is     *)
(* there unless a lap had passed it.                                       *)
LEMMA WrittenRows ==
    ASSUME NEW X, NEW ring \in Ring(X), NEW t \in Nat, NEW x \in X
    PROVE  /\ WriteRow(ring, t, x) \in Ring(X)
           /\ DOMAIN WriteRow(ring, t, x) \subseteq DOMAIN ring \cup {t}
           /\ \A u \in DOMAIN WriteRow(ring, t, x) :
                 u # t => WriteRow(ring, t, x)[u] = ring[u]
           /\ ~IsStale(ring, t) => t \in DOMAIN WriteRow(ring, t, x)
                                    /\ WriteRow(ring, t, x)[t] = x
           /\ IsStale(ring, t) => WriteRow(ring, t, x) = ring
<1>1. CASE IsStale(ring, t)
  BY <1>1, RingIsFunction DEF WriteRow
<1>2. CASE ~IsStale(ring, t)
  <2> DEFINE S == Survivors(ring, t) \cup {t}
             w == [u \in S |-> IF u = t THEN x ELSE ring[u]]
  <2>1. WriteRow(ring, t, x) = w
    BY <1>2 DEF WriteRow
  <2>2. S \in Bounded
    BY WrittenTicks, RingIsFunction
  <2>3. ring \in [DOMAIN ring -> X] /\ Survivors(ring, t) \subseteq DOMAIN ring
    BY RingIsFunction DEF Survivors
  <2>4. w \in [S -> X]
    BY <2>3
  <2>5. w \in Ring(X)
    BY <2>2, <2>4, FunctionIsRing
  <2>6. QED
    BY <1>2, <2>1, <2>3, <2>5
<1>3. QED
  BY <1>1, <1>2

(* A row less than a lap behind the latest is never stale.                 *)
LEMMA NearIsNotStale ==
    ASSUME NEW ring, DOMAIN ring \in Bounded, NEW t \in Nat, \A u \in DOMAIN ring : u < t + Cap
    PROVE  ~IsStale(ring, t)
<1>1. DOMAIN ring # {} => LatestTick(ring) \in DOMAIN ring /\ LatestTick(ring) \in Int
  BY LatestIsGreatest
<1>2. QED
  BY <1>1, CapAssumption DEF IsStale

(* The closest row is resident, at or before the tick and within a lap.    *)
LEMMA ClosestIsResident ==
    ASSUME NEW ring, DOMAIN ring \in Bounded, NEW t \in Nat
    PROVE  /\ ClosestTick(ring, t) \in Nat \cup {NoTick}
           /\ ClosestTick(ring, t) # NoTick =>
                /\ ClosestTick(ring, t) \in DOMAIN ring
                /\ ClosestTick(ring, t) <= t
                /\ t - Cap < ClosestTick(ring, t)
                /\ \A u \in DOMAIN ring : u <= t => u <= ClosestTick(ring, t)
           /\ ClosestTick(ring, t) = NoTick =>
                \A u \in DOMAIN ring : ~(t - Cap < u /\ u <= t)
<1> DEFINE A == AtOrBefore(ring, t)
<1>1. DOMAIN ring \subseteq Nat /\ Cap \in Nat
  BY CapAssumption DEF Bounded
<1>2. A \subseteq Nat /\ \A u \in A : u <= t
  BY <1>1 DEF AtOrBefore
<1>3. CASE A = {}
  BY <1>1, <1>3 DEF ClosestTick, AtOrBefore, NoTick
<1>4. CASE A # {}
  <2>1. [u \in A |-> u] \in [A -> Nat] /\ DOMAIN [u \in A |-> u] = A
    BY <1>2
  <2>2. A \in Bounded
    BY <1>2 DEF Bounded
  <2>3. Max(A) \in A /\ \A u \in A : u <= Max(A)
    <3> DEFINE f == [u \in A |-> u]
    <3>1. LatestTick(f) \in A /\ \A u \in A : u <= LatestTick(f)
      BY <1>4, <2>1, <2>2, LatestIsGreatest
    <3>2. LatestTick(f) = Max(A)
      BY <1>4, <2>1 DEF LatestTick
    <3>3. QED
      BY <3>1, <3>2
  <2>4. ClosestTick(ring, t) = Max(A)
    BY <1>4 DEF ClosestTick
  <2>5. /\ Max(A) \in DOMAIN ring /\ Max(A) \in Nat /\ Max(A) <= t /\ t - Cap < Max(A)
        /\ \A u \in DOMAIN ring : u <= t => u <= Max(A)
    <3>1. Max(A) \in DOMAIN ring /\ Max(A) \in Nat /\ Max(A) <= t /\ t - Cap < Max(A)
      BY <1>1, <2>3 DEF AtOrBefore
    <3>2. ASSUME NEW u \in DOMAIN ring, u <= t PROVE u <= Max(A)
      <4>1. CASE t - Cap < u
        BY <2>3, <3>2, <4>1 DEF AtOrBefore
      <4>2. CASE ~(t - Cap < u)
        BY <1>1, <3>1, <4>2
      <4>3. QED
        BY <4>1, <4>2
    <3>3. QED
      BY <3>1, <3>2
  <2> HIDE DEF A
  <2>6. QED
    BY <2>4, <2>5 DEF NoTick
<1>5. QED
  BY <1>3, <1>4

(* A tick with a row of its own resolves to it.                            *)
LEMMA ResidentIsClosest ==
    ASSUME NEW ring, DOMAIN ring \in Bounded, NEW t \in DOMAIN ring
    PROVE  ClosestTick(ring, t) = t
<1>1. t \in Nat /\ Cap \in Nat /\ Cap >= 2
  BY CapAssumption DEF Bounded
<1>2. ClosestTick(ring, t) # NoTick
  BY <1>1, ClosestIsResident
<1>3. ClosestTick(ring, t) \in Nat /\ ClosestTick(ring, t) <= t /\ t <= ClosestTick(ring, t)
  BY <1>1, <1>2, ClosestIsResident
<1>4. QED
  BY <1>1, <1>3

(* A row written after tick u leaves u the row it resolves to, unless that *)
(* one was a lap behind the new row.                                       *)
LEMMA LaterRowsKeepTheClosest ==
    ASSUME NEW X, NEW ring \in Ring(X), NEW s \in Nat, NEW x \in X, NEW u \in Nat, u < s,
           ClosestTick(WriteRow(ring, s, x), u) # NoTick,
           ClosestTick(WriteRow(ring, s, x), u) > s - Cap
    PROVE  /\ ClosestTick(ring, u) = ClosestTick(WriteRow(ring, s, x), u)
           /\ WriteRow(ring, s, x)[ClosestTick(ring, u)] = ring[ClosestTick(ring, u)]
<1> DEFINE w == WriteRow(ring, s, x)
           c == ClosestTick(w, u)
           b == ClosestTick(ring, u)
<1>1. w \in Ring(X) /\ DOMAIN w \subseteq DOMAIN ring \cup {s}
      /\ \A v \in DOMAIN w : v # s => w[v] = ring[v]
  BY WrittenRows
<1>2. /\ DOMAIN ring \in Bounded /\ DOMAIN ring \subseteq Nat
      /\ DOMAIN w \in Bounded /\ DOMAIN w \subseteq Nat /\ Cap \in Nat
  BY <1>1, RingIsFunction, CapAssumption
<1>3. /\ c \in Nat /\ c \in DOMAIN w /\ c <= u /\ u - Cap < c /\ c > s - Cap
      /\ \A v \in DOMAIN w : v <= u => v <= c
  BY <1>2, ClosestIsResident
<1>4. c \in DOMAIN ring /\ c # s
  BY <1>1, <1>2, <1>3
<1>5. /\ b \in Nat /\ b \in DOMAIN ring /\ b <= u
      /\ \A v \in DOMAIN ring : v <= u => v <= b
  <2>1. b # NoTick
    BY <1>2, <1>3, <1>4, ClosestIsResident
  <2>2. QED
    BY <1>2, <2>1, ClosestIsResident
<1>6. b \in DOMAIN w
  <2> SUFFICES ASSUME b \notin DOMAIN w PROVE FALSE
    OBVIOUS
  <2>1. ~IsStale(ring, s) /\ DOMAIN w = Survivors(ring, s) \cup {s}
    BY <1>5 DEF WriteRow
  <2>2. Slot(b) = Slot(s)
    BY <1>5, <2>1 DEF Survivors
  <2>3. b < s
    BY <1>5
  <2>4. s >= b + Cap
    BY <1>5, <2>2, <2>3, SlotsAreALapApart
  <2>5. c <= b
    BY <1>3, <1>4, <1>5
  <2>6. QED
    BY <1>2, <1>3, <1>5, <2>4, <2>5
<1>7. b = c
  <2>1. b <= c /\ c <= b
    BY <1>3, <1>4, <1>5, <1>6
  <2>2. QED
    BY <1>3, <1>5, <2>1
<1> HIDE DEF w, c, b
<1>8. ring[b] = w[b]
  BY <1>1, <1>4, <1>6, <1>7
<1>9. QED
  BY <1>7, <1>8 DEF w, c, b

-----------------------------------------------------------------------------
(* The freshness ledger.                                                   *)

Confidences == {Predicted, Extrapolated, Authoritative}

Entry == [confidence : Confidences, consumed : BOOLEAN]

(* Raising the confidence of a tick touches no other entry but those the   *)
(* tick overtakes in its slot; the tick keeps what it had consumed, and is *)
(* authoritative only if it was or is made so.                             *)
LEMMA ConfidenceIsRaised ==
    ASSUME NEW ledger \in Ring(Entry), NEW t \in Nat, NEW c \in Confidences
    PROVE  LET raised == SetConfidence(ledger, t, c)
           IN  /\ raised \in Ring(Entry)
               /\ DOMAIN raised \subseteq DOMAIN ledger \cup {t}
               /\ \A u \in DOMAIN raised : u # t => raised[u] = ledger[u]
               /\ \A u \in DOMAIN ledger \ DOMAIN raised :
                     Slot(u) = Slot(t) /\ u < t /\ t \in DOMAIN raised
               /\ t \in DOMAIN raised
                     => (raised[t].consumed <=> (t \in DOMAIN ledger /\ ledger[t].consumed))
               /\ t \in DOMAIN raised /\ raised[t].confidence = Authoritative
                     => \/ c = Authoritative
                        \/ t \in DOMAIN ledger /\ ledger[t].confidence = Authoritative
               /\ t \in DOMAIN ledger
                     => /\ t \in DOMAIN raised
                        /\ ledger[t].confidence = Authoritative
                             => raised[t].confidence = Authoritative
               /\ t \in DOMAIN raised \ DOMAIN ledger
                     => ~ \E u \in DOMAIN ledger : Slot(u) = Slot(t) /\ u > t
               /\ (~ \E u \in DOMAIN ledger : Slot(u) = Slot(t) /\ u > t)
                     => /\ t \in DOMAIN raised
                        /\ c = Authoritative => raised[t].confidence = Authoritative
<1> DEFINE raised == SetConfidence(ledger, t, c)
           Overtaken == \E u \in DOMAIN ledger : Slot(u) = Slot(t) /\ u > t
<1>1. /\ ledger \in [DOMAIN ledger -> Entry] /\ DOMAIN ledger \subseteq Nat
      /\ DOMAIN ledger \in Bounded
  BY RingIsFunction
<1>2. CASE Overtaken
  <2>1. raised = ledger
    BY <1>2 DEF SetConfidence
  <2> HIDE DEF raised
  <2>2. \A u \in DOMAIN raised : raised[u] = ledger[u]
    BY <2>1
  <2>3. t \in DOMAIN raised => (raised[t].consumed <=> (t \in DOMAIN ledger /\ ledger[t].consumed))
    BY <2>1, Zenon
  <2>4. QED
    BY <1>2, <2>1, <2>2, <2>3, Zenon DEF raised
<1>3. CASE ~Overtaken
  <2> DEFINE S == Survivors(ledger, t) \cup {t}
             mine == IF t \in DOMAIN ledger
                     THEN [ledger[t] EXCEPT !.confidence = Max({@, c})]
                     ELSE [confidence |-> c, consumed |-> FALSE]
             f == [u \in S |-> IF u # t THEN ledger[u] ELSE mine]
  <2>1. raised = f
    BY <1>3 DEF SetConfidence
  <2>2. S \in Bounded /\ Survivors(ledger, t) \subseteq DOMAIN ledger
    BY <1>1, WrittenTicks DEF Survivors
  <2>3. /\ mine \in Entry
        /\ mine.consumed <=> (t \in DOMAIN ledger /\ ledger[t].consumed)
        /\ mine.confidence = Authoritative
             => \/ c = Authoritative
                \/ t \in DOMAIN ledger /\ ledger[t].confidence = Authoritative
        /\ c = Authoritative => mine.confidence = Authoritative
        /\ t \in DOMAIN ledger /\ ledger[t].confidence = Authoritative
             => mine.confidence = Authoritative
    <3>1. CASE t \in DOMAIN ledger
      <4>1. ledger[t] \in Entry
        BY <1>1, <3>1
      <4>2. PICK a \in Confidences, b \in BOOLEAN : ledger[t] = [confidence |-> a, consumed |-> b]
        BY <4>1 DEF Entry
      <4>3. a \in Int /\ c \in Int /\ a <= 2 /\ c <= 2
        BY DEF Confidences, Predicted, Extrapolated, Authoritative
      <4>4. Max({a, c}) = IF a >= c THEN a ELSE c
        BY <4>3, GreaterOfTwo
      <4>5. mine = [confidence |-> Max({a, c}), consumed |-> b]
        BY <3>1, <4>2
      <4>6. Max({a, c}) \in Confidences /\ (c = Authoritative => Max({a, c}) = Authoritative)
            /\ (Max({a, c}) = Authoritative => c = Authoritative \/ a = Authoritative)
            /\ (a = Authoritative => Max({a, c}) = Authoritative)
        BY <4>3, <4>4 DEF Authoritative
      <4> HIDE DEF mine
      <4>7. QED
        BY <3>1, <4>2, <4>5, <4>6 DEF Entry
    <3>2. CASE t \notin DOMAIN ledger
      <4>1. mine = [confidence |-> c, consumed |-> FALSE]
        BY <3>2
      <4>2. FALSE \in BOOLEAN
        OBVIOUS
      <4> HIDE DEF mine
      <4>3. mine \in Entry
        BY <4>1, <4>2 DEF Entry
      <4>4. QED
        BY <3>2, <4>1, <4>3
    <3>3. QED
      BY <3>1, <3>2
  <2> HIDE DEF mine
  <2>4. f \in [S -> Entry]
    BY <1>1, <2>2, <2>3
  <2>5. f \in Ring(Entry)
    BY <2>2, <2>4, FunctionIsRing
  <2>6. ASSUME NEW u \in DOMAIN ledger \ S PROVE Slot(u) = Slot(t) /\ u < t
    <3>1. Slot(u) = Slot(t) /\ u # t
      BY <2>6 DEF Survivors
    <3>2. ~(u > t)
      BY <1>3, <3>1
    <3>3. QED
      BY <1>1, <3>1, <3>2
  <2>7. QED
    BY <1>3, <2>1, <2>2, <2>3, <2>5, <2>6
<1>4. QED
  BY <1>2, <1>3

(* A pass that reads fresh marks the tick consumed and changes nothing     *)
(* else; any other pass changes nothing.                                   *)
LEMMA PassConsumes ==
    ASSUME NEW ledger \in Ring(Entry), NEW t \in Nat
    PROVE  /\ BeginSim(ledger, t) \in Ring(Entry)
           /\ DOMAIN BeginSim(ledger, t) = DOMAIN ledger
           /\ \A u \in DOMAIN ledger : u # t => BeginSim(ledger, t)[u] = ledger[u]
           /\ IsFresh(ledger, t) => t \in DOMAIN ledger /\ ~ledger[t].consumed
           /\ t \in DOMAIN ledger =>
                /\ BeginSim(ledger, t)[t].confidence = ledger[t].confidence
                /\ BeginSim(ledger, t)[t].consumed <=> (ledger[t].consumed \/ IsFresh(ledger, t))
                /\ ledger[t].confidence = Authoritative => BeginSim(ledger, t)[t].consumed
<1>1. ledger \in [DOMAIN ledger -> Entry] /\ DOMAIN ledger \in Bounded
  BY RingIsFunction
<1>2. IsFresh(ledger, t) => t \in DOMAIN ledger /\ ~ledger[t].consumed
  BY DEF IsFresh, Confidence, Predicted, Authoritative
<1>3. CASE IsFresh(ledger, t)
  <2>1. ledger[t] \in Entry
    BY <1>1, <1>2, <1>3
  <2> DEFINE spent == [ledger[t] EXCEPT !.consumed = TRUE]
  <2>4. BeginSim(ledger, t) = [ledger EXCEPT ![t] = spent]
    BY <1>3 DEF BeginSim
  <2>5. spent \in Entry /\ spent.confidence = ledger[t].confidence /\ spent.consumed = TRUE
    BY <2>1 DEF Entry
  <2> HIDE DEF spent
  <2>6. [ledger EXCEPT ![t] = spent] \in [DOMAIN ledger -> Entry]
    BY <1>1, <2>5
  <2>7. QED
    BY <1>1, <1>2, <1>3, <2>4, <2>5, <2>6, FunctionIsRing
<1>4. CASE ~IsFresh(ledger, t)
  <2>1. BeginSim(ledger, t) = ledger
    BY <1>4 DEF BeginSim
  <2>2. t \in DOMAIN ledger /\ ledger[t].confidence = Authoritative => ledger[t].consumed
    BY <1>4 DEF IsFresh, Confidence
  <2>3. QED
    BY <1>2, <1>4, <2>1, <2>2
<1>5. QED
  BY <1>3, <1>4

\* The ledger has counted the ticks of S as read: a resident tick is consumed
\* exactly if it is one of them, and a tick of S that is gone was overtaken.
Reads(ledger, S) ==
    /\ \A t \in DOMAIN ledger : ledger[t].consumed <=> t \in S
    /\ \A t \in S \ DOMAIN ledger : \E u \in DOMAIN ledger : Slot(u) = Slot(t) /\ u > t

(* What counts as read is untouched by a confidence.                       *)
LEMMA ConfidenceKeepsReads ==
    ASSUME NEW ledger \in Ring(Entry), NEW t \in Nat, NEW c \in Confidences,
           NEW S \in SUBSET Nat, Reads(ledger, S)
    PROVE  Reads(SetConfidence(ledger, t, c), S)
<1> DEFINE raised == SetConfidence(ledger, t, c)
<1>1. /\ DOMAIN raised \subseteq DOMAIN ledger \cup {t}
      /\ \A u \in DOMAIN raised : u # t => raised[u] = ledger[u]
      /\ \A u \in DOMAIN ledger \ DOMAIN raised : Slot(u) = Slot(t) /\ u < t /\ t \in DOMAIN raised
      /\ t \in DOMAIN raised => (raised[t].consumed <=> (t \in DOMAIN ledger /\ ledger[t].consumed))
      /\ t \in DOMAIN raised \ DOMAIN ledger
            => ~ \E u \in DOMAIN ledger : Slot(u) = Slot(t) /\ u > t
      /\ DOMAIN ledger \subseteq Nat
  BY ConfidenceIsRaised, RingIsFunction
<1> HIDE DEF raised
<1>2. ASSUME NEW u \in DOMAIN raised PROVE raised[u].consumed <=> u \in S
  <2>1. CASE u # t
    BY <1>1, <1>2, <2>1 DEF Reads
  <2>2. CASE u = t /\ t \in DOMAIN ledger
    BY <1>1, <1>2, <2>2 DEF Reads
  <2>3. CASE u = t /\ t \notin DOMAIN ledger
    BY <1>1, <1>2, <2>3 DEF Reads
  <2>4. QED
    BY <2>1, <2>2, <2>3
<1>3. ASSUME NEW u \in S \ DOMAIN raised
      PROVE  \E v \in DOMAIN raised : Slot(v) = Slot(u) /\ v > u
  <2>1. CASE u \in DOMAIN ledger
    BY <1>1, <1>3, <2>1
  <2>2. CASE u \notin DOMAIN ledger
    <3>1. PICK v \in DOMAIN ledger : Slot(v) = Slot(u) /\ v > u
      BY <1>3, <2>2 DEF Reads
    <3>2. CASE v \in DOMAIN raised
      BY <3>1, <3>2
    <3>3. CASE v \notin DOMAIN raised
      <4>1. Slot(v) = Slot(t) /\ v < t /\ t \in DOMAIN raised
        BY <1>1, <3>3
      <4>2. Slot(t) = Slot(u) /\ t > u
        BY <1>1, <3>1, <4>1
      <4>3. QED
        BY <4>1, <4>2
    <3>4. QED
      BY <3>2, <3>3
  <2>3. QED
    BY <2>1, <2>2
<1>4. QED
  BY <1>2, <1>3 DEF Reads, raised

(* A pass reads fresh only what was never read, and is then counted.       *)
LEMMA PassIsCounted ==
    ASSUME NEW ledger \in Ring(Entry), NEW t \in Nat, NEW S \in SUBSET Nat, Reads(ledger, S)
    PROVE  /\ IsFresh(ledger, t) => t \notin S
           /\ Reads(BeginSim(ledger, t), S \cup {u \in {t} : IsFresh(ledger, t)})
<1> DEFINE begun == BeginSim(ledger, t)
<1>1. /\ DOMAIN begun = DOMAIN ledger
      /\ \A u \in DOMAIN ledger : u # t => begun[u] = ledger[u]
      /\ IsFresh(ledger, t) => t \in DOMAIN ledger /\ ~ledger[t].consumed
      /\ t \in DOMAIN ledger => (begun[t].consumed <=> (ledger[t].consumed \/ IsFresh(ledger, t)))
  BY PassConsumes
<1> HIDE DEF begun
<1>2. QED
  BY <1>1 DEF Reads, begun

-----------------------------------------------------------------------------
(* Ends.                                                                   *)

Tick == Nat \cup {NoTick}

EndState ==
    [tick    : Nat,
     states  : Ring(Poses),
     inputs  : Ring(Inputs),
     ledger  : Ring(Entry),
     dirty   : Tick,
     authSim : Nat,
     latest  : Tick,
     pending : SUBSET Poses,
     pose    : Poses,
     node    : Inputs]

(* The row a tick resolves to is an input row.                             *)
LEMMA InputAtShape ==
    ASSUME NEW end \in EndState, NEW t \in Nat
    PROVE  InputAt(end, t) \in Inputs
<1>1. end.inputs \in Ring(Inputs) /\ end.node \in Inputs
  BY DEF EndState
<1>2. end.inputs \in [DOMAIN end.inputs -> Inputs] /\ DOMAIN end.inputs \in Bounded
  BY <1>1, RingIsFunction
<1>3. ClosestTick(end.inputs, t) # NoTick => ClosestTick(end.inputs, t) \in DOMAIN end.inputs
  BY <1>2, ClosestIsResident
<1>4. QED
  BY <1>1, <1>2, <1>3 DEF InputAt

(* What restoring a tick changes.                                          *)
LEMMA RestoreEffect ==
    ASSUME NEW end \in EndState, NEW t \in Nat
    PROVE  LET ready == RestoreTick(end, t)
           IN  /\ ready \in EndState
               /\ ready.tick = end.tick /\ ready.states = end.states
               /\ ready.inputs = end.inputs /\ ready.dirty = end.dirty
               /\ ready.authSim = end.authSim /\ ready.latest = end.latest
               /\ ready.pending = end.pending
               /\ ready.pose = IF t \in DOMAIN end.states THEN end.states[t] ELSE end.pose
               /\ ready.node = InputAt(end, t)
               /\ \/ ready.ledger = end.ledger
                  \/ ready.ledger = SetConfidence(end.ledger, t, Extrapolated)
<1> DEFINE pose == IF t \in DOMAIN end.states THEN end.states[t] ELSE end.pose
           node == InputAt(end, t)
           ledger == IF ClosestTick(end.inputs, t) \in {NoTick, t} THEN end.ledger
                     ELSE SetConfidence(end.ledger, t, Extrapolated)
           ready == [end EXCEPT !.pose = pose, !.node = node, !.ledger = ledger]
<1>1. RestoreTick(end, t) = ready
  BY DEF RestoreTick
<1>2. pose \in Poses
  <2>1. end.states \in Ring(Poses) /\ end.pose \in Poses
    BY DEF EndState
  <2>2. end.states \in [DOMAIN end.states -> Poses]
    BY <2>1, RingIsFunction
  <2>3. QED
    BY <2>1, <2>2
<1>3. node \in Inputs
  BY InputAtShape
<1>4. ledger \in Ring(Entry)
      /\ \/ ledger = end.ledger
         \/ ledger = SetConfidence(end.ledger, t, Extrapolated)
  <2>1. end.ledger \in Ring(Entry)
    BY DEF EndState
  <2>2. SetConfidence(end.ledger, t, Extrapolated) \in Ring(Entry)
    BY <2>1, ConfidenceIsRaised DEF Confidences
  <2>3. QED
    BY <2>1, <2>2
<1> HIDE DEF pose, node, ledger
<1>5. ready \in EndState
  BY <1>2, <1>3, <1>4 DEF EndState
<1>6. /\ ready.tick = end.tick /\ ready.states = end.states
      /\ ready.inputs = end.inputs /\ ready.dirty = end.dirty
      /\ ready.authSim = end.authSim /\ ready.latest = end.latest
      /\ ready.pending = end.pending
      /\ ready.pose = pose /\ ready.node = node /\ ready.ledger = ledger
  BY DEF EndState
<1> HIDE DEF ready
<1>7. QED
  BY <1>1, <1>4, <1>5, <1>6 DEF pose, node

(* What simulating a tick changes.                                         *)
LEMMA SimulateEffect ==
    ASSUME NEW end \in EndState, NEW t \in Nat, NEW owns \in BOOLEAN
    PROVE  LET ready == RestoreTick(end, t)
               done  == SimulateTick(end, t, owns)
           IN  /\ done \in EndState
               /\ done.tick = end.tick /\ done.inputs = end.inputs /\ done.dirty = end.dirty
               /\ done.pending = end.pending
               /\ done.ledger = BeginSim(ready.ledger, t)
               /\ done.states = WriteRow(end.states, t + 1, Step(ready.pose, ready.node))
               /\ done.authSim = IF owns /\ Confidence(done.ledger, t) = Authoritative
                                    /\ end.authSim < t + 1
                                 THEN t + 1 ELSE end.authSim
               /\ ~owns => done.latest = end.latest
<1> DEFINE ready == RestoreTick(end, t)
           begun == [ready EXCEPT !.ledger = BeginSim(ready.ledger, t)]
           pose == Step(begun.pose, begun.node)
           moved == [begun EXCEPT !.pose = pose]
           certain == owns /\ Confidence(moved.ledger, t) = Authoritative
           states == WriteRow(moved.states, t + 1, moved.pose)
           authSim == IF certain THEN Max({moved.authSim, t + 1}) ELSE moved.authSim
           latest == IF certain THEN Max({moved.latest, t + 1}) ELSE moved.latest
           done == [moved EXCEPT !.states = states, !.authSim = authSim, !.latest = latest]
<1>1. SimulateTick(end, t, owns) = done
  BY DEF SimulateTick, RecordTick
<1>2. /\ ready \in EndState
      /\ ready.tick = end.tick /\ ready.states = end.states
      /\ ready.inputs = end.inputs /\ ready.dirty = end.dirty
      /\ ready.authSim = end.authSim /\ ready.latest = end.latest
      /\ ready.pending = end.pending
  BY RestoreEffect
<1> HIDE DEF ready
<1>3. begun \in EndState /\ begun.ledger = BeginSim(ready.ledger, t)
      /\ begun.tick = end.tick /\ begun.states = end.states
      /\ begun.inputs = end.inputs /\ begun.dirty = end.dirty
      /\ begun.authSim = end.authSim /\ begun.latest = end.latest
      /\ begun.pending = end.pending /\ begun.pose = ready.pose /\ begun.node = ready.node
  <2>1. ready.ledger \in Ring(Entry)
    BY <1>2 DEF EndState
  <2>2. BeginSim(ready.ledger, t) \in Ring(Entry)
    BY <2>1, PassConsumes
  <2>3. QED
    BY <1>2, <2>2 DEF EndState
<1> HIDE DEF begun
<1>4. pose \in Poses
  <2>1. begun.pose \in Poses /\ begun.node \in Inputs
    BY <1>3 DEF EndState
  <2>2. QED
    BY <2>1, StepAssumption
<1> HIDE DEF pose
<1>5. moved \in EndState /\ moved.ledger = begun.ledger /\ moved.pose = pose
      /\ moved.tick = end.tick /\ moved.states = end.states
      /\ moved.inputs = end.inputs /\ moved.dirty = end.dirty
      /\ moved.authSim = end.authSim /\ moved.latest = end.latest
      /\ moved.pending = end.pending
  BY <1>3, <1>4 DEF EndState
<1> HIDE DEF moved
<1>6. states \in Ring(Poses)
  <2>1. moved.states \in Ring(Poses) /\ moved.pose \in Poses /\ t + 1 \in Nat
    BY <1>5 DEF EndState
  <2>2. QED
    BY <2>1, WrittenRows
<1>7. /\ authSim \in Nat /\ latest \in Tick
      /\ authSim = IF certain /\ moved.authSim < t + 1 THEN t + 1 ELSE moved.authSim
      /\ ~certain => latest = moved.latest
  <2>1. moved.authSim \in Nat /\ moved.latest \in Tick /\ moved.latest \in Int /\ t + 1 \in Nat
    BY <1>5 DEF EndState, Tick, NoTick
  <2>2. /\ Max({moved.authSim, t + 1}) = IF moved.authSim >= t + 1 THEN moved.authSim ELSE t + 1
        /\ Max({moved.latest, t + 1}) = IF moved.latest >= t + 1 THEN moved.latest ELSE t + 1
    BY <2>1, GreaterOfTwo
  <2> HIDE DEF certain
  <2>3. QED
    BY <2>1, <2>2 DEF Tick
<1> HIDE DEF states, authSim, latest
<1>8. done \in EndState /\ done.ledger = moved.ledger
      /\ done.tick = end.tick /\ done.inputs = end.inputs /\ done.dirty = end.dirty
      /\ done.pending = end.pending
      /\ done.states = states /\ done.authSim = authSim /\ done.latest = latest
  BY <1>5, <1>6, <1>7 DEF EndState
<1> HIDE DEF done
<1>9. done.states = WriteRow(end.states, t + 1, Step(ready.pose, ready.node))
  BY <1>3, <1>5, <1>8 DEF states, pose
<1>10. QED
  BY <1>1, <1>3, <1>5, <1>7, <1>8, <1>9 DEF ready

-----------------------------------------------------------------------------
(* A replay.                                                               *)

(* What holds at the first tick of an interval and passes from each tick   *)
(* to the next holds over the interval.                                    *)
LEMMA IntervalInduction ==
    ASSUME NEW from \in Nat, NEW to \in Nat, NEW S,
           from <= to => from \in S, \A t \in from .. to : t < to /\ t \in S => t + 1 \in S
    PROVE  \A t \in from .. to : t \in S
<1> DEFINE Bad == {t \in from .. to : t \notin S}
<1>1. SUFFICES ASSUME Bad # {} PROVE FALSE
  OBVIOUS
<1>2. Bad \in SUBSET Nat
  OBVIOUS
<1>3. PICK m \in Bad : \A y \in Bad : m <= y
  BY <1>1, <1>2, LeastMember
<1>4. m \in from .. to /\ m \notin S /\ m # from
  BY <1>3
<1>5. m - 1 \in from .. to /\ m - 1 < to /\ (m - 1) + 1 = m /\ ~(m <= m - 1)
  BY <1>4
<1>6. m - 1 \notin Bad
  BY <1>3, <1>5
<1>7. m - 1 \in S
  BY <1>5, <1>6
<1>8. QED
  BY <1>4, <1>5, <1>7

(* A replay is the ends it passes through, one tick after the other.       *)
LEMMA ReplayIsARun ==
    ASSUME NEW end \in EndState, NEW from \in Nat, NEW to \in Nat, from <= to, NEW owns \in BOOLEAN
    PROVE  LET run == Simulated(end, from, to, owns)
           IN  /\ run \in [from .. to -> EndState]
               /\ run[from] = end
               /\ \A t \in from .. to : t < to => run[t + 1] = SimulateTick(run[t], t, owns)
<1> DEFINE Solves(f) == f = [t \in from .. to |->
                               IF t = from THEN end ELSE SimulateTick(f[t - 1], t - 1, owns)]
           G == [t \in Nat |-> [e \in EndState |-> SimulateTick(e, t, owns)]]
           run == Simulated(end, from, to, owns)
<1>1. run = CHOOSE f : Solves(f)
  BY DEF Simulated
<1>2. G \in [Nat -> [EndState -> EndState]]
  BY SimulateEffect
<1>3. PICK g : Solution(EndState, from, to, end, G, g)
  <2> HIDE DEF G
  <2>1. QED
    BY <1>2, RecurrenceHasSolution
<1>4. Solves(g)
  <2>1. ASSUME NEW t \in from .. to
        PROVE  g[t] = IF t = from THEN end ELSE SimulateTick(g[t - 1], t - 1, owns)
    <3>1. g \in [from .. to -> EndState]
          /\ g[t] = IF t = from THEN end ELSE G[t - 1][g[t - 1]]
      BY <1>3 DEF Solution
    <3>2. t # from => t - 1 \in Nat /\ t - 1 \in from .. to
      OBVIOUS
    <3>3. t # from => G[t - 1][g[t - 1]] = SimulateTick(g[t - 1], t - 1, owns)
      BY <3>1, <3>2
    <3>4. QED
      BY <3>1, <3>3
  <2> DEFINE h == [t \in from .. to |-> IF t = from THEN end ELSE SimulateTick(g[t - 1], t - 1, owns)]
  <2>2. \A t \in from .. to : g[t] = h[t]
    BY <2>1
  <2>3. g = h
    BY <1>3, <2>2 DEF Solution
  <2>4. QED
    BY <2>3
<1>5. Solves(run)
  <2> HIDE DEF Solves, run
  <2>1. QED
    BY <1>1, <1>4
<1> HIDE DEF run
<1>6. DOMAIN run = from .. to /\ run = [t \in from .. to |-> run[t]]
  BY <1>5
<1>7. run[from] = end
  BY <1>5
<1>8. ASSUME NEW t \in from .. to, t < to PROVE run[t + 1] = SimulateTick(run[t], t, owns)
  <2>1. t + 1 \in from .. to /\ t + 1 # from /\ (t + 1) - 1 = t
    BY <1>8
  <2>2. run[t + 1] = IF t + 1 = from THEN end ELSE SimulateTick(run[(t + 1) - 1], (t + 1) - 1, owns)
    BY <1>5, <2>1
  <2>3. QED
    BY <2>1, <2>2
<1>9. \A t \in from .. to : run[t] \in EndState
  <2> DEFINE S == {t \in from .. to : run[t] \in EndState}
  <2>1. from \in S
    BY <1>7
  <2>2. ASSUME NEW t \in from .. to, t < to, t \in S PROVE t + 1 \in S
    <3>1. SimulateTick(run[t], t, owns) \in EndState
      <4>1. t \in Nat /\ run[t] \in EndState
        BY <2>2
      <4>2. QED
        BY <4>1, SimulateEffect
    <3>2. t + 1 \in from .. to
      BY <2>2
    <3>3. QED
      BY <1>8, <2>2, <3>1, <3>2
  <2> HIDE DEF S
  <2>3. \A t \in from .. to : t \in S
    BY <2>1, <2>2, IntervalInduction
  <2>4. QED
    BY <2>3 DEF S
<1>10. run \in [from .. to -> EndState]
  BY <1>6, <1>9
<1>11. QED
  BY <1>7, <1>8, <1>10 DEF run

(* A replay moves rows, ledger and frontier; the rest of the end rests.    *)
LEMMA ReplayKeepsTheRest ==
    ASSUME NEW end \in EndState, NEW from \in Nat, NEW to \in Nat, from <= to, NEW owns \in BOOLEAN
    PROVE  \A t \in from .. to :
             LET run == Simulated(end, from, to, owns)
             IN  /\ run[t].tick = end.tick /\ run[t].inputs = end.inputs
                 /\ run[t].dirty = end.dirty /\ run[t].pending = end.pending
                 /\ ~owns => run[t].latest = end.latest
<1> DEFINE run == Simulated(end, from, to, owns)
           Rests(t) == /\ run[t].tick = end.tick /\ run[t].inputs = end.inputs
                       /\ run[t].dirty = end.dirty /\ run[t].pending = end.pending
                       /\ ~owns => run[t].latest = end.latest
           S == {t \in from .. to : Rests(t)}
<1>1. /\ run \in [from .. to -> EndState] /\ run[from] = end
      /\ \A t \in from .. to : t < to => run[t + 1] = SimulateTick(run[t], t, owns)
  BY ReplayIsARun
<1> HIDE DEF run
<1>2. from \in S
  BY <1>1
<1>3. ASSUME NEW t \in from .. to, t < to, t \in S PROVE t + 1 \in S
  <2>1. run[t] \in EndState /\ t \in Nat /\ t + 1 \in from .. to
    BY <1>1, <1>3
  <2> DEFINE done == SimulateTick(run[t], t, owns)
  <2>2. /\ done.tick = run[t].tick /\ done.inputs = run[t].inputs /\ done.dirty = run[t].dirty
        /\ done.pending = run[t].pending
        /\ ~owns => done.latest = run[t].latest
    BY <2>1, SimulateEffect
  <2>3. run[t + 1] = done
    BY <1>1, <1>3
  <2> HIDE DEF done
  <2>4. QED
    BY <1>3, <2>1, <2>2, <2>3
<1>4. \A t \in from .. to : t \in S
  <2> HIDE DEF S
  <2>1. QED
    BY <1>2, <1>3, IntervalInduction
<1>5. QED
  BY <1>4 DEF run

\* The ticks below t that a replay of `run` from `from` read fresh.
FreshIn(run, from, t) ==
    {u \in from .. t - 1 : IsFresh(RestoreTick(run[u], u).ledger, u)}

\* The ledger `now` holds what `was` held but for the ticks of from .. t - 1,
\* which are consumed wherever they are authoritative.
Passed(was, now, from, t) ==
    /\ \A u \in DOMAIN now : u >= t \/ u < from => u \in DOMAIN was /\ now[u] = was[u]
    /\ \A u \in DOMAIN was : u >= t => u \in DOMAIN now
    /\ \A u \in DOMAIN now :
          from <= u /\ u < t /\ now[u].confidence = Authoritative => now[u].consumed

\* What a pass over tick t does to a ledger that stands between `was` and it,
\* with the ticks of S read.
PassesOver(end, t, owns, was, from, S) ==
    LET fresh == IsFresh(RestoreTick(end, t).ledger, t)
        done  == SimulateTick(end, t, owns)
    IN  /\ Passed(was, done.ledger, from, t + 1)
        /\ Reads(done.ledger, S \cup {u \in {t} : fresh})
        /\ fresh => t \notin S /\ t \in DOMAIN was /\ was[t].confidence = Authoritative
        /\ t \in DOMAIN was /\ was[t].confidence = Authoritative
              => /\ Confidence(done.ledger, t) = Authoritative
                 /\ ~was[t].consumed => fresh

(* One pass of a replay over tick t, as the ledger sees it.                *)
LEMMA PassOverATick ==
    ASSUME NEW end \in EndState, NEW t \in Nat, NEW owns \in BOOLEAN,
           NEW was \in Ring(Entry), NEW from \in Nat, from <= t, Passed(was, end.ledger, from, t),
           NEW S \in SUBSET Nat, Reads(end.ledger, S)
    PROVE  PassesOver(end, t, owns, was, from, S)
<1> DEFINE ready == RestoreTick(end, t).ledger
           after == SimulateTick(end, t, owns).ledger
           raised == SetConfidence(end.ledger, t, Extrapolated)
<1>1. end.ledger \in Ring(Entry) /\ was \in [DOMAIN was -> Entry]
      /\ DOMAIN end.ledger \subseteq Nat /\ DOMAIN was \subseteq Nat
  BY RingIsFunction DEF EndState
<1>2. ready \in Ring(Entry) /\ (ready = end.ledger \/ ready = raised)
  BY RestoreEffect DEF EndState
<1>3. after = BeginSim(ready, t)
  BY SimulateEffect
<1>4. /\ raised \in Ring(Entry)
      /\ DOMAIN raised \subseteq DOMAIN end.ledger \cup {t}
      /\ \A u \in DOMAIN raised : u # t => raised[u] = end.ledger[u]
      /\ \A u \in DOMAIN end.ledger \ DOMAIN raised : Slot(u) = Slot(t) /\ u < t /\ t \in DOMAIN raised
      /\ t \in DOMAIN raised
            => (raised[t].consumed <=> (t \in DOMAIN end.ledger /\ end.ledger[t].consumed))
      /\ t \in DOMAIN raised /\ raised[t].confidence = Authoritative
            => t \in DOMAIN end.ledger /\ end.ledger[t].confidence = Authoritative
      /\ t \in DOMAIN end.ledger
            => /\ t \in DOMAIN raised
               /\ end.ledger[t].confidence = Authoritative => raised[t].confidence = Authoritative
  <2>1. Extrapolated \in Confidences /\ Extrapolated # Authoritative
    BY DEF Confidences, Extrapolated, Authoritative
  <2> HIDE DEF raised
  <2>2. QED
    BY <1>1, <2>1, ConfidenceIsRaised DEF raised
<1>5. Reads(ready, S)
  <2>1. Reads(raised, S)
    BY <1>1, ConfidenceKeepsReads DEF Confidences
  <2> HIDE DEF raised, ready
  <2>2. QED
    BY <1>2, <2>1
<1> HIDE DEF raised
\* What restoring leaves.
<1>6. /\ DOMAIN ready \subseteq DOMAIN end.ledger \cup {t}
      /\ \A u \in DOMAIN ready : u # t => ready[u] = end.ledger[u]
      /\ \A u \in DOMAIN end.ledger : u >= t => u \in DOMAIN ready
      /\ t \in DOMAIN ready
            => (ready[t].consumed <=> (t \in DOMAIN end.ledger /\ end.ledger[t].consumed))
      /\ t \in DOMAIN ready /\ ready[t].confidence = Authoritative
            => t \in DOMAIN end.ledger /\ end.ledger[t].confidence = Authoritative
      /\ t \in DOMAIN end.ledger
            => /\ t \in DOMAIN ready
               /\ end.ledger[t].confidence = Authoritative => ready[t].confidence = Authoritative
  <2> HIDE DEF ready
  <2>1. CASE ready = end.ledger
    <3>1. t \in DOMAIN ready
            => (ready[t].consumed <=> (t \in DOMAIN end.ledger /\ end.ledger[t].consumed))
      BY <2>1, Zenon
    <3>2. QED
      BY <2>1, <3>1
  <2>2. CASE ready = raised
    <3>1. \A u \in DOMAIN end.ledger : u >= t => ~(u < t)
      BY <1>1
    <3>2. QED
      BY <1>4, <2>2, <3>1
  <2>3. QED
    BY <1>2, <2>1, <2>2
<1> HIDE DEF ready
\* What the pass leaves.
<1>7. /\ after \in Ring(Entry) /\ DOMAIN after = DOMAIN ready /\ DOMAIN ready \subseteq Nat
      /\ \A u \in DOMAIN ready : u # t => after[u] = ready[u]
      /\ IsFresh(ready, t) => t \in DOMAIN ready /\ ~ready[t].consumed
      /\ t \in DOMAIN ready =>
           /\ after[t].confidence = ready[t].confidence
           /\ after[t].consumed <=> (ready[t].consumed \/ IsFresh(ready, t))
           /\ ready[t].confidence = Authoritative => after[t].consumed
  <2> DEFINE begun == BeginSim(ready, t)
  <2>1. /\ begun \in Ring(Entry) /\ DOMAIN begun = DOMAIN ready
        /\ \A u \in DOMAIN ready : u # t => begun[u] = ready[u]
        /\ IsFresh(ready, t) => t \in DOMAIN ready /\ ~ready[t].consumed
        /\ t \in DOMAIN ready =>
             /\ begun[t].confidence = ready[t].confidence
             /\ begun[t].consumed <=> (ready[t].consumed \/ IsFresh(ready, t))
             /\ ready[t].confidence = Authoritative => begun[t].consumed
    BY <1>2, PassConsumes
  <2>2. DOMAIN ready \subseteq Nat
    BY <1>2, RingIsFunction
  <2>3. after = begun
    BY <1>3
  <2> HIDE DEF after, begun
  <2>4. QED
    BY <2>1, <2>2, <2>3, Zenon
<1>8. /\ IsFresh(ready, t) => t \notin S
      /\ Reads(after, S \cup {u \in {t} : IsFresh(ready, t)})
  BY <1>2, <1>3, <1>5, PassIsCounted
<1> HIDE DEF after
<1>9. Passed(was, after, from, t + 1)
  <2>1. ASSUME NEW u \in DOMAIN after, u >= t + 1 \/ u < from
        PROVE  u \in DOMAIN was /\ after[u] = was[u]
    <3>1. u \in Nat /\ u # t /\ (u >= t \/ u < from)
      BY <1>7, <2>1
    <3>2. u \in DOMAIN end.ledger /\ after[u] = end.ledger[u]
      BY <1>6, <1>7, <2>1, <3>1
    <3>3. QED
      BY <3>1, <3>2 DEF Passed
  <2>2. ASSUME NEW u \in DOMAIN was, u >= t + 1 PROVE u \in DOMAIN after
    <3>1. u \in Nat /\ u >= t
      BY <1>1, <2>2
    <3>2. u \in DOMAIN end.ledger
      BY <3>1 DEF Passed
    <3>3. QED
      BY <1>6, <1>7, <3>1, <3>2
  <2>3. ASSUME NEW u \in DOMAIN after, from <= u, u < t + 1, after[u].confidence = Authoritative
        PROVE  after[u].consumed
    <3>1. CASE u = t
      BY <1>7, <2>3, <3>1
    <3>2. CASE u # t
      <4>1. u \in Nat /\ u < t
        BY <1>7, <2>3, <3>2
      <4>2. u \in DOMAIN end.ledger /\ after[u] = end.ledger[u]
        BY <1>6, <1>7, <2>3, <3>2
      <4>3. QED
        BY <2>3, <4>1, <4>2 DEF Passed
    <3>3. QED
      BY <3>1, <3>2
  <2>4. QED
    BY <2>1, <2>2, <2>3 DEF Passed
<1>10. t \in DOMAIN end.ledger <=> t \in DOMAIN was
  BY <1>1 DEF Passed
<1>11. t \in DOMAIN was => end.ledger[t] = was[t]
  BY <1>1, <1>10 DEF Passed
<1>12. IsFresh(ready, t) => t \in DOMAIN was /\ was[t].confidence = Authoritative
  <2>1. IsFresh(ready, t) => t \in DOMAIN ready /\ ready[t].confidence = Authoritative
    BY <1>7 DEF IsFresh, Confidence
  <2>2. QED
    BY <1>6, <1>10, <1>11, <2>1
<1>13. ASSUME t \in DOMAIN was, was[t].confidence = Authoritative
       PROVE  Confidence(after, t) = Authoritative /\ (~was[t].consumed => IsFresh(ready, t))
  <2>1. t \in DOMAIN ready /\ ready[t].confidence = Authoritative
    BY <1>6, <1>10, <1>11, <1>13
  <2>2. Confidence(after, t) = Authoritative
    BY <1>7, <2>1 DEF Confidence
  <2>3. ~was[t].consumed => ~ready[t].consumed
    BY <1>6, <1>11, <1>13, <2>1, Zenon
  <2>4. QED
    BY <2>1, <2>2, <2>3 DEF IsFresh, Confidence
<1>14. QED
  BY <1>8, <1>9, <1>12, <1>13 DEF ready, after, PassesOver

(* What read fresh are ticks.                                              *)
LEMMA FreshTicksAreTicks ==
    ASSUME NEW run, NEW from \in Nat, NEW t \in Nat
    PROVE  FreshIn(run, from, t) \in SUBSET Nat
<1>1. \A u \in from .. t - 1 : u \in Nat
  OBVIOUS
<1>2. QED
  BY <1>1 DEF FreshIn

\* In a replay of `run` from `from` up to t, that met the ledger `was` with the
\* ticks of S read, each authoritative tick of the window is read fresh unless it
\* had been, none twice, and none before or after it.
ReadsOnce(was, run, from, t, S) ==
    /\ Passed(was, run[t].ledger, from, t)
    /\ Reads(run[t].ledger, S \cup FreshIn(run, from, t))
    /\ \A u \in FreshIn(run, from, t) :
          u \notin S /\ u \in DOMAIN was /\ was[u].confidence = Authoritative
    /\ \A u \in from .. t - 1 :
          u \in DOMAIN was /\ was[u].confidence = Authoritative /\ ~was[u].consumed
             => u \in FreshIn(run, from, t)

(* A replay reads each tick of its window fresh once.                      *)
LEMMA ReplayReadsOnce ==
    ASSUME NEW end \in EndState, NEW from \in Nat, NEW to \in Nat, from <= to, NEW owns \in BOOLEAN,
           NEW S \in SUBSET Nat, Reads(end.ledger, S)
    PROVE  \A t \in from .. to :
              ReadsOnce(end.ledger, Simulated(end, from, to, owns), from, t, S)
<1> DEFINE run == Simulated(end, from, to, owns)
           fresh(t) == FreshIn(run, from, t)
           Holds(t) == /\ Passed(end.ledger, run[t].ledger, from, t)
                       /\ Reads(run[t].ledger, S \cup fresh(t))
                       /\ \A u \in fresh(t) : u \notin S /\ u \in DOMAIN end.ledger
                                              /\ end.ledger[u].confidence = Authoritative
                       /\ \A u \in from .. t - 1 :
                             u \in DOMAIN end.ledger /\ end.ledger[u].confidence = Authoritative
                             /\ ~end.ledger[u].consumed => u \in fresh(t)
           T == {t \in from .. to : Holds(t)}
<1>1. /\ run \in [from .. to -> EndState] /\ run[from] = end
      /\ \A t \in from .. to : t < to => run[t + 1] = SimulateTick(run[t], t, owns)
  BY ReplayIsARun
<1>2. end.ledger \in Ring(Entry) /\ DOMAIN end.ledger \subseteq Nat
  BY RingIsFunction DEF EndState
<1> HIDE DEF run
<1>3. from \in T
  <2>1. from .. from - 1 = {}
    OBVIOUS
  <2>2. fresh(from) = {}
    BY <2>1 DEF FreshIn
  <2>3. Reads(run[from].ledger, S \cup fresh(from))
    <3>1. S \cup fresh(from) = S
      BY <2>2
    <3>2. QED
      BY <1>1, <3>1
  <2>4. \A u \in DOMAIN end.ledger : ~(from <= u /\ u < from)
    BY <1>2
  <2>5. Passed(end.ledger, run[from].ledger, from, from)
    BY <1>1, <2>4 DEF Passed
  <2>6. QED
    BY <2>1, <2>2, <2>3, <2>5
<1>4. ASSUME NEW t \in from .. to, t < to, t \in T PROVE t + 1 \in T
  <2>1. run[t] \in EndState /\ t \in Nat /\ t + 1 \in from .. to /\ from <= t
    BY <1>1, <1>4
  <2> DEFINE now == run[t]
             R == S \cup fresh(t)
             isFresh == IsFresh(RestoreTick(now, t).ledger, t)
             done == SimulateTick(now, t, owns)
  <2>2. /\ Passed(end.ledger, now.ledger, from, t) /\ Reads(now.ledger, R)
        /\ R \in SUBSET Nat /\ now \in EndState
    <3>1. fresh(t) \in SUBSET Nat
      BY <2>1, FreshTicksAreTicks
    <3> HIDE DEF fresh
    <3>2. QED
      BY <1>4, <2>1, <3>1
  <2>3. run[t + 1] = done
    BY <1>1, <1>4
  <2> HIDE DEF now, R
  <2>11. PassesOver(now, t, owns, end.ledger, from, R)
    BY <1>2, <2>1, <2>2, PassOverATick
  <2>4. /\ Passed(end.ledger, done.ledger, from, t + 1)
        /\ Reads(done.ledger, R \cup {u \in {t} : isFresh})
        /\ isFresh => t \notin R /\ t \in DOMAIN end.ledger /\ end.ledger[t].confidence = Authoritative
        /\ t \in DOMAIN end.ledger /\ end.ledger[t].confidence = Authoritative
             => (~end.ledger[t].consumed => isFresh)
    BY <2>11, Zenon DEF PassesOver
  <2>5. fresh(t + 1) = fresh(t) \cup {u \in {t} : isFresh}
    <3>1. from .. (t + 1) - 1 = (from .. t - 1) \cup {t}
      BY <2>1
    <3>2. QED
      BY <3>1 DEF FreshIn, now
  <2> HIDE DEF isFresh, done
  <2>6. R \cup {u \in {t} : isFresh} = S \cup fresh(t + 1)
    <3> HIDE DEF fresh
    <3>1. QED
      BY <2>5 DEF R
  <2>7. ASSUME NEW u \in fresh(t + 1)
        PROVE  u \notin S /\ u \in DOMAIN end.ledger /\ end.ledger[u].confidence = Authoritative
    <3> HIDE DEF fresh
    <3>1. CASE u \in fresh(t)
      BY <1>4, <3>1
    <3>2. CASE u = t /\ isFresh
      BY <2>4, <3>2 DEF R
    <3>3. QED
      BY <2>5, <2>7, <3>1, <3>2
  <2>8. ASSUME NEW u \in from .. (t + 1) - 1, u \in DOMAIN end.ledger,
               end.ledger[u].confidence = Authoritative, ~end.ledger[u].consumed
        PROVE  u \in fresh(t + 1)
    <3> HIDE DEF fresh
    <3>1. u = t \/ u \in from .. t - 1
      BY <2>1
    <3>2. CASE u = t
      BY <2>4, <2>5, <2>8, <3>2
    <3>3. CASE u \in from .. t - 1
      BY <1>4, <2>5, <2>8, <3>3
    <3>4. QED
      BY <3>1, <3>2, <3>3
  <2> HIDE DEF fresh
  <2>9. Holds(t + 1)
    BY <2>3, <2>4, <2>6, <2>7, <2>8
  <2>10. QED
    BY <2>1, <2>9
<1>5. \A t \in from .. to : t \in T
  <2> HIDE DEF T
  <2>1. QED
    BY <1>3, <1>4, IntervalInduction
<1>6. QED
  BY <1>5 DEF run, ReadsOnce

(* The frontier follows the replay: it never passes the tick it has come   *)
(* to, and it is there when the owner of the state ran the last tick as    *)
(* authoritative.                                                          *)
LEMMA ReplayMovesTheFrontier ==
    ASSUME NEW end \in EndState, NEW from \in Nat, NEW to \in Nat, from <= to, NEW owns \in BOOLEAN,
           end.authSim <= to, NEW S \in SUBSET Nat, Reads(end.ledger, S)
    PROVE  LET run == Simulated(end, from, to, owns)
           IN  /\ run[to].authSim <= to
               /\ from < to /\ owns /\ to - 1 \in DOMAIN end.ledger
                  /\ end.ledger[to - 1].confidence = Authoritative
                     => run[to].authSim = to
<1> DEFINE run == Simulated(end, from, to, owns)
           T == {t \in from .. to : run[t].authSim <= to}
<1>1. /\ run \in [from .. to -> EndState] /\ run[from] = end
      /\ \A t \in from .. to : t < to => run[t + 1] = SimulateTick(run[t], t, owns)
  BY ReplayIsARun
<1>2. \A t \in from .. to : Passed(end.ledger, run[t].ledger, from, t)
                           /\ Reads(run[t].ledger, S \cup FreshIn(run, from, t))
  <2>1. \A t \in from .. to : ReadsOnce(end.ledger, run, from, t, S)
    BY ReplayReadsOnce
  <2> HIDE DEF run
  <2>2. QED
    BY <2>1 DEF ReadsOnce
<1>3. end.ledger \in Ring(Entry)
  BY DEF EndState
<1> HIDE DEF run
<1>4. from \in T
  BY <1>1
<1>5. ASSUME NEW t \in from .. to, t < to PROVE
        LET done == SimulateTick(run[t], t, owns)
        IN  /\ run[t + 1] = done
            /\ run[t].authSim \in Nat
            /\ done.authSim = IF owns /\ Confidence(done.ledger, t) = Authoritative
                                 /\ run[t].authSim < t + 1
                              THEN t + 1 ELSE run[t].authSim
  <2>1. run[t] \in EndState /\ t \in Nat
    BY <1>1
  <2>2. run[t].authSim \in Nat
    BY <2>1 DEF EndState
  <2> DEFINE e == run[t]
             done == SimulateTick(e, t, owns)
  <2>3. run[t + 1] = done
    BY <1>1, <1>5
  <2>4. done.authSim = IF owns /\ Confidence(done.ledger, t) = Authoritative /\ e.authSim < t + 1
                       THEN t + 1 ELSE e.authSim
    <3>1. e \in EndState
      BY <2>1
    <3> HIDE DEF e
    <3>2. QED
      BY <2>1, <3>1, SimulateEffect
  <2>5. QED
    BY <2>2, <2>3, <2>4
<1>6. ASSUME NEW t \in from .. to, t < to, t \in T PROVE t + 1 \in T
  <2>1. t + 1 \in from .. to /\ t + 1 <= to
    BY <1>6
  <2>2. run[t + 1].authSim = t + 1 \/ run[t + 1].authSim = run[t].authSim
    BY <1>5, <1>6
  <2>3. QED
    BY <1>6, <2>1, <2>2
<1>7. \A t \in from .. to : t \in T
  <2> HIDE DEF T
  <2>1. QED
    BY <1>4, <1>6, IntervalInduction
<1>8. run[to].authSim <= to
  BY <1>7
<1>9. ASSUME from < to, owns, to - 1 \in DOMAIN end.ledger,
             end.ledger[to - 1].confidence = Authoritative
      PROVE  run[to].authSim = to
  <2> DEFINE t == to - 1
  <2>1. t \in from .. to /\ t < to /\ t + 1 = to /\ t \in Nat /\ from <= t
    BY <1>9
  <2> HIDE DEF t
  <2> DEFINE done == SimulateTick(run[t], t, owns)
             R == S \cup FreshIn(run, from, t)
  <2>2. R \in SUBSET Nat
    BY <2>1, FreshTicksAreTicks
  <2>3. run[t] \in EndState /\ Passed(end.ledger, run[t].ledger, from, t) /\ Reads(run[t].ledger, R)
    BY <1>1, <1>2, <2>1
  <2> HIDE DEF R
  <2>4. Confidence(done.ledger, t) = Authoritative
    <3>1. PassesOver(run[t], t, owns, end.ledger, from, R)
      BY <1>3, <2>1, <2>2, <2>3, PassOverATick
    <3>2. QED
      BY <1>9, <3>1 DEF t, PassesOver
  <2>5. /\ run[t + 1] = done /\ run[t].authSim \in Nat
        /\ done.authSim = IF owns /\ Confidence(done.ledger, t) = Authoritative
                             /\ run[t].authSim < t + 1
                          THEN t + 1 ELSE run[t].authSim
    BY <1>5, <2>1
  <2> HIDE DEF done
  <2>6. run[to].authSim >= to
    BY <1>9, <2>1, <2>4, <2>5
  <2>7. run[to].authSim \in Nat
    <3>1. to \in from .. to
      BY <2>1
    <3>2. QED
      BY <1>1, <3>1 DEF EndState
  <2>8. QED
    BY <1>8, <2>6, <2>7
<1>10. QED
  BY <1>8, <1>9 DEF run

(* An exact tick stays exact in an end with the same input rows and no     *)
(* other rows of the two ticks.                                            *)
LEMMA ExactCarries ==
    ASSUME NEW a, NEW b, NEW u \in Nat, Exact(a, u), b.inputs = a.inputs,
           \A v \in DOMAIN b.states : v \in {u, u + 1} =>
               v \in DOMAIN a.states /\ b.states[v] = a.states[v]
    PROVE  Exact(b, u)
<1> SUFFICES ASSUME {u, u + 1} \subseteq DOMAIN b.states, ClosestTick(b.inputs, u) # NoTick
             PROVE  b.states[u + 1] = Step(b.states[u], InputAt(b, u))
  BY DEF Exact
<1>1. {u, u + 1} \subseteq DOMAIN a.states
      /\ b.states[u] = a.states[u] /\ b.states[u + 1] = a.states[u + 1]
  OBVIOUS
<1>2. a.states[u + 1] = Step(a.states[u], InputAt(a, u))
  BY <1>1 DEF Exact
<1>3. InputAt(b, u) = InputAt(a, u)
  BY DEF InputAt
<1>4. QED
  BY <1>1, <1>2, <1>3

\* Rows before `from` and after t are those of `was`.
OutsideIsKept(was, now, from, t) ==
    \A u \in DOMAIN now : u <= from \/ u > t => u \in DOMAIN was /\ now[u] = was[u]

(* A replay makes each tick it runs exact, unless the row it ends in would *)
(* be a lap behind one that was there, and touches no row outside it.      *)
LEMMA ReplayMakesExact ==
    ASSUME NEW end \in EndState, NEW from \in Nat, NEW to \in Nat, from <= to, NEW owns \in BOOLEAN
    PROVE  \A t \in from .. to :
             LET run == Simulated(end, from, to, owns)
             IN  /\ OutsideIsKept(end.states, run[t].states, from, t)
                 /\ \A u \in from .. t - 1 :
                       (\A v \in DOMAIN end.states : v < u + 1 + Cap) => Exact(run[t], u)
<1> DEFINE run == Simulated(end, from, to, owns)
           Near(u) == \A v \in DOMAIN end.states : v < u + 1 + Cap
           Holds(t) == /\ OutsideIsKept(end.states, run[t].states, from, t)
                       /\ \A u \in from .. t - 1 : Near(u) => Exact(run[t], u)
           T == {t \in from .. to : Holds(t)}
<1>1. /\ run \in [from .. to -> EndState] /\ run[from] = end
      /\ \A t \in from .. to : t < to => run[t + 1] = SimulateTick(run[t], t, owns)
  BY ReplayIsARun
<1>2. end.states \in Ring(Poses) /\ DOMAIN end.states \subseteq Nat /\ Cap \in Nat /\ Cap >= 2
  BY RingIsFunction, CapAssumption DEF EndState
<1> HIDE DEF run
<1>3. from \in T
  <2>1. from .. from - 1 = {}
    OBVIOUS
  <2>2. QED
    BY <1>1, <2>1 DEF OutsideIsKept
<1>4. ASSUME NEW t \in from .. to, t < to, t \in T PROVE t + 1 \in T
  <2> DEFINE now == run[t]
             done == run[t + 1]
             ready == RestoreTick(now, t)
             row == Step(ready.pose, ready.node)
  <2>1. now \in EndState /\ t \in Nat /\ t + 1 \in Nat /\ t + 1 \in from .. to /\ from <= t
    BY <1>1, <1>4
  <2>2. done.states = WriteRow(now.states, t + 1, row) /\ done.inputs = now.inputs
    <3> DEFINE next == SimulateTick(now, t, owns)
    <3> HIDE DEF now
    <3>1. /\ next.inputs = now.inputs
          /\ next.states = WriteRow(now.states, t + 1, row)
      BY <2>1, SimulateEffect
    <3>2. done = next
      BY <1>1, <1>4 DEF now
    <3> HIDE DEF next, done, row
    <3>3. QED
      BY <3>1, <3>2
  <2>3. /\ ready \in EndState /\ ready.node = InputAt(now, t)
        /\ t \in DOMAIN now.states => ready.pose = now.states[t]
    BY <2>1, RestoreEffect
  <2>4. row \in Poses /\ now.states \in Ring(Poses)
    <3>1. ready.pose \in Poses /\ ready.node \in Inputs
      BY <2>3 DEF EndState
    <3>2. QED
      BY <2>1, <3>1, StepAssumption DEF EndState
  <2> HIDE DEF now, done, ready, row
  <2>5. /\ done.states \in Ring(Poses)
        /\ DOMAIN done.states \subseteq DOMAIN now.states \cup {t + 1}
        /\ \A u \in DOMAIN done.states : u # t + 1 => done.states[u] = now.states[u]
        /\ ~IsStale(now.states, t + 1) => t + 1 \in DOMAIN done.states /\ done.states[t + 1] = row
    <3> DEFINE rows == now.states
               n == t + 1
               w == WriteRow(rows, n, row)
    <3> HIDE DEF rows, n
    <3>1. rows \in Ring(Poses) /\ n \in Nat /\ row \in Poses
      BY <2>1, <2>4 DEF rows, n
    <3>2. /\ w \in Ring(Poses) /\ DOMAIN w \subseteq DOMAIN rows \cup {n}
          /\ \A u \in DOMAIN w : u # n => w[u] = rows[u]
          /\ ~IsStale(rows, n) => n \in DOMAIN w /\ w[n] = row
      BY <3>1, WrittenRows
    <3>3. done.states = w
      BY <2>2 DEF rows, n
    <3> HIDE DEF w
    <3>4. QED
      BY <3>2, <3>3 DEF rows, n
  <2>6. DOMAIN done.states \subseteq Nat /\ DOMAIN now.states \subseteq Nat
        /\ DOMAIN now.states \in Bounded
    BY <2>4, <2>5, RingIsFunction
  <2>7. OutsideIsKept(end.states, now.states, from, t)
        /\ \A u \in from .. t - 1 : Near(u) => Exact(now, u)
    BY <1>4 DEF now
  <2>8. OutsideIsKept(end.states, done.states, from, t + 1)
    <3> SUFFICES ASSUME NEW u \in DOMAIN done.states, u <= from \/ u > t + 1
                 PROVE  u \in DOMAIN end.states /\ done.states[u] = end.states[u]
      BY DEF OutsideIsKept
    <3>1. u \in Nat /\ u # t + 1 /\ (u <= from \/ u > t)
      BY <2>1, <2>6
    <3>2. QED
      BY <2>5, <2>7, <3>1 DEF OutsideIsKept
  <2>9. ASSUME NEW u \in from .. (t + 1) - 1, Near(u) PROVE Exact(done, u)
    <3>1. CASE u < t
      <4>1. u \in from .. t - 1 /\ u \in Nat /\ u # t + 1 /\ u + 1 # t + 1
        BY <2>1, <3>1
      <4>2. \A v \in DOMAIN done.states : v \in {u, u + 1} =>
               v \in DOMAIN now.states /\ done.states[v] = now.states[v]
        BY <2>5, <4>1
      <4>3. Exact(now, u)
        BY <2>7, <2>9, <4>1
      <4>4. QED
        BY <2>2, <4>1, <4>2, <4>3, ExactCarries
    <3>2. CASE u = t
      <4>1. ASSUME NEW v \in DOMAIN now.states PROVE v < (t + 1) + Cap
        <5>1. v \in Nat /\ (v <= t \/ v > t)
          BY <2>1, <2>6
        <5>2. CASE v <= t
          BY <1>2, <2>1, <5>1, <5>2
        <5>3. CASE v > t
          <6>1. v \in DOMAIN end.states
            BY <2>7, <5>3 DEF OutsideIsKept
          <6>2. QED
            BY <2>9, <3>2, <6>1
        <5>4. QED
          BY <5>1, <5>2, <5>3
      <4>2. ~IsStale(now.states, t + 1)
        BY <2>1, <2>6, <4>1, NearIsNotStale
      <4>3. SUFFICES ASSUME {t, t + 1} \subseteq DOMAIN done.states,
                            ClosestTick(done.inputs, t) # NoTick
                     PROVE  done.states[t + 1] = Step(done.states[t], InputAt(done, t))
        BY <3>2 DEF Exact
      <4>4. t # t + 1 /\ t \in DOMAIN now.states /\ done.states[t] = now.states[t]
        BY <2>1, <2>5, <4>3
      <4>5. InputAt(done, t) = InputAt(now, t)
        BY <2>2, <4>3 DEF InputAt
      <4>6. QED
        BY <2>3, <2>5, <4>2, <4>4, <4>5 DEF row
    <3>3. QED
      BY <2>1, <3>1, <3>2
  <2>10. QED
    BY <2>1, <2>8, <2>9 DEF done
<1>5. \A t \in from .. to : t \in T
  <2> HIDE DEF T
  <2>1. QED
    BY <1>3, <1>4, IntervalInduction
<1>6. QED
  BY <1>5 DEF run

-----------------------------------------------------------------------------
(* The window.                                                             *)

(* A mark only deepens a window.                                           *)
LEMMA MarkDeepens ==
    ASSUME NEW dirty \in Tick, NEW t \in Nat
    PROVE  /\ MarkDirty(dirty, t) \in Nat
           /\ MarkDirty(dirty, t) <= t
           /\ dirty # NoTick => MarkDirty(dirty, t) <= dirty
           /\ MarkDirty(dirty, t) = t \/ MarkDirty(dirty, t) = dirty
  BY DEF MarkDirty, Tick, NoTick

(* What a window of a frame that ends at `current` replays.                *)
LEMMA WindowIsTaken ==
    ASSUME NEW dirty \in Tick, NEW current \in Nat
    PROVE  /\ TakeFrom(dirty, current) \in Tick
           /\ TakeFrom(dirty, current) = NoTick => dirty = NoTick \/ dirty >= current
           /\ TakeFrom(dirty, current) # NoTick =>
                /\ dirty # NoTick /\ dirty <= TakeFrom(dirty, current)
                /\ TakeFrom(dirty, current) < current
                /\ current - Cap <= TakeFrom(dirty, current)
                /\ \/ TakeFrom(dirty, current) = dirty
                   \/ TakeFrom(dirty, current) = current - Cap
<1> DEFINE floor == current - Cap
           from == Max({dirty, floor, 0})
<1>1. dirty \in Int /\ floor \in Int /\ floor < current /\ 0 \in Int
  BY CapAssumption DEF Tick, NoTick
<1>2. /\ from \in Int /\ from \in {dirty, floor, 0}
      /\ from >= dirty /\ from >= floor /\ from >= 0
  <2> HIDE DEF floor
  <2>1. \A a, b, c \in Int : /\ Max({a, b, c}) \in Int
                            /\ Max({a, b, c}) \in {a, b, c}
                            /\ Max({a, b, c}) >= a /\ Max({a, b, c}) >= b
                            /\ Max({a, b, c}) >= c
    BY GreatestOfThree
  <2> DEFINE zero == 0
  <2> HIDE DEF zero
  <2>2. zero \in Int
    BY DEF zero
  <2>3. /\ Max({dirty, floor, zero}) \in Int
        /\ Max({dirty, floor, zero}) \in {dirty, floor, zero}
        /\ Max({dirty, floor, zero}) >= dirty /\ Max({dirty, floor, zero}) >= floor
        /\ Max({dirty, floor, zero}) >= zero
    BY <1>1, <2>1, <2>2
  <2>4. QED
    BY <2>3 DEF zero
<1>3. TakeFrom(dirty, current) = IF dirty = NoTick \/ from >= current THEN NoTick ELSE from
  BY DEF TakeFrom
<1> HIDE DEF from
<1>4. CASE dirty = NoTick
  BY <1>3, <1>4 DEF Tick
<1>5. CASE dirty # NoTick /\ from >= current
  <2>1. dirty >= current
    BY <1>1, <1>2, <1>5 DEF Tick
  <2>2. QED
    BY <1>3, <1>5, <2>1 DEF Tick
<1>6. CASE dirty # NoTick /\ ~(from >= current)
  <2>1. TakeFrom(dirty, current) = from /\ dirty \in Nat
    BY <1>3, <1>6 DEF Tick
  <2>2. from = 0 => dirty = 0
    BY <1>2, <2>1
  <2>3. QED
    BY <1>1, <1>2, <1>6, <2>1, <2>2 DEF Tick, NoTick
<1>7. QED
  BY <1>4, <1>5, <1>6

\* What a frame that ends at `current` replays: the ticks of from .. current - 1,
\* none before its window, and all of the window the rings still hold.
Replays(end, current, owns, simulates, from) ==
    LET taken == [end EXCEPT !.dirty = NoTick, !.tick = current]
    IN  /\ from \in Nat /\ from <= current
        /\ taken \in EndState
        /\ RunRollback(end, current, owns, simulates) = Simulated(taken, from, current, owns)
        /\ \A t \in Nat : end.dirty # NoTick /\ end.dirty <= t /\ t < current
                          /\ current - Cap <= t => from <= t
        /\ current - Cap <= from
        /\ end.dirty # NoTick /\ end.dirty < current => from <= end.dirty \/ from = current - Cap
        /\ ResimForce = 0 \/ ~simulates
              => (end.dirty # NoTick /\ end.dirty <= from) \/ from = current

(* Every frame replays an interval that ends at its tick, possibly an      *)
(* empty one.                                                              *)
LEMMA FrameReplays ==
    ASSUME NEW end \in EndState, NEW current \in Nat, NEW owns \in BOOLEAN, NEW simulates \in BOOLEAN
    PROVE  \E from \in Nat : Replays(end, current, owns, simulates, from)
<1> DEFINE taken == [end EXCEPT !.dirty = NoTick, !.tick = current]
           deep == IF 0 >= current - ResimForce THEN 0 ELSE current - ResimForce
           forced == IF ResimForce > 0 /\ simulates THEN MarkDirty(end.dirty, deep) ELSE end.dirty
           from == TakeFrom(forced, current)
           run == RunRollback(end, current, owns, simulates)
<1>0. Cap \in Nat /\ Cap >= 2 /\ ResimForce \in Nat /\ end.dirty \in Tick
  BY CapAssumption, WindowAssumption DEF EndState
<1>1. taken \in EndState
  BY DEF EndState, Tick
<1>2. Max({0, current - ResimForce}) = deep /\ deep \in Nat
  <2> DEFINE zero == 0
             back == current - ResimForce
  <2>1. zero \in Int /\ back \in Int
    BY <1>0
  <2> HIDE DEF zero, back
  <2>2. Max({zero, back}) = IF zero >= back THEN zero ELSE back
    BY <2>1, GreaterOfTwo
  <2>3. QED
    BY <1>0, <2>2 DEF zero, back
<1>3. run = IF from = NoTick THEN [t \in {current} |-> taken]
            ELSE Simulated(taken, from, current, owns)
  BY <1>2 DEF RunRollback
<1> HIDE DEF deep
<1>4. /\ forced \in Tick
      /\ end.dirty # NoTick => forced # NoTick /\ forced <= end.dirty
      /\ ResimForce = 0 \/ ~simulates => forced = end.dirty
  <2> DEFINE marked == MarkDirty(end.dirty, deep)
  <2>1. /\ marked \in Nat
        /\ end.dirty # NoTick => marked <= end.dirty
    BY <1>0, <1>2, MarkDeepens
  <2>2. forced = IF ResimForce > 0 /\ simulates THEN marked ELSE end.dirty
    OBVIOUS
  <2> HIDE DEF marked, forced
  <2>3. end.dirty # NoTick => end.dirty \in Nat /\ end.dirty <= end.dirty
    BY <1>0 DEF Tick
  <2>4. marked # NoTick
    BY <2>1 DEF NoTick
  <2>5. QED
    BY <1>0, <2>1, <2>2, <2>3, <2>4 DEF Tick
<1> HIDE DEF forced, taken, run
<1>5. /\ from \in Tick
      /\ from = NoTick => forced = NoTick \/ forced >= current
      /\ from # NoTick =>
           /\ forced # NoTick /\ forced <= from /\ from < current /\ current - Cap <= from
           /\ from = forced \/ from = current - Cap
  BY <1>4, WindowIsTaken
<1> HIDE DEF from
<1>6. CASE from = NoTick
  <2>1. Simulated(taken, current, current, owns) = [t \in {current} |-> taken]
    <3> DEFINE one == Simulated(taken, current, current, owns)
    <3>0. current <= current
      OBVIOUS
    <3>1. one \in [current .. current -> EndState] /\ one[current] = taken
      BY <1>1, <3>0, ReplayIsARun
    <3> HIDE DEF one
    <3>2. current .. current = {current}
      OBVIOUS
    <3>3. one = [t \in {current} |-> taken]
      BY <3>1, <3>2
    <3>4. QED
      BY <3>3 DEF one
  <2>2. run = Simulated(taken, current, current, owns)
    BY <1>3, <1>6, <2>1
  <2>3. end.dirty = NoTick \/ end.dirty >= current
    BY <1>0, <1>4, <1>5, <1>6 DEF Tick, NoTick
  <2>4. Replays(end, current, owns, simulates, current)
    BY <1>0, <1>1, <2>2, <2>3 DEF Replays, taken, run, Tick, NoTick
  <2>5. QED
    BY <2>4
<1>7. CASE from # NoTick
  <2>1. from \in Nat /\ run = Simulated(taken, from, current, owns)
    BY <1>3, <1>5, <1>7 DEF Tick
  <2>2. \A t \in Nat : end.dirty # NoTick /\ end.dirty <= t /\ t < current
                       /\ current - Cap <= t => from <= t
    BY <1>0, <1>4, <1>5, <1>7 DEF Tick, NoTick
  <2>3. end.dirty # NoTick /\ end.dirty < current => from <= end.dirty \/ from = current - Cap
    BY <1>0, <1>4, <1>5, <1>7 DEF Tick, NoTick
  <2>4. ResimForce = 0 \/ ~simulates => end.dirty # NoTick /\ end.dirty <= from
    BY <1>0, <1>4, <1>5, <1>7
  <2>5. Replays(end, current, owns, simulates, from)
    BY <1>1, <1>5, <1>7, <2>1, <2>2, <2>3, <2>4 DEF Replays, taken, run, Tick
  <2>6. QED
    BY <2>1, <2>5
<1>8. QED
  BY <1>6, <1>7

-----------------------------------------------------------------------------
(* Rows that reach an end.                                                 *)

\* `now` is `was` with row x stamped for tick s.
Stamped(was, now, s, x) ==
    /\ now.inputs = WriteRow(was.inputs, s, x)
    /\ now.ledger = SetConfidence(was.ledger, s, Authoritative)

\* Neither the input rows nor the ledger of `now` differ from those of `was`.
Unfed(was, now) == now.inputs = was.inputs /\ now.ledger = was.ledger

\* The input rows and the ledger of `now` are those of `was` but for ticks of
\* low .. high stamped with a row of `stamped`; what was read stays read, and a
\* tick before them resolves to the row it did unless a lap passed that row.
Fed(was, now, low, high, stamped) ==
    /\ now.inputs \in Ring(Inputs) /\ now.ledger \in Ring(Entry)
    /\ \A u \in DOMAIN now.inputs :
          \/ u \in DOMAIN was.inputs /\ now.inputs[u] = was.inputs[u]
          \/ u \in low .. high /\ now.inputs[u] \in stamped[u]
    /\ \A u \in DOMAIN now.ledger :
          /\ u \in DOMAIN was.ledger \/ u \in low .. high
          /\ now.ledger[u].confidence = Authoritative =>
                \/ u \in DOMAIN was.ledger /\ was.ledger[u].confidence = Authoritative
                \/ u \in low .. high
    /\ \A S \in SUBSET Nat : Reads(was.ledger, S) => Reads(now.ledger, S)
    /\ \A u \in Nat :
          u < low /\ ClosestTick(now.inputs, u) # NoTick
                  /\ ClosestTick(now.inputs, u) > high - Cap
             => /\ ClosestTick(was.inputs, u) = ClosestTick(now.inputs, u)
                /\ now.inputs[ClosestTick(was.inputs, u)] = was.inputs[ClosestTick(was.inputs, u)]

(* An end nothing reached is fed by nothing.                               *)
LEMMA FedByNothing ==
    ASSUME NEW was \in EndState, NEW now, Unfed(was, now), NEW low, NEW high, NEW stamped
    PROVE  Fed(was, now, low, high, stamped)
  BY DEF Fed, Unfed, EndState

(* A step that reaches neither the input rows nor the ledger feeds nothing *)
(* more.                                                                   *)
LEMMA FedCarries ==
    ASSUME NEW was, NEW mid, NEW now, NEW low, NEW high, NEW stamped,
           Fed(was, mid, low, high, stamped), Unfed(mid, now)
    PROVE  Fed(was, now, low, high, stamped)
  BY DEF Fed, Unfed

(* What was fed within an interval was fed within a wider one.             *)
LEMMA FedWidens ==
    ASSUME NEW was, NEW now, NEW low \in Int, NEW lower \in Int, NEW high \in Int, NEW stamped,
           lower <= low, Fed(was, now, low, high, stamped)
    PROVE  Fed(was, now, lower, high, stamped)
<1>1. low .. high \subseteq lower .. high
  OBVIOUS
<1>2. \A u \in Nat : u < lower => u < low
  OBVIOUS
<1>3. QED
  BY <1>1, <1>2 DEF Fed

(* A row stamped within the interval joins what was fed.                   *)
LEMMA StampFeeds ==
    ASSUME NEW was \in EndState, NEW mid, NEW now, NEW low \in Int, NEW high \in Int, NEW stamped,
           Fed(was, mid, low, high, stamped),
           NEW s \in Nat, s \in low .. high, NEW x \in Inputs, x \in stamped[s],
           Stamped(mid, now, s, x)
    PROVE  Fed(was, now, low, high, stamped)
<1>1. /\ mid.inputs \in Ring(Inputs) /\ mid.ledger \in Ring(Entry)
      /\ Authoritative \in Confidences
  BY DEF Fed, Confidences
<1> DEFINE rows == mid.inputs
           wrote == WriteRow(rows, s, x)
           raised == SetConfidence(mid.ledger, s, Authoritative)
<1>2. now.inputs = wrote /\ now.ledger = raised
  BY DEF Stamped
<1> HIDE DEF rows
<1>3. /\ wrote \in Ring(Inputs) /\ DOMAIN wrote \subseteq DOMAIN rows \cup {s}
      /\ \A u \in DOMAIN wrote : u # s => wrote[u] = rows[u]
      /\ ~IsStale(rows, s) => s \in DOMAIN wrote /\ wrote[s] = x
      /\ IsStale(rows, s) => wrote = rows
  BY <1>1, WrittenRows DEF rows
<1>4. /\ raised \in Ring(Entry)
      /\ DOMAIN raised \subseteq DOMAIN mid.ledger \cup {s}
      /\ \A u \in DOMAIN raised : u # s => raised[u] = mid.ledger[u]
  BY <1>1, ConfidenceIsRaised
<1>5. ASSUME NEW S \in SUBSET Nat, Reads(was.ledger, S) PROVE Reads(raised, S)
  <2>1. Reads(mid.ledger, S)
    BY <1>5 DEF Fed
  <2>2. QED
    BY <1>1, <2>1, ConfidenceKeepsReads
<1>6. ASSUME NEW u \in Nat, u < low, ClosestTick(wrote, u) # NoTick,
             ClosestTick(wrote, u) > high - Cap
      PROVE  /\ ClosestTick(was.inputs, u) = ClosestTick(wrote, u)
             /\ wrote[ClosestTick(was.inputs, u)] = was.inputs[ClosestTick(was.inputs, u)]
  <2>1. u < s
    BY <1>6
  <2>2. ClosestTick(wrote, u) > s - Cap
    <3>1. wrote \in Ring(Inputs) /\ DOMAIN wrote \in Bounded
      BY <1>3, RingIsFunction
    <3>2. ClosestTick(wrote, u) \in Nat
      <4> HIDE DEF wrote
      <4>1. ClosestTick(wrote, u) \in Nat \cup {NoTick}
        BY <3>1, ClosestIsResident
      <4>2. QED
        BY <1>6, <4>1
    <3> HIDE DEF wrote
    <3>3. Cap \in Nat
      BY CapAssumption
    <3>4. QED
      BY <1>6, <3>2, <3>3
  <2>3. /\ ClosestTick(rows, u) = ClosestTick(wrote, u)
        /\ wrote[ClosestTick(rows, u)] = rows[ClosestTick(rows, u)]
    BY <1>1, <1>6, <2>1, <2>2, LaterRowsKeepTheClosest DEF rows
  <2> HIDE DEF wrote
  <2>4. /\ ClosestTick(was.inputs, u) = ClosestTick(rows, u)
        /\ rows[ClosestTick(was.inputs, u)] = was.inputs[ClosestTick(was.inputs, u)]
    BY <1>6, <2>3 DEF Fed, rows
  <2>5. QED
    BY <2>3, <2>4
<1> HIDE DEF wrote, raised
<1>7. ASSUME NEW u \in DOMAIN wrote
      PROVE  \/ u \in DOMAIN was.inputs /\ wrote[u] = was.inputs[u]
             \/ u \in low .. high /\ wrote[u] \in stamped[u]
  <2>1. CASE IsStale(rows, s) \/ u # s
    <3>1. u \in DOMAIN rows /\ wrote[u] = rows[u]
      BY <1>3, <1>7, <2>1
    <3>2. QED
      BY <3>1 DEF Fed, rows
  <2>2. CASE ~IsStale(rows, s) /\ u = s
    BY <1>3, <2>2
  <2>3. QED
    BY <2>1, <2>2
<1>8. ASSUME NEW u \in DOMAIN raised
      PROVE  /\ u \in DOMAIN was.ledger \/ u \in low .. high
             /\ raised[u].confidence = Authoritative =>
                   \/ u \in DOMAIN was.ledger /\ was.ledger[u].confidence = Authoritative
                   \/ u \in low .. high
  <2>1. CASE u = s
    BY <2>1
  <2>2. CASE u # s
    <3>1. u \in DOMAIN mid.ledger /\ raised[u] = mid.ledger[u]
      BY <1>4, <1>8, <2>2
    <3>2. QED
      BY <3>1 DEF Fed
  <2>3. QED
    BY <2>1, <2>2
<1>9. QED
  BY <1>2, <1>3, <1>4, <1>5, <1>6, <1>7, <1>8 DEF Fed

\* The ticks of first .. until - 1 run on the neutral row, as the server's own.
RunsNeutral(end, first, until) ==
    \A u \in first .. until - 1 :
       /\ u \in DOMAIN end.inputs /\ end.inputs[u] = Neutral
       /\ u \in DOMAIN end.ledger /\ end.ledger[u].confidence = Authoritative

(* Stamping the next tick neutral, where no row is a lap ahead, lengthens  *)
(* such a run.                                                             *)
LEMMA NeutralRunGrows ==
    ASSUME NEW was, NEW now, was.inputs \in Ring(Inputs), was.ledger \in Ring(Entry),
           NEW first \in Nat, NEW s \in Nat, first <= s, s < first + Cap,
           \A u \in DOMAIN was.inputs \cup DOMAIN was.ledger : u < s + Cap,
           RunsNeutral(was, first, s), Stamped(was, now, s, Neutral)
    PROVE  RunsNeutral(now, first, s + 1)
<1> DEFINE rows == was.inputs
           wrote == WriteRow(rows, s, Neutral)
           led == was.ledger
           raised == SetConfidence(led, s, Authoritative)
<1>1. now.inputs = wrote /\ now.ledger = raised
  BY DEF Stamped
<1>2. /\ rows \in Ring(Inputs) /\ led \in Ring(Entry) /\ Neutral \in Inputs
      /\ DOMAIN rows \in Bounded /\ DOMAIN rows \subseteq Nat
      /\ DOMAIN led \in Bounded /\ DOMAIN led \subseteq Nat
      /\ Authoritative \in Confidences /\ Cap \in Nat
  BY RingIsFunction, StepAssumption, CapAssumption DEF Confidences
<1>3. \A u \in DOMAIN rows \cup DOMAIN led : u < s + Cap
  OBVIOUS
<1>4. \A u \in first .. s - 1 : /\ u \in DOMAIN rows /\ rows[u] = Neutral
                               /\ u \in DOMAIN led /\ led[u].confidence = Authoritative
  BY DEF RunsNeutral
<1> HIDE DEF rows, led
<1>5. ~IsStale(rows, s)
  BY <1>2, <1>3, NearIsNotStale
<1>6. ~ \E u \in DOMAIN led : Slot(u) = Slot(s) /\ u > s
  <2> SUFFICES ASSUME NEW u \in DOMAIN led, Slot(u) = Slot(s), u > s PROVE FALSE
    OBVIOUS
  <2>1. u \in Int /\ s \in Int
    BY <1>2
  <2>2. u >= s + Cap
    BY <2>1, SlotsAreALapApart
  <2>3. QED
    BY <1>2, <1>3, <2>1, <2>2
<1>7. \A u \in first .. s - 1 : Slot(u) # Slot(s)
  <2> SUFFICES ASSUME NEW u \in first .. s - 1, Slot(u) = Slot(s) PROVE FALSE
    OBVIOUS
  <2>1. u \in Int /\ s \in Int /\ s > u /\ Slot(s) = Slot(u)
    OBVIOUS
  <2>2. s >= u + Cap
    BY <2>1, SlotsAreALapApart
  <2>3. QED
    BY <1>2, <2>1, <2>2
<1>8. /\ DOMAIN wrote = Survivors(rows, s) \cup {s}
      /\ wrote[s] = Neutral
      /\ \A u \in DOMAIN wrote : u # s => wrote[u] = rows[u]
  <2>1. wrote = [u \in Survivors(rows, s) \cup {s} |-> IF u = s THEN Neutral ELSE rows[u]]
    BY <1>5 DEF WriteRow
  <2> HIDE DEF wrote
  <2>2. QED
    BY <2>1
<1>9. /\ s \in DOMAIN raised /\ raised[s].confidence = Authoritative
      /\ \A u \in DOMAIN raised : u # s => raised[u] = led[u]
      /\ \A u \in DOMAIN led \ DOMAIN raised : Slot(u) = Slot(s)
  BY <1>2, <1>6, ConfidenceIsRaised
<1> HIDE DEF wrote, raised
<1>10. ASSUME NEW u \in first .. (s + 1) - 1
       PROVE  /\ u \in DOMAIN wrote /\ wrote[u] = Neutral
              /\ u \in DOMAIN raised /\ raised[u].confidence = Authoritative
  <2>1. CASE u = s
    BY <1>8, <1>9, <2>1
  <2>2. CASE u # s
    <3>1. u \in first .. s - 1
      BY <1>10, <2>2
    <3>2. u \in DOMAIN wrote
      BY <1>4, <1>7, <1>8, <3>1 DEF Survivors
    <3>3. u \in DOMAIN raised
      BY <1>4, <1>7, <1>9, <3>1
    <3>4. QED
      BY <1>4, <1>8, <1>9, <2>2, <3>1, <3>2, <3>3
  <2>3. QED
    BY <2>1, <2>2
<1>11. QED
  BY <1>1, <1>10 DEF RunsNeutral

-----------------------------------------------------------------------------
(* The tick batch.                                                         *)

\* The parts of an end no input row touches.
SameRest(was, now) ==
    /\ now.tick = was.tick /\ now.states = was.states
    /\ now.authSim = was.authSim /\ now.latest = was.latest

(* Stamping an end keeps its shape.                                        *)
LEMMA StampShape ==
    ASSUME NEW end \in EndState, NEW s \in Nat, NEW x \in Inputs
    PROVE  /\ WriteRow(end.inputs, s, x) \in Ring(Inputs)
           /\ SetConfidence(end.ledger, s, Authoritative) \in Ring(Entry)
<1>1. end.inputs \in Ring(Inputs) /\ end.ledger \in Ring(Entry) /\ Authoritative \in Confidences
  BY DEF EndState, Confidences
<1>2. QED
  BY <1>1, WrittenRows, ConfidenceIsRaised

(* Capturing an input stamps it, unless that very row is already there.    *)
LEMMA CaptureInputEffect ==
    ASSUME NEW end \in EndState, NEW s \in Nat, NEW x \in Inputs
    PROVE  LET done == CaptureInput(end, s, x)
           IN  /\ done \in EndState /\ SameRest(end, done) /\ done.dirty = end.dirty
               /\ Unfed(end, done) \/ Stamped(end, done, s, x)
<1> DEFINE wrote == WriteRow(end.inputs, s, x)
           raised == SetConfidence(end.ledger, s, Authoritative)
           written == [end EXCEPT !.inputs = wrote, !.ledger = raised, !.node = x]
           kept == [end EXCEPT !.node = x]
           done == CaptureInput(end, s, x)
<1>1. done = kept \/ done = written
  BY DEF CaptureInput
<1>2. wrote \in Ring(Inputs) /\ raised \in Ring(Entry)
  BY StampShape
<1> HIDE DEF done
<1>3. CASE done = kept
  <2>1. done \in EndState
    BY <1>3 DEF EndState
  <2>2. SameRest(end, done) /\ done.dirty = end.dirty /\ Unfed(end, done)
    BY <1>3 DEF EndState, SameRest, Unfed
  <2>3. QED
    BY <2>1, <2>2 DEF done
<1>4. CASE done = written
  <2> HIDE DEF wrote, raised
  <2>1. done \in EndState
    BY <1>2, <1>4 DEF EndState
  <2>2. /\ done.tick = end.tick /\ done.states = end.states /\ done.authSim = end.authSim
        /\ done.latest = end.latest /\ done.dirty = end.dirty
        /\ done.inputs = wrote /\ done.ledger = raised
    BY <1>4 DEF EndState
  <2>3. QED
    BY <2>1, <2>2 DEF done, SameRest, Stamped, wrote, raised
<1>5. QED
  BY <1>1, <1>3, <1>4

(* An orphaned tick is stamped neutral.                                    *)
LEMMA MarkOrphanedEffect ==
    ASSUME NEW end \in EndState, NEW t \in Nat
    PROVE  LET done == MarkOrphaned(end, t)
           IN  /\ done \in EndState /\ SameRest(end, done) /\ done.dirty = end.dirty
               /\ Stamped(end, done, t, Neutral)
<1> DEFINE wrote == WriteRow(end.inputs, t, Neutral)
           raised == SetConfidence(end.ledger, t, Authoritative)
           done == [end EXCEPT !.inputs = wrote, !.ledger = raised]
<1>1. MarkOrphaned(end, t) = done
  BY DEF MarkOrphaned
<1>2. wrote \in Ring(Inputs) /\ raised \in Ring(Entry)
  BY StampShape, StepAssumption
<1> HIDE DEF wrote, raised
<1>3. done \in EndState
  BY <1>2 DEF EndState
<1>4. /\ done.tick = end.tick /\ done.states = end.states /\ done.authSim = end.authSim
      /\ done.latest = end.latest /\ done.dirty = end.dirty
      /\ done.inputs = wrote /\ done.ledger = raised
  BY DEF EndState
<1> HIDE DEF done
<1>5. QED
  BY <1>1, <1>3, <1>4 DEF SameRest, Stamped, wrote, raised

\* What preparing tick t makes of an end.
Prepares(end, done, t, ahead, authors, orphaned, simulates, input) ==
    /\ done \in EndState /\ SameRest(end, done)
    /\ done.dirty = IF simulates THEN MarkDirty(end.dirty, t) ELSE end.dirty
    /\ ~authors /\ ~orphaned => Unfed(end, done)
    /\ authors => Unfed(end, done) \/ Stamped(end, done, t + ahead, input)
    /\ orphaned => Stamped(end, done, t, Neutral)

(* Preparing a tick stamps at most one row: the authored one, ahead of the *)
(* tick, or the neutral one of an orphaned body.                           *)
LEMMA PrepareTickEffect ==
    ASSUME NEW end \in EndState, NEW t \in Nat, NEW ahead \in Nat,
           NEW authors \in BOOLEAN, NEW orphaned \in BOOLEAN, NEW simulates \in BOOLEAN,
           ~(authors /\ orphaned), NEW input \in Inputs
    PROVE  Prepares(end, PrepareTick(end, t, ahead, authors, orphaned, simulates, input),
                    t, ahead, authors, orphaned, simulates, input)
<1> DEFINE captured == IF authors THEN CaptureInput(end, t + ahead, input) ELSE end
           decided == IF orphaned THEN MarkOrphaned(captured, t) ELSE captured
           dirty == MarkDirty(decided.dirty, t)
           done == IF simulates THEN [decided EXCEPT !.dirty = dirty] ELSE decided
<1>1. PrepareTick(end, t, ahead, authors, orphaned, simulates, input) = done
  BY DEF PrepareTick
<1>2. /\ decided \in EndState /\ SameRest(end, decided) /\ decided.dirty = end.dirty
      /\ ~authors /\ ~orphaned => Unfed(end, decided)
      /\ authors => Unfed(end, decided) \/ Stamped(end, decided, t + ahead, input)
      /\ orphaned => Stamped(end, decided, t, Neutral)
  <2>1. CASE authors
    <3>1. decided = CaptureInput(end, t + ahead, input)
      BY <2>1
    <3>2. t + ahead \in Nat
      OBVIOUS
    <3> HIDE DEF decided
    <3>3. QED
      BY <2>1, <3>1, <3>2, CaptureInputEffect
  <2>2. CASE ~authors /\ orphaned
    <3>1. decided = MarkOrphaned(end, t)
      BY <2>2
    <3> HIDE DEF decided
    <3>2. QED
      BY <2>2, <3>1, MarkOrphanedEffect
  <2>3. CASE ~authors /\ ~orphaned
    <3>1. decided = end
      BY <2>3
    <3> HIDE DEF decided
    <3>2. QED
      BY <2>3, <3>1 DEF SameRest, Unfed
  <2>4. QED
    BY <2>1, <2>2, <2>3
<1> HIDE DEF decided
<1>3. dirty \in Tick
  <2>1. decided.dirty \in Tick
    BY <1>2 DEF EndState
  <2>2. QED
    BY <2>1, MarkDeepens DEF Tick
<1>4. dirty = MarkDirty(end.dirty, t)
  BY <1>2
<1> HIDE DEF dirty
<1>5. done \in EndState /\ Unfed(decided, done) /\ SameRest(decided, done)
      /\ done.dirty = IF simulates THEN dirty ELSE end.dirty
  BY <1>2, <1>3 DEF EndState, Unfed, SameRest
<1> HIDE DEF done
<1>6. QED
  BY <1>1, <1>2, <1>4, <1>5 DEF Prepares, SameRest, Unfed, Stamped

\* f are the ends a batch of frames passes through up to its rollback.
BatchRun(f, end, batch, ahead, authors, orphaned, simulates) ==
    /\ f \in [0 .. Len(batch) -> EndState]
    /\ f[0] = ApplyPending(end)
    /\ \A k \in 0 .. Len(batch) :
          k < Len(batch) =>
             f[k + 1] = PrepareTick(f[k], end.tick + k, ahead, authors, orphaned, simulates,
                                    batch[k + 1])
    /\ PrepareBatch(end, batch, ahead, authors, orphaned, simulates) = f[Len(batch)]

(* The buffered row lands on the nodes and nowhere else.                   *)
LEMMA ApplyPendingEffect ==
    ASSUME NEW end \in EndState
    PROVE  LET done == ApplyPending(end)
           IN  /\ done \in EndState /\ SameRest(end, done)
               /\ done.dirty = end.dirty /\ Unfed(end, done)
<1>1. CASE end.pending = {}
  BY <1>1 DEF ApplyPending, SameRest, Unfed
<1>2. CASE end.pending # {}
  <2> DEFINE row == CHOOSE r \in end.pending : TRUE
             done == [end EXCEPT !.pose = row, !.pending = {}]
  <2>1. row \in Poses /\ {} \in SUBSET Poses
    BY <1>2 DEF EndState
  <2>2. ApplyPending(end) = done
    BY <1>2 DEF ApplyPending
  <2> HIDE DEF row
  <2>3. done \in EndState
    BY <2>1 DEF EndState
  <2>4. SameRest(end, done) /\ done.dirty = end.dirty /\ Unfed(end, done)
    BY DEF EndState, SameRest, Unfed
  <2> HIDE DEF done
  <2>5. QED
    BY <2>2, <2>3, <2>4
<1>3. QED
  BY <1>1, <1>2

(* The loop over a batch is the run of its ticks from the boundary on.     *)
LEMMA PrepareIsARun ==
    ASSUME NEW end \in EndState, NEW batch \in Seq(Inputs), NEW ahead \in Nat,
           NEW authors \in BOOLEAN, NEW orphaned \in BOOLEAN, NEW simulates \in BOOLEAN,
           ~(authors /\ orphaned)
    PROVE  \E f : BatchRun(f, end, batch, ahead, authors, orphaned, simulates)
<1> DEFINE n == Len(batch)
           first == end.tick
           start == ApplyPending(end)
           Prep(e, k) == PrepareTick(e, first + k - 1, ahead, authors, orphaned, simulates, batch[k])
           Solves(f) == f = [k \in 0 .. n |-> IF k = 0 THEN start ELSE Prep(f[k - 1], k)]
           G == [k \in Nat |-> [e \in EndState |-> IF k + 1 \in 1 .. n THEN Prep(e, k + 1) ELSE e]]
           run == CHOOSE f : Solves(f)
<1>1. n \in Nat /\ first \in Nat /\ \A k \in 1 .. n : batch[k] \in Inputs
  BY DEF EndState
<1>2. start \in EndState
  BY ApplyPendingEffect
<1>3. PrepareBatch(end, batch, ahead, authors, orphaned, simulates) = run[n]
  BY DEF PrepareBatch
<1> HIDE DEF start
<1>4. ASSUME NEW k \in 1 .. n, NEW e \in EndState PROVE Prep(e, k) \in EndState
  <2>1. PICK t \in Nat, input \in Inputs : t = first + k - 1 /\ input = batch[k]
    BY <1>1
  <2>2. PrepareTick(e, t, ahead, authors, orphaned, simulates, input) \in EndState
    <3> HIDE DEF n, first, Prep
    <3>1. Prepares(e, PrepareTick(e, t, ahead, authors, orphaned, simulates, input),
                   t, ahead, authors, orphaned, simulates, input)
      BY PrepareTickEffect
    <3>2. QED
      BY <3>1 DEF Prepares
  <2>3. QED
    BY <2>1, <2>2
<1> HIDE DEF n, first, Prep
<1>5. G \in [Nat -> [EndState -> EndState]]
  BY <1>4
<1>6. PICK g : Solution(EndState, 0, n, start, G, g)
  <2> HIDE DEF G
  <2>1. 0 \in Nat
    OBVIOUS
  <2>2. QED
    BY <1>1, <1>2, <1>5, <2>1, RecurrenceHasSolution
<1>7. Solves(g)
  <2>1. ASSUME NEW k \in 0 .. n
        PROVE  g[k] = IF k = 0 THEN start ELSE Prep(g[k - 1], k)
    <3>1. g \in [0 .. n -> EndState] /\ g[k] = IF k = 0 THEN start ELSE G[k - 1][g[k - 1]]
      BY <1>6 DEF Solution
    <3>2. k # 0 => k - 1 \in Nat /\ k - 1 \in 0 .. n /\ (k - 1) + 1 = k /\ k \in 1 .. n
      BY <1>1
    <3>3. k # 0 => G[k - 1][g[k - 1]] = Prep(g[k - 1], k)
      BY <3>1, <3>2
    <3>4. QED
      BY <3>1, <3>3
  <2> DEFINE h == [k \in 0 .. n |-> IF k = 0 THEN start ELSE Prep(g[k - 1], k)]
  <2>2. \A k \in 0 .. n : g[k] = h[k]
    BY <2>1
  <2>3. g = h
    BY <1>6, <2>2 DEF Solution
  <2>4. QED
    BY <2>3
<1>8. Solves(run)
  <2> HIDE DEF Solves
  <2>1. QED
    BY <1>7
<1> HIDE DEF run
<1>9. DOMAIN run = 0 .. n /\ run = [k \in 0 .. n |-> run[k]]
  BY <1>8
<1>10. run[0] = start
  <2>1. 0 \in 0 .. n
    BY <1>1
  <2>2. QED
    BY <1>8, <2>1
<1>11. ASSUME NEW k \in 0 .. n, k < n PROVE run[k + 1] = Prep(run[k], k + 1)
  <2>1. k + 1 \in 0 .. n /\ k + 1 # 0 /\ (k + 1) - 1 = k
    BY <1>1, <1>11
  <2>2. run[k + 1] = IF k + 1 = 0 THEN start ELSE Prep(run[(k + 1) - 1], k + 1)
    BY <1>8, <2>1
  <2>3. QED
    BY <2>1, <2>2
<1>12. \A k \in 0 .. n : run[k] \in EndState
  <2> DEFINE T == {k \in 0 .. n : run[k] \in EndState}
  <2>1. 0 <= n => 0 \in T
    BY <1>1, <1>2, <1>10
  <2>2. ASSUME NEW k \in 0 .. n, k < n, k \in T PROVE k + 1 \in T
    <3>1. k + 1 \in 1 .. n /\ k + 1 \in 0 .. n
      BY <1>1, <2>2
    <3>2. QED
      BY <1>4, <1>11, <2>2, <3>1
  <2> HIDE DEF T
  <2>3. \A k \in 0 .. n : k \in T
    <3>1. 0 \in Nat
      OBVIOUS
    <3>2. QED
      BY <1>1, <2>1, <2>2, <3>1, IntervalInduction
  <2>4. QED
    BY <2>3 DEF T
<1>13. run \in [0 .. n -> EndState]
  BY <1>9, <1>12
<1>14. ASSUME NEW k \in 0 .. n, k < n
       PROVE  run[k + 1] = PrepareTick(run[k], end.tick + k, ahead, authors, orphaned, simulates,
                                       batch[k + 1])
  <2>1. first + (k + 1) - 1 = end.tick + k
    BY <1>1 DEF first
  <2>2. QED
    BY <1>11, <1>14, <2>1 DEF Prep
<1>15. BatchRun(run, end, batch, ahead, authors, orphaned, simulates)
  BY <1>3, <1>10, <1>13, <1>14 DEF BatchRun, n, start
<1>16. QED
  BY <1>15

\* `done` is `end` with k of the `top` ticks of a batch prepared.
Prepared(end, done, k, top, ahead, authors, orphaned, simulates, stamped) ==
    /\ done \in EndState /\ SameRest(end, done)
    /\ done.dirty = IF simulates /\ k > 0 THEN MarkDirty(end.dirty, end.tick) ELSE end.dirty
    /\ ~authors /\ ~orphaned => Unfed(end, done)
    /\ Fed(end, done, end.tick + ahead, end.tick + ahead + top - 1, stamped)
    /\ orphaned => RunsNeutral(done, end.tick, end.tick + k)

(* Preparing a batch stamps what its ticks author and nothing before them, *)
(* and a neutral row on every tick of an orphaned body.                    *)
LEMMA PreparingKeeps ==
    ASSUME NEW end \in EndState, NEW batch \in Seq(Inputs), Len(batch) < Cap, NEW ahead \in Nat,
           NEW authors \in BOOLEAN, NEW orphaned \in BOOLEAN, NEW simulates \in BOOLEAN,
           ~(authors /\ orphaned), orphaned => ahead = 0,
           orphaned => \A u \in DOMAIN end.inputs \cup DOMAIN end.ledger : u < end.tick + Cap,
           NEW stamped,
           authors => \A k \in 1 .. Len(batch) : batch[k] \in stamped[end.tick + ahead + k - 1],
           orphaned => \A k \in 1 .. Len(batch) : Neutral \in stamped[end.tick + k - 1]
    PROVE  Prepared(end, PrepareBatch(end, batch, ahead, authors, orphaned, simulates),
                    Len(batch), Len(batch), ahead, authors, orphaned, simulates, stamped)
<1> DEFINE top == Len(batch)
           low == end.tick + ahead
           high == end.tick + ahead + top - 1
           Holds(e, k) == Prepared(end, e, k, top, ahead, authors, orphaned, simulates, stamped)
<1>1. PICK f : BatchRun(f, end, batch, ahead, authors, orphaned, simulates)
  BY PrepareIsARun
<1>2. /\ f \in [0 .. top -> EndState] /\ f[0] = ApplyPending(end)
      /\ \A k \in 0 .. top : k < top =>
            f[k + 1] = PrepareTick(f[k], end.tick + k, ahead, authors, orphaned, simulates,
                                   batch[k + 1])
      /\ PrepareBatch(end, batch, ahead, authors, orphaned, simulates) = f[top]
  BY <1>1 DEF BatchRun
<1>3. /\ top \in Nat /\ end.tick \in Nat /\ Cap \in Nat /\ end.dirty \in Tick
      /\ \A k \in 1 .. top : batch[k] \in Inputs
      /\ top < Cap
  BY CapAssumption DEF EndState
<1>4. low \in Int /\ high \in Int
  BY <1>3
<1> HIDE DEF top
<1> DEFINE T == {k \in 0 .. top : Holds(f[k], k)}
<1>5. 0 \in T
  <2>1. /\ f[0] \in EndState /\ SameRest(end, f[0]) /\ f[0].dirty = end.dirty /\ Unfed(end, f[0])
    BY <1>2, ApplyPendingEffect
  <2>2. Fed(end, f[0], low, high, stamped)
    BY <2>1, FedByNothing
  <2>3. RunsNeutral(f[0], end.tick, end.tick + 0)
    <3>1. end.tick .. (end.tick + 0) - 1 = {}
      BY <1>3
    <3>2. QED
      BY <3>1 DEF RunsNeutral
  <2>4. ~(0 > 0) /\ 0 \in 0 .. top
    BY <1>3
  <2>5. Holds(f[0], 0)
    BY <2>1, <2>2, <2>3, <2>4 DEF Prepared
  <2>6. QED
    BY <2>4, <2>5
<1>6. ASSUME NEW k \in 0 .. top, k < top, k \in T PROVE k + 1 \in T
  <2> DEFINE now == f[k]
             done == f[k + 1]
             t == end.tick + k
             input == batch[k + 1]
  <2>1. /\ k + 1 \in 1 .. top /\ k + 1 \in 0 .. top /\ k \in Nat /\ t \in Nat
        /\ k + 1 > 0
    BY <1>3, <1>6
  <2>2. now \in EndState /\ input \in Inputs /\ Holds(now, k)
    BY <1>2, <1>3, <1>6, <2>1
  <2>3. done = PrepareTick(now, t, ahead, authors, orphaned, simulates, input)
    BY <1>2, <1>6
  <2> HIDE DEF now, done, input
  <2>4. Prepares(now, done, t, ahead, authors, orphaned, simulates, input)
    <3> HIDE DEF t
    <3>1. QED
      BY <2>1, <2>2, <2>3, PrepareTickEffect
  <2>5. /\ SameRest(end, now) /\ Fed(end, now, low, high, stamped)
        /\ ~authors /\ ~orphaned => Unfed(end, now)
        /\ now.dirty = IF simulates /\ k > 0 THEN MarkDirty(end.dirty, end.tick) ELSE end.dirty
        /\ orphaned => RunsNeutral(now, end.tick, t)
    BY <2>2 DEF Prepared
  <2>6. done \in EndState /\ SameRest(end, done)
    BY <2>4, <2>5 DEF Prepares, SameRest
  <2>7. done.dirty = IF simulates /\ k + 1 > 0 THEN MarkDirty(end.dirty, end.tick) ELSE end.dirty
    <3>1. done.dirty = IF simulates THEN MarkDirty(now.dirty, t) ELSE now.dirty
      BY <2>4 DEF Prepares
    <3>2. CASE simulates /\ k > 0
      BY <1>3, <2>1, <2>5, <3>1, <3>2 DEF MarkDirty, Tick, NoTick
    <3>3. CASE simulates /\ ~(k > 0)
      <4>1. k = 0 /\ t = end.tick
        BY <1>3, <2>1, <3>3
      <4>2. QED
        BY <2>1, <2>5, <3>1, <3>3, <4>1
    <3>4. CASE ~simulates
      BY <2>5, <3>1, <3>4
    <3>5. QED
      BY <3>2, <3>3, <3>4
  <2>8. ~authors /\ ~orphaned => Unfed(end, done)
    BY <2>4, <2>5 DEF Prepares, Unfed
  <2>9. Fed(end, done, low, high, stamped)
    <3>1. CASE Unfed(now, done)
      BY <2>5, <3>1, FedCarries
    <3>2. CASE authors /\ Stamped(now, done, t + ahead, input)
      <4> DEFINE s == t + ahead
      <4>1. s \in Nat /\ s \in low .. high /\ s = end.tick + ahead + (k + 1) - 1
        <5>1. k \in Nat /\ k + 1 <= top /\ end.tick \in Nat /\ top \in Nat
          BY <1>3, <1>6
        <5>2. PICK first \in Nat : first = end.tick
          BY <5>1
        <5>3. /\ s = first + k + ahead /\ low = first + ahead
              /\ high = first + ahead + top - 1
          BY <5>2
        <5> HIDE DEF s, low, high, t
        <5>4. s \in Nat /\ low \in Nat /\ high \in Int
          BY <5>1, <5>3
        <5>5. low <= s /\ s <= high /\ s = low + (k + 1) - 1
          BY <5>1, <5>3
        <5>6. s \in low .. high
          BY <5>4, <5>5
        <5>7. QED
          BY <5>4, <5>5, <5>6 DEF low
      <4>2. input \in stamped[s]
        BY <2>1, <3>2, <4>1 DEF input, top
      <4>3. Stamped(now, done, s, input)
        BY <3>2
      <4> HIDE DEF s, low, high, t
      <4>4. QED
        BY <1>4, <2>2, <2>5, <4>1, <4>2, <4>3, StampFeeds
    <3>3. CASE orphaned /\ Stamped(now, done, t, Neutral)
      <4>1. t \in low .. high /\ t = end.tick + (k + 1) - 1
        BY <1>3, <1>6, <2>1, <3>3
      <4>2. Neutral \in stamped[t] /\ Neutral \in Inputs
        BY <2>1, <3>3, <4>1, StepAssumption DEF top
      <4> HIDE DEF t, low, high
      <4>3. QED
        BY <1>4, <2>1, <2>5, <3>3, <4>1, <4>2, StampFeeds
    <3>4. QED
      BY <2>4, <3>1, <3>2, <3>3 DEF Prepares
  <2>10. orphaned => RunsNeutral(done, end.tick, end.tick + (k + 1))
    <3> SUFFICES ASSUME orphaned PROVE RunsNeutral(done, end.tick, end.tick + (k + 1))
      OBVIOUS
    <3>1. Stamped(now, done, t, Neutral) /\ RunsNeutral(now, end.tick, t)
      BY <2>4, <2>5 DEF Prepares
    <3>2. now.inputs \in Ring(Inputs) /\ now.ledger \in Ring(Entry)
      BY <2>2 DEF EndState
    <3>3. \A u \in DOMAIN now.inputs \cup DOMAIN now.ledger : u < t + Cap
      <4>1. \A u \in DOMAIN now.inputs \cup DOMAIN now.ledger :
               u \in Nat /\ (u \in DOMAIN end.inputs \cup DOMAIN end.ledger \/ u \in low .. high)
        <5>1. DOMAIN now.inputs \subseteq Nat /\ DOMAIN now.ledger \subseteq Nat
          BY <3>2, RingIsFunction
        <5>2. QED
          BY <2>5, <5>1 DEF Fed
      <4>2. \A u \in low .. high : u < t + Cap
        BY <1>3, <2>1
      <4>3. \A u \in Nat : u < end.tick + Cap => u < t + Cap
        BY <1>3, <2>1
      <4>4. QED
        BY <4>1, <4>2, <4>3
    <3>4. end.tick <= t /\ t < end.tick + Cap /\ t + 1 = end.tick + (k + 1)
      BY <1>3, <1>6, <2>1
    <3> HIDE DEF t
    <3>5. RunsNeutral(done, end.tick, t + 1)
      BY <1>3, <2>1, <3>1, <3>2, <3>3, <3>4, NeutralRunGrows
    <3>6. QED
      BY <3>4, <3>5
  <2>11. Holds(done, k + 1)
    BY <2>6, <2>7, <2>8, <2>9, <2>10 DEF Prepared
  <2>12. QED
    BY <2>1, <2>11 DEF done
<1>7. \A k \in 0 .. top : k \in T
  <2> HIDE DEF T
  <2>1. 0 \in Nat /\ (0 <= top => 0 \in T)
    BY <1>5
  <2>2. QED
    BY <1>3, <1>6, <2>1, IntervalInduction
<1>8. top \in T
  BY <1>3, <1>7
<1>9. QED
  BY <1>2, <1>8 DEF top

\* A batch an end may prepare: short, its rows stamped for the ticks they are
\* filed at, and one author at most.
Preparable(end, batch, ahead, authors, orphaned, simulates, stamped) ==
    /\ end \in EndState /\ batch \in Seq(Inputs) /\ Len(batch) < Cap /\ ahead \in Nat
    /\ {authors, orphaned, simulates} \subseteq BOOLEAN
    /\ ~(authors /\ orphaned)
    /\ orphaned => ahead = 0
    /\ orphaned => \A u \in DOMAIN end.inputs \cup DOMAIN end.ledger : u < end.tick + Cap
    /\ authors => \A k \in 1 .. Len(batch) : batch[k] \in stamped[end.tick + ahead + k - 1]
    /\ orphaned => \A k \in 1 .. Len(batch) : Neutral \in stamped[end.tick + k - 1]

(* The same of a batch that may be prepared.                               *)
LEMMA PrepareKeeps ==
    ASSUME NEW end, NEW batch, NEW ahead, NEW authors, NEW orphaned, NEW simulates, NEW stamped,
           Preparable(end, batch, ahead, authors, orphaned, simulates, stamped)
    PROVE  Prepared(end, PrepareBatch(end, batch, ahead, authors, orphaned, simulates),
                    Len(batch), Len(batch), ahead, authors, orphaned, simulates, stamped)
<1>1. /\ authors \in BOOLEAN /\ orphaned \in BOOLEAN /\ simulates \in BOOLEAN
      /\ ~(authors /\ orphaned)
  BY DEF Preparable
<1>2. QED
  BY <1>1, PreparingKeeps DEF Preparable

-----------------------------------------------------------------------------
(* A block of input rows.                                                  *)

\* What a block's loop carries: the end, and the oldest tick that landed.
Carried == [end : EndState, oldest : Tick]

\* `out` is what the first k rows of a block leave of `end`.
Integrated(end, out, newest, k, stamped) ==
    /\ out \in Carried
    /\ SameRest(end, out.end) /\ out.end.dirty = end.dirty
    /\ out.oldest = NoTick => Unfed(end, out.end)
    /\ out.oldest # NoTick =>
          /\ newest - (k - 1) <= out.oldest /\ out.oldest <= newest
          /\ Fed(end, out.end, out.oldest, newest, stamped)

\* The row of a block's place k, for tick newest - (k - 1).
IntegrateOne(c, newest, rows, k) ==
    IF newest - (k - 1) >= 0 /\ Lands(c.end, newest - (k - 1), rows[k])
    THEN [end |-> Land(c.end, newest - (k - 1), rows[k]), oldest |-> newest - (k - 1)]
    ELSE c

(* A row that lands is stamped for its tick, and nothing else changes.     *)
LEMMA LandEffect ==
    ASSUME NEW end \in EndState, NEW t \in Nat, NEW x \in Inputs
    PROVE  /\ Land(end, t, x) \in EndState /\ SameRest(end, Land(end, t, x))
           /\ Land(end, t, x).dirty = end.dirty /\ Stamped(end, Land(end, t, x), t, x)
<1> DEFINE wrote == WriteRow(end.inputs, t, x)
           raised == SetConfidence(end.ledger, t, Authoritative)
           done == [end EXCEPT !.inputs = wrote, !.ledger = raised]
<1>1. Land(end, t, x) = done
  BY DEF Land
<1>2. wrote \in Ring(Inputs) /\ raised \in Ring(Entry)
  BY StampShape
<1> HIDE DEF wrote, raised
<1>3. done \in EndState
  BY <1>2 DEF EndState
<1>4. /\ done.tick = end.tick /\ done.states = end.states /\ done.authSim = end.authSim
      /\ done.latest = end.latest /\ done.dirty = end.dirty
      /\ done.inputs = wrote /\ done.ledger = raised
  BY DEF EndState
<1> HIDE DEF done
<1>5. QED
  BY <1>1, <1>3, <1>4 DEF SameRest, Stamped, wrote, raised

(* A place of a block leaves an end and the oldest tick landed so far.     *)
LEMMA IntegrateOneShape ==
    ASSUME NEW c \in Carried, NEW newest \in Nat, NEW rows \in Seq(Inputs), NEW k \in 1 .. Len(rows)
    PROVE  IntegrateOne(c, newest, rows, k) \in Carried
<1> DEFINE t == newest - (k - 1)
<1>1. c.end \in EndState /\ rows[k] \in Inputs /\ t \in Int
  BY DEF Carried
<1> HIDE DEF t
<1>2. CASE t >= 0 /\ Lands(c.end, t, rows[k])
  <2>1. t \in Nat
    BY <1>1, <1>2
  <2>2. Land(c.end, t, rows[k]) \in EndState
    BY <1>1, <2>1, LandEffect
  <2>3. IntegrateOne(c, newest, rows, k) = [end |-> Land(c.end, t, rows[k]), oldest |-> t]
    BY <1>2 DEF IntegrateOne, t
  <2>4. QED
    BY <2>1, <2>2, <2>3 DEF Carried, Tick
<1>3. CASE ~(t >= 0 /\ Lands(c.end, t, rows[k]))
  BY <1>3 DEF IntegrateOne, t
<1>4. QED
  BY <1>2, <1>3

\* f are what the loop over a block's rows passes through.
BlockRun(f, end, newest, rows) ==
    /\ f \in [0 .. Len(rows) -> Carried]
    /\ f[0] = [end |-> end, oldest |-> NoTick]
    /\ \A k \in 0 .. Len(rows) :
          k < Len(rows) => f[k + 1] = IntegrateOne(f[k], newest, rows, k + 1)
    /\ IntegrateRows(end, newest, rows) = f[Len(rows)]

(* The loop over a block is the run of its places.                         *)
LEMMA IntegrateIsARun ==
    ASSUME NEW end \in EndState, NEW newest \in Nat, NEW rows \in Seq(Inputs)
    PROVE  \E f : BlockRun(f, end, newest, rows)
<1> DEFINE n == Len(rows)
           start == [end |-> end, oldest |-> NoTick]
           One(c, k) == IntegrateOne(c, newest, rows, k)
           Solves(f) == f = [k \in 0 .. n |-> IF k = 0 THEN start ELSE One(f[k - 1], k)]
           G == [k \in Nat |-> [c \in Carried |-> IF k + 1 \in 1 .. n THEN One(c, k + 1) ELSE c]]
           run == CHOOSE f : Solves(f)
<1>1. n \in Nat
  OBVIOUS
<1>2. start \in Carried
  BY DEF Carried, Tick
<1>3. IntegrateRows(end, newest, rows) = run[n]
  BY DEF IntegrateRows, IntegrateOne
<1> HIDE DEF start
<1>4. ASSUME NEW k \in 1 .. n, NEW c \in Carried PROVE One(c, k) \in Carried
  BY <1>4, IntegrateOneShape
<1> HIDE DEF n, One
<1>5. G \in [Nat -> [Carried -> Carried]]
  BY <1>4
<1>6. PICK g : Solution(Carried, 0, n, start, G, g)
  <2> HIDE DEF G
  <2>1. 0 \in Nat
    OBVIOUS
  <2>2. QED
    BY <1>1, <1>2, <1>5, <2>1, RecurrenceHasSolution
<1>7. Solves(g)
  <2>1. ASSUME NEW k \in 0 .. n
        PROVE  g[k] = IF k = 0 THEN start ELSE One(g[k - 1], k)
    <3>1. g \in [0 .. n -> Carried] /\ g[k] = IF k = 0 THEN start ELSE G[k - 1][g[k - 1]]
      BY <1>6 DEF Solution
    <3>2. k # 0 => k - 1 \in Nat /\ k - 1 \in 0 .. n /\ (k - 1) + 1 = k /\ k \in 1 .. n
      BY <1>1
    <3>3. k # 0 => G[k - 1][g[k - 1]] = One(g[k - 1], k)
      BY <3>1, <3>2
    <3>4. QED
      BY <3>1, <3>3
  <2> DEFINE h == [k \in 0 .. n |-> IF k = 0 THEN start ELSE One(g[k - 1], k)]
  <2>2. \A k \in 0 .. n : g[k] = h[k]
    BY <2>1
  <2>3. g = h
    BY <1>6, <2>2 DEF Solution
  <2>4. QED
    BY <2>3
<1>8. Solves(run)
  <2> HIDE DEF Solves
  <2>1. QED
    BY <1>7
<1> HIDE DEF run
<1>9. DOMAIN run = 0 .. n /\ run = [k \in 0 .. n |-> run[k]]
  BY <1>8
<1>10. run[0] = start
  <2>1. 0 \in 0 .. n
    BY <1>1
  <2>2. QED
    BY <1>8, <2>1
<1>11. ASSUME NEW k \in 0 .. n, k < n PROVE run[k + 1] = One(run[k], k + 1)
  <2>1. k + 1 \in 0 .. n /\ k + 1 # 0 /\ (k + 1) - 1 = k
    BY <1>1, <1>11
  <2>2. run[k + 1] = IF k + 1 = 0 THEN start ELSE One(run[(k + 1) - 1], k + 1)
    BY <1>8, <2>1
  <2>3. QED
    BY <2>1, <2>2
<1>12. \A k \in 0 .. n : run[k] \in Carried
  <2> DEFINE T == {k \in 0 .. n : run[k] \in Carried}
  <2>1. 0 <= n => 0 \in T
    BY <1>1, <1>2, <1>10
  <2>2. ASSUME NEW k \in 0 .. n, k < n, k \in T PROVE k + 1 \in T
    <3>1. k + 1 \in 1 .. n /\ k + 1 \in 0 .. n
      BY <1>1, <2>2
    <3>2. QED
      BY <1>4, <1>11, <2>2, <3>1
  <2> HIDE DEF T
  <2>3. \A k \in 0 .. n : k \in T
    <3>1. 0 \in Nat
      OBVIOUS
    <3>2. QED
      BY <1>1, <2>1, <2>2, <3>1, IntervalInduction
  <2>4. QED
    BY <2>3 DEF T
<1>13. run \in [0 .. n -> Carried]
  BY <1>9, <1>12
<1>14. BlockRun(run, end, newest, rows)
  BY <1>3, <1>10, <1>11, <1>13 DEF BlockRun, n, start, One
<1>15. QED
  BY <1>14

(* A block leaves an end that differs from the one it met only from the    *)
(* oldest tick that landed on.                                             *)
LEMMA IntegrateKeeps ==
    ASSUME NEW end \in EndState, NEW newest \in Nat, NEW rows \in Seq(Inputs), NEW stamped,
           \A k \in 1 .. Len(rows) : newest - (k - 1) >= 0 => rows[k] \in stamped[newest - (k - 1)]
    PROVE  Integrated(end, IntegrateRows(end, newest, rows), newest, Len(rows), stamped)
<1> DEFINE n == Len(rows)
           Holds(c, k) == Integrated(end, c, newest, k, stamped)
<1>1. PICK f : BlockRun(f, end, newest, rows)
  BY IntegrateIsARun
<1>2. /\ f \in [0 .. n -> Carried] /\ f[0] = [end |-> end, oldest |-> NoTick]
      /\ \A k \in 0 .. n : k < n => f[k + 1] = IntegrateOne(f[k], newest, rows, k + 1)
      /\ IntegrateRows(end, newest, rows) = f[n]
  BY <1>1 DEF BlockRun
<1>3. n \in Nat /\ \A k \in 1 .. n : rows[k] \in Inputs
  OBVIOUS
<1> HIDE DEF n
<1> DEFINE T == {k \in 0 .. n : Holds(f[k], k)}
<1>4. 0 \in T
  <2>1. 0 \in 0 .. n
    BY <1>3
  <2>2. f[0] \in Carried /\ f[0].end = end /\ f[0].oldest = NoTick
    BY <1>2, <2>1
  <2>3. Holds(f[0], 0)
    BY <2>2 DEF Integrated, SameRest, Unfed
  <2>4. QED
    BY <2>1, <2>3
<1>5. ASSUME NEW k \in 0 .. n, k < n, k \in T PROVE k + 1 \in T
  <2> DEFINE now == f[k]
             done == f[k + 1]
             t == newest - ((k + 1) - 1)
             x == rows[k + 1]
  <2>1. k + 1 \in 1 .. n /\ k + 1 \in 0 .. n /\ t \in Int /\ t <= newest /\ t = newest - k
    BY <1>3, <1>5
  <2>2. now \in Carried /\ Holds(now, k) /\ x \in Inputs
    BY <1>2, <1>3, <1>5, <2>1
  <2>3. done = IF t >= 0 /\ Lands(now.end, t, x)
               THEN [end |-> Land(now.end, t, x), oldest |-> t] ELSE now
    BY <1>2, <1>5 DEF IntegrateOne
  <2>4. t >= 0 => x \in stamped[t]
    BY <2>1 DEF n
  <2> HIDE DEF now, done, x, t
  <2>5. /\ now.end \in EndState /\ now.oldest \in Tick
        /\ SameRest(end, now.end) /\ now.end.dirty = end.dirty
        /\ now.oldest = NoTick => Unfed(end, now.end)
        /\ now.oldest # NoTick => /\ newest - (k - 1) <= now.oldest /\ now.oldest <= newest
                                  /\ Fed(end, now.end, now.oldest, newest, stamped)
    BY <2>2 DEF Integrated, Carried
  <2>6. CASE t >= 0 /\ Lands(now.end, t, x)
    <3> DEFINE landed == Land(now.end, t, x)
    <3>1. t \in Nat
      BY <2>1, <2>6
    <3>2. landed \in EndState /\ SameRest(now.end, landed)
          /\ landed.dirty = now.end.dirty /\ Stamped(now.end, landed, t, x)
      BY <2>2, <2>5, <3>1, LandEffect
    <3>3. done = [end |-> landed, oldest |-> t]
      BY <2>3, <2>6
    <3> HIDE DEF landed
    <3>4. Fed(end, now.end, t, newest, stamped)
      <4>1. CASE now.oldest = NoTick
        BY <2>5, <4>1, FedByNothing
      <4>2. CASE now.oldest # NoTick
        <5>1. now.oldest \in Int /\ t <= now.oldest
          BY <1>3, <2>1, <2>5, <4>2 DEF Tick, NoTick
        <5>2. QED
          BY <2>1, <2>5, <4>2, <5>1, FedWidens
      <4>3. QED
        BY <4>1, <4>2
    <3>5. t \in t .. newest /\ x \in stamped[t]
      BY <2>1, <2>4, <2>6, <3>1
    <3>6. Fed(end, landed, t, newest, stamped)
      BY <2>1, <2>2, <3>1, <3>2, <3>4, <3>5, StampFeeds
    <3>7. done \in Carried /\ done.end = landed /\ done.oldest = t /\ t # NoTick
      BY <3>1, <3>2, <3>3 DEF Carried, Tick, NoTick
    <3>8. newest - ((k + 1) - 1) <= t
      BY <2>1 DEF t
    <3>9. Holds(done, k + 1)
      BY <2>1, <2>5, <3>2, <3>6, <3>7, <3>8 DEF Integrated, SameRest
    <3>10. QED
      BY <2>1, <3>9 DEF done
  <2>7. CASE ~(t >= 0 /\ Lands(now.end, t, x))
    <3>1. done = now
      BY <2>3, <2>7
    <3>2. now.oldest # NoTick => newest - ((k + 1) - 1) <= now.oldest
      <4>1. now.oldest # NoTick => now.oldest \in Nat
        BY <2>5 DEF Tick
      <4>2. QED
        BY <1>3, <2>5, <4>1
    <3>3. Holds(done, k + 1)
      BY <2>2, <2>5, <3>1, <3>2 DEF Integrated
    <3>4. QED
      BY <2>1, <3>3 DEF done
  <2>8. QED
    BY <2>6, <2>7
<1>6. \A k \in 0 .. n : k \in T
  <2> HIDE DEF T
  <2>1. 0 \in Nat /\ (0 <= n => 0 \in T)
    BY <1>4
  <2>2. QED
    BY <1>3, <1>5, <2>1, IntervalInduction
<1>7. n \in T
  BY <1>3, <1>6
<1>8. QED
  BY <1>2, <1>7 DEF n

(* A landed row that the simulation has passed opens a window at it, or at *)
(* the horizon if it is older.                                             *)
LEMMA ResimReachesTheRow ==
    ASSUME NEW novel \in Tick, NEW current \in Nat
    PROVE  /\ ResimInputFrom(novel, current) \in Tick
           /\ ResimInputFrom(novel, current) # NoTick =>
                 /\ novel # NoTick /\ novel <= ResimInputFrom(novel, current)
                 /\ ResimInputFrom(novel, current) < current
                 /\ \/ ResimInputFrom(novel, current) = novel
                    \/ ResimInputFrom(novel, current) <= current - Horizon
           /\ ResimInputFrom(novel, current) = NoTick =>
                 novel = NoTick \/ novel >= current \/ Horizon = 0
<1> DEFINE floor == current - Horizon
           from == Max({novel, floor, 0})
<1>0. Horizon \in Nat
  BY WindowAssumption
<1>1. novel \in Int /\ floor \in Int /\ floor <= current /\ 0 \in Int
  BY <1>0 DEF Tick, NoTick
<1>2. /\ from \in Int /\ from \in {novel, floor, 0}
      /\ from >= novel /\ from >= floor /\ from >= 0
  <2> HIDE DEF floor
  <2>1. \A a, b, c \in Int : /\ Max({a, b, c}) \in Int
                            /\ Max({a, b, c}) \in {a, b, c}
                            /\ Max({a, b, c}) >= a /\ Max({a, b, c}) >= b
                            /\ Max({a, b, c}) >= c
    BY GreatestOfThree
  <2> DEFINE zero == 0
  <2> HIDE DEF zero
  <2>2. zero \in Int
    BY DEF zero
  <2>3. /\ Max({novel, floor, zero}) \in Int
        /\ Max({novel, floor, zero}) \in {novel, floor, zero}
        /\ Max({novel, floor, zero}) >= novel /\ Max({novel, floor, zero}) >= floor
        /\ Max({novel, floor, zero}) >= zero
    BY <1>1, <2>1, <2>2
  <2>4. QED
    BY <2>3 DEF zero
<1>3. ResimInputFrom(novel, current) = IF novel = NoTick \/ from >= current THEN NoTick ELSE from
  BY DEF ResimInputFrom
<1> HIDE DEF from
<1>4. CASE novel = NoTick
  BY <1>3, <1>4 DEF Tick
<1>5. CASE novel # NoTick /\ from >= current
  BY <1>0, <1>1, <1>2, <1>3, <1>5 DEF Tick, NoTick
<1>6. CASE novel # NoTick /\ ~(from >= current)
  <2>1. ResimInputFrom(novel, current) = from /\ novel \in Nat
    BY <1>3, <1>6 DEF Tick
  <2>2. from = 0 => novel = 0
    BY <1>2, <2>1
  <2>3. QED
    BY <1>1, <1>2, <1>6, <2>1, <2>2 DEF Tick, NoTick
<1>7. QED
  BY <1>4, <1>5, <1>6

(* What a client sends are rows it holds, each at the place of its tick.   *)
LEMMA SentRowsAreHeld ==
    ASSUME NEW rows \in Ring(Inputs), NEW d \in SentRows(rows)
    PROVE  /\ d.newest \in Nat /\ d.rows \in Seq(Inputs)
           /\ d = [newest |-> d.newest, rows |-> d.rows]
           /\ \A k \in 1 .. Len(d.rows) :
                 /\ d.newest - (k - 1) \in DOMAIN rows
                 /\ d.rows[k] = rows[d.newest - (k - 1)]
<1> DEFINE newest == LatestTick(rows)
           Ends(n) == /\ \A k \in 0 .. n - 1 : newest - k \in DOMAIN rows
                      /\ n = Redundancy \/ newest - n \notin DOMAIN rows
           run == CHOOSE n \in 1 .. Redundancy : Ends(n)
           sent == [k \in 1 .. run |-> rows[newest - (k - 1)]]
<1>1. /\ rows \in [DOMAIN rows -> Inputs] /\ DOMAIN rows \in Bounded /\ DOMAIN rows \subseteq Nat
      /\ Redundancy \in Nat \ {0}
  BY RingIsFunction, WindowAssumption
<1>2. newest # NoTick /\ d = [newest |-> newest, rows |-> sent]
  BY DEF SentRows
<1>3. newest \in DOMAIN rows /\ newest \in Nat
  <2>1. DOMAIN rows # {}
    BY <1>2 DEF LatestTick
  <2>2. QED
    BY <1>1, <2>1, LatestIsGreatest
<1> HIDE DEF newest
<1>4. \E n \in 1 .. Redundancy : Ends(n)
  <2> DEFINE Stops == {n \in 1 .. Redundancy : n = Redundancy \/ newest - n \notin DOMAIN rows}
  <2>1. Stops \in SUBSET Nat /\ Stops # {}
    <3>1. Redundancy \in Stops
      BY <1>1
    <3>2. QED
      BY <3>1
  <2>2. PICK n \in Stops : \A m \in Stops : n <= m
    BY <2>1, LeastMember
  <2>3. ASSUME NEW k \in 0 .. n - 1 PROVE newest - k \in DOMAIN rows
    <3>1. n \in 1 .. Redundancy /\ n \in Nat
      BY <2>2
    <3>2. CASE k = 0
      BY <1>3, <3>2
    <3>3. CASE k # 0
      <4>1. k \in 1 .. Redundancy /\ ~(n <= k)
        BY <1>1, <2>3, <3>1, <3>3
      <4>2. k \notin Stops
        BY <2>2, <4>1
      <4>3. QED
        BY <4>1, <4>2
    <3>4. QED
      BY <3>2, <3>3
  <2>4. QED
    BY <2>2, <2>3
<1>5. run \in 1 .. Redundancy /\ Ends(run)
  BY <1>4
<1> HIDE DEF run
<1>6. ASSUME NEW k \in 1 .. run PROVE newest - (k - 1) \in DOMAIN rows
  <2>1. k - 1 \in 0 .. run - 1
    BY <1>5
  <2>2. QED
    BY <1>5, <2>1
<1>7. sent \in [1 .. run -> Inputs] /\ run \in Nat
  BY <1>1, <1>5, <1>6
<1>8. sent \in Seq(Inputs) /\ Len(sent) = run
  BY <1>7
<1>9. QED
  BY <1>2, <1>3, <1>6, <1>8

-----------------------------------------------------------------------------
(* A frame.                                                                *)

\* `run` takes `end` through a frame that replays from .. current - 1.
Ran(end, run, from, current, owns) ==
    /\ run \in [from .. current -> EndState]
    /\ run[current].tick = current /\ run[current].dirty = NoTick
    /\ run[current].inputs = end.inputs
    /\ ~owns => run[current].latest = end.latest
    /\ \A t \in from .. current : run[t].inputs = end.inputs
    /\ Passed(end.ledger, run[current].ledger, from, current)
    /\ \A S \in SUBSET Nat : Reads(end.ledger, S) =>
          /\ Reads(run[current].ledger, S \cup FreshIn(run, from, current))
          /\ \A u \in FreshIn(run, from, current) : u \notin S
          /\ \A u \in from .. current - 1 :
                u \in DOMAIN end.ledger /\ end.ledger[u].confidence = Authoritative
                /\ ~end.ledger[u].consumed => u \in FreshIn(run, from, current)
          /\ end.authSim <= current =>
                /\ run[current].authSim <= current
                /\ from < current /\ owns /\ current - 1 \in DOMAIN end.ledger
                   /\ end.ledger[current - 1].confidence = Authoritative
                      => run[current].authSim = current
    /\ OutsideIsKept(end.states, run[current].states, from, current)
    /\ \A u \in from .. current - 1 :
          (\A v \in DOMAIN end.states : v < u + 1 + Cap) => Exact(run[current], u)

(* A frame that replays an interval ends at its tick with no window, reads *)
(* each tick fresh at most once and leaves the ticks it ran exact.         *)
LEMMA FrameRuns ==
    ASSUME NEW end \in EndState, NEW current \in Nat, NEW owns \in BOOLEAN,
           NEW simulates \in BOOLEAN, NEW from \in Nat,
           Replays(end, current, owns, simulates, from)
    PROVE  Ran(end, RunRollback(end, current, owns, simulates), from, current, owns)
<1> DEFINE taken == [end EXCEPT !.dirty = NoTick, !.tick = current]
           run == Simulated(taken, from, current, owns)
<1>1. /\ from \in Nat /\ from <= current /\ taken \in EndState
      /\ RunRollback(end, current, owns, simulates) = run
  BY DEF Replays
<1>2. /\ taken.tick = current /\ taken.dirty = NoTick /\ taken.inputs = end.inputs
      /\ taken.ledger = end.ledger /\ taken.states = end.states
      /\ taken.latest = end.latest /\ taken.authSim = end.authSim
  BY DEF EndState
<1> HIDE DEF taken
<1>3. run \in [from .. current -> EndState]
  BY <1>1, ReplayIsARun
<1>4. \A t \in from .. current :
        /\ run[t].tick = taken.tick /\ run[t].inputs = taken.inputs
        /\ run[t].dirty = taken.dirty
        /\ ~owns => run[t].latest = taken.latest
  BY <1>1, ReplayKeepsTheRest
<1>5. current \in from .. current
  BY <1>1
<1>6. ASSUME NEW S \in SUBSET Nat, Reads(end.ledger, S)
      PROVE  /\ Passed(end.ledger, run[current].ledger, from, current)
             /\ Reads(run[current].ledger, S \cup FreshIn(run, from, current))
             /\ \A u \in FreshIn(run, from, current) : u \notin S
             /\ \A u \in from .. current - 1 :
                   u \in DOMAIN end.ledger /\ end.ledger[u].confidence = Authoritative
                   /\ ~end.ledger[u].consumed => u \in FreshIn(run, from, current)
             /\ end.authSim <= current =>
                   /\ run[current].authSim <= current
                   /\ from < current /\ owns /\ current - 1 \in DOMAIN end.ledger
                      /\ end.ledger[current - 1].confidence = Authoritative
                         => run[current].authSim = current
  <2>1. Reads(taken.ledger, S)
    BY <1>2, <1>6
  <2>2. /\ Passed(taken.ledger, run[current].ledger, from, current)
        /\ Reads(run[current].ledger, S \cup FreshIn(run, from, current))
        /\ \A u \in FreshIn(run, from, current) : u \notin S
        /\ \A u \in from .. current - 1 :
              u \in DOMAIN taken.ledger /\ taken.ledger[u].confidence = Authoritative
              /\ ~taken.ledger[u].consumed => u \in FreshIn(run, from, current)
    <3>1. \A t \in from .. current : ReadsOnce(taken.ledger, run, from, t, S)
      BY <1>1, <2>1, ReplayReadsOnce
    <3> HIDE DEF run
    <3>2. QED
      BY <1>5, <3>1 DEF ReadsOnce
  <2>3. taken.authSim <= current =>
           /\ run[current].authSim <= current
           /\ from < current /\ owns /\ current - 1 \in DOMAIN taken.ledger
              /\ taken.ledger[current - 1].confidence = Authoritative
                 => run[current].authSim = current
    BY <1>1, <2>1, ReplayMovesTheFrontier
  <2> HIDE DEF run
  <2>4. QED
    BY <1>2, <2>2, <2>3
<1>7. /\ OutsideIsKept(taken.states, run[current].states, from, current)
      /\ \A u \in from .. current - 1 :
            (\A v \in DOMAIN taken.states : v < u + 1 + Cap) => Exact(run[current], u)
  BY <1>1, <1>5, ReplayMakesExact
<1> HIDE DEF run
<1>8. Passed(end.ledger, run[current].ledger, from, current)
  <2> DEFINE S == {u \in DOMAIN end.ledger : end.ledger[u].consumed}
  <2>1. DOMAIN end.ledger \subseteq Nat
    BY RingIsFunction DEF EndState
  <2>2. S \in SUBSET Nat
    BY <2>1
  <2>3. Reads(end.ledger, S)
    BY DEF Reads
  <2> HIDE DEF S
  <2>4. QED
    BY <1>6, <2>2, <2>3
<1>9. QED
  BY <1>1, <1>2, <1>3, <1>4, <1>5, <1>6, <1>7, <1>8 DEF Ran

-----------------------------------------------------------------------------
(* Exactness.                                                              *)

\* From tick `floor` on, the settled ticks whose input no row `most` ahead can
\* evict are exact.
ExactFrom(end, floor, most) ==
    \A t \in Nat : t >= floor /\ Settled(end, t) /\ Sourced(end, t, most) => Exact(end, t)

(* An exact tick stays exact where its input and its two rows are kept.    *)
LEMMA ExactTransfers ==
    ASSUME NEW a, NEW b, NEW u \in Nat, Exact(a, u),
           ClosestTick(a.inputs, u) = ClosestTick(b.inputs, u),
           b.inputs[ClosestTick(a.inputs, u)] = a.inputs[ClosestTick(a.inputs, u)],
           \A v \in DOMAIN b.states : v \in {u, u + 1} =>
               v \in DOMAIN a.states /\ b.states[v] = a.states[v]
    PROVE  Exact(b, u)
<1> SUFFICES ASSUME {u, u + 1} \subseteq DOMAIN b.states, ClosestTick(b.inputs, u) # NoTick
             PROVE  b.states[u + 1] = Step(b.states[u], InputAt(b, u))
  BY DEF Exact
<1>1. {u, u + 1} \subseteq DOMAIN a.states
      /\ b.states[u] = a.states[u] /\ b.states[u + 1] = a.states[u + 1]
  OBVIOUS
<1>2. a.states[u + 1] = Step(a.states[u], InputAt(a, u))
  BY <1>1 DEF Exact
<1>3. InputAt(b, u) = InputAt(a, u)
  BY DEF InputAt
<1>4. QED
  BY <1>1, <1>2, <1>3

(* A frame that simulates its ticks leaves exact what was exact, and makes *)
(* exact what its window held.                                             *)
LEMMA FrameIsExact ==
    ASSUME NEW was \in EndState, NEW ready, NEW n \in Nat \ {0}, n < Cap,
           NEW ahead \in Nat, NEW most \in Nat, ahead <= most,
           NEW authors, NEW orphaned, NEW stamped,
           Prepared(was, ready, n, n, ahead, authors, orphaned, TRUE, stamped),
           NEW owns \in BOOLEAN, NEW simulates \in BOOLEAN, NEW from \in Nat,
           Replays(ready, was.tick + n, owns, simulates, from),
           NEW run, Ran(ready, run, from, was.tick + n, owns),
           NEW floor \in Int, ExactFrom(was, floor, most),
           \A v \in DOMAIN was.states : v <= was.tick \/ v <= floor
    PROVE  ExactFrom(run[was.tick + n], floor, most)
<1> DEFINE current == was.tick + n
           done == run[current]
<1>1. /\ was.tick \in Nat /\ was.dirty \in Tick /\ current \in Nat /\ was.tick < current
      /\ Cap \in Nat /\ DOMAIN was.states \subseteq Nat
  BY CapAssumption, RingIsFunction DEF EndState
<1>2. /\ ready \in EndState /\ ready.states = was.states
      /\ ready.dirty = MarkDirty(was.dirty, was.tick)
      /\ Fed(was, ready, was.tick + ahead, was.tick + ahead + n - 1, stamped)
  BY DEF Prepared, SameRest
<1>3. /\ ready.dirty \in Nat /\ ready.dirty <= was.tick
      /\ was.dirty # NoTick => ready.dirty <= was.dirty
  BY <1>1, <1>2, MarkDeepens
<1>4. /\ from <= current
      /\ from <= ready.dirty \/ from = current - Cap
  BY <1>1, <1>3 DEF Replays, NoTick
<1>5. /\ done.tick = current /\ done.dirty = NoTick /\ done.inputs = ready.inputs
      /\ OutsideIsKept(ready.states, done.states, from, current)
      /\ \A u \in from .. current - 1 :
            (\A v \in DOMAIN ready.states : v < u + 1 + Cap) => Exact(done, u)
  BY DEF Ran
<1> HIDE DEF done
<1> SUFFICES ASSUME NEW t \in Nat, t >= floor, Settled(done, t), Sourced(done, t, most)
             PROVE  Exact(done, t)
  BY DEF ExactFrom, done
<1> DEFINE c == ClosestTick(done.inputs, t)
<1>6. CASE c = NoTick
  BY <1>6 DEF Exact
<1>7. CASE c # NoTick
  <2>1. c \in Nat /\ c <= t
    <3>1. DOMAIN done.inputs \in Bounded
      BY <1>2, <1>5, RingIsFunction DEF EndState
    <3>2. QED
      BY <1>7, <3>1, ClosestIsResident
  <2>2. t < current /\ c > current + most - Cap
    BY <1>5 DEF Settled, Sourced
  <2>3. t > current - Cap
    BY <1>1, <2>1, <2>2
  <2>4. CASE t >= from
    <3>1. ASSUME NEW v \in DOMAIN ready.states PROVE v < t + 1 + Cap
      <4>1. v \in Nat /\ (v <= was.tick \/ v <= floor)
        BY <1>1, <1>2
      <4>2. QED
        BY <1>1, <2>3, <4>1
    <3>2. t \in from .. current - 1
      BY <1>1, <2>2, <2>4
    <3>3. QED
      BY <1>5, <3>1, <3>2
  <2>5. CASE ~(t >= from)
    <3>1. t < ready.dirty
      BY <1>1, <1>3, <1>4, <2>3, <2>5
    <3>2. t < was.tick /\ (was.dirty = NoTick \/ t < was.dirty)
      BY <1>1, <1>3, <3>1 DEF Tick
    <3>3. Settled(was, t)
      BY <3>2 DEF Settled
    <3>4. c > was.tick + ahead + n - 1 - Cap /\ t < was.tick + ahead
          /\ c > was.tick + most - Cap
      BY <1>1, <2>1, <2>2, <3>2
    <3>5. /\ ClosestTick(was.inputs, t) = c
          /\ ready.inputs[c] = was.inputs[c]
      <4> DEFINE low == was.tick + ahead
                 high == was.tick + ahead + n - 1
      <4>1. \A u \in Nat :
               u < low /\ ClosestTick(ready.inputs, u) # NoTick
                  /\ ClosestTick(ready.inputs, u) > high - Cap
                => /\ ClosestTick(was.inputs, u) = ClosestTick(ready.inputs, u)
                   /\ ready.inputs[ClosestTick(was.inputs, u)]
                        = was.inputs[ClosestTick(was.inputs, u)]
        BY <1>2 DEF Fed
      <4>2. ClosestTick(ready.inputs, t) = c
        BY <1>5
      <4>3. t < low /\ c > high - Cap
        BY <1>1, <2>1, <3>4
      <4> HIDE DEF c, low, high
      <4>4. QED
        BY <1>7, <4>1, <4>2, <4>3
    <3>6. Sourced(was, t, most)
      BY <3>4, <3>5 DEF Sourced
    <3>7. Exact(was, t)
      BY <3>3, <3>6 DEF ExactFrom
    <3>8. ASSUME NEW v \in DOMAIN done.states, v \in {t, t + 1}
          PROVE  v \in DOMAIN was.states /\ done.states[v] = was.states[v]
      <4>1. v <= from
        BY <1>1, <2>5, <3>8
      <4>2. QED
        BY <1>2, <1>5, <3>8, <4>1 DEF OutsideIsKept
    <3>9. QED
      BY <1>5, <3>5, <3>7, <3>8, ExactTransfers
  <2>6. QED
    BY <2>4, <2>5
<1>8. QED
  BY <1>6, <1>7

(* A block marks every exact tick within the horizon that its rows reach.  *)
LEMMA BlockIsExact ==
    ASSUME NEW was \in EndState, NEW out, NEW newest \in Nat, NEW k, NEW stamped,
           NEW most \in Nat, newest <= was.tick + most,
           Integrated(was, out, newest, k, stamped),
           ExactFrom(was, was.tick - Horizon, most),
           NEW done, done.tick = was.tick, done.states = was.states,
           done.inputs = out.end.inputs,
           done.dirty = IF ResimInputFrom(out.oldest, was.tick) = NoTick THEN was.dirty
                        ELSE MarkDirty(was.dirty, ResimInputFrom(out.oldest, was.tick))
    PROVE  ExactFrom(done, was.tick - Horizon, most)
<1> DEFINE from == ResimInputFrom(out.oldest, was.tick)
           old == out.oldest
<1>1. /\ was.tick \in Nat /\ was.dirty \in Tick /\ Cap \in Nat /\ Horizon \in Nat
      /\ old \in Tick /\ out.end \in EndState
      /\ old = NoTick => Unfed(was, out.end)
      /\ old # NoTick => old <= newest /\ Fed(was, out.end, old, newest, stamped)
  BY CapAssumption, WindowAssumption DEF EndState, Integrated, Carried
<1>2. /\ from \in Tick
      /\ from # NoTick => old # NoTick /\ old <= from /\ from < was.tick
                          /\ (from = old \/ from <= was.tick - Horizon)
      /\ from = NoTick => old = NoTick \/ old >= was.tick \/ Horizon = 0
  BY <1>1, ResimReachesTheRow
<1>3. done.dirty = IF from = NoTick THEN was.dirty ELSE MarkDirty(was.dirty, from)
  OBVIOUS
<1> HIDE DEF from, old
<1>4. SUFFICES ASSUME NEW t \in Nat, t >= was.tick - Horizon, Settled(done, t),
                      Sourced(done, t, most)
               PROVE  Exact(done, t)
  BY DEF ExactFrom
<1>5. /\ t < was.tick
      /\ was.dirty = NoTick \/ t < was.dirty
      /\ from # NoTick => t < from
  <2>1. t < was.tick /\ (done.dirty = NoTick \/ t < done.dirty)
    BY <1>4 DEF Settled
  <2>2. CASE from = NoTick
    BY <1>3, <2>1, <2>2
  <2>3. CASE from # NoTick
    <3>1. from \in Nat
      BY <1>2, <2>3 DEF Tick
    <3>2. /\ MarkDirty(was.dirty, from) \in Nat /\ MarkDirty(was.dirty, from) <= from
          /\ was.dirty # NoTick => MarkDirty(was.dirty, from) <= was.dirty
      BY <1>1, <3>1, MarkDeepens
    <3>3. QED
      BY <1>1, <1>3, <2>1, <2>3, <3>1, <3>2 DEF Tick, NoTick
  <2>4. QED
    BY <2>2, <2>3
<1>6. Settled(was, t)
  BY <1>5 DEF Settled
<1> DEFINE c == ClosestTick(done.inputs, t)
<1>7. CASE c = NoTick
  BY <1>7 DEF Exact
<1>8. CASE c # NoTick
  <2>1. c > was.tick + most - Cap
    BY <1>4 DEF Sourced
  <2>2. ClosestTick(was.inputs, t) = c /\ done.inputs[c] = was.inputs[c]
    <3>1. CASE old = NoTick
      BY <1>1, <3>1 DEF Unfed
    <3>2. CASE old # NoTick
      <4>1. old \in Nat /\ t < old
        <5>1. old \in Nat
          BY <1>1, <3>2 DEF Tick
        <5>2. QED
          BY <1>1, <1>2, <1>4, <1>5, <3>2, <5>1
      <4>2. c \in Nat
        <5>1. DOMAIN done.inputs \in Bounded
          BY <1>1, RingIsFunction DEF EndState
        <5>2. QED
          BY <1>8, <5>1, ClosestIsResident
      <4>3. c > newest - Cap
        BY <1>1, <2>1, <4>2
      <4>4. QED
        BY <1>1, <1>8, <3>2, <4>1, <4>3 DEF Fed
    <3>3. QED
      BY <3>1, <3>2
  <2>3. Sourced(was, t, most)
    BY <2>1, <2>2 DEF Sourced
  <2>4. Exact(was, t)
    BY <1>4, <1>6, <2>3 DEF ExactFrom
  <2>5. QED
    BY <2>2, <2>4, ExactTransfers
<1>9. QED
  BY <1>7, <1>8

\* What a snapshot row for tick t makes of an end.
Receives(was, done, t, row, predicts) ==
    /\ done \in EndState /\ done.tick = was.tick /\ done.inputs = was.inputs
    /\ \/ done = was /\ was.latest # NoTick /\ t <= was.latest
       \/ /\ was.latest = NoTick \/ t > was.latest
          /\ done.latest = t
          /\ \/ done.states = was.states /\ done.dirty = was.dirty
             \/ /\ done.states = WriteRow(was.states, t, row)
                /\ \/ /\ done.dirty = MarkDirty(was.dirty, t)
                      /\ t < was.tick /\ ~IsStale(was.states, t)
                   \/ /\ done.dirty = was.dirty
                      /\ \/ ~predicts
                         \/ t >= was.tick
                         \/ t \in DOMAIN was.states /\ was.states[t] = row

(* A snapshot row is superseded, buffered, kept or replayed from.          *)
LEMMA RowIsReceived ==
    ASSUME NEW end \in EndState, NEW t \in Nat, NEW row \in Poses, NEW predicts \in BOOLEAN
    PROVE  Receives(end, IntegrateRow(end, t, row, predicts), t, row, predicts)
<1> DEFINE done == IntegrateRow(end, t, row, predicts)
           wrote == WriteRow(end.states, t, row)
           marked == MarkDirty(end.dirty, t)
           mispredicted == ~(t \in DOMAIN end.states /\ end.states[t] = row)
           seen == [end EXCEPT !.latest = t]
           kept == [seen EXCEPT !.states = wrote]
           shown == [kept EXCEPT !.pending = {row}]
           replays == [kept EXCEPT !.dirty = marked]
<1>1. /\ wrote \in Ring(Poses) /\ marked \in Tick /\ t \in Tick /\ {row} \in SUBSET Poses
      /\ end.tick \in Nat
  <2>1. end.states \in Ring(Poses) /\ end.dirty \in Tick /\ end.tick \in Nat
    BY DEF EndState
  <2>2. QED
    BY <2>1, WrittenRows, MarkDeepens DEF Tick
<1>2. done = IF end.latest # NoTick /\ t <= end.latest THEN end
             ELSE IF ~predicts THEN shown
             ELSE IF IsStale(end.states, t) THEN seen
             ELSE IF mispredicted /\ t < end.tick THEN replays
             ELSE kept
  BY <1>1 DEF IntegrateRow
<1>3. seen \in EndState /\ seen.latest = t /\ seen.tick = end.tick /\ seen.inputs = end.inputs
      /\ seen.states = end.states /\ seen.dirty = end.dirty
  BY <1>1 DEF EndState
<1> HIDE DEF wrote, marked, mispredicted, seen
<1>4. kept \in EndState /\ kept.latest = t /\ kept.tick = end.tick /\ kept.inputs = end.inputs
      /\ kept.states = wrote /\ kept.dirty = end.dirty
  BY <1>1, <1>3 DEF EndState
<1> HIDE DEF kept
<1>5. shown \in EndState /\ shown.latest = t /\ shown.tick = end.tick /\ shown.inputs = end.inputs
      /\ shown.states = wrote /\ shown.dirty = end.dirty
  BY <1>1, <1>4 DEF EndState
<1>6. replays \in EndState /\ replays.latest = t /\ replays.tick = end.tick
      /\ replays.inputs = end.inputs /\ replays.states = wrote /\ replays.dirty = marked
  BY <1>1, <1>4 DEF EndState
<1> HIDE DEF done, shown, replays
<1>7. CASE end.latest # NoTick /\ t <= end.latest
  BY <1>2, <1>7 DEF Receives, done
<1>8. CASE ~(end.latest # NoTick /\ t <= end.latest)
  <2>0. end.latest = NoTick \/ t > end.latest
    <3>1. end.latest = NoTick \/ end.latest \in Nat
      BY DEF EndState, Tick
    <3>2. QED
      BY <1>8, <3>1
  <2>1. CASE ~predicts
    BY <1>2, <1>5, <1>8, <2>0, <2>1 DEF Receives, done, wrote
  <2>2. CASE predicts /\ IsStale(end.states, t)
    BY <1>2, <1>3, <1>8, <2>0, <2>2 DEF Receives, done
  <2>3. CASE predicts /\ ~IsStale(end.states, t) /\ mispredicted /\ t < end.tick
    BY <1>2, <1>6, <1>8, <2>0, <2>3 DEF Receives, done, wrote, marked
  <2>4. CASE predicts /\ ~IsStale(end.states, t) /\ ~(mispredicted /\ t < end.tick)
    <3>1. t >= end.tick \/ (t \in DOMAIN end.states /\ end.states[t] = row)
      BY <1>1, <2>4 DEF mispredicted
    <3>2. QED
      BY <1>2, <1>4, <1>8, <2>0, <2>4, <3>1 DEF Receives, done, wrote
  <2>5. QED
    BY <2>1, <2>2, <2>3, <2>4
<1>9. QED
  BY <1>7, <1>8

(* A row a client predicts with leaves exact the ticks from it on, or      *)
(* marks them for a replay.                                                *)
LEMMA RowIsExact ==
    ASSUME NEW was \in EndState, NEW done, NEW t \in Nat, NEW row \in Poses,
           Receives(was, done, t, row, TRUE),
           NEW most \in Nat, ExactFrom(was, was.latest, most)
    PROVE  ExactFrom(done, done.latest, most)
<1>1. /\ done \in EndState /\ done.tick = was.tick /\ done.inputs = was.inputs
      /\ was.tick \in Nat /\ was.dirty \in Tick /\ was.latest \in Tick
      /\ was.states \in Ring(Poses)
  BY DEF Receives, EndState
<1>2. CASE done = was
  BY <1>2
<1>3. CASE done # was
  <2>1. /\ was.latest = NoTick \/ t > was.latest
        /\ done.latest = t
        /\ \/ done.states = was.states /\ done.dirty = was.dirty
           \/ /\ done.states = WriteRow(was.states, t, row)
              /\ \/ done.dirty = MarkDirty(was.dirty, t) /\ t < was.tick
                 \/ /\ done.dirty = was.dirty
                    /\ t >= was.tick \/ (t \in DOMAIN was.states /\ was.states[t] = row)
    BY <1>3 DEF Receives
  <2>2. SUFFICES ASSUME NEW u \in Nat, u >= t, Settled(done, u), Sourced(done, u, most)
                 PROVE  Exact(done, u)
    BY <2>1 DEF ExactFrom
  <2>3. u < was.tick /\ (done.dirty = NoTick \/ u < done.dirty) /\ ~(t >= was.tick)
    BY <1>1, <2>2 DEF Settled
  <2>4. done.dirty = was.dirty
    <3>1. MarkDirty(was.dirty, t) \in Nat /\ MarkDirty(was.dirty, t) <= t
      BY <1>1, MarkDeepens
    <3>2. QED
      BY <2>1, <2>2, <2>3, <3>1 DEF NoTick
  <2>5. \A v \in DOMAIN done.states :
           v \in DOMAIN was.states /\ done.states[v] = was.states[v]
    <3>1. CASE done.states = was.states
      BY <3>1
    <3>2. CASE done.states # was.states
      <4> DEFINE w == WriteRow(was.states, t, row)
      <4>1. /\ DOMAIN w \subseteq DOMAIN was.states \cup {t}
            /\ \A v \in DOMAIN w : v # t => w[v] = was.states[v]
            /\ ~IsStale(was.states, t) => t \in DOMAIN w /\ w[t] = row
            /\ IsStale(was.states, t) => w = was.states
        BY <1>1, WrittenRows
      <4>2. done.states = w /\ t \in DOMAIN was.states /\ was.states[t] = row
        <5>1. MarkDirty(was.dirty, t) \in Nat /\ MarkDirty(was.dirty, t) <= t
          BY <1>1, MarkDeepens
        <5>2. done.dirty # MarkDirty(was.dirty, t)
          BY <2>2, <2>3, <5>1 DEF NoTick
        <5>3. QED
          BY <2>1, <2>3, <3>2, <5>2
      <4> HIDE DEF w
      <4>3. QED
        BY <4>1, <4>2
    <3>3. QED
      BY <3>1, <3>2
  <2>6. Settled(was, u) /\ Sourced(was, u, most)
    BY <1>1, <2>2, <2>3, <2>4 DEF Settled, Sourced
  <2>7. u >= was.latest
    BY <1>1, <2>1, <2>2 DEF Tick, NoTick
  <2>8. Exact(was, u)
    BY <2>6, <2>7 DEF ExactFrom
  <2>9. QED
    BY <1>1, <2>5, <2>8, ExactCarries
<1>4. QED
  BY <1>2, <1>3

-----------------------------------------------------------------------------
(* The inductive invariant.                                                *)

InputDatagrams == [newest : Nat, rows : Seq(Inputs)]

SnapshotRows == [tick : Nat, row : Poses]

RollbackTypes ==
    /\ srv \in EndState /\ srv.tick <= MaxTick
    /\ cli \in EndState /\ cli.tick <= MaxTick + LeadHigh
    /\ up \in SUBSET InputDatagrams /\ down \in SUBSET SnapshotRows
    /\ live \in BOOLEAN /\ exempt \in BOOLEAN /\ cast \in {"owner", "host"}
    /\ delay \in Delays
    /\ shots \in [Ticks -> Seq(Inputs)]
    /\ held \in SUBSET Nat
    /\ authored \in [Ticks -> SUBSET Inputs]
    /\ heard \in Poses

\* The ticks that read fresh on the server.
WasRead == {t \in Ticks : shots[t] # <<>>}

\* What the server has run with nobody driving is past, and ran on no intent.
HeldIsPast ==
    \A h \in held :
       /\ h < srv.tick
       /\ h \in DOMAIN srv.inputs => srv.inputs[h] = Neutral
       /\ shots[h] = <<Neutral>>

\* No row of the server's rings is so far ahead that a lap could separate it
\* from a tick still to run.
ServerRingsAreNear ==
    /\ \A u \in DOMAIN srv.inputs : u \in Ticks /\ u <= srv.tick + Future
    /\ \A u \in DOMAIN srv.ledger : u <= srv.tick + Future
    /\ \A u \in DOMAIN srv.states : u <= srv.tick

\* The ledger's consumed marks are the fresh reads there have been, one for each
\* tick and each before the server's own.
LedgerCounts ==
    /\ Reads(srv.ledger, WasRead)
    /\ \A t \in WasRead : t < srv.tick /\ Len(shots[t]) = 1

\* An authoritative tick not yet read is ahead, beyond the horizon or marked.
NothingIsMissed ==
    \A t \in DOMAIN srv.ledger :
       srv.ledger[t].confidence = Authoritative /\ ~srv.ledger[t].consumed
          => \/ t >= srv.tick
             \/ t < srv.tick - Horizon
             \/ srv.dirty # NoTick /\ srv.dirty <= t

\* The frontier is no later than the server, and with it on an orphaned body.
FrontierIsReached ==
    /\ srv.authSim <= srv.tick
    /\ srv.tick - 1 \in held => srv.authSim = srv.tick

ServerIsExact == ExactFrom(srv, srv.tick - Horizon, Future)

ServerInv ==
    /\ InputsKeepTheirTick
    /\ HeldIsPast /\ ServerRingsAreNear
    /\ LedgerCounts /\ NothingIsMissed /\ FrontierIsReached
    /\ ServerIsExact

\* A row of the client, and a row in flight, is one its driver captured for the
\* tick the row stands for.
ClientRowsAreAuthored ==
    /\ \A t \in DOMAIN cli.inputs : t \in Ticks /\ cli.inputs[t] \in authored[t]
    /\ \A d \in up : \A k \in 1 .. Len(d.rows) :
          /\ d.newest - (k - 1) \in Ticks
          /\ d.rows[k] \in authored[d.newest - (k - 1)]

\* A connected client, and what it has in flight, is past every orphaned tick.
ClientIsPastHeld ==
    /\ live => \A h \in held :
          /\ h < cli.tick
          /\ \A t \in DOMAIN cli.inputs : h < t
          /\ \A d \in up : \A k \in 1 .. Len(d.rows) : h < d.newest - (k - 1)
    /\ ~live => up = {}

ClientRingsAreNear ==
    /\ \A v \in DOMAIN cli.states : v <= cli.tick \/ v <= cli.latest
    /\ cast = "host" => cli.inputs = EmptyRing

\* A marked client has an integrated row no earlier than its mark; marked at that
\* row, it still holds it as it was heard.
BaseIsHeard ==
    /\ cli.dirty # NoTick => cli.latest # NoTick /\ cli.dirty <= cli.latest /\ cli.dirty < cli.tick
    /\ cli.latest # NoTick /\ cli.dirty = cli.latest /\ cli.latest \in DOMAIN cli.states
          => cli.states[cli.latest] = heard

ClientIsExact == Predicts => ExactFrom(cli, cli.latest, Max(Delays))

ClientInv ==
    /\ ClientRowsAreAuthored /\ ClientIsPastHeld
    /\ ClientRingsAreNear /\ BaseIsHeard /\ ClientIsExact

RollbackInv == RollbackTypes /\ ServerInv /\ ClientInv

(* The delays a game sets have a least and a greatest, and the ticks a run *)
(* reaches are an interval.                                                *)
LEMMA DelaysAreBounded ==
    /\ Max(Delays) \in Nat /\ \A d \in Delays : d \in Nat /\ d <= Max(Delays)
    /\ Min(Delays) \in Delays
    /\ Ticks = 0 .. MaxTick + LeadHigh + Max(Delays)
    /\ MaxTick + LeadHigh + Max(Delays) \in Nat
<1>1. Delays \in SUBSET Nat /\ Delays # {} /\ IsFiniteSet(Delays)
  BY WindowAssumption
<1>2. Min(Delays) \in Delays
  BY <1>1, LeastMember
<1>3. PICK f : f \in Bijection(1 .. Cardinality(Delays), Delays)
  BY <1>1, FS_CardinalityType DEF ExistsBijection
<1> DEFINE n == Cardinality(Delays)
<1>4. n \in Nat
  BY <1>1, FS_CardinalityType
<1>5. /\ f \in [1 .. n -> Delays]
      /\ \A d \in Delays : \E k \in 1 .. n : f[k] = d
  BY <1>3 DEF Bijection, Injection, Surjection, IsInjective
<1> HIDE DEF n
<1> DEFINE T == {k \in 0 .. n : \E b \in Nat : \A j \in 1 .. k : f[j] <= b}
<1>6. 0 \in T
  <2>1. \A j \in 1 .. 0 : f[j] <= 0
    OBVIOUS
  <2>2. 0 \in Nat /\ 0 \in 0 .. n
    BY <1>4
  <2>3. QED
    BY <2>1, <2>2
<1>7. ASSUME NEW k \in 0 .. n, k < n, k \in T PROVE k + 1 \in T
  <2>1. PICK b \in Nat : \A j \in 1 .. k : f[j] <= b
    BY <1>7
  <2>2. k + 1 \in 1 .. n /\ k + 1 \in 0 .. n /\ k \in Nat
    BY <1>4, <1>7
  <2>3. \A j \in 1 .. n : f[j] \in Nat
    BY <1>1, <1>5
  <2>4. PICK e \in Nat : e >= b /\ e >= f[k + 1]
    BY <2>2, <2>3
  <2>5. ASSUME NEW j \in 1 .. k + 1 PROVE f[j] <= e
    <3>1. j = k + 1 \/ j \in 1 .. k
      BY <2>2
    <3>2. j \in 1 .. n
      BY <1>4, <2>2
    <3>3. QED
      BY <2>1, <2>3, <2>4, <3>1, <3>2
  <2>6. QED
    BY <2>2, <2>5
<1>8. \A k \in 0 .. n : k \in T
  <2> HIDE DEF T
  <2>1. 0 \in Nat /\ (0 <= n => 0 \in T)
    BY <1>6
  <2>2. QED
    BY <1>4, <1>7, <2>1, IntervalInduction
<1>9. PICK b \in Nat : \A j \in 1 .. n : f[j] <= b
  <2>1. n \in 0 .. n
    BY <1>4
  <2>2. n \in T
    <3> HIDE DEF T
    <3>1. QED
      BY <1>8, <2>1
  <2>3. QED
    BY <2>2
<1>10. \A d \in Delays : d <= b
  BY <1>5, <1>9
<1> DEFINE ring == [d \in Delays |-> d]
<1>11. DOMAIN ring = Delays /\ DOMAIN ring \in Bounded
  BY <1>1, <1>10 DEF Bounded
<1>12. Max(Delays) \in Delays /\ \A d \in Delays : d <= Max(Delays)
  <2> HIDE DEF ring, T
  <2>1. DOMAIN ring # {} => LatestTick(ring) \in DOMAIN ring
    BY <1>11, LatestIsGreatest
  <2>2. \A d \in DOMAIN ring : d <= LatestTick(ring)
    BY <1>11, LatestIsGreatest
  <2>3. LatestTick(ring) = Max(Delays)
    BY <1>1, <1>11 DEF LatestTick
  <2>4. QED
    BY <1>1, <1>11, <2>1, <2>2, <2>3
<1> HIDE DEF ring, T
<1>13. Max(Delays) \in Nat /\ \A d \in Delays : d \in Nat /\ d <= Max(Delays)
  BY <1>1, <1>12
<1>14. MaxTick + LeadHigh + Max(Delays) \in Nat
  BY <1>13, BoundAssumption
<1>15. QED
  BY <1>2, <1>13, <1>14 DEF Ticks

(* A fresh session is an end that holds no row.                            *)
LEMMA ResetShape ==
    ASSUME NEW tick \in Nat, NEW pose \in Poses, NEW input \in Inputs
    PROVE  LET end == ResetSession(tick, pose, input)
           IN  /\ end \in EndState /\ end.tick = tick
               /\ end.dirty = NoTick /\ end.latest = NoTick /\ end.authSim = 0
               /\ DOMAIN end.states = {} /\ end.inputs = EmptyRing /\ DOMAIN end.inputs = {}
               /\ DOMAIN end.ledger = {}
<1>1. /\ EmptyRing \in Ring(Poses) /\ EmptyRing \in Ring(Inputs) /\ EmptyRing \in Ring(Entry)
      /\ DOMAIN EmptyRing = {}
  BY EmptyIsRing
<1>2. QED
  BY <1>1 DEF ResetSession, EndState, Tick

(* An end that holds no row is exact.                                      *)
LEMMA EmptyIsExact ==
    ASSUME NEW end, DOMAIN end.states = {} \/ end.inputs = EmptyRing, NEW floor, NEW most
    PROVE  ExactFrom(end, floor, most)
<1> SUFFICES ASSUME NEW t \in Nat PROVE Exact(end, t)
  BY DEF ExactFrom
<1>1. end.inputs = EmptyRing => ClosestTick(end.inputs, t) = NoTick
  <2>1. DOMAIN EmptyRing = {}
    BY DEF EmptyRing
  <2>2. AtOrBefore(EmptyRing, t) = {}
    BY <2>1 DEF AtOrBefore
  <2>3. QED
    BY <2>2 DEF ClosestTick
<1>2. QED
  BY <1>1 DEF Exact

(* A session starts within the invariant.                                  *)
LEMMA InitIsSound == Init => RollbackInv
<1> SUFFICES ASSUME Init PROVE RollbackInv
  OBVIOUS
<1>1. PICK lead \in LeadLow .. LeadHigh : lead >= 0 /\ cli = ResetSession(lead, FirstPose, Neutral)
  BY DEF Init
<1>2. /\ lead \in Nat /\ lead <= LeadHigh /\ MaxTick \in Nat /\ LeadHigh \in Nat
      /\ FirstPose \in Poses /\ Neutral \in Inputs /\ 0 \in Nat
      /\ Horizon \in Nat /\ Future \in Nat
  BY <1>1, BoundAssumption, StepAssumption, WindowAssumption
<1>3. /\ srv \in EndState /\ srv.tick = 0 /\ srv.dirty = NoTick /\ srv.authSim = 0
      /\ DOMAIN srv.states = {} /\ DOMAIN srv.inputs = {} /\ DOMAIN srv.ledger = {}
  BY <1>2, ResetShape DEF Init
<1>4. /\ cli \in EndState /\ cli.tick = lead /\ cli.dirty = NoTick /\ cli.latest = NoTick
      /\ DOMAIN cli.states = {} /\ DOMAIN cli.inputs = {} /\ cli.inputs = EmptyRing
  BY <1>1, <1>2, ResetShape
<1>5. /\ up = {} /\ down = {} /\ live = TRUE /\ exempt \in BOOLEAN /\ cast \in {"owner", "host"}
      /\ held = {} /\ shots = [t \in Ticks |-> <<>>] /\ authored = [t \in Ticks |-> {}]
      /\ heard = FirstPose /\ delay = Min(Delays)
  BY DEF Init
<1>6. RollbackTypes
  <2>1. delay \in Delays
    BY <1>5, DelaysAreBounded
  <2>2. shots \in [Ticks -> Seq(Inputs)]
    BY <1>5
  <2>3. authored \in [Ticks -> SUBSET Inputs]
    BY <1>5
  <2>4. QED
    BY <1>2, <1>3, <1>4, <1>5, <2>1, <2>2, <2>3 DEF RollbackTypes
<1>7. ServerInv
  <2>1. WasRead = {}
    BY <1>5 DEF WasRead
  <2>2. ServerIsExact
    BY <1>3, EmptyIsExact DEF ServerIsExact
  <2>3. LedgerCounts
    BY <1>3, <2>1 DEF LedgerCounts, Reads
  <2>4. QED
    BY <1>2, <1>3, <1>5, <2>2, <2>3
       DEF ServerInv, InputsKeepTheirTick, HeldIsPast, ServerRingsAreNear, NothingIsMissed,
           FrontierIsReached
<1>8. ClientInv
  <2>1. ClientIsExact
    BY <1>4, EmptyIsExact DEF ClientIsExact
  <2>2. QED
    BY <1>4, <1>5, <2>1
       DEF ClientInv, ClientRowsAreAuthored, ClientIsPastHeld, ClientRingsAreNear, BaseIsHeard
<1>9. QED
  BY <1>6, <1>7, <1>8 DEF RollbackInv

-----------------------------------------------------------------------------
(* The server's frame.                                                     *)

(* A batch is a short sequence of input rows.                              *)
LEMMA BatchesAreShort ==
    ASSUME NEW end, NEW batch \in Batches(end)
    PROVE  /\ batch \in Seq(Inputs) /\ Len(batch) \in Nat \ {0} /\ Len(batch) <= Batch
           /\ Len(batch) + Horizon < Cap /\ DOMAIN batch = 1 .. Len(batch)
<1>1. PICK n \in 1 .. Batch : batch \in [1 .. n -> IF end.tick < Quiet THEN Inputs ELSE {Neutral}]
  BY DEF Batches
<1>2. batch \in [1 .. n -> Inputs] /\ n \in Nat
  BY <1>1, StepAssumption
<1>3. batch \in Seq(Inputs) /\ Len(batch) = n /\ DOMAIN batch = 1 .. n
  BY <1>2
<1>4. QED
  BY <1>1, <1>2, <1>3, WindowAssumption, CapAssumption

(* What the driver captures joins what it had captured for the tick.       *)
LEMMA CaptureHoldsTheBatch ==
    ASSUME authored \in [Ticks -> SUBSET Inputs], NEW first \in Nat, NEW batch \in Seq(Inputs),
           DOMAIN batch = 1 .. Len(batch),
           \A k \in 1 .. Len(batch) : first + k - 1 \in Ticks
    PROVE  /\ Capture(first, batch) \in [Ticks -> SUBSET Inputs]
           /\ \A t \in Ticks : authored[t] \subseteq Capture(first, batch)[t]
           /\ \A k \in 1 .. Len(batch) : batch[k] \in Capture(first, batch)[first + k - 1]
<1> DEFINE new(t) == {batch[k] : k \in {j \in DOMAIN batch : first + j - 1 = t}}
<1>1. \A t \in Ticks : new(t) \in SUBSET Inputs
  OBVIOUS
<1>2. \A k \in 1 .. Len(batch) : batch[k] \in new(first + k - 1)
  OBVIOUS
<1>3. Capture(first, batch) = [t \in Ticks |-> authored[t] \cup new(t)]
  BY DEF Capture
<1> HIDE DEF new
<1>4. QED
  BY <1>1, <1>2, <1>3

(* A frame of the server keeps the invariant.                              *)
LEMMA ServerFrameKeeps == RollbackInv /\ ServerFrame => RollbackInv'
<1> SUFFICES ASSUME RollbackInv, ServerFrame PROVE RollbackInv'
  OBVIOUS
<1>0. /\ srv \in EndState /\ srv.tick \in Nat /\ srv.dirty \in Tick /\ srv.tick <= MaxTick
      /\ shots \in [Ticks -> Seq(Inputs)] /\ held \in SUBSET Nat
      /\ authored \in [Ticks -> SUBSET Inputs] /\ live \in BOOLEAN /\ cast \in {"owner", "host"}
      /\ ServerInv
      /\ Cap \in Nat /\ Horizon \in Nat /\ Future \in Nat /\ Future < Cap /\ MaxTick \in Nat
      /\ Neutral \in Inputs
  BY CapAssumption, WindowAssumption, BoundAssumption, StepAssumption
     DEF RollbackInv, RollbackTypes, EndState
<1>1. PICK batch \in Batches(srv) :
        LET ready == PrepareBatch(srv, batch, 0, ServerAuthors, Orphaned, TRUE)
            current == srv.tick + Len(batch)
            run == RunRollback(ready, current, TRUE, TRUE)
            fresh == {t \in DOMAIN run \ {current} : IsFresh(RestoreTick(run[t], t).ledger, t)}
        IN  /\ current <= MaxTick
            /\ srv' = run[current]
            /\ shots' = [t \in Ticks |->
                           IF t \in fresh THEN Append(shots[t], InputAt(run[t], t))
                           ELSE shots[t]]
            /\ held' = IF Orphaned THEN held \cup (srv.tick .. current - 1) ELSE held
            /\ authored' = IF ServerAuthors THEN Capture(srv.tick, batch) ELSE authored
            /\ down' = IF live THEN down \cup BlocksOf(run[current]) ELSE down
  BY DEF ServerFrame
<1> DEFINE n == Len(batch)
           current == srv.tick + n
           ready == PrepareBatch(srv, batch, 0, ServerAuthors, Orphaned, TRUE)
           run == RunRollback(ready, current, TRUE, TRUE)
           done == run[current]
           fresh == {t \in DOMAIN run \ {current} : IsFresh(RestoreTick(run[t], t).ledger, t)}
           stamped == IF Orphaned THEN [u \in Ticks |-> {Neutral}] ELSE Capture(srv.tick, batch)
<1>2. /\ batch \in Seq(Inputs) /\ n \in Nat \ {0} /\ n + Horizon < Cap /\ n < Cap
      /\ DOMAIN batch = 1 .. n /\ current \in Nat /\ srv.tick < current /\ current <= MaxTick
  BY <1>0, <1>1, BatchesAreShort
<1>3. /\ srv' = done
      /\ shots' = [t \in Ticks |-> IF t \in fresh THEN Append(shots[t], InputAt(run[t], t))
                                   ELSE shots[t]]
      /\ held' = IF Orphaned THEN held \cup (srv.tick .. current - 1) ELSE held
      /\ authored' = IF ServerAuthors THEN Capture(srv.tick, batch) ELSE authored
  BY <1>1
<1>4. /\ ServerAuthors \in BOOLEAN /\ Orphaned \in BOOLEAN /\ ~(ServerAuthors /\ Orphaned)
  BY <1>0 DEF ServerAuthors, Orphaned
<1>5. \A t \in Nat : t < current => t \in Ticks
  BY <1>0, <1>2, DelaysAreBounded, BoundAssumption
<1>6. /\ \A t \in Ticks : authored[t] \subseteq Capture(srv.tick, batch)[t]
      /\ \A k \in 1 .. n : batch[k] \in Capture(srv.tick, batch)[srv.tick + k - 1]
      /\ Capture(srv.tick, batch) \in [Ticks -> SUBSET Inputs]
  <2>1. \A k \in 1 .. n : srv.tick + k - 1 \in Ticks
    BY <1>0, <1>2, <1>5
  <2>2. QED
    BY <1>0, <1>2, <2>1, CaptureHoldsTheBatch
<1>7. Prepared(srv, ready, n, n, 0, ServerAuthors, Orphaned, TRUE, stamped)
  <2>1. \A u \in DOMAIN srv.inputs \cup DOMAIN srv.ledger : u < srv.tick + Cap
    <3>1. DOMAIN srv.inputs \subseteq Nat /\ DOMAIN srv.ledger \subseteq Nat
      BY <1>0, RingIsFunction DEF EndState
    <3>2. QED
      BY <1>0, <3>1 DEF ServerInv, ServerRingsAreNear
  <2>2. ServerAuthors => \A k \in 1 .. n : batch[k] \in stamped[srv.tick + 0 + k - 1]
    <3>1. \A k \in 1 .. n : srv.tick + 0 + k - 1 = srv.tick + k - 1
      BY <1>0
    <3>2. QED
      BY <1>4, <1>6, <3>1
  <2>3. Orphaned => \A k \in 1 .. n : Neutral \in stamped[srv.tick + k - 1]
    <3>1. \A k \in 1 .. n : srv.tick + k - 1 \in Ticks
      BY <1>0, <1>2, <1>5
    <3>2. QED
      BY <3>1
  <2> HIDE DEF stamped
  <2>4. 0 \in Nat /\ TRUE \in BOOLEAN
    OBVIOUS
  <2>5. QED
    BY <1>0, <1>2, <1>4, <2>1, <2>2, <2>3, <2>4, PrepareKeeps DEF Preparable
<1>8. /\ ready \in EndState /\ ready.tick = srv.tick /\ ready.states = srv.states
      /\ ready.authSim = srv.authSim
      /\ ready.dirty = MarkDirty(srv.dirty, srv.tick)
      /\ Fed(srv, ready, srv.tick, current - 1, stamped)
      /\ Orphaned => RunsNeutral(ready, srv.tick, current)
  <2>1. srv.tick + 0 = srv.tick /\ srv.tick + 0 + n - 1 = current - 1 /\ n > 0
    BY <1>0, <1>2
  <2> HIDE DEF ready, stamped
  <2>2. Fed(srv, ready, srv.tick + 0, srv.tick + 0 + n - 1, stamped)
    BY <1>7 DEF Prepared
  <2>3. QED
    BY <1>7, <2>1, <2>2 DEF Prepared, SameRest
<1> HIDE DEF ready
<1>9. PICK from \in Nat : Replays(ready, current, TRUE, TRUE, from)
  BY <1>2, <1>8, FrameReplays
<1>10. Ran(ready, run, from, current, TRUE)
  BY <1>2, <1>8, <1>9, FrameRuns
<1>11. /\ ready.dirty \in Nat /\ ready.dirty <= srv.tick
       /\ srv.dirty # NoTick => ready.dirty <= srv.dirty
       /\ ready.dirty = srv.tick \/ ready.dirty = srv.dirty
  BY <1>0, <1>8, MarkDeepens
<1>12. /\ from <= srv.tick /\ from < current /\ current - Cap < srv.tick
       /\ \A t \in Nat : ready.dirty <= t /\ t < current /\ current - Cap <= t => from <= t
  <2>1. /\ from \in Nat /\ current - Cap <= from
        /\ \A t \in Nat : ready.dirty # NoTick /\ ready.dirty <= t /\ t < current
                          /\ current - Cap <= t => from <= t
        /\ ready.dirty # NoTick /\ ready.dirty < current
              => from <= ready.dirty \/ from = current - Cap
    BY <1>9 DEF Replays
  <2>2. ready.dirty # NoTick /\ ready.dirty < current /\ ready.dirty <= srv.tick
    BY <1>0, <1>2, <1>11 DEF NoTick
  <2>3. current - Cap < srv.tick
    BY <1>0, <1>2
  <2>4. from <= ready.dirty \/ from = current - Cap
    BY <2>1, <2>2
  <2>5. from <= srv.tick
    BY <1>0, <1>2, <1>11, <2>1, <2>2, <2>3, <2>4
  <2>6. from < current
    BY <1>0, <1>2, <2>1, <2>5
  <2>7. QED
    BY <2>1, <2>2, <2>3, <2>5, <2>6
<1>13. fresh = FreshIn(run, from, current)
  <2>1. DOMAIN run = from .. current
    BY <1>10 DEF Ran
  <2>2. (from .. current) \ {current} = from .. current - 1
    BY <1>2
  <2>3. QED
    BY <2>1, <2>2 DEF FreshIn
<1> HIDE DEF run, fresh
<1>14. /\ done \in EndState /\ done.tick = current /\ done.dirty = NoTick
       /\ done.inputs = ready.inputs
       /\ Passed(ready.ledger, done.ledger, from, current)
       /\ OutsideIsKept(ready.states, done.states, from, current)
  <2>1. current \in from .. current
    BY <1>2, <1>12
  <2>2. QED
    BY <1>10, <2>1 DEF Ran
<1>15. WasRead \in SUBSET Nat /\ Reads(ready.ledger, WasRead)
  <2>1. WasRead \in SUBSET Nat
    BY DelaysAreBounded DEF WasRead
  <2>2. Reads(srv.ledger, WasRead)
    BY <1>0 DEF ServerInv, LedgerCounts
  <2>3. QED
    BY <1>8, <2>1, <2>2 DEF Fed
<1>16. /\ Reads(done.ledger, WasRead \cup fresh)
       /\ \A u \in fresh : u \notin WasRead
       /\ \A u \in from .. current - 1 :
             u \in DOMAIN ready.ledger /\ ready.ledger[u].confidence = Authoritative
             /\ ~ready.ledger[u].consumed => u \in fresh
       /\ ready.authSim <= current =>
             /\ done.authSim <= current
             /\ current - 1 \in DOMAIN ready.ledger
                /\ ready.ledger[current - 1].confidence = Authoritative
                   => done.authSim = current
  BY <1>10, <1>12, <1>13, <1>15 DEF Ran
<1> HIDE DEF done
<1>17. /\ fresh \subseteq Ticks /\ \A u \in fresh : u \in from .. current - 1
       /\ WasRead' = WasRead \cup fresh
       /\ \A t \in fresh : shots'[t] = <<InputAt(run[t], t)>>
       /\ \A t \in Ticks \ fresh : shots'[t] = shots[t]
  <2>1. \A u \in fresh : u \in from .. current - 1 /\ u \in Nat /\ u < current
    BY <1>2, <1>13 DEF FreshIn
  <2>2. fresh \subseteq Ticks
    BY <1>5, <2>1
  <2>3. \A t \in fresh : shots[t] = <<>>
    BY <1>16, <2>2 DEF WasRead
  <2>4. \A t \in fresh : shots'[t] = Append(<<>>, InputAt(run[t], t))
    BY <1>3, <2>2, <2>3
  <2>5. \A t \in fresh : shots'[t] = <<InputAt(run[t], t)>> /\ shots'[t] # <<>>
    BY <2>4
  <2>6. \A t \in Ticks \ fresh : shots'[t] = shots[t]
    BY <1>3
  <2>7. WasRead' = {t \in Ticks : shots'[t] # <<>>}
    BY DEF WasRead, Ticks
  <2>8. WasRead' = WasRead \cup fresh
    BY <2>2, <2>5, <2>6, <2>7 DEF WasRead
  <2>9. QED
    BY <2>1, <2>2, <2>5, <2>6, <2>8
<1>18. InputsKeepTheirTick'
  <2> SUFFICES ASSUME NEW t \in DOMAIN srv'.inputs
               PROVE  srv'.inputs[t] \in authored'[t] \cup {Neutral : u \in held' \cap {t}}
    BY DEF InputsKeepTheirTick
  <2>1. srv'.inputs = ready.inputs /\ t \in DOMAIN ready.inputs
    BY <1>3, <1>14
  <2>2. CASE t \in DOMAIN srv.inputs /\ ready.inputs[t] = srv.inputs[t]
    <3>1. t \in Ticks /\ srv.inputs[t] \in authored[t] \cup {Neutral : u \in held \cap {t}}
      BY <1>0, <2>2 DEF ServerInv, ServerRingsAreNear, InputsKeepTheirTick
    <3>2. authored[t] \subseteq authored'[t] /\ held \subseteq held'
      BY <1>3, <1>6, <3>1
    <3>3. QED
      BY <2>1, <2>2, <3>1, <3>2
  <2>3. CASE /\ ~(t \in DOMAIN srv.inputs /\ ready.inputs[t] = srv.inputs[t])
             /\ t \in srv.tick .. current - 1 /\ ready.inputs[t] \in stamped[t]
    <3>1. t \in Ticks
      BY <1>0, <1>2, <1>5, <2>3
    <3>2. CASE Orphaned
      <4>1. ready.inputs[t] = Neutral /\ t \in held'
        BY <1>3, <2>3, <3>1, <3>2
      <4>2. QED
        BY <2>1, <4>1
    <3>3. CASE ~Orphaned
      <4>1. ServerAuthors
        BY <1>7, <2>1, <2>3, <3>3 DEF Prepared, Unfed
      <4>2. QED
        BY <1>3, <2>1, <2>3, <3>3, <4>1
    <3>4. QED
      BY <3>2, <3>3
  <2>4. QED
    BY <1>8, <2>1, <2>2, <2>3 DEF Fed
<1>19. HeldIsPast'
  <2> SUFFICES ASSUME NEW h \in held'
               PROVE  /\ h < srv'.tick
                      /\ h \in DOMAIN srv'.inputs => srv'.inputs[h] = Neutral
                      /\ shots'[h] = <<Neutral>>
    BY DEF HeldIsPast
  <2>1. srv'.tick = current /\ srv'.inputs = ready.inputs
    BY <1>3, <1>14
  <2>2. CASE h \in held
    <3>1. /\ h \in Nat /\ h < srv.tick /\ h \in Ticks
          /\ h \in DOMAIN srv.inputs => srv.inputs[h] = Neutral
          /\ shots[h] = <<Neutral>>
      BY <1>0, <1>2, <1>5, <2>2 DEF ServerInv, HeldIsPast
    <3>2. h < current /\ h \notin srv.tick .. current - 1
      BY <1>0, <1>2, <3>1
    <3>3. h \in DOMAIN ready.inputs => ready.inputs[h] = Neutral
      BY <1>8, <3>1, <3>2 DEF Fed
    <3>4. h \in WasRead
      <4>1. shots[h] # <<>>
        BY <3>1
      <4>2. QED
        BY <3>1, <4>1 DEF WasRead
    <3>5. shots'[h] = shots[h]
      BY <1>16, <1>17, <3>1, <3>4
    <3>6. QED
      BY <2>1, <3>1, <3>2, <3>3, <3>5
  <2>3. CASE h \notin held
    <3>1. Orphaned /\ h \in srv.tick .. current - 1
      BY <1>3, <2>3
    <3>2. h \in Nat /\ h < current /\ h >= srv.tick /\ h \in from .. current - 1
      BY <1>0, <1>2, <1>12, <3>1
    <3>3. /\ h \in DOMAIN ready.inputs /\ ready.inputs[h] = Neutral
          /\ h \in DOMAIN ready.ledger /\ ready.ledger[h].confidence = Authoritative
      BY <1>8, <3>1 DEF RunsNeutral
    <3>4. h \notin WasRead
      BY <1>0, <3>2 DEF ServerInv, LedgerCounts
    <3>5. ~ready.ledger[h].consumed
      BY <1>15, <3>3, <3>4 DEF Reads
    <3>6. h \in fresh
      BY <1>16, <3>2, <3>3, <3>5
    <3>7. InputAt(run[h], h) = Neutral
      <4>1. h \in from .. current
        BY <1>2, <3>2
      <4>2. run[h].inputs = ready.inputs
        BY <1>10, <4>1 DEF Ran
      <4>3. DOMAIN ready.inputs \in Bounded
        BY <1>8, RingIsFunction DEF EndState
      <4>4. ClosestTick(ready.inputs, h) = h
        BY <3>3, <4>3, ResidentIsClosest
      <4>5. h # NoTick
        BY <3>2 DEF NoTick
      <4>6. QED
        BY <3>3, <4>2, <4>4, <4>5 DEF InputAt
    <3>8. QED
      BY <1>17, <2>1, <3>2, <3>3, <3>6, <3>7
  <2>4. QED
    BY <2>2, <2>3
<1>20. ServerRingsAreNear'
  <2>1. /\ srv'.tick = current /\ srv'.inputs = ready.inputs
        /\ srv'.ledger = done.ledger /\ srv'.states = done.states
    BY <1>3, <1>14
  <2>2. /\ DOMAIN ready.inputs \subseteq Nat /\ DOMAIN ready.ledger \subseteq Nat
        /\ DOMAIN done.ledger \subseteq Nat /\ DOMAIN done.states \subseteq Nat
    BY <1>8, <1>14, RingIsFunction DEF EndState
  <2>3. /\ \A u \in DOMAIN srv.inputs : u \in Ticks /\ u <= srv.tick + Future
        /\ \A u \in DOMAIN srv.ledger : u <= srv.tick + Future
        /\ \A u \in DOMAIN srv.states : u <= srv.tick
    BY <1>0 DEF ServerInv, ServerRingsAreNear
  <2>4. ASSUME NEW u \in DOMAIN ready.inputs PROVE u \in Ticks /\ u <= current + Future
    <3>1. CASE u \in DOMAIN srv.inputs
      <4>1. u \in Ticks /\ u \in Nat /\ u <= srv.tick + Future
        BY <2>2, <2>3, <3>1
      <4>2. srv.tick \in Nat /\ current \in Nat /\ srv.tick < current /\ Future \in Nat
        BY <1>0, <1>2
      <4>3. QED
        BY <4>1, <4>2
    <3>2. CASE u \in srv.tick .. current - 1
      BY <1>0, <1>2, <1>5, <2>2, <3>2
    <3>3. QED
      BY <1>8, <3>1, <3>2 DEF Fed
  <2>5. ASSUME NEW u \in DOMAIN ready.ledger PROVE u <= current + Future
    <3>1. CASE u \in DOMAIN srv.ledger
      BY <1>0, <1>2, <2>2, <2>3, <3>1
    <3>2. CASE u \in srv.tick .. current - 1
      BY <1>0, <1>2, <2>2, <3>2
    <3>3. QED
      BY <1>8, <3>1, <3>2 DEF Fed
  <2>6. ASSUME NEW u \in DOMAIN done.ledger PROVE u <= current + Future
    <3>1. CASE u < current
      BY <1>0, <1>2, <2>2, <3>1
    <3>2. CASE u >= current
      BY <1>14, <2>5, <3>2 DEF Passed
    <3>3. QED
      BY <1>2, <2>2, <3>1, <3>2
  <2>7. ASSUME NEW u \in DOMAIN done.states PROVE u <= current
    <3>1. CASE u > current
      <4>1. u \in DOMAIN srv.states
        BY <1>8, <1>14, <3>1 DEF OutsideIsKept
      <4>2. QED
        BY <1>0, <1>2, <2>2, <2>3, <4>1
    <3>2. QED
      BY <1>2, <2>2, <3>1
  <2>8. Ticks' = Ticks
    BY DEF Ticks
  <2>9. QED
    BY <2>1, <2>4, <2>5, <2>6, <2>7, <2>8 DEF ServerRingsAreNear
<1>21. LedgerCounts'
  <2>1. Reads(srv'.ledger, WasRead')
    BY <1>3, <1>16, <1>17
  <2>2. ASSUME NEW t \in WasRead' PROVE t < srv'.tick /\ Len(shots'[t]) = 1
    <3>1. CASE t \in fresh
      <4>1. shots'[t] = <<InputAt(run[t], t)>> /\ t \in from .. current - 1
        BY <1>17, <3>1
      <4>2. Len(shots'[t]) = 1
        BY <4>1
      <4>3. t < current
        BY <1>2, <4>1
      <4>4. QED
        BY <1>3, <1>14, <4>2, <4>3
    <3>2. CASE t \in WasRead /\ t \notin fresh
      <4>1. t \in Ticks /\ t < srv.tick /\ Len(shots[t]) = 1
        BY <1>0, <3>2 DEF ServerInv, LedgerCounts, WasRead
      <4>2. t \in Nat
        BY <4>1, DelaysAreBounded
      <4>3. QED
        BY <1>0, <1>2, <1>3, <1>14, <1>17, <3>2, <4>1, <4>2
    <3>3. QED
      BY <1>17, <3>1, <3>2
  <2>3. QED
    BY <2>1, <2>2 DEF LedgerCounts
<1>22. NothingIsMissed'
  <2>1. srv'.tick = current /\ srv'.ledger = done.ledger
    BY <1>3, <1>14
  <2> SUFFICES ASSUME NEW t \in DOMAIN done.ledger,
                      done.ledger[t].confidence = Authoritative, ~done.ledger[t].consumed,
                      t < current, t >= current - Horizon
               PROVE  FALSE
    <3>1. \A t \in DOMAIN done.ledger : t \in Nat
      BY <1>14, RingIsFunction DEF EndState
    <3>2. QED
      BY <1>0, <1>2, <2>1, <3>1 DEF NothingIsMissed
  <2>2. t \in Nat
    BY <1>14, RingIsFunction DEF EndState
  <2>3. t < from
    BY <1>14, <2>2 DEF Passed
  <2>4. t \in DOMAIN ready.ledger /\ done.ledger[t] = ready.ledger[t]
    BY <1>14, <2>3 DEF Passed
  <2>5. t \notin srv.tick .. current - 1 /\ t < srv.tick
    BY <1>0, <1>2, <1>12, <2>2, <2>3
  <2>6. t \in DOMAIN srv.ledger /\ srv.ledger[t].confidence = Authoritative
    BY <1>8, <2>4, <2>5 DEF Fed
  <2>7. ~srv.ledger[t].consumed
    <3>1. t \notin WasRead
      BY <1>15, <2>4 DEF Reads
    <3>2. Reads(srv.ledger, WasRead)
      BY <1>0 DEF ServerInv, LedgerCounts
    <3>3. QED
      BY <2>6, <3>1, <3>2 DEF Reads
  <2>8. srv.dirty # NoTick /\ srv.dirty <= t
    <3>1. t >= srv.tick \/ t < srv.tick - Horizon \/ (srv.dirty # NoTick /\ srv.dirty <= t)
      BY <1>0, <2>6, <2>7 DEF ServerInv, NothingIsMissed
    <3>2. QED
      BY <1>0, <1>2, <2>2, <2>5, <3>1
  <2>9. ready.dirty <= t /\ current - Cap <= t
    <3>1. /\ ready.dirty \in Nat /\ srv.dirty \in Nat /\ t \in Nat
          /\ ready.dirty <= srv.dirty /\ srv.dirty <= t
      BY <1>0, <1>11, <2>2, <2>8 DEF Tick
    <3>2. current - Cap <= t
      BY <1>0, <1>2, <2>2
    <3>3. QED
      BY <3>1, <3>2
  <2>10. QED
    BY <1>12, <2>2, <2>3, <2>9
<1>23. FrontierIsReached'
  <2>1. srv'.tick = current /\ srv'.authSim = done.authSim
    BY <1>3, <1>14
  <2>2. ready.authSim <= current
    <3>1. srv.authSim <= srv.tick /\ srv.authSim \in Nat
      BY <1>0 DEF ServerInv, FrontierIsReached, EndState
    <3>2. QED
      BY <1>0, <1>2, <1>8, <3>1
  <2>3. ASSUME current - 1 \in held' PROVE done.authSim = current
    <3>1. current - 1 \notin held
      <4>1. ~(current - 1 < srv.tick)
        BY <1>0, <1>2
      <4>2. QED
        BY <1>0, <4>1 DEF ServerInv, HeldIsPast
    <3>2. Orphaned /\ current - 1 \in srv.tick .. current - 1
      BY <1>3, <2>3, <3>1
    <3>3. current - 1 \in DOMAIN ready.ledger
          /\ ready.ledger[current - 1].confidence = Authoritative
      BY <1>8, <3>2 DEF RunsNeutral
    <3>4. QED
      BY <1>16, <2>2, <3>3
  <2>4. QED
    BY <1>16, <2>1, <2>2, <2>3 DEF FrontierIsReached
<1>24. ServerIsExact'
  <2> DEFINE floor == current - Horizon
  <2>1. ExactFrom(srv, floor, Future)
    <3>1. ExactFrom(srv, srv.tick - Horizon, Future)
      BY <1>0 DEF ServerInv, ServerIsExact
    <3>2. \A t \in Nat : t >= floor => t >= srv.tick - Horizon
      BY <1>0, <1>2
    <3>3. QED
      BY <3>1, <3>2 DEF ExactFrom
  <2>2. \A v \in DOMAIN srv.states : v <= srv.tick \/ v <= floor
    BY <1>0 DEF ServerInv, ServerRingsAreNear
  <2>3. floor \in Int /\ 0 \in Nat /\ 0 <= Future /\ TRUE \in BOOLEAN
    BY <1>0, <1>2
  <2> HIDE DEF floor, stamped
  <2>4. ExactFrom(run[srv.tick + n], floor, Future)
    BY <1>0, <1>2, <1>7, <1>9, <1>10, <2>1, <2>2, <2>3, FrameIsExact
  <2>5. srv'.tick = current /\ srv' = run[srv.tick + n]
    BY <1>3, <1>14 DEF done
  <2>6. QED
    BY <2>4, <2>5 DEF ServerIsExact, floor
<1>25. RollbackTypes'
  <2>1. srv' \in EndState /\ srv'.tick <= MaxTick
    BY <1>2, <1>3, <1>14
  <2>2. down' \in SUBSET SnapshotRows
    <3>1. BlocksOf(done) \subseteq SnapshotRows
      <4>1. done.authSim \in Nat /\ BlockTick(done) \in Nat
        BY <1>2, <1>14 DEF EndState, BlockTick
      <4>2. done.states \in [DOMAIN done.states -> Poses]
        BY <1>14, RingIsFunction DEF EndState
      <4>3. CASE BlockTick(done) \in DOMAIN done.states
        <5>1. done.states[BlockTick(done)] \in Poses
          BY <4>2, <4>3
        <5>2. BlocksOf(done) = {[tick |-> BlockTick(done), row |-> done.states[BlockTick(done)]]}
          BY <4>3 DEF BlocksOf
        <5>3. QED
          BY <4>1, <5>1, <5>2 DEF SnapshotRows
      <4>4. CASE BlockTick(done) \notin DOMAIN done.states
        BY <4>4 DEF BlocksOf
      <4>5. QED
        BY <4>3, <4>4
    <3>2. down' = IF live THEN down \cup BlocksOf(done) ELSE down
      BY <1>1 DEF done, run, ready
    <3>3. down \in SUBSET SnapshotRows
      BY DEF RollbackInv, RollbackTypes
    <3>4. QED
      BY <3>1, <3>2, <3>3
  <2>3. shots' \in [Ticks -> Seq(Inputs)]
    <3>1. ASSUME NEW t \in fresh PROVE Append(shots[t], InputAt(run[t], t)) \in Seq(Inputs)
      <4>1. t \in from .. current /\ t \in Nat /\ t \in Ticks
        BY <1>2, <1>17
      <4>2. run[t] \in EndState
        BY <1>10, <4>1 DEF Ran
      <4>3. InputAt(run[t], t) \in Inputs
        BY <4>1, <4>2, InputAtShape
      <4>4. shots[t] \in Seq(Inputs)
        BY <1>0, <4>1
      <4>5. QED
        BY <4>3, <4>4
    <3>2. QED
      BY <1>0, <1>3, <3>1
  <2>4. held' \in SUBSET Nat
    <3>1. srv.tick .. current - 1 \subseteq Nat
      BY <1>0, <1>2
    <3>2. QED
      BY <1>0, <1>3, <3>1
  <2>5. authored' \in [Ticks -> SUBSET Inputs]
    BY <1>0, <1>3, <1>6
  <2>6. UNCHANGED <<cli, up, live, cast, exempt, delay, heard>>
    BY DEF ServerFrame
  <2>7. Ticks' = Ticks
    BY DEF Ticks
  <2>8. QED
    BY <2>1, <2>2, <2>3, <2>4, <2>5, <2>6, <2>7 DEF RollbackInv, RollbackTypes
<1>26. ClientInv'
  <2>1. UNCHANGED <<cli, up, live, cast, exempt, delay, heard>>
    BY DEF ServerFrame
  <2>2. ClientInv
    BY DEF RollbackInv
  <2>3. ClientRowsAreAuthored'
    <3>1. \A t \in Ticks : authored[t] \subseteq authored'[t]
      BY <1>3, <1>6
    <3>2. Ticks' = Ticks
      BY DEF Ticks
    <3>3. QED
      BY <2>1, <2>2, <3>1, <3>2 DEF ClientInv, ClientRowsAreAuthored
  <2>4. ClientIsPastHeld'
    <3>1. live => held' = held
      BY <1>3 DEF Orphaned
    <3>2. QED
      BY <2>1, <2>2, <3>1 DEF ClientInv, ClientIsPastHeld
  <2>5. ClientRingsAreNear' /\ BaseIsHeard'
    BY <2>1, <2>2 DEF ClientInv, ClientRingsAreNear, BaseIsHeard
  <2>6. ClientIsExact'
    BY <2>1, <2>2 DEF ClientInv, ClientIsExact, Predicts, ClientAuthors
  <2>7. QED
    BY <2>3, <2>4, <2>5, <2>6 DEF ClientInv
<1>27. QED
  BY <1>18, <1>19, <1>20, <1>21, <1>22, <1>23, <1>24, <1>25, <1>26 DEF ServerInv, RollbackInv

-----------------------------------------------------------------------------
(* A block of input rows on the server.                                    *)

(* A received block keeps the invariant.                                   *)
LEMMA HandleClientInputKeeps == RollbackInv /\ HandleClientInput => RollbackInv'
<1> SUFFICES ASSUME RollbackInv, HandleClientInput PROVE RollbackInv'
  OBVIOUS
<1>0. /\ srv \in EndState /\ srv.tick \in Nat /\ srv.dirty \in Tick
      /\ up \in SUBSET InputDatagrams /\ held \in SUBSET Nat
      /\ ServerInv /\ ClientInv /\ RollbackTypes
      /\ Cap \in Nat /\ Horizon \in Nat /\ Future \in Nat
      /\ Ticks \subseteq Nat /\ WasRead \in SUBSET Nat
  BY CapAssumption, WindowAssumption, DelaysAreBounded
     DEF RollbackInv, RollbackTypes, EndState, WasRead
<1>1. PICK d \in up :
        LET landed == IntegrateRows(srv, d.newest, d.rows)
            from == ResimInputFrom(landed.oldest, srv.tick)
        IN  /\ up' = up \ {d}
            /\ srv' = IF ~live \/ d.newest > srv.tick + Future THEN srv
                      ELSE [landed.end EXCEPT
                              !.dirty = IF from = NoTick THEN @ ELSE MarkDirty(@, from)]
  BY DEF HandleClientInput
<1>2. UNCHANGED <<cli, down, live, cast, exempt, delay, resets, shots, held, authored, heard>>
  BY DEF HandleClientInput, history
<1>3. /\ up' \subseteq up /\ Ticks' = Ticks /\ WasRead' = WasRead
  BY <1>1, <1>2 DEF Ticks, WasRead
<1>4. ClientInv'
  BY <1>0, <1>2, <1>3
     DEF ClientInv, ClientRowsAreAuthored, ClientIsPastHeld, ClientRingsAreNear, BaseIsHeard,
         ClientIsExact, Predicts, ClientAuthors
<1>5. srv' \in EndState /\ srv'.tick = srv.tick => RollbackTypes'
  BY <1>0, <1>2, <1>3 DEF RollbackTypes
<1>6. CASE ~live \/ d.newest > srv.tick + Future
  <2>1. srv' = srv
    BY <1>1, <1>6
  <2>2. ServerInv'
    BY <1>0, <1>2, <1>3, <2>1
       DEF ServerInv, InputsKeepTheirTick, HeldIsPast, ServerRingsAreNear, LedgerCounts,
           NothingIsMissed, FrontierIsReached, ServerIsExact
  <2>3. QED
    BY <1>0, <1>4, <1>5, <2>1, <2>2 DEF RollbackInv
<1>7. CASE live /\ ~(d.newest > srv.tick + Future)
  <2> DEFINE newest == d.newest
             n == Len(d.rows)
             landed == IntegrateRows(srv, newest, d.rows)
             old == landed.oldest
             from == ResimInputFrom(old, srv.tick)
             dirty == IF from = NoTick THEN landed.end.dirty ELSE MarkDirty(landed.end.dirty, from)
             done == [landed.end EXCEPT !.dirty = dirty]
  <2>1. newest \in Nat /\ d.rows \in Seq(Inputs) /\ n \in Nat /\ newest <= srv.tick + Future
    BY <1>0, <1>7 DEF InputDatagrams
  <2>2. \A k \in 1 .. n : newest - (k - 1) \in Ticks /\ d.rows[k] \in authored[newest - (k - 1)]
    BY <1>0 DEF ClientInv, ClientRowsAreAuthored
  <2>3. \A h \in held : \A k \in 1 .. n : h < newest - (k - 1)
    BY <1>0, <1>7 DEF ClientInv, ClientIsPastHeld
  <2>4. srv' = done
    BY <1>1, <1>7
  <2>5. Integrated(srv, landed, newest, n, authored)
    BY <1>0, <2>1, <2>2, IntegrateKeeps
  <2> HIDE DEF landed
  <2>6. /\ landed.end \in EndState /\ old \in Tick /\ SameRest(srv, landed.end)
        /\ landed.end.dirty = srv.dirty
        /\ old = NoTick => Unfed(srv, landed.end)
        /\ old # NoTick => /\ newest - (n - 1) <= old /\ old <= newest
                           /\ Fed(srv, landed.end, old, newest, authored)
    BY <2>5 DEF Integrated, Carried
  <2>7. /\ from \in Tick
        /\ from # NoTick => old # NoTick /\ old <= from /\ from < srv.tick
                            /\ (from = old \/ from <= srv.tick - Horizon)
        /\ from = NoTick => old = NoTick \/ old >= srv.tick \/ Horizon = 0
    BY <1>0, <2>6, ResimReachesTheRow
  <2> HIDE DEF from, old
  <2>8. /\ dirty \in Tick
        /\ dirty = IF from = NoTick THEN srv.dirty ELSE MarkDirty(srv.dirty, from)
        /\ srv.dirty # NoTick => dirty # NoTick /\ dirty <= srv.dirty
        /\ from # NoTick => dirty # NoTick /\ dirty <= from
    <3>1. CASE from = NoTick
      BY <1>0, <2>6, <3>1 DEF Tick, NoTick
    <3>2. CASE from # NoTick
      <4>1. from \in Nat
        BY <2>7, <3>2 DEF Tick
      <4>2. /\ MarkDirty(srv.dirty, from) \in Nat /\ MarkDirty(srv.dirty, from) <= from
            /\ srv.dirty # NoTick => MarkDirty(srv.dirty, from) <= srv.dirty
        BY <1>0, <4>1, MarkDeepens
      <4>3. QED
        BY <2>6, <3>2, <4>2 DEF Tick, NoTick
    <3>3. QED
      BY <3>1, <3>2
  <2> HIDE DEF dirty
  <2>9. done \in EndState /\ done.dirty = dirty /\ done.tick = srv.tick
        /\ done.inputs = landed.end.inputs /\ done.ledger = landed.end.ledger
        /\ done.states = srv.states /\ done.authSim = srv.authSim
    BY <2>6, <2>8 DEF EndState, SameRest
  <2> HIDE DEF done
  <2>10. /\ old # NoTick => old \in Nat /\ \A u \in old .. newest : u \in Ticks /\ u \notin held
         /\ \A u \in DOMAIN done.inputs :
               \/ u \in DOMAIN srv.inputs /\ done.inputs[u] = srv.inputs[u]
               \/ old # NoTick /\ u \in old .. newest /\ done.inputs[u] \in authored[u]
         /\ \A u \in DOMAIN done.ledger :
               /\ u \in DOMAIN srv.ledger \/ (old # NoTick /\ u \in old .. newest)
               /\ done.ledger[u].confidence = Authoritative =>
                     \/ u \in DOMAIN srv.ledger /\ srv.ledger[u].confidence = Authoritative
                     \/ old # NoTick /\ u \in old .. newest
         /\ Reads(done.ledger, WasRead)
    <3>1. Reads(srv.ledger, WasRead)
      BY <1>0 DEF ServerInv, LedgerCounts
    <3>2. CASE old = NoTick
      BY <2>6, <2>9, <3>1, <3>2 DEF Unfed
    <3>3. CASE old # NoTick
      <4>1. old \in Nat
        BY <2>6, <3>3 DEF Tick
      <4>2. n \in 1 .. n
        BY <2>1, <2>6, <3>3, <4>1
      <4>3. newest - (n - 1) \in Ticks /\ newest - (1 - 1) \in Ticks
        BY <2>1, <2>2, <4>2
      <4>4. ASSUME NEW u \in old .. newest PROVE u \in Ticks /\ u \notin held
        <5>1. u \in Nat /\ newest - (n - 1) <= u /\ u <= newest
          BY <2>1, <2>6, <3>3, <4>1
        <5>2. u \in Ticks
          <6>1. newest \in Ticks
            BY <2>1, <4>3
          <6>2. PICK top \in Nat : Ticks = 0 .. top
            BY DelaysAreBounded
          <6>3. QED
            BY <5>1, <6>1, <6>2
        <5>3. u \notin held
          <6>1. \A h \in held : h < newest - (n - 1)
            BY <2>3, <4>2
          <6>2. newest - (n - 1) \in Int /\ \A h \in held : h \in Nat
            BY <1>0, <2>1
          <6>3. QED
            BY <5>1, <6>1, <6>2
        <5>4. QED
          BY <5>2, <5>3
      <4>5. /\ \A u \in DOMAIN done.inputs :
                  \/ u \in DOMAIN srv.inputs /\ done.inputs[u] = srv.inputs[u]
                  \/ u \in old .. newest /\ done.inputs[u] \in authored[u]
            /\ \A u \in DOMAIN done.ledger :
                  /\ u \in DOMAIN srv.ledger \/ u \in old .. newest
                  /\ done.ledger[u].confidence = Authoritative =>
                        \/ u \in DOMAIN srv.ledger /\ srv.ledger[u].confidence = Authoritative
                        \/ u \in old .. newest
        BY <2>6, <2>9, <3>3 DEF Fed
      <4>6. Reads(done.ledger, WasRead)
        BY <1>0, <2>6, <2>9, <3>1, <3>3 DEF Fed
      <4>7. QED
        BY <3>3, <4>1, <4>4, <4>5, <4>6
    <3>4. QED
      BY <3>2, <3>3
  <2>11. InputsKeepTheirTick' /\ HeldIsPast'
    <3>1. InputsKeepTheirTick'
      BY <1>0, <1>2, <2>4, <2>10 DEF ServerInv, InputsKeepTheirTick
    <3>2. HeldIsPast'
      BY <1>0, <1>2, <2>4, <2>9, <2>10 DEF ServerInv, HeldIsPast
    <3>3. QED
      BY <3>1, <3>2
  <2>12. ServerRingsAreNear'
    <3>1. \A u \in DOMAIN done.inputs : u \in Ticks /\ u <= srv.tick + Future
      BY <1>0, <2>1, <2>10 DEF ServerInv, ServerRingsAreNear
    <3>2. \A u \in DOMAIN done.ledger : u <= srv.tick + Future
      BY <1>0, <2>1, <2>10 DEF ServerInv, ServerRingsAreNear
    <3>3. QED
      BY <1>0, <1>3, <2>4, <2>9, <3>1, <3>2 DEF ServerInv, ServerRingsAreNear
  <2>13. LedgerCounts' /\ FrontierIsReached'
    BY <1>0, <1>2, <1>3, <2>4, <2>9, <2>10 DEF ServerInv, LedgerCounts, FrontierIsReached
  <2>14. NothingIsMissed'
    <3> SUFFICES ASSUME NEW t \in DOMAIN done.ledger,
                        done.ledger[t].confidence = Authoritative, ~done.ledger[t].consumed,
                        t < srv.tick, t >= srv.tick - Horizon
                 PROVE  dirty # NoTick /\ dirty <= t
      <4>1. \A t \in DOMAIN done.ledger : t \in Nat
        BY <2>9, RingIsFunction DEF EndState
      <4>2. QED
        BY <1>0, <2>4, <2>9, <4>1 DEF NothingIsMissed
    <3>1. t \in Nat
      BY <2>9, RingIsFunction DEF EndState
    <3>2. CASE t \in DOMAIN srv.ledger /\ srv.ledger[t].confidence = Authoritative
      <4>1. ~srv.ledger[t].consumed
        <5>1. t \notin WasRead
          BY <2>10 DEF Reads
        <5>2. Reads(srv.ledger, WasRead)
          BY <1>0 DEF ServerInv, LedgerCounts
        <5>3. QED
          BY <3>2, <5>1, <5>2 DEF Reads
      <4>2. t >= srv.tick \/ t < srv.tick - Horizon \/ (srv.dirty # NoTick /\ srv.dirty <= t)
        BY <1>0, <3>2, <4>1 DEF ServerInv, NothingIsMissed
      <4>3. srv.dirty # NoTick /\ srv.dirty <= t
        BY <1>0, <3>1, <4>2
      <4>4. QED
        BY <1>0, <2>8, <3>1, <4>3 DEF Tick
    <3>3. CASE old # NoTick /\ t \in old .. newest
      <4>1. old <= t /\ old \in Nat
        BY <2>1, <2>10, <3>1, <3>3
      <4>2. from # NoTick
        BY <1>0, <2>7, <3>1, <3>3, <4>1
      <4>3. from \in Nat /\ from <= t
        BY <1>0, <2>7, <3>1, <4>1, <4>2 DEF Tick
      <4>4. QED
        BY <2>8, <3>1, <4>2, <4>3 DEF Tick
    <3>4. QED
      BY <2>10, <3>2, <3>3
  <2>15. ServerIsExact'
    <3>1. ExactFrom(srv, srv.tick - Horizon, Future)
      BY <1>0 DEF ServerInv, ServerIsExact
    <3>2. done.dirty = IF ResimInputFrom(landed.oldest, srv.tick) = NoTick THEN srv.dirty
                       ELSE MarkDirty(srv.dirty, ResimInputFrom(landed.oldest, srv.tick))
      BY <2>8, <2>9 DEF from, old
    <3>3. ExactFrom(done, srv.tick - Horizon, Future)
      BY <1>0, <2>1, <2>5, <2>9, <3>1, <3>2, BlockIsExact
    <3>4. QED
      BY <2>4, <2>9, <3>3 DEF ServerIsExact
  <2>16. ServerInv'
    BY <2>11, <2>12, <2>13, <2>14, <2>15 DEF ServerInv
  <2>17. QED
    BY <1>4, <1>5, <2>4, <2>9, <2>16 DEF RollbackInv
<1>8. QED
  BY <1>6, <1>7

-----------------------------------------------------------------------------
(* The client's frame.                                                     *)

(* What a driver captures leaves the server's half of the invariant as it  *)
(* is.                                                                     *)
LEMMA ServerIsLeft ==
    ASSUME ServerInv, UNCHANGED <<srv, shots, held>>,
           \A t \in Ticks : authored[t] \subseteq authored'[t]
    PROVE  ServerInv'
<1>1. Ticks' = Ticks /\ WasRead' = WasRead
  BY DEF Ticks, WasRead
<1>2. InputsKeepTheirTick'
  <2> SUFFICES ASSUME NEW t \in DOMAIN srv.inputs
               PROVE  srv.inputs[t] \in authored'[t] \cup {Neutral : u \in held \cap {t}}
    BY DEF InputsKeepTheirTick
  <2>1. t \in Ticks /\ srv.inputs[t] \in authored[t] \cup {Neutral : u \in held \cap {t}}
    BY DEF ServerInv, ServerRingsAreNear, InputsKeepTheirTick
  <2>2. QED
    BY <2>1
<1>3. QED
  BY <1>1, <1>2
     DEF ServerInv, HeldIsPast, ServerRingsAreNear, LedgerCounts, NothingIsMissed,
         FrontierIsReached, ServerIsExact

(* A frame of the client keeps the invariant.                              *)
LEMMA ClientFrameKeeps == RollbackInv /\ ClientFrame => RollbackInv'
<1> SUFFICES ASSUME RollbackInv, ClientFrame PROVE RollbackInv'
  OBVIOUS
<1>0. /\ cli \in EndState /\ cli.tick \in Nat /\ cli.dirty \in Tick /\ cli.latest \in Tick
      /\ authored \in [Ticks -> SUBSET Inputs] /\ up \in SUBSET InputDatagrams
      /\ held \in SUBSET Nat /\ cast \in {"owner", "host"} /\ exempt \in BOOLEAN
      /\ delay \in Nat /\ delay <= Max(Delays) /\ Max(Delays) \in Nat
      /\ Ticks = 0 .. MaxTick + LeadHigh + Max(Delays)
      /\ ServerInv /\ ClientInv /\ RollbackTypes
      /\ Cap \in Nat /\ MaxTick \in Nat /\ LeadHigh \in Nat
  BY CapAssumption, BoundAssumption, DelaysAreBounded DEF RollbackInv, RollbackTypes, EndState
<1>1. PICK batch \in Batches(cli) :
        LET ready == PrepareBatch(cli, batch, delay, ClientAuthors, FALSE, Predicts)
            current == cli.tick + Len(batch)
        IN  /\ live
            /\ current <= MaxTick + LeadHigh
            /\ cli' = RunRollback(ready, current, FALSE, ClientAuthors)[current]
            /\ up' = IF ClientAuthors THEN up \cup SentRows(cli'.inputs) ELSE up
            /\ authored' = IF ClientAuthors THEN Capture(cli.tick + delay, batch) ELSE authored
  BY DEF ClientFrame
<1>2. UNCHANGED <<srv, down, live, cast, exempt, delay, resets, shots, held, heard>>
  BY DEF ClientFrame
<1> DEFINE n == Len(batch)
           current == cli.tick + n
           low == cli.tick + delay
           high == low + n - 1
           ready == PrepareBatch(cli, batch, delay, ClientAuthors, FALSE, Predicts)
           run == RunRollback(ready, current, FALSE, ClientAuthors)
           done == run[current]
           stamped == Capture(low, batch)
<1>3. /\ batch \in Seq(Inputs) /\ n \in Nat \ {0} /\ n < Cap
      /\ DOMAIN batch = 1 .. n /\ current \in Nat /\ cli.tick < current
      /\ current <= MaxTick + LeadHigh
  <2>1. Horizon \in Nat
    BY WindowAssumption
  <2>2. QED
    BY <1>0, <1>1, <2>1, BatchesAreShort
<1>4. /\ live /\ cli' = done
      /\ up' = IF ClientAuthors THEN up \cup SentRows(cli'.inputs) ELSE up
      /\ authored' = IF ClientAuthors THEN stamped ELSE authored
  BY <1>1
<1>5. ClientAuthors \in BOOLEAN /\ Predicts \in BOOLEAN /\ (ClientAuthors => Predicts)
  BY <1>0 DEF ClientAuthors, Predicts
<1>6. \A u \in low .. high : u \in Ticks /\ u >= cli.tick
  BY <1>0, <1>3
<1>7. /\ \A t \in Ticks : authored[t] \subseteq stamped[t]
      /\ \A k \in 1 .. n : batch[k] \in stamped[low + k - 1]
      /\ stamped \in [Ticks -> SUBSET Inputs]
  <2>1. low \in Nat /\ \A k \in 1 .. n : low + k - 1 \in low .. high
    <3> HIDE DEF n
    <3>1. low \in Nat
      BY <1>0
    <3> HIDE DEF low
    <3>2. QED
      BY <1>3, <3>1
  <2> HIDE DEF low
  <2>2. \A k \in 1 .. n : low + k - 1 \in Ticks
    BY <1>6, <2>1
  <2>3. QED
    BY <1>0, <1>3, <2>1, <2>2, CaptureHoldsTheBatch
<1>8. Prepared(cli, ready, n, n, delay, ClientAuthors, FALSE, Predicts, stamped)
  <2>1. ClientAuthors => \A k \in 1 .. n : batch[k] \in stamped[cli.tick + delay + k - 1]
    BY <1>7
  <2> HIDE DEF stamped
  <2>2. FALSE \in BOOLEAN /\ ~(ClientAuthors /\ FALSE)
    OBVIOUS
  <2>3. QED
    BY <1>0, <1>3, <1>5, <2>1, <2>2, PrepareKeeps DEF Preparable
<1>9. /\ ready \in EndState /\ ready.tick = cli.tick /\ ready.states = cli.states
      /\ ready.latest = cli.latest
      /\ ~ClientAuthors => Unfed(cli, ready)
      /\ Fed(cli, ready, low, high, stamped)
  <2> HIDE DEF ready, stamped
  <2>1. QED
    BY <1>8 DEF Prepared, SameRest
<1> HIDE DEF ready, stamped
<1>10. PICK from \in Nat : Replays(ready, current, FALSE, ClientAuthors, from)
  BY <1>3, <1>5, <1>9, FrameReplays
<1>11. Ran(ready, run, from, current, FALSE)
  BY <1>3, <1>5, <1>9, <1>10, FrameRuns
<1> HIDE DEF run
<1>12. /\ done \in EndState /\ done.tick = current /\ done.dirty = NoTick
       /\ done.inputs = ready.inputs /\ done.latest = cli.latest
       /\ OutsideIsKept(cli.states, done.states, from, current)
  <2>1. current \in from .. current
    BY <1>3, <1>10 DEF Replays
  <2>2. QED
    BY <1>9, <1>11, <2>1 DEF Ran
<1> HIDE DEF done, low, high
<1>13. DOMAIN done.inputs \subseteq Nat /\ DOMAIN done.states \subseteq Nat
       /\ done.inputs \in Ring(Inputs)
  BY <1>12, RingIsFunction DEF EndState
<1>14. \A t \in Ticks : authored[t] \subseteq authored'[t]
  BY <1>4, <1>7
<1>15. \A t \in DOMAIN done.inputs :
         /\ t \in Ticks /\ done.inputs[t] \in authored'[t]
         /\ t \in DOMAIN cli.inputs \/ t >= cli.tick
  <2> TAKE t \in DOMAIN done.inputs
  <2>1. t \in Nat
    BY <1>13
  <2>2. CASE t \in DOMAIN cli.inputs /\ ready.inputs[t] = cli.inputs[t]
    <3>1. t \in Ticks /\ cli.inputs[t] \in authored[t]
      BY <1>0, <2>2 DEF ClientInv, ClientRowsAreAuthored
    <3>2. QED
      BY <1>12, <1>14, <2>2, <3>1
  <2>3. CASE ClientAuthors /\ t \in low .. high /\ ready.inputs[t] \in stamped[t]
    BY <1>4, <1>6, <1>12, <2>3
  <2>4. QED
    BY <1>9, <1>12, <2>2, <2>3 DEF Fed, Unfed
<1>16. /\ up' \in SUBSET InputDatagrams
       /\ \A d \in up' : d \in up \/ \A k \in 1 .. Len(d.rows) :
             /\ d.newest - (k - 1) \in DOMAIN done.inputs
             /\ d.rows[k] = done.inputs[d.newest - (k - 1)]
  <2>1. ASSUME NEW d \in up', d \notin up
        PROVE  /\ d \in InputDatagrams
               /\ \A k \in 1 .. Len(d.rows) :
                     /\ d.newest - (k - 1) \in DOMAIN done.inputs
                     /\ d.rows[k] = done.inputs[d.newest - (k - 1)]
    <3>1. d \in SentRows(done.inputs)
      BY <1>4, <2>1
    <3>2. /\ d.newest \in Nat /\ d.rows \in Seq(Inputs)
          /\ d = [newest |-> d.newest, rows |-> d.rows]
          /\ \A k \in 1 .. Len(d.rows) :
                /\ d.newest - (k - 1) \in DOMAIN done.inputs
                /\ d.rows[k] = done.inputs[d.newest - (k - 1)]
      BY <1>13, <3>1, SentRowsAreHeld
    <3>3. QED
      BY <3>2 DEF InputDatagrams
  <2>2. QED
    BY <1>0, <2>1
<1>17. RollbackTypes'
  <2>1. authored' \in [Ticks -> SUBSET Inputs]
    BY <1>0, <1>4, <1>7
  <2>2. Ticks' = Ticks
    BY DEF Ticks
  <2>3. cli' \in EndState /\ cli'.tick <= MaxTick + LeadHigh
    BY <1>3, <1>4, <1>12
  <2>4. QED
    BY <1>0, <1>2, <1>16, <2>1, <2>2, <2>3 DEF RollbackTypes
<1>18. ServerInv'
  BY <1>0, <1>2, <1>14, ServerIsLeft
<1>19. ClientRowsAreAuthored'
  <2>1. Ticks' = Ticks
    BY DEF Ticks
  <2>2. \A d \in up' : \A k \in 1 .. Len(d.rows) :
          /\ d.newest - (k - 1) \in Ticks
          /\ d.rows[k] \in authored'[d.newest - (k - 1)]
    <3> SUFFICES ASSUME NEW d \in up', NEW k \in 1 .. Len(d.rows)
                 PROVE  /\ d.newest - (k - 1) \in Ticks
                        /\ d.rows[k] \in authored'[d.newest - (k - 1)]
      OBVIOUS
    <3>1. CASE d \in up
      <4>1. d.newest - (k - 1) \in Ticks /\ d.rows[k] \in authored[d.newest - (k - 1)]
        BY <1>0, <3>1 DEF ClientInv, ClientRowsAreAuthored
      <4>2. QED
        BY <1>14, <4>1
    <3>2. CASE d \notin up
      <4>1. /\ d.newest - (k - 1) \in DOMAIN done.inputs
            /\ d.rows[k] = done.inputs[d.newest - (k - 1)]
        BY <1>16, <3>2
      <4>2. QED
        BY <1>15, <4>1
    <3>3. QED
      BY <3>1, <3>2
  <2>3. QED
    BY <1>4, <1>15, <2>1, <2>2 DEF ClientRowsAreAuthored
<1>20. ClientIsPastHeld'
  <2>1. ASSUME NEW h \in held
        PROVE  /\ h < current
               /\ \A t \in DOMAIN done.inputs : h < t
               /\ \A d \in up' : \A k \in 1 .. Len(d.rows) : h < d.newest - (k - 1)
    <3>1. /\ h \in Nat /\ h < cli.tick
          /\ \A t \in DOMAIN cli.inputs : h < t
          /\ \A d \in up : \A k \in 1 .. Len(d.rows) : h < d.newest - (k - 1)
      BY <1>0, <1>4 DEF ClientInv, ClientIsPastHeld
    <3>2. \A t \in DOMAIN done.inputs : h < t
      BY <1>0, <1>13, <1>15, <3>1
    <3>3. h < current
      BY <1>0, <1>3, <3>1
    <3>4. ASSUME NEW d \in up', NEW k \in 1 .. Len(d.rows) PROVE h < d.newest - (k - 1)
      <4>1. CASE d \in up
        BY <3>1, <4>1
      <4>2. CASE d \notin up
        <5>1. d.newest - (k - 1) \in DOMAIN done.inputs
          BY <1>16, <4>2
        <5>2. QED
          BY <3>2, <5>1
      <4>3. QED
        BY <4>1, <4>2
    <3>5. QED
      BY <3>2, <3>3, <3>4
  <2>2. QED
    BY <1>2, <1>4, <1>12, <2>1 DEF ClientIsPastHeld
<1>21. ClientRingsAreNear'
  <2>1. \A v \in DOMAIN done.states : v <= current \/ v <= cli.latest
    <3> TAKE v \in DOMAIN done.states
    <3>1. v \in Nat
      BY <1>13
    <3>2. CASE v > current
      <4>1. v \in DOMAIN cli.states
        BY <1>12, <3>2 DEF OutsideIsKept
      <4>2. v <= cli.tick \/ v <= cli.latest
        BY <1>0, <4>1 DEF ClientInv, ClientRingsAreNear
      <4>3. QED
        BY <1>0, <1>3, <3>1, <3>2, <4>2
    <3>3. QED
      BY <1>3, <3>1, <3>2
  <2>2. cast = "host" => done.inputs = EmptyRing
    <3>1. cast = "host" => ~ClientAuthors
      BY DEF ClientAuthors
    <3>2. QED
      BY <1>0, <1>9, <1>12, <3>1 DEF ClientInv, ClientRingsAreNear, Unfed
  <2>3. QED
    BY <1>2, <1>4, <1>12, <2>1, <2>2 DEF ClientRingsAreNear
<1>22. BaseIsHeard'
  BY <1>4, <1>12 DEF BaseIsHeard
<1>23. ClientIsExact'
  <2>1. CASE cast = "host"
    <3>1. cli'.inputs = EmptyRing
      BY <1>2, <1>21, <2>1 DEF ClientRingsAreNear
    <3>2. QED
      BY <3>1, EmptyIsExact DEF ClientIsExact
  <2>2. CASE cast = "owner"
    <3>1. ClientAuthors /\ Predicts
      BY <1>5, <2>2 DEF ClientAuthors
    <3>2. Prepared(cli, ready, n, n, delay, ClientAuthors, FALSE, TRUE, stamped)
      BY <1>5, <1>8, <3>1
    <3>3. ExactFrom(cli, cli.latest, Max(Delays))
      BY <1>0, <3>1 DEF ClientInv, ClientIsExact
    <3>4. \A v \in DOMAIN cli.states : v <= cli.tick \/ v <= cli.latest
      BY <1>0 DEF ClientInv, ClientRingsAreNear
    <3>5. cli.latest \in Int
      BY <1>0 DEF Tick, NoTick
    <3>6. ExactFrom(run[cli.tick + n], cli.latest, Max(Delays))
      BY <1>0, <1>3, <1>5, <1>10, <1>11, <3>2, <3>3, <3>4, <3>5, FrameIsExact
    <3>7. QED
      BY <1>4, <1>12, <3>6 DEF ClientIsExact, done
  <2>3. QED
    BY <1>0, <2>1, <2>2
<1>24. QED
  BY <1>17, <1>18, <1>19, <1>20, <1>21, <1>22, <1>23 DEF ClientInv, RollbackInv

-----------------------------------------------------------------------------
(* A snapshot row on the client.                                           *)

\* The client's halves that read nothing but its rows and its tick.
SameInputs == cli'.inputs = cli.inputs /\ cli'.tick = cli.tick

(* A step that leaves the client's input rows, its tick and what is in     *)
(* flight to the server leaves its rows authored and past what is held.    *)
LEMMA ClientRowsAreLeft ==
    ASSUME ClientInv, SameInputs, UNCHANGED <<live, held, authored>>, up' \subseteq up
    PROVE  ClientRowsAreAuthored' /\ ClientIsPastHeld'
<1>1. Ticks' = Ticks
  BY DEF Ticks
<1>2. QED
  BY <1>1 DEF ClientInv, ClientRowsAreAuthored, ClientIsPastHeld, SameInputs

(* A received snapshot row keeps the invariant.                            *)
LEMMA HandleSnapshotKeeps == RollbackInv /\ HandleSnapshot => RollbackInv'
<1> SUFFICES ASSUME RollbackInv, HandleSnapshot PROVE RollbackInv'
  OBVIOUS
<1>0. /\ cli \in EndState /\ cli.tick \in Nat /\ cli.dirty \in Tick /\ cli.latest \in Tick
      /\ cli.states \in Ring(Poses) /\ DOMAIN cli.states \subseteq Nat
      /\ down \in SUBSET SnapshotRows
      /\ exempt \in BOOLEAN /\ Max(Delays) \in Nat
      /\ ServerInv /\ ClientInv /\ RollbackTypes
  BY DelaysAreBounded, RingIsFunction DEF RollbackInv, RollbackTypes, EndState
<1>1. PICK d \in down :
        /\ down' = down \ {d}
        /\ cli' = IntegrateRow(cli, d.tick, d.row, Predicts)
        /\ heard' = IF cli'.latest = d.tick /\ cli.latest # d.tick THEN d.row ELSE heard
  BY DEF HandleSnapshot
<1>2. UNCHANGED <<srv, up, live, cast, exempt, delay, resets, shots, held, authored>>
  BY DEF HandleSnapshot
<1> DEFINE t == d.tick
           row == d.row
<1>3. t \in Nat /\ row \in Poses
  BY <1>0 DEF SnapshotRows
<1>4. Predicts \in BOOLEAN
  BY <1>0 DEF Predicts, ClientAuthors
<1>5. Receives(cli, cli', t, row, Predicts)
  <2>1. Receives(cli, IntegrateRow(cli, t, row, Predicts), t, row, Predicts)
    BY <1>0, <1>3, <1>4, RowIsReceived
  <2>2. QED
    BY <1>1, <2>1
<1>6. cli' \in EndState /\ SameInputs
  BY <1>5 DEF Receives, SameInputs
<1>7. RollbackTypes'
  <2>1. heard' \in Poses
    BY <1>0, <1>1, <1>3 DEF RollbackTypes
  <2>2. Ticks' = Ticks
    BY DEF Ticks
  <2>3. down' \in SUBSET SnapshotRows
    BY <1>0, <1>1
  <2>4. QED
    BY <1>0, <1>2, <1>6, <2>1, <2>2, <2>3 DEF RollbackTypes, SameInputs
<1>8. ServerInv'
  <2>1. \A u \in Ticks : authored[u] \subseteq authored'[u]
    BY <1>2
  <2>2. QED
    BY <1>0, <1>2, <2>1, ServerIsLeft
<1>9. ClientRowsAreAuthored' /\ ClientIsPastHeld'
  BY <1>0, <1>2, <1>6, ClientRowsAreLeft
<1>10. ClientIsExact'
  <2>1. Predicts' = Predicts
    BY <1>2 DEF Predicts, ClientAuthors
  <2>2. CASE Predicts
    <3>1. Receives(cli, cli', t, row, TRUE)
      BY <1>4, <1>5, <2>2
    <3>2. ExactFrom(cli, cli.latest, Max(Delays))
      BY <1>0, <2>2 DEF ClientInv, ClientIsExact
    <3>3. ExactFrom(cli', cli'.latest, Max(Delays))
      BY <1>0, <1>3, <3>1, <3>2, RowIsExact
    <3>4. QED
      BY <3>3 DEF ClientIsExact
  <2>3. QED
    BY <2>1, <2>2 DEF ClientIsExact
<1>11. CASE cli' = cli /\ cli.latest # NoTick /\ t <= cli.latest
  <2>1. heard' = heard
    BY <1>1, <1>11
  <2>2. ClientRingsAreNear' /\ BaseIsHeard'
    BY <1>0, <1>2, <1>11, <2>1 DEF ClientInv, ClientRingsAreNear, BaseIsHeard
  <2>3. QED
    BY <1>7, <1>8, <1>9, <1>10, <2>2 DEF ClientInv, RollbackInv
<1>12. CASE /\ cli.latest = NoTick \/ t > cli.latest
            /\ cli'.latest = t
            /\ \/ cli'.states = cli.states /\ cli'.dirty = cli.dirty
               \/ /\ cli'.states = WriteRow(cli.states, t, row)
                  /\ \/ /\ cli'.dirty = MarkDirty(cli.dirty, t)
                        /\ t < cli.tick /\ ~IsStale(cli.states, t)
                     \/ cli'.dirty = cli.dirty
  <2>1. heard' = row
    BY <1>0, <1>1, <1>3, <1>12 DEF NoTick
  <2>2. /\ DOMAIN WriteRow(cli.states, t, row) \subseteq DOMAIN cli.states \cup {t}
        /\ ~IsStale(cli.states, t) => WriteRow(cli.states, t, row)[t] = row
    BY <1>0, <1>3, WrittenRows
  <2>3. ClientRingsAreNear'
    <3>1. ASSUME NEW v \in DOMAIN cli'.states PROVE v <= cli'.tick \/ v <= cli'.latest
      <4>1. v \in DOMAIN cli.states \/ v = t
        BY <1>12, <2>2, <3>1
      <4>2. CASE v \in DOMAIN cli.states
        <5>1. v \in Nat /\ (v <= cli.tick \/ v <= cli.latest)
          BY <1>0, <4>2 DEF ClientInv, ClientRingsAreNear
        <5>2. QED
          BY <1>0, <1>3, <1>6, <1>12, <5>1 DEF SameInputs, Tick, NoTick
      <4>3. CASE v = t
        BY <1>3, <1>12, <4>3
      <4>4. QED
        BY <4>1, <4>2, <4>3
    <3>2. QED
      BY <1>0, <1>2, <1>6, <3>1 DEF ClientInv, ClientRingsAreNear, SameInputs
  <2>4. BaseIsHeard'
    <3>0. cli'.tick = cli.tick /\ t # NoTick
      BY <1>3, <1>6 DEF SameInputs, NoTick
    <3>1. CASE cli'.dirty = cli.dirty
      <4>1. cli.dirty # NoTick => cli.dirty < t /\ cli.dirty < cli.tick
        BY <1>0, <1>3, <1>12 DEF ClientInv, BaseIsHeard, Tick, NoTick
      <4>2. cli.dirty # t /\ (cli.dirty # NoTick => cli.dirty <= t)
        BY <1>0, <1>3, <4>1 DEF Tick, NoTick
      <4>3. QED
        BY <1>12, <3>0, <3>1, <4>1, <4>2 DEF BaseIsHeard
    <3>2. CASE /\ cli'.states = WriteRow(cli.states, t, row)
               /\ cli'.dirty = MarkDirty(cli.dirty, t)
               /\ t < cli.tick /\ ~IsStale(cli.states, t)
      <4>1. cli'.dirty <= t /\ cli'.dirty < cli.tick
        <5>1. cli'.dirty \in Nat /\ cli'.dirty <= t
          BY <1>0, <1>3, <3>2, MarkDeepens
        <5>2. QED
          BY <1>0, <1>3, <3>2, <5>1
      <4>2. cli'.states[t] = heard'
        BY <2>1, <2>2, <3>2
      <4>3. QED
        BY <1>12, <3>0, <4>1, <4>2 DEF BaseIsHeard
    <3>3. QED
      BY <1>12, <3>1, <3>2
  <2>5. QED
    BY <1>7, <1>8, <1>9, <1>10, <2>3, <2>4 DEF ClientInv, RollbackInv
<1>13. QED
  BY <1>5, <1>11, <1>12 DEF Receives

-----------------------------------------------------------------------------
(* Levers, faults and the whole specification.                             *)

(* A fresh session of the client, past every orphaned tick, keeps the      *)
(* invariant, whatever was lost with the old one.                          *)
LEMMA FreshClientKeeps ==
    ASSUME RollbackInv, NEW tick \in Nat, tick <= MaxTick + LeadHigh,
           NEW pose \in Poses, NEW input \in Inputs,
           cli' = ResetSession(tick, pose, input),
           UNCHANGED <<srv, cast, exempt, delay, shots, held, authored, heard>>,
           up' \subseteq up, down' \subseteq down, live' \in BOOLEAN,
           live' => /\ \A h \in held : h < tick
                    /\ \A d \in up' : live,
           ~live' => up' = {}
    PROVE  RollbackInv'
<1>1. /\ cli' \in EndState /\ cli'.tick = tick /\ cli'.dirty = NoTick /\ cli'.latest = NoTick
      /\ DOMAIN cli'.states = {} /\ cli'.inputs = EmptyRing /\ DOMAIN cli'.inputs = {}
  BY ResetShape
<1>2. Ticks' = Ticks
  BY DEF Ticks
<1>3. RollbackTypes'
  BY <1>1, <1>2 DEF RollbackInv, RollbackTypes
<1>4. ServerInv'
  <2>1. \A u \in Ticks : authored[u] \subseteq authored'[u]
    OBVIOUS
  <2>2. QED
    BY <2>1, ServerIsLeft DEF RollbackInv
<1>5. ClientRowsAreAuthored'
  BY <1>1, <1>2 DEF RollbackInv, ClientInv, ClientRowsAreAuthored
<1>6. ClientIsPastHeld'
  BY <1>1 DEF RollbackInv, ClientInv, ClientIsPastHeld
<1>7. ClientRingsAreNear' /\ BaseIsHeard'
  BY <1>1 DEF ClientRingsAreNear, BaseIsHeard
<1>8. ClientIsExact'
  BY <1>1, EmptyIsExact DEF ClientIsExact
<1>9. QED
  BY <1>3, <1>4, <1>5, <1>6, <1>7, <1>8 DEF ClientInv, RollbackInv

(* The client's tick is put where the server's is, ahead of what it held.  *)
LEMMA SeekIsPastHeld ==
    ASSUME RollbackInv, NEW lead \in 1 .. LeadHigh
    PROVE  /\ SeekTarget(lead) \in Nat /\ SeekTarget(lead) <= MaxTick + LeadHigh
           /\ \A h \in held : h < SeekTarget(lead)
<1>1. srv.tick \in Nat /\ srv.tick <= MaxTick /\ held \in SUBSET Nat
      /\ \A h \in held : h < srv.tick
  BY DEF RollbackInv, RollbackTypes, EndState, ServerInv, HeldIsPast
<1>2. MaxTick \in Nat /\ LeadHigh \in Nat
  BY BoundAssumption
<1>3. QED
  BY <1>1, <1>2 DEF SeekTarget

(* The levers keep the invariant: only a body whose input this client never*)
(* held changes between displayed and predicted.                           *)
LEMMA LeversKeep ==
    RollbackInv /\ (SetRemoteResim \/ SetInputDelay) => RollbackInv'
<1> SUFFICES ASSUME RollbackInv, SetRemoteResim \/ SetInputDelay PROVE RollbackInv'
  OBVIOUS
<1>1. UNCHANGED <<srv, cli, up, down, live, cast, shots, held, authored, heard>>
  BY DEF SetRemoteResim, SetInputDelay, history
<1>2. exempt' \in BOOLEAN /\ delay' \in Delays /\ (exempt' = exempt \/ cast = "host")
  BY DEF RollbackInv, RollbackTypes, SetRemoteResim, SetInputDelay
<1>3. Ticks' = Ticks
  BY DEF Ticks
<1>4. RollbackTypes'
  BY <1>1, <1>2, <1>3 DEF RollbackInv, RollbackTypes
<1>5. ServerInv'
  <2>1. \A u \in Ticks : authored[u] \subseteq authored'[u]
    BY <1>1
  <2>2. QED
    BY <1>1, <2>1, ServerIsLeft DEF RollbackInv
<1>6. ClientRowsAreAuthored' /\ ClientIsPastHeld'
  BY <1>1, ClientRowsAreLeft DEF RollbackInv, SameInputs
<1>7. ClientRingsAreNear' /\ BaseIsHeard'
  BY <1>1 DEF RollbackInv, ClientInv, ClientRingsAreNear, BaseIsHeard
<1>8. ClientIsExact'
  <2>1. CASE cast = "host"
    <3>1. cli'.inputs = EmptyRing
      BY <1>1, <2>1 DEF RollbackInv, ClientInv, ClientRingsAreNear
    <3>2. QED
      BY <3>1, EmptyIsExact DEF ClientIsExact
  <2>2. CASE cast # "host"
    <3>1. Predicts' = Predicts
      BY <1>1, <1>2, <2>2 DEF Predicts, ClientAuthors
    <3>2. QED
      BY <1>1, <3>1 DEF RollbackInv, ClientInv, ClientIsExact
  <2>3. QED
    BY <2>1, <2>2
<1>9. QED
  BY <1>4, <1>5, <1>6, <1>7, <1>8 DEF ClientInv, RollbackInv

(* A lost datagram keeps the invariant, and so does a stuttering step.     *)
LEMMA LossKeeps == RollbackInv /\ (Lose \/ UNCHANGED vars) => RollbackInv'
<1> SUFFICES ASSUME RollbackInv, Lose \/ UNCHANGED vars PROVE RollbackInv'
  OBVIOUS
<1>1. /\ UNCHANGED <<srv, cli, live, cast, exempt, delay, shots, held, authored, heard>>
      /\ up' \subseteq up /\ down' \subseteq down
  BY DEF Lose, vars, history
<1>2. Ticks' = Ticks
  BY DEF Ticks
<1>3. RollbackTypes'
  BY <1>1, <1>2 DEF RollbackInv, RollbackTypes
<1>4. ServerInv'
  <2>1. \A u \in Ticks : authored[u] \subseteq authored'[u]
    BY <1>1
  <2>2. QED
    BY <1>1, <2>1, ServerIsLeft DEF RollbackInv
<1>5. ClientRowsAreAuthored' /\ ClientIsPastHeld'
  BY <1>1, ClientRowsAreLeft DEF RollbackInv, SameInputs
<1>6. ClientRingsAreNear' /\ BaseIsHeard' /\ ClientIsExact'
  BY <1>1 DEF RollbackInv, ClientInv, ClientRingsAreNear, BaseIsHeard, ClientIsExact, Predicts,
              ClientAuthors
<1>7. QED
  BY <1>3, <1>4, <1>5, <1>6 DEF ClientInv, RollbackInv

(* A resync, a player that leaves and one that returns keep the invariant. *)
LEMMA SessionsKeep == RollbackInv /\ (HardResync \/ Leave \/ Return) => RollbackInv'
<1> SUFFICES ASSUME RollbackInv, HardResync \/ Leave \/ Return PROVE RollbackInv'
  OBVIOUS
<1>0. /\ cli.pose \in Poses /\ cli.node \in Inputs /\ FirstPose \in Poses /\ Neutral \in Inputs
      /\ 0 \in Nat /\ 0 <= MaxTick + LeadHigh /\ live \in BOOLEAN
  BY StepAssumption, BoundAssumption DEF RollbackInv, RollbackTypes, EndState
<1>1. CASE HardResync
  <2>1. PICK lead \in 1 .. LeadHigh : cli' = ResetSession(SeekTarget(lead), cli.pose, cli.node)
    BY <1>1 DEF HardResync
  <2>2. /\ UNCHANGED <<srv, cast, exempt, delay, shots, held, authored, heard>>
        /\ up' = up /\ down' = down /\ live' = live /\ live
    BY <1>1 DEF HardResync, history
  <2>3. /\ SeekTarget(lead) \in Nat /\ SeekTarget(lead) <= MaxTick + LeadHigh
        /\ \A h \in held : h < SeekTarget(lead)
    BY SeekIsPastHeld
  <2>4. QED
    BY <1>0, <2>1, <2>2, <2>3, FreshClientKeeps
<1>2. CASE Leave
  <2>1. /\ UNCHANGED <<srv, cast, exempt, delay, shots, held, authored, heard>>
        /\ up' = {} /\ down' = {} /\ live' = FALSE
        /\ cli' = ResetSession(0, FirstPose, Neutral)
    BY <1>2 DEF Leave, history
  <2>2. QED
    BY <1>0, <2>1, FreshClientKeeps
<1>3. CASE Return
  <2>1. PICK lead \in 1 .. LeadHigh : cli' = ResetSession(SeekTarget(lead), FirstPose, Neutral)
    BY <1>3 DEF Return
  <2>2. /\ UNCHANGED <<srv, cast, exempt, delay, shots, held, authored, heard>>
        /\ up' = up /\ down' = down /\ live' = TRUE /\ ~live
    BY <1>3 DEF Return, history
  <2>3. /\ SeekTarget(lead) \in Nat /\ SeekTarget(lead) <= MaxTick + LeadHigh
        /\ \A h \in held : h < SeekTarget(lead)
    BY SeekIsPastHeld
  <2>4. up = {}
    BY <2>2 DEF RollbackInv, ClientInv, ClientIsPastHeld
  <2>5. QED
    BY <1>0, <2>1, <2>2, <2>3, <2>4, FreshClientKeeps
<1>4. QED
  BY <1>1, <1>2, <1>3

(* Every step keeps the invariant.                                         *)
LEMMA StepsKeep == RollbackInv /\ [Next]_vars => RollbackInv'
  BY ServerFrameKeeps, HandleClientInputKeeps, ClientFrameKeeps, HandleSnapshotKeeps,
     LeversKeep, SessionsKeep, LossKeeps DEF Next

(* The two ends of the rollback keep the inductive invariant.              *)
THEOREM RollbackInvariance == Spec => []RollbackInv
  BY InitIsSound, StepsKeep, PTL DEF Spec

(* InputsKeepTheirTick: every input row the server simulates is one the    *)
(* body's driver captured for that very tick, or the neutral row of an     *)
(* orphaned one.                                                           *)
THEOREM InputsAlwaysKeepTheirTick == Spec => []InputsKeepTheirTick
<1>1. RollbackInv => InputsKeepTheirTick
  BY DEF RollbackInv, ServerInv
<1>2. QED
  BY <1>1, RollbackInvariance, PTL

(* OrphanIsHeld: while nobody drives a body it runs on no intent, and the  *)
(* server broadcasts its own newest tick.                                  *)
THEOREM OrphansAreHeld == Spec => []OrphanIsHeld
<1>1. RollbackInv => OrphanIsHeld
  <2> SUFFICES ASSUME RollbackInv PROVE OrphanIsHeld
    OBVIOUS
  <2>1. \A t \in held : /\ t \in DOMAIN srv.inputs => srv.inputs[t] = Neutral
                        /\ \A k \in DOMAIN shots[t] : shots[t][k] = Neutral
    <3> TAKE t \in held
    <3>1. shots[t] = <<Neutral>> /\ (t \in DOMAIN srv.inputs => srv.inputs[t] = Neutral)
      BY DEF RollbackInv, ServerInv, HeldIsPast
    <3>2. \A k \in DOMAIN <<Neutral>> : <<Neutral>>[k] = Neutral
      OBVIOUS
    <3>3. QED
      BY <3>1, <3>2
  <2>2. srv.tick - 1 \in held => BlockTick(srv) = srv.tick
    BY DEF RollbackInv, ServerInv, FrontierIsReached, BlockTick
  <2>3. QED
    BY <2>1, <2>2 DEF OrphanIsHeld
<1>2. QED
  BY <1>1, RollbackInvariance, PTL

(* The ticks from the later of 0 and x on are the naturals from x on.      *)
LEMMA FromZeroOn ==
    ASSUME NEW x \in Int, NEW y \in Int, NEW t \in Max({0, x}) .. y
    PROVE  t \in Nat /\ t >= x /\ t <= y
<1> DEFINE zero == 0
<1>1. zero \in Int
  OBVIOUS
<1> HIDE DEF zero
<1>2. Max({zero, x}) = IF zero >= x THEN zero ELSE x
  BY <1>1, GreaterOfTwo
<1>3. t \in Max({zero, x}) .. y
  BY DEF zero
<1>4. QED
  BY <1>1, <1>2, <1>3 DEF zero

(* FreshOnce: a tick reads fresh at most once on the server however often  *)
(* it is replayed, and a row that landed within the horizon is not missed. *)
THEOREM FreshAtMostOnce == Spec => []FreshOnce
<1>1. RollbackInv => FreshOnce
  <2> SUFFICES ASSUME RollbackInv PROVE FreshOnce
    OBVIOUS
  <2>0. /\ srv.tick \in Nat /\ srv.dirty \in Tick /\ Horizon \in Nat
        /\ shots \in [Ticks -> Seq(Inputs)]
    BY WindowAssumption DEF RollbackInv, RollbackTypes, EndState
  <2>1. \A t \in WasRead : t \in Ticks /\ Len(shots[t]) = 1
    BY DEF RollbackInv, ServerInv, LedgerCounts, WasRead
  <2>2. \A t \in Ticks : Len(shots[t]) <= 1
    <3> TAKE t \in Ticks
    <3>1. CASE t \in WasRead
      <4>1. Len(shots[t]) = 1 /\ 1 <= 1
        BY <2>1, <3>1
      <4>2. QED
        BY <4>1
    <3>2. CASE t \notin WasRead
      <4>1. shots[t] = <<>>
        BY <3>2 DEF WasRead
      <4>2. QED
        BY <4>1
    <3>3. QED
      BY <3>1, <3>2
  <2>3. ASSUME NEW t \in Max({0, srv.tick - Horizon}) .. srv.tick - 1,
               Confidence(srv.ledger, t) = Authoritative, Settled(srv, t)
        PROVE  Len(shots[t]) = 1
    <3>1. t \in Nat /\ t >= srv.tick - Horizon /\ t <= srv.tick - 1
      <4> DEFINE low == srv.tick - Horizon
                 high == srv.tick - 1
      <4>1. low \in Int /\ high \in Int /\ t \in Max({0, low}) .. high
        BY <2>0, <2>3
      <4> HIDE DEF low, high
      <4>2. t \in Nat /\ t >= low /\ t <= high
        BY <4>1, FromZeroOn
      <4>3. QED
        BY <4>2 DEF low, high
    <3>2. t \in DOMAIN srv.ledger /\ srv.ledger[t].confidence = Authoritative
      BY <2>3 DEF Confidence, Authoritative, Predicted
    <3>3. ~(t >= srv.tick) /\ ~(t < srv.tick - Horizon)
      BY <2>0, <3>1
    <3>4. ~(srv.dirty # NoTick /\ srv.dirty <= t)
      BY <2>0, <2>3, <3>1 DEF Settled, Tick
    <3>5. srv.ledger[t].consumed
      BY <3>2, <3>3, <3>4 DEF RollbackInv, ServerInv, NothingIsMissed
    <3>6. t \in WasRead
      BY <3>2, <3>5 DEF RollbackInv, ServerInv, LedgerCounts, Reads
    <3>7. QED
      BY <2>1, <3>6
  <2>4. QED
    BY <2>2, <2>3 DEF FreshOnce
<1>2. QED
  BY <1>1, RollbackInvariance, PTL

(* ReplayIsExact: whatever the order of input rows, snapshots and frames,  *)
(* what a peer holds is what simulating its current history would give, on *)
(* the server over the input horizon, on the client from its newest        *)
(* authoritative row on.                                                   *)
THEOREM ReplayIsAlwaysExact == Spec => []ReplayIsExact
<1>1. RollbackInv => ReplayIsExact
  <2> SUFFICES ASSUME RollbackInv PROVE ReplayIsExact
    OBVIOUS
  <2>0. srv.tick \in Nat /\ cli.tick \in Nat /\ cli.latest \in Int /\ Horizon \in Nat
    BY WindowAssumption DEF RollbackInv, RollbackTypes, EndState, Tick, NoTick
  <2>1. ASSUME NEW t \in Max({0, srv.tick - Horizon}) .. srv.tick - 1,
               Settled(srv, t), Sourced(srv, t, Future)
        PROVE  Exact(srv, t)
    <3>1. t \in Nat /\ t >= srv.tick - Horizon
      BY <2>0, FromZeroOn
    <3>2. QED
      BY <2>1, <3>1 DEF RollbackInv, ServerInv, ServerIsExact, ExactFrom
  <2>2. ASSUME NEW t \in Max({0, cli.latest}) .. cli.tick - 1,
               Predicts, Settled(cli, t), Sourced(cli, t, Max(Delays))
        PROVE  Exact(cli, t)
    <3>1. t \in Nat /\ t >= cli.latest
      BY <2>0, FromZeroOn
    <3>2. QED
      BY <2>2, <3>1 DEF RollbackInv, ClientInv, ClientIsExact, ExactFrom
  <2>3. QED
    BY <2>1, <2>2 DEF ReplayIsExact
<1>2. QED
  BY <1>1, RollbackInvariance, PTL

(* A frame of a client whose window starts at its newest row replays from  *)
(* there, and leaves that row as it was heard.                             *)
LEMMA FrameKeepsTheBase ==
    ASSUME RollbackInv, ClientFrame, Predicts, ResimForce = 0,
           cli.dirty = cli.latest, cli.latest # NoTick, cli.latest \in DOMAIN cli'.states
    PROVE  cli'.states[cli.latest] = heard
<1>0. /\ cli \in EndState /\ cli.tick \in Nat /\ cli.dirty \in Nat /\ cli.dirty < cli.tick
      /\ cast \in {"owner", "host"} /\ exempt \in BOOLEAN /\ delay \in Nat
      /\ cli.latest \in DOMAIN cli.states => cli.states[cli.latest] = heard
  BY DelaysAreBounded DEF RollbackInv, RollbackTypes, EndState, Tick, ClientInv, BaseIsHeard
<1>1. PICK batch \in Batches(cli) :
        cli' = RunRollback(PrepareBatch(cli, batch, delay, ClientAuthors, FALSE, Predicts),
                           cli.tick + Len(batch), FALSE, ClientAuthors)[cli.tick + Len(batch)]
  BY DEF ClientFrame
<1> DEFINE n == Len(batch)
           current == cli.tick + n
           ready == PrepareBatch(cli, batch, delay, ClientAuthors, FALSE, Predicts)
           run == RunRollback(ready, current, FALSE, ClientAuthors)
           stamped == [u \in Nat |-> Inputs]
<1>2. /\ batch \in Seq(Inputs) /\ n \in Nat \ {0} /\ n < Cap /\ current \in Nat
      /\ cli.tick < current
  <2>1. Horizon \in Nat /\ Cap \in Nat
    BY WindowAssumption, CapAssumption
  <2>2. QED
    BY <1>0, <2>1, BatchesAreShort
<1>3. ClientAuthors \in BOOLEAN /\ Predicts \in BOOLEAN
  BY DEF ClientAuthors, Predicts
<1>4. Prepared(cli, ready, n, n, delay, ClientAuthors, FALSE, Predicts, stamped)
  <2>1. \A k \in 1 .. n : batch[k] \in stamped[cli.tick + delay + k - 1]
    <3> TAKE k \in 1 .. n
    <3>1. batch[k] \in Inputs /\ k \in Nat /\ k >= 1
      BY <1>2
    <3> HIDE DEF n
    <3>2. cli.tick + delay + k - 1 \in Nat
      BY <1>0, <3>1
    <3>3. QED
      BY <3>1, <3>2
  <2> HIDE DEF stamped
  <2>2. FALSE \in BOOLEAN /\ ~(ClientAuthors /\ FALSE)
    OBVIOUS
  <2>3. QED
    BY <1>0, <1>2, <1>3, <2>1, <2>2, PrepareKeeps DEF Preparable
<1>5. /\ ready \in EndState /\ ready.states = cli.states
      /\ ready.dirty = MarkDirty(cli.dirty, cli.tick)
  <2> HIDE DEF ready, stamped
  <2>1. n > 0
    BY <1>2
  <2>2. QED
    BY <1>4, <2>1 DEF Prepared, SameRest
<1>6. ready.dirty = cli.latest /\ ready.dirty # NoTick /\ ready.dirty < current
  <2>1. cli.dirty # NoTick /\ ~(cli.tick < cli.dirty)
    BY <1>0
  <2>2. MarkDirty(cli.dirty, cli.tick) = cli.dirty
    BY <2>1 DEF MarkDirty
  <2> HIDE DEF ready, n
  <2>3. cli.dirty < current
    BY <1>0, <1>2
  <2>4. QED
    BY <1>5, <2>1, <2>2, <2>3
<1> HIDE DEF ready
<1>7. PICK from \in Nat : Replays(ready, current, FALSE, ClientAuthors, from)
  BY <1>2, <1>3, <1>5, FrameReplays
<1>8. cli.latest <= from
  BY <1>0, <1>2, <1>6, <1>7 DEF Replays
<1>9. Ran(ready, run, from, current, FALSE)
  BY <1>2, <1>3, <1>5, <1>7, FrameRuns
<1>10. OutsideIsKept(cli.states, cli'.states, from, current)
  <2>1. cli' = run[current]
    BY <1>1 DEF ready
  <2> HIDE DEF run
  <2>2. QED
    BY <1>5, <1>9, <2>1 DEF Ran
<1>11. cli.latest \in DOMAIN cli.states /\ cli'.states[cli.latest] = cli.states[cli.latest]
  BY <1>8, <1>10 DEF OutsideIsKept
<1>12. QED
  BY <1>0, <1>11

(* The resyncs, rejoins and delay changes of a run are counted.            *)
LEMMA ResetsAreCounted == Spec => [](resets \in Nat)
<1>1. Init => resets \in Nat
  BY DEF Init
<1>2. resets \in Nat /\ [Next]_vars => (resets \in Nat)'
  <2>1. ServerFrame \/ HandleClientInput \/ ClientFrame \/ HandleSnapshot => resets' = resets
    BY DEF ServerFrame, HandleClientInput, ClientFrame, HandleSnapshot
  <2>2. SetRemoteResim \/ Leave \/ Lose \/ UNCHANGED vars => resets' = resets
    BY DEF SetRemoteResim, Leave, Lose, vars
  <2>3. SetInputDelay \/ HardResync \/ Return => resets' = resets + 1
    BY DEF SetInputDelay, HardResync, Return
  <2>4. QED
    BY <2>1, <2>2, <2>3 DEF Next
<1>3. QED
  BY <1>1, <1>2, PTL DEF Spec

(* SnapshotIsTheBase: a snapshot that contradicts the client's prediction  *)
(* becomes its base, and the next frame replays from that row and leaves it*)
(* as the server sent it.  A forced window, which reaches back over the    *)
(* row, is off.                                                            *)
THEOREM SnapshotBecomesTheBase ==
    ASSUME ResimForce = 0
    PROVE  Spec => SnapshotIsTheBase
<1> DEFINE Kept == (/\ cli'.tick > cli.tick /\ resets' = resets
                    /\ Predicts /\ cli.dirty = cli.latest /\ cli.latest # NoTick)
                   => (cli.latest \in DOMAIN cli'.states
                         => cli'.states[cli.latest] = heard)
<1>1. RollbackInv /\ resets \in Nat /\ [Next]_vars => [Kept]_vars
  <2> SUFFICES ASSUME RollbackInv, resets \in Nat, Next,
                      cli'.tick > cli.tick, resets' = resets,
                      Predicts, cli.dirty = cli.latest, cli.latest # NoTick,
                      cli.latest \in DOMAIN cli'.states
               PROVE  cli'.states[cli.latest] = heard
    OBVIOUS
  <2>0. cli.tick \in Nat
    BY DEF RollbackInv, RollbackTypes, EndState
  <2>1. CASE ClientFrame
    BY <2>1, FrameKeepsTheBase
  <2>2. CASE cli' = cli
    BY <2>0, <2>2
  <2>3. CASE HandleSnapshot
    <3>1. PICK d \in down : cli' = IntegrateRow(cli, d.tick, d.row, Predicts)
      BY <2>3 DEF HandleSnapshot
    <3>2. cli \in EndState /\ d.tick \in Nat /\ d.row \in Poses
      BY DEF RollbackInv, RollbackTypes, SnapshotRows
    <3>3. Predicts \in BOOLEAN
      BY DEF RollbackInv, RollbackTypes, Predicts, ClientAuthors
    <3>4. Receives(cli, cli', d.tick, d.row, Predicts)
      <4>1. Receives(cli, IntegrateRow(cli, d.tick, d.row, Predicts), d.tick, d.row, Predicts)
        BY <3>2, <3>3, RowIsReceived
      <4>2. QED
        BY <3>1, <4>1
    <3>5. cli'.tick = cli.tick
      BY <3>4 DEF Receives
    <3>6. QED
      BY <2>0, <3>5
  <2>4. CASE Leave
    <3>1. cli' = ResetSession(0, FirstPose, Neutral)
      BY <2>4 DEF Leave
    <3>2. cli'.tick = 0
      BY <3>1 DEF ResetSession
    <3>3. QED
      BY <2>0, <3>2
  <2>5. CASE HardResync \/ Return
    BY <2>5 DEF HardResync, Return
  <2>6. CASE ServerFrame \/ HandleClientInput \/ SetRemoteResim \/ SetInputDelay \/ Lose
    <3>1. cli' = cli
      BY <2>6 DEF ServerFrame, HandleClientInput, SetRemoteResim, SetInputDelay, Lose
    <3>2. QED
      BY <2>2, <3>1
  <2>7. QED
    BY <2>1, <2>3, <2>4, <2>5, <2>6 DEF Next
<1>2. QED
  BY <1>1, RollbackInvariance, ResetsAreCounted, PTL DEF Spec, SnapshotIsTheBase
=============================================================================
