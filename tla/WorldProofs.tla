---------------------------- MODULE WorldProofs ----------------------------
(***************************************************************************)
(* Proofs about the simulated world's seats and interest filter, for any   *)
(* peers, bodies, labels, policies, entities, positions, radii and caps.   *)
(* And, at the end, about the world itself: its runs are runs of each of   *)
(* its parts, so the proofs about the rollback, the seats and the interest *)
(* filter hold of them.                                                    *)
(***************************************************************************)
EXTENDS MCWorld, FiniteSetTheorems, WellFoundedInduction, TLAPS

-----------------------------------------------------------------------------
(***************************************************************************)
(* The filter.  The grid finds what the flat path finds, from every state; *)
(* the enter and leave events add up to the union; nothing joins a         *)
(* connection but through the filter, and a body it drives is carried.     *)
(***************************************************************************)

(* What the properties rest on.                                            *)

Known == UNION {[S -> Nat] : S \in SUBSET Ids}

SeatSet == [members : Known, hidden : SUBSET Ids]

Conn == [seats : Seq(SeatSet), members : Known, hidden : SUBSET Ids]

Shapes ==
    /\ IsLayout(rows)
    /\ conns \in [Viewers -> Conn]
    /\ knobs \in [radius : Radii, cap : Caps]
    /\ ran \in BOOLEAN
    /\ told \in [Viewers -> SUBSET Ids]
    /\ edits \in Nat

\* A seat refuses what its connection refuses, and remembers nothing the
\* connection does not hold.
SeatIsWithin(conn, set) ==
    set.hidden = conn.hidden /\ DOMAIN set.members \subseteq DOMAIN conn.members

SeatsAreWithin ==
    \A p \in Viewers : \A i \in DOMAIN conns[p].seats : SeatIsWithin(conns[p], conns[p].seats[i])

\* Before the first pass a game has been told of nothing, since then of the union.
ToldIsTheUnion ==
    /\ \A p \in Viewers : told[p] = DOMAIN conns[p].members
    /\ ~ran => \A p \in Viewers : told[p] = {}

FilterInv == Shapes /\ SeatsAreWithin /\ ToldIsTheUnion

-----------------------------------------------------------------------------
(* Numbers.                                                                *)

(* A nonempty set of naturals has a least member.                          *)
LEMMA LeastMember ==
    ASSUME NEW S \in SUBSET Nat, S # {}
    PROVE  Min(S) \in S /\ \A y \in S : Min(S) <= y
<1>1. PICK x \in S : \A y \in S : ~(<<y, x>> \in OpToRel(<, Nat))
  BY NatLessThanWellFounded, WFMin
<1>2. \A y \in S : ~(y < x)
  BY <1>1 DEF OpToRel
<1>3. \A y \in S : x <= y
  BY <1>2
<1>4. QED
  BY <1>3 DEF Min

(* A nonempty set of naturals below a bound has a greatest member.         *)
LEMMA GreatestMember ==
    ASSUME NEW S \in SUBSET Nat, S # {}, NEW n \in Nat, \A x \in S : x <= n
    PROVE  Max(S) \in S
<1> DEFINE D == {n - x : x \in S}
<1>0. \A x \in S : n - x \in Nat
  OBVIOUS
<1>1. D \in SUBSET Nat /\ D # {}
  BY <1>0
<1>2. PICK d \in D : \A y \in D : d <= y
  <2> HIDE DEF D
  <2> QED BY <1>1, LeastMember
<1>3. PICK x \in S : d = n - x
  BY <1>2
<1>4. \A y \in S : n - x <= n - y
  BY <1>2, <1>3
<1>5. \A y \in S : x >= y
  <2> TAKE y \in S
  <2>1. x \in Nat /\ y \in Nat /\ n - x <= n - y
    BY <1>4
  <2> QED BY <2>1
<1>6. QED
  BY <1>5 DEF Max

(* An integer is the divisor times the quotient plus the remainder.        *)
LEMMA FloorDivision ==
    ASSUME NEW d \in Nat \ {0}, NEW a \in Int
    PROVE  /\ a \div d \in Int
           /\ d * (a \div d) <= a
           /\ a < d * (a \div d) + d
  BY SMT

(* The floor is monotone.                                                  *)
LEMMA FloorIsMonotone ==
    ASSUME NEW d \in Nat \ {0}, NEW a \in Int, NEW b \in Int, a <= b
    PROVE  a \div d <= b \div d
<1> DEFINE q == a \div d
           r == b \div d
<1>1. q \in Int /\ r \in Int /\ d * q <= a /\ b < d * r + d
  BY FloorDivision
<1> HIDE DEF q, r
<1>2. SUFFICES ASSUME q >= r + 1 PROVE FALSE
  BY <1>1 DEF q, r
<1>3. d * (q - r - 1) >= 0
  BY <1>1, <1>2, SMT
<1>4. d * (q - r - 1) = d * q - d * r - d
  BY <1>1, SMT
<1>5. d * q \in Int /\ d * r \in Int
  BY <1>1
<1>6. QED
  BY <1>1, <1>3, <1>4, <1>5

(* A common factor leaves the floor as it is.                              *)
LEMMA FloorCancels ==
    ASSUME NEW c \in Nat \ {0}, NEW x \in Int
    PROVE  (4 * x) \div (4 * c) = x \div c
<1> DEFINE q == x \div c
           r == (4 * x) \div (4 * c)
<1>1. q \in Int /\ c * q <= x /\ x < c * q + c
  BY FloorDivision
<1>2. 4 * c \in Nat \ {0} /\ 4 * x \in Int
  OBVIOUS
<1>3. r \in Int /\ (4 * c) * r <= 4 * x /\ 4 * x < (4 * c) * r + 4 * c
  BY <1>2, FloorDivision
<1> HIDE DEF q, r
<1>4. (4 * c) * r = 4 * (c * r) /\ c * r \in Int /\ c * q \in Int
  BY <1>1, <1>3, SMT
<1>5. c * r <= x /\ x < c * r + c
  BY <1>3, <1>4
<1>6. ~(q >= r + 1)
  <2> SUFFICES ASSUME q >= r + 1 PROVE FALSE
    OBVIOUS
  <2>1. c * (q - r - 1) >= 0 /\ c * (q - r - 1) = c * q - c * r - c
    BY <1>1, <1>3, SMT
  <2> QED BY <2>1, <1>1, <1>4, <1>5
<1>7. ~(r >= q + 1)
  <2> SUFFICES ASSUME r >= q + 1 PROVE FALSE
    OBVIOUS
  <2>1. c * (r - q - 1) >= 0 /\ c * (r - q - 1) = c * r - c * q - c
    BY <1>1, <1>3, SMT
  <2> QED BY <2>1, <1>1, <1>4, <1>5
<1>8. QED
  BY <1>1, <1>3, <1>6, <1>7 DEF q, r

(* A square is a natural.                                                  *)
LEMMA SquareIsNatural == ASSUME NEW d \in Int PROVE d * d \in Nat
  BY SMT

(* Sixteen squares within twenty-five squares: four within five.           *)
LEMMA RootOfTheBand ==
    ASSUME NEW d \in Int, NEW e \in Nat, 16 * (d * d) <= 25 * (e * e)
    PROVE  4 * d <= 5 * e
<1> SUFFICES ASSUME 4 * d >= 5 * e + 1 PROVE FALSE
  OBVIOUS
<1> DEFINE a == 4 * d
           b == 5 * e
<1>1. a \in Int /\ b \in Nat /\ a >= b + 1
  OBVIOUS
<1>2. a * a = 16 * (d * d) /\ b * b = 25 * (e * e)
  BY SMT
<1> HIDE DEF a, b
<1>3. (a - b) * (a + b) >= 1 * (a + b)
  BY <1>1, SMT
<1>4. (a - b) * (a + b) = a * a - b * b
  BY <1>1, SMT
<1>5. a * a \in Int /\ b * b \in Int
  BY <1>1
<1>6. QED
  BY <1>1, <1>2, <1>3, <1>4, <1>5

-----------------------------------------------------------------------------
(* One seat: the grid keeps what the flat path keeps.                      *)

Candidate == [id : Ids, pos : Points \cup {NoAnchor, NotFinite},
              world : Worlds \cup {Global}, always : BOOLEAN]

Config == [enter : Nat, cap : Nat, cell : Nat \ {0}]

(* A coordinate inside the band is in a cell the exit radius overlaps.     *)
LEMMA BandIsAround ==
    ASSUME NEW cfg \in Config, NEW v \in Int, NEW x \in Int,
           16 * ((x - v) * (x - v)) <= 25 * (cfg.enter * cfg.enter)
    PROVE  x \div cfg.cell \in CellsAround(cfg, v)
<1> DEFINE e == cfg.enter
           c == cfg.cell
           low  == 4 * v + 5 * (-e)
           high == 4 * v + 5 * e
<1>1. e \in Nat /\ c \in Nat \ {0} /\ 4 * c \in Nat \ {0}
  BY DEF Config
<1>2. 4 * (x - v) <= 5 * e
  BY <1>1, RootOfTheBand
<1>3. 4 * (v - x) <= 5 * e
  <2>1. (v - x) * (v - x) = (x - v) * (x - v)
    BY SMT
  <2>2. v - x \in Int
    OBVIOUS
  <2>3. QED
    BY <1>1, <2>1, <2>2, RootOfTheBand
<1>4. low \in Int /\ high \in Int /\ low <= 4 * x /\ 4 * x <= high /\ 4 * x \in Int
  BY <1>1, <1>2, <1>3
<1>5. x \div c = (4 * x) \div (4 * c) /\ x \div c \in Int
  BY <1>1, FloorCancels, FloorDivision
<1>6. low \div (4 * c) <= (4 * x) \div (4 * c) /\ (4 * x) \div (4 * c) <= high \div (4 * c)
  <2> HIDE DEF low, high
  <2> QED BY <1>1, <1>4, FloorIsMonotone
<1>7. low \div (4 * c) \in Int /\ high \div (4 * c) \in Int
  <2> HIDE DEF low, high
  <2> QED BY <1>1, <1>4, FloorDivision
<1>8. x \div c \in (low \div (4 * c)) .. (high \div (4 * c))
  <2> HIDE DEF low, high
  <2> QED BY <1>5, <1>6, <1>7
<1>9. QED
  BY <1>8 DEF CellsAround

(* A distance is a natural, and bounds each axis on its own.               *)
LEMMA DistanceBoundsAxes ==
    ASSUME NEW p \in Points, NEW q \in Points
    PROVE  /\ p[1] \in Int /\ p[3] \in Int /\ q[1] \in Int /\ q[3] \in Int
           /\ DistSq(p, q) \in Nat
           /\ (p[1] - q[1]) * (p[1] - q[1]) <= DistSq(p, q)
           /\ (p[3] - q[3]) * (p[3] - q[3]) <= DistSq(p, q)
<1>1. p[1] \in Int /\ p[2] \in Int /\ p[3] \in Int /\ q[1] \in Int /\ q[2] \in Int /\ q[3] \in Int
  BY FilterAssumption
<1> DEFINE x == (p[1] - q[1]) * (p[1] - q[1])
           y == (p[2] - q[2]) * (p[2] - q[2])
           z == (p[3] - q[3]) * (p[3] - q[3])
<1>2. x \in Nat /\ y \in Nat /\ z \in Nat
  BY <1>1, SquareIsNatural
<1>3. DistSq(p, q) = x + y + z
  BY DEF DistSq
<1> HIDE DEF x, y, z
<1>4. x <= DistSq(p, q) /\ z <= DistSq(p, q) /\ DistSq(p, q) \in Nat
  BY <1>2, <1>3
<1>5. QED
  BY <1>1, <1>4 DEF x, z

(* What reaches a seat is inside the exit radius.                          *)
LEMMA ReachesIsWithin ==
    ASSUME NEW cfg \in Config, NEW set, NEW id, NEW dist \in Nat, Reaches(cfg, set, id, dist)
    PROVE  16 * dist <= 25 * cfg.enter * cfg.enter
<1> DEFINE e == cfg.enter * cfg.enter
<1>1. e \in Nat /\ 25 * cfg.enter * cfg.enter = 25 * e
  BY SMT DEF Config
<1>2. 16 * dist <= 25 * cfg.enter * cfg.enter \/ dist <= e
  BY DEF Reaches
<1> HIDE DEF e
<1>3. QED
  BY <1>1, <1>2

(* A world's rectangle loses nothing inside the exit radius: the query     *)
(* returns what is within it, in the worlds the seat sees.                 *)
LEMMA QueryFindsTheBand ==
    ASSUME NEW cfg \in Config, NEW C \in SUBSET Candidate, NEW world, NEW center \in Points
    PROVE  QueryWithin(cfg, Rebuild(cfg, C), world, center) =
             {b \in Rebuild(cfg, C).binned :
                /\ MembershipMatches(world, b.world)
                /\ 16 * DistSq(b.pos, center) <= 25 * cfg.enter * cfg.enter}
<1> DEFINE B == Rebuild(cfg, C).binned
           xs == CellsAround(cfg, center[1])
           zs == CellsAround(cfg, center[3])
           within(b) == 16 * DistSq(b.pos, center) <= 25 * cfg.enter * cfg.enter
           in(w) == {b \in B : b.world = w}
           wide(w) == Cardinality(xs) * Cardinality(zs)
                        > Crowd * Cardinality({b.cell : b \in in(w)})
           scanned(w) == IF wide(w) THEN in(w)
                         ELSE {b \in in(w) : b.cell[1] \in xs /\ b.cell[2] \in zs}
           matching == {w \in {b.world : b \in B} : MembershipMatches(world, w)}
<1>1. QueryWithin(cfg, Rebuild(cfg, C), world, center) =
        {b \in UNION {scanned(w) : w \in matching} : within(b)}
  BY DEF QueryWithin
<1>2. ASSUME NEW b \in B, within(b)
      PROVE  b.cell[1] \in xs /\ b.cell[2] \in zs
  <2>1. PICK c \in C : /\ Binnable(c)
                       /\ b = [id |-> c.id, pos |-> c.pos, world |-> c.world,
                               cell |-> <<c.pos[1] \div cfg.cell, c.pos[3] \div cfg.cell>>]
    BY DEF Rebuild
  <2>2. b.pos \in Points /\ b.cell = <<b.pos[1] \div cfg.cell, b.pos[3] \div cfg.cell>>
    BY <2>1 DEF Binnable, Finite
  <2>3. cfg.enter \in Nat
    BY DEF Config
  <2> DEFINE dist == DistSq(b.pos, center)
             dx == (b.pos[1] - center[1]) * (b.pos[1] - center[1])
             dz == (b.pos[3] - center[3]) * (b.pos[3] - center[3])
  <2>4. /\ b.pos[1] \in Int /\ b.pos[3] \in Int /\ center[1] \in Int /\ center[3] \in Int
        /\ dist \in Nat /\ dx <= dist /\ dz <= dist /\ dx \in Int /\ dz \in Int
    BY <2>2, DistanceBoundsAxes
  <2>5. 25 * cfg.enter * cfg.enter = 25 * (cfg.enter * cfg.enter) /\ cfg.enter * cfg.enter \in Nat
    BY <2>3, SMT
  <2>6. 16 * dist <= 25 * (cfg.enter * cfg.enter)
    BY <1>2, <2>5
  <2>7. 16 * dx <= 25 * (cfg.enter * cfg.enter) /\ 16 * dz <= 25 * (cfg.enter * cfg.enter)
    <3> HIDE DEF dist, dx, dz
    <3> QED BY <2>4, <2>5, <2>6
  <2>8. b.pos[1] \div cfg.cell \in xs /\ b.pos[3] \div cfg.cell \in zs
    <3> HIDE DEF xs, zs, dist
    <3> QED BY <2>4, <2>7, BandIsAround DEF xs, zs
  <2>9. QED
    BY <2>2, <2>8
<1>3. ASSUME NEW b
      PROVE  (\E w \in matching : b \in scanned(w)) /\ within(b)
               <=> b \in B /\ MembershipMatches(world, b.world) /\ within(b)
  <2> HIDE DEF B, xs, zs, within, wide
  <2>1. ASSUME b \in B, MembershipMatches(world, b.world), within(b)
        PROVE  b.world \in matching /\ b \in scanned(b.world)
    BY <1>2, <2>1
  <2>2. QED
    BY <2>1
<1>4. QED
  <2> HIDE DEF B, matching, scanned, within
  <2>1. {b \in UNION {scanned(w) : w \in matching} : within(b)} =
          {b \in B : MembershipMatches(world, b.world) /\ within(b)}
    BY <1>3
  <2> QED BY <1>1, <2>1 DEF B, within

(* The verdict on a candidate the grid bins, and on one it does not.       *)
LEMMA VerdictByBin ==
    ASSUME NEW cfg \in Config, NEW set, NEW seat, NEW c \in Candidate
    PROVE  /\ c.id \in set.hidden => Classify(cfg, set, seat, c) = {}
           /\ ~MembershipMatches(seat.world, c.world) => Classify(cfg, set, seat, c) = {}
           /\ c.id \notin set.hidden /\ MembershipMatches(seat.world, c.world) =>
                IF Binnable(c) /\ Finite(seat.center)
                THEN Classify(cfg, set, seat, c) =
                       IF Reaches(cfg, set, c.id, DistSq(c.pos, seat.center))
                       THEN {Measured(c.id, DistSq(c.pos, seat.center))} ELSE {}
                ELSE Classify(cfg, set, seat, c) = {Unculled(c.id)}
  BY DEF Classify, Binnable, Candidate

(* Through the grid and through the flat list one seat ends with the same  *)
(* members at the same distances, the overrides in place of their rows.    *)
LEMMA GridKeepsTheSame ==
    ASSUME NEW cfg \in Config, NEW set, NEW seat, NEW also \in SUBSET Candidate,
           NEW C \in SUBSET Candidate
    PROVE  UpdateGrid(cfg, set, seat, Rebuild(cfg, C), also) =
             UpdateLinear(cfg, set, seat,
                          {c \in C : \A o \in also : o.id # c.id} \cup also)
<1> DEFINE G == Rebuild(cfg, C)
           D == {c \in C : \A o \in also : o.id # c.id}
           shown(id) == id \notin set.hidden /\ \A o \in also : o.id # id
           near(b) == DistSq(b.pos, seat.center)
           hits == IF Finite(seat.center)
                   THEN {b \in QueryWithin(cfg, G, seat.world, seat.center) :
                           Reaches(cfg, set, b.id, near(b))}
                   ELSE {}
           free == IF Finite(seat.center) THEN UncullableFor(G, seat.world)
                                          ELSE VisibleTo(G, seat.world)
           binned == {Measured(b.id, near(b)) : b \in {b \in hits : shown(b.id)}}
           culled == {Unculled(id) : id \in {id \in free : shown(id)}}
           fromAlso == UNION {Classify(cfg, set, seat, c) : c \in also}
           fromList == UNION {Classify(cfg, set, seat, c) : c \in D}
<1>1. UpdateGrid(cfg, set, seat, G, also) =
        Commit(set, ApplyCap(cfg, set, binned \cup culled \cup fromAlso))
  BY DEF UpdateGrid
<1>2. UpdateLinear(cfg, set, seat, D \cup also) =
        Commit(set, ApplyCap(cfg, set, fromList \cup fromAlso))
  <2>1. UNION {Classify(cfg, set, seat, c) : c \in D \cup also} = fromList \cup fromAlso
    <3> HIDE DEF D
    <3> QED OBVIOUS
  <2> QED BY <2>1 DEF UpdateLinear
<1>3. ASSUME Finite(seat.center)
      PROVE  hits = {b \in G.binned : /\ MembershipMatches(seat.world, b.world)
                                      /\ Reaches(cfg, set, b.id, near(b))}
  <2>1. QueryWithin(cfg, G, seat.world, seat.center) =
          {b \in G.binned : /\ MembershipMatches(seat.world, b.world)
                            /\ 16 * near(b) <= 25 * cfg.enter * cfg.enter}
    BY <1>3, QueryFindsTheBand DEF Finite
  <2>2. ASSUME NEW b \in G.binned, Reaches(cfg, set, b.id, near(b))
        PROVE  16 * near(b) <= 25 * cfg.enter * cfg.enter
    <3>1. b.pos \in Points
      BY DEF Rebuild, Binnable, Finite
    <3>2. near(b) \in Nat
      BY <1>3, <3>1, DistanceBoundsAxes DEF Finite
    <3>3. QED
      BY <2>2, <3>2, ReachesIsWithin
  <2> HIDE DEF G, near
  <2>3. QED
    BY <1>3, <2>1, <2>2
<1>4. G.binned = {[id |-> c.id, pos |-> c.pos, world |-> c.world,
                   cell |-> <<c.pos[1] \div cfg.cell, c.pos[3] \div cfg.cell>>] :
                     c \in {c \in C : Binnable(c)}}
      /\ G.uncullable = {c \in C : ~Binnable(c)}
  BY DEF Rebuild
<1>5. fromList \subseteq binned \cup culled
  <2> SUFFICES ASSUME NEW c \in D, NEW e \in Classify(cfg, set, seat, c)
               PROVE  e \in binned \cup culled
    OBVIOUS
  <2>1. c \in Candidate /\ c \in C /\ c.id \notin set.hidden /\ shown(c.id)
        /\ MembershipMatches(seat.world, c.world)
    BY VerdictByBin
  <2>2. CASE Binnable(c) /\ Finite(seat.center)
    <3>1. /\ e = Measured(c.id, near(c))
          /\ Reaches(cfg, set, c.id, near(c))
      BY <2>1, <2>2, VerdictByBin
    <3> DEFINE b == [id |-> c.id, pos |-> c.pos, world |-> c.world,
                     cell |-> <<c.pos[1] \div cfg.cell, c.pos[3] \div cfg.cell>>]
    <3>2. b \in G.binned
      BY <1>4, <2>1, <2>2
    <3>3. b.id = c.id /\ b.world = c.world /\ near(b) = near(c)
      OBVIOUS
    <3>4. b \in hits
      <4> HIDE DEF b, G, hits, near
      <4> QED BY <1>3, <2>1, <2>2, <3>1, <3>2, <3>3
    <3>5. QED
      <4> HIDE DEF b, G, hits, near, shown, culled
      <4> QED BY <2>1, <3>1, <3>3, <3>4
  <2>3. CASE ~(Binnable(c) /\ Finite(seat.center))
    <3>1. e = Unculled(c.id)
      BY <2>1, <2>3, VerdictByBin
    <3>2. c.id \in free
      <4>1. CASE Binnable(c)
        <5>1. ~Finite(seat.center)
          BY <2>3, <4>1
        <5>2. c.id \in {b.id : b \in {b \in G.binned : MembershipMatches(seat.world, b.world)}}
          <6> DEFINE b == [id |-> c.id, pos |-> c.pos, world |-> c.world,
                     cell |-> <<c.pos[1] \div cfg.cell, c.pos[3] \div cfg.cell>>]
          <6>1. b \in G.binned
            BY <1>4, <2>1, <4>1
          <6>2. b.id = c.id /\ b.world = c.world
            OBVIOUS
          <6> HIDE DEF b, G
          <6>3. QED
            BY <2>1, <6>1, <6>2
        <5> HIDE DEF G
        <5>3. QED
          BY <5>1, <5>2 DEF VisibleTo
      <4>2. CASE ~Binnable(c)
        <5>1. c \in G.uncullable
          BY <1>4, <2>1, <4>2
        <5> HIDE DEF G
        <5>2. QED
          BY <2>1, <5>1 DEF UncullableFor, VisibleTo
      <4>3. QED
        BY <4>1, <4>2
    <3>3. QED
      <4> HIDE DEF free, shown, binned
      <4> QED BY <2>1, <3>1, <3>2
  <2>4. QED
    BY <2>2, <2>3
<1>6. binned \subseteq fromList
  <2> SUFFICES ASSUME NEW b \in hits, shown(b.id)
               PROVE  Measured(b.id, near(b)) \in fromList
    OBVIOUS
  <2>1. Finite(seat.center)
    OBVIOUS
  <2>2. b \in G.binned /\ MembershipMatches(seat.world, b.world) /\ Reaches(cfg, set, b.id, near(b))
    BY <1>3, <2>1
  <2>3. PICK c \in C : /\ Binnable(c)
                       /\ b = [id |-> c.id, pos |-> c.pos, world |-> c.world,
                               cell |-> <<c.pos[1] \div cfg.cell, c.pos[3] \div cfg.cell>>]
    BY <1>4, <2>2
  <2>4. b.id = c.id /\ b.pos = c.pos /\ b.world = c.world /\ c \in Candidate /\ c \in D
    BY <2>3
  <2>5. Classify(cfg, set, seat, c) = {Measured(b.id, near(b))}
    BY <2>1, <2>2, <2>3, <2>4, VerdictByBin
  <2> HIDE DEF D, near
  <2>6. QED
    BY <2>4, <2>5
<1>7. culled \subseteq fromList
  <2> SUFFICES ASSUME NEW id \in free, shown(id)
               PROVE  Unculled(id) \in fromList
    OBVIOUS
  <2>1. PICK c \in C : /\ c.id = id /\ MembershipMatches(seat.world, c.world)
                       /\ ~(Binnable(c) /\ Finite(seat.center))
    <3>1. CASE id \in UncullableFor(G, seat.world)
      BY <1>4, <3>1 DEF UncullableFor
    <3>2. CASE id \notin UncullableFor(G, seat.world)
      <4>1. ~Finite(seat.center) /\ id \in VisibleTo(G, seat.world)
        BY <3>2
      <4>2. PICK b \in G.binned : b.id = id /\ MembershipMatches(seat.world, b.world)
        BY <3>2, <4>1 DEF VisibleTo
      <4>3. PICK c \in C : b.id = c.id /\ b.world = c.world
        BY <1>4, <4>2
      <4>4. QED
        BY <4>1, <4>2, <4>3
    <3>3. QED
      BY <3>1, <3>2
  <2>2. c \in Candidate /\ c \in D
    BY <2>1
  <2>3. Classify(cfg, set, seat, c) = {Unculled(id)}
    BY <2>1, <2>2, VerdictByBin
  <2> HIDE DEF D
  <2>4. QED
    BY <2>2, <2>3
<1>8. QED
  <2> HIDE DEF binned, culled, fromList, fromAlso
  <2> QED BY <1>1, <1>2, <1>5, <1>6, <1>7

-----------------------------------------------------------------------------
(* One pass: every connection is filtered over the same list.              *)

(* A connection leaves the shared list as it found it.                     *)
LEMMA ListIsRestored == ASSUME NEW p PROVE Restored(Shared, p) = Shared
<1>1. Owned(p) \subseteq DOMAIN rows
  BY DEF Owned
<1>2. \A id : CandidateForRow(id).id = id /\ CandidateForOwnRow(id).id = id
  BY DEF CandidateForRow, CandidateForOwnRow
<1> DEFINE row(id) == CandidateForRow(id)
           own(id) == CandidateForOwnRow(id)
           mine == Owned(p)
           all == DOMAIN rows
<1>3. Restored({row(id) : id \in all}, p) =
        {c \in {c \in {row(id) : id \in all} : c.id \notin mine} \cup {own(id) : id \in mine} :
           c.id \notin mine}
          \cup {row(id) : id \in mine}
  BY DEF Restored, Patched
<1>4. mine \subseteq all /\ \A id : row(id).id = id /\ own(id).id = id
  BY <1>1, <1>2
<1> HIDE DEF row, own, mine, all
<1>5. Restored({row(id) : id \in all}, p) = {row(id) : id \in all}
  BY <1>3, <1>4
<1>6. QED
  BY <1>5 DEF row, all, Shared

(* So every connection finds the list the pass gathered.                   *)
LEMMA ListIsShared == \A p \in Viewers : ListFor[p] = Shared
<1> DEFINE Turn(f) == [p \in Viewers |->
                         IF Ahead(p) = {} THEN Shared
                         ELSE Restored(f[Max(Ahead(p))], Max(Ahead(p)))]
           W == [p \in Viewers |-> Shared]
<1>1. ASSUME NEW p \in Viewers, Ahead(p) # {} PROVE Max(Ahead(p)) \in Viewers /\ Max(Ahead(p)) < p
  <2>1. Viewers \subseteq Nat
    BY FilterAssumption
  <2>2. Ahead(p) \in SUBSET Nat /\ \A q \in Ahead(p) : q <= p
    <3>1. \A q \in Viewers : q \in Nat /\ p \in Nat /\ (q < p => q <= p)
      BY <2>1
    <3>2. QED
      BY <3>1 DEF Ahead
  <2>3. Max(Ahead(p)) \in Ahead(p)
    BY <1>1, <2>1, <2>2, GreatestMember
  <2>4. QED
    BY <2>3 DEF Ahead
<1>2. W = Turn(W)
  BY <1>1, ListIsRestored
<1>3. ListFor = CHOOSE f : f = Turn(f)
  BY DEF ListFor
<1>4. ListFor = Turn(ListFor)
  <2> HIDE DEF Turn, W
  <2> QED BY <1>2, <1>3
<1> DEFINE bad == {p \in Viewers : ListFor[p] # Shared}
<1>5. SUFFICES ASSUME bad # {} PROVE FALSE
  OBVIOUS
<1>6. Min(bad) \in bad /\ \A q \in bad : Min(bad) <= q
  <2>1. bad \in SUBSET Nat
    BY FilterAssumption
  <2> HIDE DEF bad
  <2>2. QED
    BY <1>5, <2>1, LeastMember
<1>7. PICK m \in Viewers : ListFor[m] # Shared /\ \A q \in Viewers : q < m => ListFor[q] = Shared
  <2>1. Min(bad) \in Nat /\ \A q \in bad : q \in Nat
    BY <1>6, FilterAssumption
  <2>2. \A q \in Viewers : q \in Nat /\ (q < Min(bad) => q \notin bad)
    BY <1>6, <2>1, FilterAssumption
  <2>3. QED
    BY <1>6, <2>2
<1>8. ListFor[m] = IF Ahead(m) = {} THEN Shared
                   ELSE Restored(ListFor[Max(Ahead(m))], Max(Ahead(m)))
  BY <1>4
<1>9. QED
  BY <1>1, <1>7, <1>8, ListIsRestored

(* The settings a pass runs under.                                         *)
LEMMA ConfigShape ==
    ASSUME knobs \in [radius : Radii, cap : Caps] PROVE AoiConfig \in Config
<1>1. knobs.radius \in Nat /\ knobs.cap \in Nat
  BY FilterAssumption
<1> DEFINE r == knobs.radius \div 4
<1>2. r \in Int
  BY <1>1
<1> HIDE DEF r
<1>3. \E x \in {r, 1} : \A y \in {r, 1} : x >= y
  BY <1>2
<1>4. Max({r, 1}) \in {r, 1} /\ Max({r, 1}) >= 1
  BY <1>3 DEF Max
<1>5. Max({r, 1}) \in Nat \ {0}
  BY <1>2, <1>4
<1>6. QED
  BY <1>1, <1>5 DEF AoiConfig, Config, r

(* Rows are offered as candidates.                                         *)
LEMMA CandidatesShape ==
    ASSUME IsLayout(rows), NEW p
    PROVE  /\ \A id \in DOMAIN rows : CandidateForRow(id) \in Candidate
           /\ \A id \in Owned(p) : CandidateForOwnRow(id) \in Candidate
           /\ Shared \in SUBSET Candidate
           /\ Patched(Shared, p) \in SUBSET Candidate
<1>1. \A id \in DOMAIN rows : id \in Ids /\ rows[id] \in Row
  BY DEF IsLayout
<1>2. \A id \in DOMAIN rows : CandidateForRow(id) \in Candidate
  <2> TAKE id \in DOMAIN rows
  <2>1. (rows[id].anchor = NoAnchor) \in BOOLEAN
    OBVIOUS
  <2>2. rows[id].anchor \in Points \cup {NoAnchor, NotFinite} /\ rows[id].world \in Worlds \cup {Global}
    BY <1>1 DEF Row
  <2>3. QED
    BY <1>1, <2>1, <2>2 DEF CandidateForRow, Candidate
<1>3. \A id \in Owned(p) : CandidateForOwnRow(id) \in Candidate
  BY <1>1 DEF CandidateForOwnRow, Candidate, Owned
<1>4. Shared \in SUBSET Candidate
  BY <1>2 DEF Shared
<1>5. Patched(Shared, p) \in SUBSET Candidate
  BY <1>3, <1>4 DEF Patched
<1>6. QED
  BY <1>2, <1>3, <1>4, <1>5

(* Whichever path a pass runs, it filters every connection over the shared *)
(* list.                                                                   *)
LEMMA EveryPathIsLinear ==
    ASSUME IsLayout(rows), knobs \in [radius : Radii, cap : Caps], NEW way
    PROVE  Filtered(AoiConfig, way) =
             [p \in Viewers |->
                FilterLinear(AoiConfig, Shared, p, SeatObservers(AoiConfig, p))]
<1> DEFINE cfg == AoiConfig
           flat(p) == FilterLinear(cfg, Shared, p, SeatObservers(cfg, p))
           grid(p) == FilterGrid(cfg, Rebuild(cfg, Shared), p, SeatObservers(cfg, p))
<1>1. ASSUME NEW p \in Viewers PROVE grid(p) = flat(p)
  <2> DEFINE views == SeatObservers(cfg, p)
             seats == FitSeats(conns[p], Len(views))
             also == {CandidateForOwnRow(id) : id \in Owned(p)}
  <2>1. also \in SUBSET Candidate /\ Shared \in SUBSET Candidate
    BY CandidatesShape
  <2>2. Patched(Shared, p) = {c \in Shared : \A o \in also : o.id # c.id} \cup also
    <3>1. \A c : c.id \notin Owned(p) <=> \A o \in also : o.id # c.id
      <4>1. \A id : CandidateForOwnRow(id).id = id
        BY DEF CandidateForOwnRow
      <4>2. QED
        BY <4>1
    <3> HIDE DEF also
    <3>2. {c \in Shared : c.id \notin Owned(p)} = {c \in Shared : \A o \in also : o.id # c.id}
      BY <3>1
    <3>3. QED
      BY <3>2 DEF Patched, also
  <2>3. \A i : UpdateGrid(cfg, seats[i], views[i].at, Rebuild(cfg, Shared), also) =
                 UpdateLinear(cfg, seats[i], views[i].at, Patched(Shared, p))
    <3> TAKE i
    <3>1. cfg \in Config
      BY ConfigShape
    <3> DEFINE set == seats[i]
               seat == views[i].at
               C == Shared
    <3> HIDE DEF cfg, also, set, seat, C
    <3>2. UpdateGrid(cfg, set, seat, Rebuild(cfg, C), also) =
            UpdateLinear(cfg, set, seat, {c \in C : \A o \in also : o.id # c.id} \cup also)
      BY <2>1, <3>1, GridKeepsTheSame DEF C
    <3>3. QED
      BY <2>2, <3>2 DEF C, set, seat
  <2>4. [i \in DOMAIN seats |-> UpdateGrid(cfg, seats[i], views[i].at, Rebuild(cfg, Shared), also)] =
        [i \in DOMAIN seats |-> UpdateLinear(cfg, seats[i], views[i].at, Patched(Shared, p))]
    <3> HIDE DEF cfg, seats, views, also
    <3> QED BY <2>3
  <2>5. QED
    BY <2>4 DEF FilterGrid, FilterLinear
<1>2. Filtered(cfg, way) = [p \in Viewers |-> IF way = "grid" THEN grid(p)
                              ELSE FilterLinear(cfg, ListFor[p], p, SeatObservers(cfg, p))]
  BY DEF Filtered
<1>3. \A p \in Viewers : FilterLinear(cfg, ListFor[p], p, SeatObservers(cfg, p)) = flat(p)
  BY ListIsShared
<1> HIDE DEF cfg, grid, flat
<1>4. Filtered(cfg, way) = [p \in Viewers |-> flat(p)]
  BY <1>1, <1>2, <1>3
<1>5. QED
  BY <1>4 DEF cfg, flat

-----------------------------------------------------------------------------
(* What a pass leaves of a connection.                                     *)

Entry == [id : Ids, free : BOOLEAN, dist : Nat]

(* A verdict is an entry for its candidate, unless the seat refuses it.    *)
LEMMA VerdictShape ==
    ASSUME NEW cfg \in Config, NEW set, NEW seat, NEW c \in Candidate,
           NEW e \in Classify(cfg, set, seat, c)
    PROVE  e \in Entry /\ e.id = c.id /\ c.id \notin set.hidden
<1>1. c.id \in Ids /\ c.id \notin set.hidden
  BY DEF Candidate, Classify
<1>2. CASE Binnable(c) /\ Finite(seat.center)
  <2>1. e = Measured(c.id, DistSq(c.pos, seat.center))
    BY <1>2, VerdictByBin
  <2>2. DistSq(c.pos, seat.center) \in Nat
    BY <1>2, DistanceBoundsAxes DEF Binnable, Finite
  <2>3. QED
    BY <1>1, <2>1, <2>2 DEF Measured, Entry
<1>3. CASE ~(Binnable(c) /\ Finite(seat.center))
  <2>1. e = Unculled(c.id)
    BY <1>3, VerdictByBin
  <2>2. QED
    BY <1>1, <2>1 DEF Unculled, Entry
<1>4. QED
  BY <1>2, <1>3

(* A seat's filter keeps the seat's vetoes, holds only what a verdict let  *)
(* in, and holds whatever no distance culls.                               *)
LEMMA UpdateShape ==
    ASSUME NEW cfg \in Config, NEW set \in SeatSet, NEW seat, NEW C \in SUBSET Candidate
    PROVE  LET q == UpdateLinear(cfg, set, seat, C)
           IN  /\ q \in SeatSet
               /\ q.hidden = set.hidden
               /\ \A id \in DOMAIN q.members :
                    \E c \in C : c.id = id /\ Classify(cfg, set, seat, c) # {}
               /\ \A c \in C : Classify(cfg, set, seat, c) = {Unculled(c.id)}
                                 => c.id \in DOMAIN q.members
<1> DEFINE found == UNION {Classify(cfg, set, seat, c) : c \in C}
           kept == ApplyCap(cfg, set, found)
           ids == {e.id : e \in kept}
           dist(id) == (CHOOSE e \in kept : e.id = id).dist
           q == UpdateLinear(cfg, set, seat, C)
<1>1. q = [set EXCEPT !.members = [id \in ids |-> dist(id)]]
  BY DEF UpdateLinear, Commit
<1>2. kept \subseteq found
  BY DEF ApplyCap
<1>3. \A e \in found : e \in Entry /\ \E c \in C : c.id = e.id /\ Classify(cfg, set, seat, c) # {}
  <2> SUFFICES ASSUME NEW c \in C, NEW e \in Classify(cfg, set, seat, c)
               PROVE  e \in Entry /\ c.id = e.id
    OBVIOUS
  <2>1. QED
    BY VerdictShape
<1> HIDE DEF found, kept
<1>4. ids \subseteq Ids
  BY <1>2, <1>3 DEF Entry
<1>5. \A id \in ids : dist(id) \in Nat
  <2> TAKE id \in ids
  <2>1. PICK e \in kept : e.id = id
    OBVIOUS
  <2>2. (CHOOSE o \in kept : o.id = id) \in kept
    BY <2>1
  <2>3. QED
    BY <1>2, <1>3, <2>2 DEF Entry
<1> HIDE DEF dist, ids
<1>6. [id \in ids |-> dist(id)] \in [ids -> Nat]
  BY <1>5
<1> DEFINE m == [id \in ids |-> dist(id)]
<1>7. m \in Known /\ DOMAIN m = ids
  BY <1>4, <1>6 DEF Known
<1> HIDE DEF m
<1>8. q \in SeatSet /\ q.members = m /\ q.hidden = set.hidden
  <2> HIDE DEF q
  <2> QED BY <1>1, <1>7 DEF SeatSet, m
<1>9. \A id \in DOMAIN q.members :
        \E c \in C : c.id = id /\ Classify(cfg, set, seat, c) # {}
  BY <1>2, <1>3, <1>7, <1>8 DEF ids
<1>10. ASSUME NEW c \in C, Classify(cfg, set, seat, c) = {Unculled(c.id)}
       PROVE  c.id \in DOMAIN q.members
  <2>1. Unculled(c.id) \in found
    BY <1>10 DEF found
  <2>2. Unculled(c.id).free = TRUE /\ Unculled(c.id).id = c.id
    BY DEF Unculled
  <2>3. Unculled(c.id) \in kept
    BY <2>1, <2>2 DEF ApplyCap, kept
  <2>4. QED
    BY <1>7, <1>8, <2>2, <2>3 DEF ids
<1> HIDE DEF q
<1>11. QED
  BY <1>8, <1>9, <1>10 DEF q

(* A connection runs its seats in order, and one that drives a body runs   *)
(* at least one.                                                           *)
LEMMA ObserversShape ==
    ASSUME NEW cfg, NEW p
    PROVE  /\ Len(SeatObservers(cfg, p)) \in Nat
           /\ DOMAIN SeatObservers(cfg, p) = 1..Len(SeatObservers(cfg, p))
           /\ Owned(p) # {} => 1 \in DOMAIN SeatObservers(cfg, p)
<1> DEFINE S == SeatObservers(cfg, p)
           labels == {s \in SeatIndices : Anchored(p, s) # {}}
           n == Cardinality(labels)
           R == ResolvedSeats(p)
           view(i) == [label |-> {R[i]},
                       at |-> SeatObserver(cfg, Observed(p, R[i]).anchor, Observed(p, R[i]).world)]
           Q == [i \in DOMAIN R |-> view(i)]
<1>1. n \in Nat
  <2>1. IsFiniteSet(labels)
    BY FilterAssumption, FS_Subset
  <2> HIDE DEF labels
  <2>2. QED
    BY <2>1, FS_CardinalityType
<1>2. DOMAIN R = 1..n
  BY DEF ResolvedSeats
<1>3. CASE \E x : S = <<x>>
  BY <1>3
<1>4. CASE S = <<>>  /\ Owned(p) = {}
  BY <1>4
<1>5. CASE S = Q /\ R # <<>>
  <2>1. n # 0
    <3>1. SUFFICES ASSUME n = 0 PROVE R = <<>>
      BY <1>5
    <3> DEFINE pick(i) == CHOOSE s \in labels : Cardinality({t \in labels : t < s}) = i - 1
    <3>2. R = [i \in 1..n |-> pick(i)]
      BY DEF ResolvedSeats
    <3>5. 1..n = {}
      <4> HIDE DEF n
      <4> QED BY <3>1
    <3> HIDE DEF R, n, pick
    <3>3. R \in [{} -> Ids] /\ <<>> \in [{} -> Ids]
      BY <3>2, <3>5
    <3>4. QED
      BY <3>3
  <2> HIDE DEF n, R, view, labels
  <2> DEFINE T == {view(i) : i \in 1..n}
  <2>2. Q \in [1..n -> T]
    BY <1>2
  <2>3. Q \in Seq(T) /\ DOMAIN Q = 1..n
    BY <1>1, <2>2
  <2>4. Len(Q) = n
    <3> HIDE DEF Q, T
    <3> QED BY <1>1, <2>3
  <2> HIDE DEF Q
  <2>5. QED
    BY <1>1, <1>5, <2>1, <2>3, <2>4
<1>6. QED
  <2>1. (\E x : S = <<x>>) \/ (S = <<>> /\ Owned(p) = {}) \/ (S = Q /\ R # <<>>)
    BY DEF SeatObservers
  <2> QED BY <1>3, <1>4, <1>5, <2>1

(* A seat that stays keeps its memory; one that appears has none, and      *)
(* refuses what the connection refuses.                                    *)
LEMMA FitSeatsShape ==
    ASSUME NEW conn \in Conn, NEW n \in Nat,
           \A i \in DOMAIN conn.seats : SeatIsWithin(conn, conn.seats[i])
    PROVE  LET q == FitSeats(conn, n)
           IN  /\ DOMAIN q = 1..n
               /\ \A i \in 1..n : q[i] \in SeatSet /\ SeatIsWithin(conn, q[i])
<1> DEFINE q == FitSeats(conn, n)
<1>1. conn.seats \in Seq(SeatSet) /\ conn.hidden \in SUBSET Ids
  BY DEF Conn
<1>2. DOMAIN conn.seats = 1..Len(conn.seats) /\ Len(conn.seats) \in Nat
  BY <1>1
<1>3. EmptySet(conn.hidden) \in SeatSet /\ SeatIsWithin(conn, EmptySet(conn.hidden))
  <2>1. <<>> \in [{} -> Nat] /\ DOMAIN <<>> = {}
    OBVIOUS
  <2>2. <<>> \in Known
    BY <2>1 DEF Known
  <2>3. QED
    BY <1>1, <2>1, <2>2 DEF EmptySet, SeatSet, SeatIsWithin
<1>4. ASSUME NEW i \in 1..n
      PROVE  q[i] \in SeatSet /\ SeatIsWithin(conn, q[i])
  <2>1. q[i] = IF i <= Len(conn.seats) THEN conn.seats[i] ELSE EmptySet(conn.hidden)
    BY DEF FitSeats
  <2>2. CASE i <= Len(conn.seats)
    <3>1. i \in DOMAIN conn.seats
      BY <1>2, <2>2
    <3>2. q[i] = conn.seats[i] /\ conn.seats[i] \in SeatSet
      BY <1>1, <1>2, <2>1, <2>2, <3>1
    <3>3. QED
      BY <3>1, <3>2
  <2>3. CASE ~(i <= Len(conn.seats))
    BY <1>3, <2>1, <2>3
  <2>4. QED
    BY <2>2, <2>3
<1>5. DOMAIN q = 1..n
  BY DEF FitSeats
<1> HIDE DEF q
<1>6. QED
  BY <1>4, <1>5 DEF q

(* The union holds what any seat holds, and keeps the connection's vetoes. *)
LEMMA UnionShape ==
    ASSUME NEW conn \in Conn, NEW seats \in Seq(SeatSet)
    PROVE  LET q == CommitUnion(conn, seats)
           IN  /\ q \in Conn /\ q.hidden = conn.hidden /\ q.seats = seats
               /\ DOMAIN q.members = UNION {DOMAIN seats[i].members : i \in DOMAIN seats}
<1> DEFINE carried == UNION {DOMAIN seats[i].members : i \in DOMAIN seats}
           dists(id) == {seats[i].members[id] :
                           i \in {i \in DOMAIN seats : id \in DOMAIN seats[i].members}}
           m == [id \in carried |-> Min(dists(id))]
           q == CommitUnion(conn, seats)
<1>1. q = [conn EXCEPT !.seats = seats, !.members = m]
  BY DEF CommitUnion
<1>2. \A i \in DOMAIN seats : seats[i] \in SeatSet
  OBVIOUS
<1>3. \A i \in DOMAIN seats : /\ DOMAIN seats[i].members \subseteq Ids
                              /\ \A id \in DOMAIN seats[i].members : seats[i].members[id] \in Nat
  <2> TAKE i \in DOMAIN seats
  <2>1. seats[i].members \in Known
    BY <1>2 DEF SeatSet
  <2>2. PICK S \in SUBSET Ids : seats[i].members \in [S -> Nat]
    BY <2>1 DEF Known
  <2>3. QED
    BY <2>2
<1>4. carried \in SUBSET Ids
  BY <1>3
<1>5. \A id \in carried : Min(dists(id)) \in Nat
  <2> TAKE id \in carried
  <2>1. dists(id) \in SUBSET Nat /\ dists(id) # {}
    BY <1>3
  <2> HIDE DEF dists
  <2>2. QED
    BY <2>1, LeastMember
<1> HIDE DEF dists, carried
<1>6. m \in [carried -> Nat] /\ DOMAIN m = carried
  BY <1>5
<1>7. m \in Known
  <2> HIDE DEF m
  <2> QED BY <1>4, <1>6 DEF Known
<1> HIDE DEF m
<1>8. q \in Conn /\ q.hidden = conn.hidden /\ q.seats = seats /\ q.members = m
  <2> HIDE DEF q
  <2> QED BY <1>1, <1>7 DEF Conn
<1> HIDE DEF q
<1>9. QED
  BY <1>6, <1>8 DEF q, carried

(* A newcomer to a seat passes the filter of a seat that holds nothing.    *)
LEMMA NewcomerPasses ==
    ASSUME NEW cfg \in Config, NEW set, NEW seat, NEW c \in Candidate,
           Classify(cfg, set, seat, c) # {}, c.id \notin DOMAIN set.members
    PROVE  Classify(cfg, EmptySet({}), seat, c) # {}
<1> DEFINE none == EmptySet({})
<1>1. c.id \notin none.hidden /\ c.id \notin DOMAIN none.members
  <2>1. DOMAIN <<>> = {}
    OBVIOUS
  <2>2. none.hidden = {} /\ none.members = <<>>
    BY DEF EmptySet
  <2>3. QED
    BY <2>1, <2>2
<1>2. c.id \notin set.hidden /\ MembershipMatches(seat.world, c.world)
  BY VerdictByBin
<1>3. CASE Binnable(c) /\ Finite(seat.center)
  <2>1. Reaches(cfg, set, c.id, DistSq(c.pos, seat.center))
    BY <1>2, <1>3, VerdictByBin
  <2>2. Reaches(cfg, none, c.id, DistSq(c.pos, seat.center))
    BY <1>1, <2>1 DEF Reaches
  <2> HIDE DEF none
  <2>3. Classify(cfg, none, seat, c) = {Measured(c.id, DistSq(c.pos, seat.center))}
    BY <1>1, <1>2, <1>3, <2>2, VerdictByBin
  <2>4. QED
    BY <2>3 DEF none
<1>4. CASE ~(Binnable(c) /\ Finite(seat.center))
  <2> HIDE DEF none
  <2>1. Classify(cfg, none, seat, c) = {Unculled(c.id)}
    BY <1>1, <1>2, <1>4, VerdictByBin
  <2>2. QED
    BY <2>1 DEF none
<1>5. QED
  BY <1>3, <1>4

(* One connection through a pass: its vetoes stay, its seats stay within   *)
(* its union, what joins was let in as a newcomer, what it drives is held. *)
LEMMA PassShape ==
    ASSUME FilterInv, NEW p \in Viewers
    PROVE  LET views == SeatObservers(AoiConfig, p)
               q == FilterLinear(AoiConfig, Shared, p, views)
           IN  /\ q \in Conn /\ q.hidden = conns[p].hidden
               /\ \A i \in DOMAIN q.seats : SeatIsWithin(q, q.seats[i])
               /\ \A id \in DOMAIN q.members \ DOMAIN conns[p].members :
                    /\ id \notin conns[p].hidden
                    /\ \/ id \in Owned(p)
                       \/ \E i \in DOMAIN views :
                            Classify(AoiConfig, EmptySet({}), views[i].at,
                                     CandidateForRow(id)) # {}
               /\ Owned(p) \ conns[p].hidden \subseteq DOMAIN q.members
<1> DEFINE cfg == AoiConfig
           views == SeatObservers(cfg, p)
           n == Len(views)
           conn == conns[p]
           fit == FitSeats(conn, n)
           list == Patched(Shared, p)
           seats == [i \in DOMAIN fit |-> UpdateLinear(cfg, fit[i], views[i].at, list)]
           q == FilterLinear(cfg, Shared, p, views)
<1>1. cfg \in Config /\ list \in SUBSET Candidate
  BY ConfigShape, CandidatesShape DEF FilterInv, Shapes
<1>2. conn \in Conn /\ \A i \in DOMAIN conn.seats : SeatIsWithin(conn, conn.seats[i])
  BY DEF FilterInv, Shapes, SeatsAreWithin
<1>3. n \in Nat /\ DOMAIN views = 1..n /\ (Owned(p) # {} => 1 \in DOMAIN views)
  BY ObserversShape
<1>4. DOMAIN fit = 1..n /\ \A i \in 1..n : fit[i] \in SeatSet /\ SeatIsWithin(conn, fit[i])
  <2> HIDE DEF conn, n
  <2> QED BY <1>2, <1>3, FitSeatsShape
<1>5. q = CommitUnion(conn, seats)
  BY DEF FilterLinear
<1>6. \A id : id \in DOMAIN rows /\ id \notin Owned(p) => CandidateForRow(id) \in Candidate
  BY CandidatesShape DEF FilterInv, Shapes
<1>7. \A c \in list : \/ c.id \in Owned(p)
                      \/ c = CandidateForRow(c.id) /\ c \in Candidate
  <2>1. \A id : CandidateForRow(id).id = id /\ CandidateForOwnRow(id).id = id
    BY DEF CandidateForRow, CandidateForOwnRow
  <2>2. \A c \in list : \/ \E id \in DOMAIN rows : c = CandidateForRow(id)
                        \/ \E id \in Owned(p) : c = CandidateForOwnRow(id)
    BY DEF Patched, Shared
  <2> HIDE DEF list
  <2>3. QED
    BY <1>1, <2>1, <2>2
<1>8. \A id \in Owned(p) \ conn.hidden :
        /\ CandidateForOwnRow(id) \in list /\ CandidateForOwnRow(id).id = id
        /\ \A i \in 1..n : Classify(cfg, fit[i], views[i].at, CandidateForOwnRow(id)) = {Unculled(id)}
  <2> TAKE id \in Owned(p) \ conn.hidden
  <2> DEFINE c == CandidateForOwnRow(id)
  <2>1. c \in list
    BY DEF Patched
  <2>2. c.id = id /\ c.always = TRUE /\ c.world = Global
    BY DEF CandidateForOwnRow
  <2>3. ASSUME NEW i \in 1..n PROVE Classify(cfg, fit[i], views[i].at, c) = {Unculled(id)}
    <3>1. id \notin fit[i].hidden
      BY <1>4 DEF SeatIsWithin
    <3>2. MembershipMatches(views[i].at.world, c.world) /\ ~Binnable(c) /\ c \in Candidate
      BY <1>1, <2>1, <2>2 DEF MembershipMatches, Binnable
    <3> DEFINE set == fit[i]
               seat == views[i].at
    <3> HIDE DEF cfg, set, seat, c, list
    <3>3. Classify(cfg, set, seat, c) = {Unculled(c.id)}
      BY <1>1, <2>2, <3>1, <3>2, VerdictByBin DEF set, seat
    <3>4. QED
      BY <2>2, <3>3 DEF set, seat
  <2>4. QED
    BY <2>1, <2>2, <2>3
<1> HIDE DEF cfg, list, fit, views, n, conn
<1>9. ASSUME NEW i \in 1..n
      PROVE  LET u == UpdateLinear(cfg, fit[i], views[i].at, list)
             IN  /\ u \in SeatSet /\ u.hidden = conn.hidden
                 /\ \A id \in DOMAIN u.members :
                      \E c \in list : c.id = id /\ Classify(cfg, fit[i], views[i].at, c) # {}
                 /\ \A id \in Owned(p) \ conn.hidden : id \in DOMAIN u.members
  <2> DEFINE set == fit[i]
             seat == views[i].at
             u == UpdateLinear(cfg, set, seat, list)
  <2>1. set \in SeatSet /\ set.hidden = conn.hidden
    BY <1>4 DEF SeatIsWithin
  <2> HIDE DEF set, seat
  <2>2. /\ u \in SeatSet
        /\ u.hidden = set.hidden
        /\ \A id \in DOMAIN u.members :
             \E c \in list : c.id = id /\ Classify(cfg, set, seat, c) # {}
        /\ \A c \in list : Classify(cfg, set, seat, c) = {Unculled(c.id)}
                             => c.id \in DOMAIN u.members
    BY <1>1, <2>1, UpdateShape
  <2>3. \A id \in Owned(p) \ conn.hidden : id \in DOMAIN u.members
    BY <1>8, <2>2 DEF set, seat
  <2> HIDE DEF u
  <2>4. QED
    BY <2>1, <2>2, <2>3 DEF u, set, seat
<1>10. seats \in Seq(SeatSet) /\ DOMAIN seats = 1..n
  <2>1. DOMAIN seats = 1..n /\ seats = [i \in 1..n |-> seats[i]]
    BY <1>4
  <2>2. \A i \in 1..n : seats[i] \in SeatSet
    BY <1>4, <1>9
  <2> HIDE DEF seats
  <2>3. seats \in [1..n -> SeatSet]
    BY <2>1, <2>2
  <2>4. QED
    BY <1>3, <2>1, <2>3
<1>11. \A i \in 1..n : seats[i] = UpdateLinear(cfg, fit[i], views[i].at, list)
  BY <1>4
<1> HIDE DEF seats, q
<1>12. /\ q \in Conn /\ q.hidden = conn.hidden /\ q.seats = seats
       /\ DOMAIN q.members = UNION {DOMAIN seats[i].members : i \in 1..n}
  BY <1>2, <1>5, <1>10, UnionShape
<1>13. \A i \in DOMAIN q.seats : SeatIsWithin(q, q.seats[i])
  BY <1>9, <1>10, <1>11, <1>12 DEF SeatIsWithin
<1>14. ASSUME NEW id \in DOMAIN q.members, id \notin DOMAIN conn.members
       PROVE  /\ id \notin conn.hidden
              /\ \/ id \in Owned(p)
                 \/ \E i \in DOMAIN views :
                      Classify(cfg, EmptySet({}), views[i].at, CandidateForRow(id)) # {}
  <2>1. PICK i \in 1..n : id \in DOMAIN seats[i].members
    BY <1>12
  <2>2. PICK c \in list : c.id = id /\ Classify(cfg, fit[i], views[i].at, c) # {}
    BY <1>9, <1>11, <2>1
  <2>3. c \in Candidate /\ c.id \notin DOMAIN fit[i].members /\ fit[i].hidden = conn.hidden
    BY <1>1, <1>4, <1>14, <2>2 DEF SeatIsWithin
  <2> DEFINE set == fit[i]
             seat == views[i].at
  <2> HIDE DEF set, seat
  <2>4. Classify(cfg, set, seat, c) # {} /\ c.id \notin DOMAIN set.members
    BY <2>2, <2>3 DEF set, seat
  <2>5. id \notin conn.hidden
    BY <1>1, <2>2, <2>3, <2>4, VerdictByBin DEF set
  <2>6. Classify(cfg, EmptySet({}), seat, c) # {}
    BY <1>1, <2>3, <2>4, NewcomerPasses
  <2>7. QED
    BY <1>3, <1>7, <2>2, <2>5, <2>6 DEF seat
<1>15. Owned(p) \ conn.hidden \subseteq DOMAIN q.members
  <2> SUFFICES ASSUME NEW id \in Owned(p) \ conn.hidden PROVE id \in DOMAIN q.members
    OBVIOUS
  <2>1. 1 \in 1..n
    BY <1>3
  <2>2. id \in DOMAIN seats[1].members
    BY <1>9, <1>11, <2>1
  <2>3. QED
    BY <1>12, <2>1, <2>2
<1>16. QED
  BY <1>12, <1>13, <1>14, <1>15 DEF q, views, cfg, conn

-----------------------------------------------------------------------------
(* The invariant, step by step.                                            *)

(* A memory that loses an entity is a memory of the others.                *)
LEMMA ForgettingShape ==
    ASSUME NEW m \in Known, NEW id
    PROVE  /\ DOMAIN m \subseteq Ids
           /\ [i \in DOMAIN m \ {id} |-> m[i]] \in Known
           /\ DOMAIN [i \in DOMAIN m \ {id} |-> m[i]] = DOMAIN m \ {id}
<1>1. PICK S \in SUBSET Ids : m \in [S -> Nat]
  BY DEF Known
<1>2. DOMAIN m = S
  BY <1>1
<1> DEFINE q == [i \in DOMAIN m \ {id} |-> m[i]]
<1>3. q \in [S \ {id} -> Nat]
  BY <1>1, <1>2
<1>4. q \in Known
  <2> HIDE DEF q
  <2> QED BY <1>3 DEF Known
<1>5. QED
  BY <1>2, <1>4

(* A session starts with nobody told of anything, and nothing held.        *)
LEMMA FilterInitHolds == FilterInit => FilterInv
<1> SUFFICES ASSUME FilterInit PROVE FilterInv
  OBVIOUS
<1> USE DEF FilterInit
<1> DEFINE first == [seats |-> <<>>, members |-> <<>>, hidden |-> {}]
<1>1. <<>> \in [{} -> Nat] /\ DOMAIN <<>> = {}
  OBVIOUS
<1>2. <<>> \in Known
  BY <1>1 DEF Known
<1>3. first \in Conn
  BY <1>2 DEF Conn
<1>4. IsLayout(rows) /\ knobs \in [radius : Radii, cap : Caps]
  BY FilterAssumption
<1>5. \A p \in Viewers : conns[p] = first
  OBVIOUS
<1>6. Shapes
  BY <1>3, <1>4 DEF Shapes
<1>7. SeatsAreWithin
  <2>1. \A p \in Viewers : DOMAIN conns[p].seats = {}
    BY <1>1
  <2>2. QED
    BY <2>1 DEF SeatsAreWithin
<1>8. ToldIsTheUnion
  BY <1>1 DEF ToldIsTheUnion
<1>9. QED
  BY <1>6, <1>7, <1>8 DEF FilterInv

(* What a pass leaves of every connection.                                 *)
LEMMA PassIsLinear ==
    ASSUME FilterInv, UpdateInterest
    PROVE  /\ conns' = [p \in Viewers |->
                          FilterLinear(AoiConfig, Shared, p, SeatObservers(AoiConfig, p))]
           /\ ran' = TRUE /\ UNCHANGED <<rows, knobs, edits>>
           /\ told' = [p \in Viewers |-> DOMAIN conns'[p].members]
<1>1. PICK way : conns' = Filtered(AoiConfig, way)
  BY DEF UpdateInterest
<1>2. conns' = [p \in Viewers |->
                  FilterLinear(AoiConfig, Shared, p, SeatObservers(AoiConfig, p))]
  BY <1>1, EveryPathIsLinear DEF FilterInv, Shapes
<1>3. told' = [p \in Viewers |->
                 (told[p] \ (DOMAIN conns[p].members \ DOMAIN conns'[p].members))
                   \cup (DOMAIN conns'[p].members \ DOMAIN conns[p].members)]
  BY DEF UpdateInterest
<1>4. \A p \in Viewers : told[p] = DOMAIN conns[p].members
  BY DEF FilterInv, ToldIsTheUnion
<1>5. told' = [p \in Viewers |-> DOMAIN conns'[p].members]
  BY <1>3, <1>4
<1>6. QED
  BY <1>2, <1>5 DEF UpdateInterest

(* A pass leaves seats within unions and the game told of the unions.      *)
LEMMA PassKeeps == ASSUME FilterInv, UpdateInterest PROVE FilterInv'
<1> DEFINE flat(p) == FilterLinear(AoiConfig, Shared, p, SeatObservers(AoiConfig, p))
<1>1. /\ conns' = [p \in Viewers |-> flat(p)]
      /\ ran' = TRUE /\ UNCHANGED <<rows, knobs, edits>>
      /\ told' = [p \in Viewers |-> DOMAIN conns'[p].members]
  BY PassIsLinear
<1>2. \A p \in Viewers : /\ flat(p) \in Conn
                         /\ \A i \in DOMAIN flat(p).seats : SeatIsWithin(flat(p), flat(p).seats[i])
  BY PassShape
<1> HIDE DEF flat
<1>3. conns' \in [Viewers -> Conn] /\ \A p \in Viewers : conns'[p] = flat(p)
  BY <1>1, <1>2
<1>4. told' \in [Viewers -> SUBSET Ids]
  <2>1. \A p \in Viewers : DOMAIN conns'[p].members \subseteq Ids
    <3> TAKE p \in Viewers
    <3>1. conns'[p].members \in Known
      BY <1>3 DEF Conn
    <3>2. PICK m \in Known : m = conns'[p].members
      BY <3>1
    <3>3. QED
      BY <3>2, ForgettingShape
  <2>2. QED
    BY <1>1, <2>1
<1>5. Shapes'
  BY <1>1, <1>3, <1>4 DEF FilterInv, Shapes
<1>6. SeatsAreWithin'
  BY <1>2, <1>3 DEF SeatsAreWithin
<1>7. ToldIsTheUnion'
  BY <1>1 DEF ToldIsTheUnion
<1>8. QED
  BY <1>5, <1>6, <1>7 DEF FilterInv

(* Edits of the rows, of a declaration, a policy or a knob.                *)
LEMMA EditsKeep ==
    ASSUME FilterInv,
           \/ \E id \in Ids, p \in Points \cup {NoAnchor, NotFinite} : Move(id, p)
           \/ \E id \in Ids, w \in Worlds : SetMembership(id, w)
           \/ \E id \in RollbackIds, o \in Viewers \cup {0}, s \in SeatIndices : SeatMoves(id, o, s)
           \/ \E id \in Ids : Spawn(id)
           \/ \E p \in Viewers, a \in Anchors, w \in Worlds : SetPeerAnchor(p, a, w)
           \/ \E b \in BOOLEAN : SetUnanchoredPolicy(b)
           \/ \E p \in Viewers, b \in BOOLEAN : SetPeerUnanchoredPolicy(p, b)
           \/ \E r \in Radii, c \in Caps : SetKnobs(r, c)
    PROVE  FilterInv'
<1>1. Shapes /\ IsLayout(rows)
  BY DEF FilterInv, Shapes
<1>2. rows \in [DOMAIN rows -> Row] /\ DOMAIN rows \subseteq Ids
  BY <1>1 DEF IsLayout
<1>3. edits' \in Nat /\ UNCHANGED <<conns, told, ran>>
  <2>1. Edit /\ UNCHANGED <<conns, told, ran>>
    BY DEF Move, SetMembership, SeatMoves, Spawn, SetPeerAnchor,
           SetUnanchoredPolicy, SetPeerUnanchoredPolicy, SetKnobs
  <2>2. QED
    BY <1>1, <2>1 DEF Shapes, Edit
<1>4. IsLayout(rows')
  <2>1. ASSUME NEW id \in Ids, NEW p \in Points \cup {NoAnchor, NotFinite}, Move(id, p)
        PROVE  IsLayout(rows')
    <3>1. rows' \in [DOMAIN rows -> Row] /\ DOMAIN rows' = DOMAIN rows
      BY <1>2, <2>1 DEF Move, Row
    <3>2. QED
      BY <1>2, <3>1 DEF IsLayout
  <2>2. ASSUME NEW id \in Ids, NEW w \in Worlds, SetMembership(id, w)
        PROVE  IsLayout(rows')
    <3>1. rows' \in [DOMAIN rows -> Row] /\ DOMAIN rows' = DOMAIN rows
      BY <1>2, <2>2 DEF SetMembership, Row
    <3>2. QED
      BY <1>2, <3>1 DEF IsLayout
  <2>3. ASSUME NEW id \in RollbackIds, NEW o \in Viewers \cup {0}, NEW s \in SeatIndices,
               SeatMoves(id, o, s)
        PROVE  IsLayout(rows')
    <3>1. rows' \in [DOMAIN rows -> Row] /\ DOMAIN rows' = DOMAIN rows
      BY <1>2, <2>3 DEF SeatMoves, Row
    <3>2. QED
      BY <1>2, <3>1 DEF IsLayout
  <2>4. ASSUME NEW id \in Ids, Spawn(id)
        PROVE  IsLayout(rows')
    <3>1. rows' = [i \in DOMAIN rows \cup {id} |->
                     IF i = id THEN [owner |-> 0, seat |-> 0, anchor |-> NoAnchor,
                                     world |-> Global] ELSE rows[i]]
      BY <2>4 DEF Spawn
    <3>2. rows' \in [DOMAIN rows \cup {id} -> Row] /\ DOMAIN rows' = DOMAIN rows \cup {id}
      BY <1>2, <3>1 DEF Row
    <3>3. QED
      BY <1>2, <3>2 DEF IsLayout
  <2>5. CASE rows' = rows
    BY <1>1, <2>5
  <2>6. \/ rows' = rows
        \/ \E id \in Ids, p \in Points \cup {NoAnchor, NotFinite} : Move(id, p)
        \/ \E id \in Ids, w \in Worlds : SetMembership(id, w)
        \/ \E id \in RollbackIds, o \in Viewers \cup {0}, s \in SeatIndices : SeatMoves(id, o, s)
        \/ \E id \in Ids : Spawn(id)
    BY DEF SetPeerAnchor, SetUnanchoredPolicy, SetPeerUnanchoredPolicy, SetKnobs
  <2>7. QED
    BY <2>1, <2>2, <2>3, <2>4, <2>5, <2>6
<1>5. knobs' \in [radius : Radii, cap : Caps]
  <2>1. knobs' = knobs \/ \E r \in Radii, c \in Caps : knobs' = [radius |-> r, cap |-> c]
    BY DEF Move, SetMembership, SeatMoves, Spawn, SetPeerAnchor,
           SetUnanchoredPolicy, SetPeerUnanchoredPolicy, SetKnobs
  <2>2. QED
    BY <1>1, <2>1 DEF Shapes
<1>6. Shapes'
  BY <1>1, <1>3, <1>4, <1>5 DEF Shapes
<1>7. QED
  BY <1>3, <1>6 DEF FilterInv, SeatsAreWithin, ToldIsTheUnion

(* A connection with its seats rewritten.                                  *)
LEMMA SeatsRewritten ==
    ASSUME NEW conn \in Conn, NEW s \in Seq(SeatSet)
    PROVE  /\ [conn EXCEPT !.seats = s] \in Conn
           /\ [conn EXCEPT !.seats = s].seats = s
           /\ [conn EXCEPT !.seats = s].members = conn.members
           /\ [conn EXCEPT !.seats = s].hidden = conn.hidden
  BY DEF Conn

(* ... with what it holds.                                                *)
LEMMA MembersRewritten ==
    ASSUME NEW conn \in Conn, NEW m \in Known
    PROVE  /\ [conn EXCEPT !.members = m] \in Conn
           /\ [conn EXCEPT !.members = m].members = m
           /\ [conn EXCEPT !.members = m].hidden = conn.hidden
  BY DEF Conn

(* ... with what it refuses.                                               *)
LEMMA HiddenRewritten ==
    ASSUME NEW conn \in Conn, NEW h \in SUBSET Ids
    PROVE  /\ [conn EXCEPT !.hidden = h] \in Conn
           /\ [conn EXCEPT !.hidden = h].members = conn.members
           /\ [conn EXCEPT !.hidden = h].hidden = h
  BY DEF Conn

(* Seats rewritten one by one are seats, within the connection they follow. *)
LEMMA RewrittenSeats ==
    ASSUME NEW conn \in Conn, NEW seats \in [DOMAIN conn.seats -> SeatSet]
    PROVE  seats \in Seq(SeatSet)
<1>1. conn.seats \in Seq(SeatSet)
  BY DEF Conn
<1>2. DOMAIN conn.seats = 1..Len(conn.seats) /\ Len(conn.seats) \in Nat
  BY <1>1
<1>3. QED
  BY <1>2

(* A despawn leaves the registry, the unions, the seats and what was told. *)
LEMMA DespawnKeeps == ASSUME FilterInv, NEW id \in Ids, Despawn(id) PROVE FilterInv'
<1> DEFINE forget(m) == [i \in DOMAIN m \ {id} |-> m[i]]
           drop(set) == [set EXCEPT !.members = forget(set.members)]
           seats(p) == [i \in DOMAIN conns[p].seats |-> drop(conns[p].seats[i])]
           after(p) == [drop(conns[p]) EXCEPT !.seats = seats(p)]
<1>1. Shapes /\ IsLayout(rows) /\ \A p \in Viewers : conns[p] \in Conn
  BY DEF FilterInv, Shapes
<1>2. \A m \in Known : forget(m) \in Known /\ DOMAIN forget(m) = DOMAIN m \ {id}
  BY ForgettingShape
<1> HIDE DEF forget
<1>3. ASSUME NEW p \in Viewers
      PROVE  /\ after(p) \in Conn
             /\ \A i \in DOMAIN after(p).seats : SeatIsWithin(after(p), after(p).seats[i])
             /\ DOMAIN after(p).members = DOMAIN conns[p].members \ {id}
  <2> DEFINE conn == conns[p]
             s == seats(p)
             m == forget(conn.members)
  <2>1. conn \in Conn /\ conn.seats \in Seq(SeatSet) /\ conn.members \in Known
        /\ conn.hidden \in SUBSET Ids
    BY <1>1 DEF Conn
  <2>2. m \in Known /\ DOMAIN m = DOMAIN conn.members \ {id}
    BY <1>2, <2>1
  <2>3. ASSUME NEW i \in DOMAIN conn.seats
        PROVE  /\ drop(conn.seats[i]) \in SeatSet
               /\ drop(conn.seats[i]).hidden = conn.hidden
               /\ DOMAIN drop(conn.seats[i]).members \subseteq DOMAIN m
    <3> DEFINE set == conn.seats[i]
               f == forget(set.members)
    <3>1. set \in SeatSet
      <4> HIDE DEF conn
      <4> QED BY <2>1
    <3>2. set.hidden = conn.hidden /\ DOMAIN set.members \subseteq DOMAIN conn.members
      BY DEF FilterInv, SeatsAreWithin, SeatIsWithin
    <3> HIDE DEF set, conn, m
    <3>3. f \in Known /\ DOMAIN f = DOMAIN set.members \ {id}
      BY <1>2, <3>1 DEF SeatSet
    <3> HIDE DEF f
    <3>4. [set EXCEPT !.members = f] \in SeatSet /\ [set EXCEPT !.members = f].members = f
          /\ [set EXCEPT !.members = f].hidden = set.hidden
      BY <3>1, <3>3 DEF SeatSet
    <3>5. QED
      BY <2>2, <3>2, <3>3, <3>4 DEF f, set
  <2>4. s \in [DOMAIN conn.seats -> SeatSet] /\ \A i \in DOMAIN conn.seats : s[i] = drop(conn.seats[i])
    <3> HIDE DEF drop
    <3> QED BY <2>3
  <2>5. DOMAIN s = DOMAIN conn.seats
        /\ \A i \in DOMAIN conn.seats : s[i].hidden = conn.hidden /\ DOMAIN s[i].members \subseteq DOMAIN m
    BY <2>3, <2>4
  <2>6. after(p) = [[conn EXCEPT !.members = m] EXCEPT !.seats = s]
    OBVIOUS
  <2> HIDE DEF conn, m, s, after
  <2>7. s \in Seq(SeatSet)
    BY <2>1, <2>4, RewrittenSeats
  <2>8. /\ after(p) \in Conn /\ after(p).seats = s /\ after(p).members = m
        /\ after(p).hidden = conn.hidden
    <3> DEFINE own == [conn EXCEPT !.members = m]
    <3>1. own \in Conn /\ own.members = m /\ own.hidden = conn.hidden
      BY <2>1, <2>2, MembersRewritten
    <3>2. after(p) = [own EXCEPT !.seats = s]
      BY <2>6
    <3> HIDE DEF own
    <3>3. QED
      BY <2>7, <3>1, <3>2, SeatsRewritten
  <2>9. QED
    BY <2>2, <2>5, <2>8 DEF SeatIsWithin, conn
<1>4. conns' = [p \in Viewers |-> after(p)]
  BY DEF Despawn, forget
<1> HIDE DEF after
<1>5. conns' \in [Viewers -> Conn] /\ \A p \in Viewers : conns'[p] = after(p)
  BY <1>3, <1>4
<1>6. told' = [p \in Viewers |-> IF id \in DOMAIN conns[p].members THEN told[p] \ {id} ELSE told[p]]
      /\ UNCHANGED <<ran, knobs>>
  BY DEF Despawn
<1>7. edits' \in Nat
  <2>1. Edit
    BY DEF Despawn
  <2>2. QED
    BY <1>1, <2>1 DEF Shapes, Edit
<1>8. IsLayout(rows')
  BY <1>1 DEF Despawn, IsLayout
<1>9. Shapes'
  <2>1. told' \in [Viewers -> SUBSET Ids]
    BY <1>1, <1>6 DEF Shapes
  <2>2. QED
    BY <1>1, <1>5, <1>6, <1>7, <1>8, <2>1 DEF Shapes
<1>10. SeatsAreWithin'
  BY <1>3, <1>5 DEF SeatsAreWithin
<1>11. ToldIsTheUnion'
  <2>1. \A p \in Viewers : told'[p] = DOMAIN conns'[p].members
    BY <1>3, <1>5, <1>6 DEF FilterInv, ToldIsTheUnion
  <2>2. ~ran' => \A p \in Viewers : told'[p] = {}
    BY <1>6 DEF FilterInv, ToldIsTheUnion
  <2>3. QED
    BY <2>1, <2>2 DEF ToldIsTheUnion
<1>12. QED
  BY <1>9, <1>10, <1>11 DEF FilterInv

(* A veto reaches the union, every seat and the game in one step, a lifted *)
(* one every seat.                                                         *)
LEMMA VetoKeeps ==
    ASSUME FilterInv, NEW peer \in Viewers, NEW id \in Ids, NEW hidden \in BOOLEAN,
           SetEntityHidden(peer, id, hidden)
    PROVE  FilterInv'
<1> DEFINE conn == conns[peer]
           keep(m) == IF hidden THEN [i \in DOMAIN m \ {id} |-> m[i]] ELSE m
           turn(h) == IF hidden THEN h \cup {id} ELSE h \ {id}
           veto(set) == IF hidden
                        THEN [set EXCEPT !.hidden = @ \cup {id},
                                         !.members = [i \in DOMAIN set.members \ {id} |-> set.members[i]]]
                        ELSE [set EXCEPT !.hidden = @ \ {id}]
           seats == [i \in DOMAIN conn.seats |-> veto(conn.seats[i])]
           q == [veto(conn) EXCEPT !.seats = seats]
           m == keep(conn.members)
           h == turn(conn.hidden)
<1>1. Shapes /\ conn \in Conn /\ conn.seats \in Seq(SeatSet) /\ conn.members \in Known
      /\ conn.hidden \in SUBSET Ids
  BY DEF FilterInv, Shapes, Conn
<1>2. \A k \in Known : /\ keep(k) \in Known
                       /\ DOMAIN keep(k) = IF hidden THEN DOMAIN k \ {id} ELSE DOMAIN k
  BY ForgettingShape
<1>3. m \in Known /\ h \in SUBSET Ids
      /\ DOMAIN m = IF hidden THEN DOMAIN conn.members \ {id} ELSE DOMAIN conn.members
  BY <1>1, <1>2
<1>4. ASSUME NEW i \in DOMAIN conn.seats
      PROVE  veto(conn.seats[i]) \in SeatSet /\ veto(conn.seats[i]).hidden = h
             /\ DOMAIN veto(conn.seats[i]).members \subseteq DOMAIN m
  <2> DEFINE set == conn.seats[i]
             k == keep(set.members)
             t == turn(set.hidden)
  <2>1. set \in SeatSet
    <3> HIDE DEF conn
    <3> QED BY <1>1
  <2>2. set.hidden = conn.hidden /\ DOMAIN set.members \subseteq DOMAIN conn.members
    BY DEF FilterInv, SeatsAreWithin, SeatIsWithin
  <2>3. t = h
    BY <2>2
  <2> HIDE DEF set, conn
  <2>4. set.members \in Known /\ set.hidden \in SUBSET Ids
    BY <2>1 DEF SeatSet
  <2>5. k \in Known /\ DOMAIN k \subseteq DOMAIN m
    BY <1>2, <1>3, <2>2, <2>4
  <2>6. veto(set) \in SeatSet /\ veto(set).hidden = t /\ veto(set).members = k
    <3>1. CASE hidden
      <4>1. veto(set) = [set EXCEPT !.hidden = t, !.members = k]
        BY <3>1
      <4> HIDE DEF veto, k, t
      <4>2. QED
        BY <1>3, <2>1, <2>3, <2>5, <4>1 DEF SeatSet
    <3>2. CASE ~hidden
      <4>1. veto(set) = [set EXCEPT !.hidden = t] /\ k = set.members
        BY <3>2
      <4> HIDE DEF veto, k, t
      <4>2. QED
        BY <1>3, <2>1, <2>3, <2>5, <4>1 DEF SeatSet
    <3>3. QED
      BY <3>1, <3>2
  <2> HIDE DEF veto, k, t, h, m
  <2>7. QED
    BY <2>3, <2>5, <2>6 DEF set
<1>5. conns' = [conns EXCEPT ![peer] = q]
  BY DEF SetEntityHidden
<1>6. /\ q \in Conn
      /\ \A i \in DOMAIN q.seats : SeatIsWithin(q, q.seats[i])
      /\ DOMAIN q.members = IF hidden THEN DOMAIN conn.members \ {id} ELSE DOMAIN conn.members
  <2> DEFINE s == seats
  <2>1. s \in [DOMAIN conn.seats -> SeatSet]
        /\ \A i \in DOMAIN conn.seats : s[i] = veto(conn.seats[i])
    <3> HIDE DEF veto, h, m
    <3> QED BY <1>4
  <2>2. DOMAIN s = DOMAIN conn.seats
        /\ \A i \in DOMAIN conn.seats : s[i].hidden = h /\ DOMAIN s[i].members \subseteq DOMAIN m
    <3> HIDE DEF veto, h, m, conn
    <3> QED BY <1>4, <2>1
  <2>3. q.seats = s /\ q.members = m /\ q.hidden = h /\ q \in Conn
    <3>1. CASE hidden
      <4>1. q = [[conn EXCEPT !.hidden = h, !.members = m] EXCEPT !.seats = s]
        BY <3>1
      <4> HIDE DEF q, conn, h, m, s
      <4>2. s \in Seq(SeatSet)
        BY <1>1, <2>1, RewrittenSeats
      <4>3. QED
        <5> DEFINE own == [conn EXCEPT !.hidden = h, !.members = m]
        <5>1. own \in Conn /\ own.members = m /\ own.hidden = h
          BY <1>1, <1>3 DEF Conn
        <5>2. q = [own EXCEPT !.seats = s]
          BY <4>1
        <5> HIDE DEF own
        <5>3. QED
          BY <4>2, <5>1, <5>2, SeatsRewritten
    <3>2. CASE ~hidden
      <4>1. q = [[conn EXCEPT !.hidden = h] EXCEPT !.seats = s] /\ m = conn.members
        BY <3>2
      <4> HIDE DEF q, conn, h, m, s
      <4>2. s \in Seq(SeatSet)
        BY <1>1, <2>1, RewrittenSeats
      <4>3. QED
        <5> DEFINE own == [conn EXCEPT !.hidden = h]
        <5>1. own \in Conn /\ own.members = m /\ own.hidden = h
          BY <1>1, <1>3, <4>1, HiddenRewritten
        <5>2. q = [own EXCEPT !.seats = s]
          BY <4>1
        <5> HIDE DEF own
        <5>3. QED
          BY <4>2, <5>1, <5>2, SeatsRewritten
    <3>3. QED
      BY <3>1, <3>2
  <2> HIDE DEF q, s, h, m, conn
  <2>4. QED
    BY <1>3, <2>2, <2>3 DEF SeatIsWithin
<1> HIDE DEF q, seats, veto, keep, turn, m, h
<1>7. conns' \in [Viewers -> Conn]
      /\ \A p \in Viewers : conns'[p] = IF p = peer THEN q ELSE conns[p]
  BY <1>1, <1>5, <1>6 DEF Shapes
<1>8. /\ told' = IF VetoAnnouncesLeave(hidden, id \in conn.hidden, InInterest(peer, id))
                 THEN [told EXCEPT ![peer] = @ \ {id}] ELSE told
      /\ hidden # (id \in conn.hidden)
      /\ UNCHANGED <<rows, ran, knobs>>
      /\ Edit
  BY DEF SetEntityHidden
<1>9. told' \in [Viewers -> SUBSET Ids]
      /\ \A p \in Viewers : told'[p] = told[p] \/ told'[p] = told[p] \ {id}
  BY <1>1, <1>8 DEF Shapes
<1>10. Shapes'
  <2>1. edits' \in Nat
    BY <1>1, <1>8 DEF Shapes, Edit
  <2>2. QED
    BY <1>1, <1>7, <1>8, <1>9, <2>1 DEF Shapes
<1>11. SeatsAreWithin'
  BY <1>6, <1>7 DEF FilterInv, SeatsAreWithin
<1>12. ASSUME NEW p \in Viewers PROVE told'[p] = DOMAIN conns'[p].members
  <2>1. told[p] = DOMAIN conns[p].members /\ (~ran => told[p] = {})
    BY DEF FilterInv, ToldIsTheUnion
  <2>2. CASE p # peer
    BY <1>1, <1>7, <1>8, <2>1, <2>2 DEF Shapes
  <2>3. CASE p = peer /\ ~hidden
    <3>1. told' = told
      BY <1>8, <2>3 DEF VetoAnnouncesLeave
    <3>2. QED
      BY <1>6, <1>7, <2>1, <2>3, <3>1
  <2>4. CASE p = peer /\ hidden
    <3>1. id \notin conn.hidden
      BY <1>8, <2>4
    <3>2. told' = IF InInterest(peer, id) THEN [told EXCEPT ![peer] = @ \ {id}] ELSE told
      BY <1>8, <2>4, <3>1 DEF VetoAnnouncesLeave
    <3>3. DOMAIN conns'[p].members = told[p] \ {id}
      BY <1>6, <1>7, <2>1, <2>4
    <3>4. ~InInterest(peer, id) => id \notin told[p]
      BY <2>1, <2>4 DEF InInterest
    <3>5. told'[p] = told[p] \ {id}
      BY <1>1, <2>4, <3>2, <3>4 DEF Shapes
    <3>6. QED
      BY <3>3, <3>5
  <2>5. QED
    BY <2>2, <2>3, <2>4
<1>13. ~ran' => \A p \in Viewers : told'[p] = {}
  BY <1>8, <1>9 DEF FilterInv, ToldIsTheUnion
<1>14. QED
  BY <1>10, <1>11, <1>12, <1>13 DEF FilterInv, ToldIsTheUnion

(* Every step keeps the invariant.                                         *)
LEMMA FilterStepKeeps == FilterInv /\ [FilterNext]_filterVars => FilterInv'
<1> SUFFICES ASSUME FilterInv, [FilterNext]_filterVars PROVE FilterInv'
  OBVIOUS
<1>1. CASE UpdateInterest
  BY <1>1, PassKeeps
<1>2. CASE \E id \in Ids : Despawn(id)
  BY <1>2, DespawnKeeps
<1>3. CASE \E p \in Viewers, id \in Ids, h \in BOOLEAN : SetEntityHidden(p, id, h)
  BY <1>3, VetoKeeps
<1>4. CASE UNCHANGED filterVars
  BY <1>4 DEF filterVars, FilterInv, Shapes, SeatsAreWithin, ToldIsTheUnion
<1>5. CASE \/ \E id \in Ids, p \in Points \cup {NoAnchor, NotFinite} : Move(id, p)
           \/ \E id \in Ids, w \in Worlds : SetMembership(id, w)
           \/ \E id \in RollbackIds, o \in Viewers \cup {0}, s \in SeatIndices : SeatMoves(id, o, s)
           \/ \E id \in Ids : Spawn(id)
           \/ \E p \in Viewers, a \in Anchors, w \in Worlds : SetPeerAnchor(p, a, w)
           \/ \E b \in BOOLEAN : SetUnanchoredPolicy(b)
           \/ \E p \in Viewers, b \in BOOLEAN : SetPeerUnanchoredPolicy(p, b)
           \/ \E r \in Radii, c \in Caps : SetKnobs(r, c)
  BY <1>5, EditsKeep
<1>6. QED
  BY <1>1, <1>2, <1>3, <1>4, <1>5 DEF FilterNext

-----------------------------------------------------------------------------
(* The theorems.                                                           *)

(* The invariant holds in every state of every behaviour: rows, sets and   *)
(* settings keep their shape, no seat holds what its connection does not   *)
(* or admits what it refuses, and what the game was told is the union.     *)
THEOREM FilterInvariance == FilterSpec => []FilterInv
<1>1. QED
  BY FilterInitHolds, FilterStepKeeps, PTL DEF FilterSpec

(* From every state a session can be in, the grid path and the flat path   *)
(* of update_interest give every connection the same sets and distances,   *)
(* whatever the positions, radii, caps, vetoes and rows it drives.         *)
THEOREM PathsAlwaysAgree == FilterSpec => []PathsAgree
<1>1. FilterInv => PathsAgree
  <2> SUFFICES ASSUME FilterInv PROVE PathsAgree
    OBVIOUS
  <2>1. IsLayout(rows) /\ knobs \in [radius : Radii, cap : Caps]
    BY DEF FilterInv, Shapes
  <2>2. QED
    BY <2>1, EveryPathIsLinear DEF PathsAgree
<1>2. QED
  BY <1>1, FilterInvariance, PTL

(* Across passes, vetoes and despawns the enter and leave events handed to *)
(* a game add up to the set the datagram carries.                          *)
THEOREM EventsAlwaysAddUp == FilterSpec => []EventsAddUp
<1>1. FilterInv => EventsAddUp
  BY DEF FilterInv, ToldIsTheUnion, EventsAddUp
<1>2. QED
  BY <1>1, FilterInvariance, PTL

(* A step that is a pass by IsPass is update_interest, or changes no set.  *)
LEMMA PassIsUpdate ==
    ASSUME FilterInv, [FilterNext]_filterVars, IsPass
    PROVE  UpdateInterest \/ UNCHANGED filterVars
<1>1. edits \in Nat /\ edits' = edits
  BY DEF FilterInv, Shapes, IsPass
<1>2. ~Edit
  BY <1>1 DEF Edit
<1>3. QED
  BY <1>2 DEF FilterNext, Move, SetMembership, SeatMoves, Despawn, Spawn, SetEntityHidden,
              SetPeerAnchor, SetUnanchoredPolicy, SetPeerUnanchoredPolicy, SetKnobs

(* An entity joins a connection's union only as a newcomer that the filter *)
(* of one of its viewpoints admits, and never while it is withheld.        *)
THEOREM NewcomersJoinThroughTheFilter == FilterSpec => JoinsThroughTheFilter
<1> DEFINE Joins ==
             IsPass => \A p \in Viewers :
               LET seats == SeatObservers(AoiConfig, p)
               IN  \A id \in DOMAIN conns'[p].members \ DOMAIN conns[p].members :
                     /\ id \notin conns[p].hidden
                     /\ \/ id \in Owned(p)
                        \/ \E i \in DOMAIN seats :
                             Classify(AoiConfig, EmptySet({}), seats[i].at,
                                      CandidateForRow(id)) # {}
<1>1. FilterInv /\ [FilterNext]_filterVars => [Joins]_filterVars
  <2> SUFFICES ASSUME FilterInv, [FilterNext]_filterVars, IsPass, ~UNCHANGED filterVars
               PROVE  Joins
    OBVIOUS
  <2>1. UpdateInterest
    BY PassIsUpdate
  <2>2. \A p \in Viewers :
          conns'[p] = FilterLinear(AoiConfig, Shared, p, SeatObservers(AoiConfig, p))
    BY <2>1, PassIsLinear
  <2>3. QED
    BY <2>2, PassShape
<1>2. QED
  BY <1>1, FilterInvariance, PTL DEF FilterSpec, JoinsThroughTheFilter

(* A pass carries to a connection every body it drives that is not vetoed, *)
(* in whatever world the body is and whatever the unanchored policy says.  *)
THEOREM OwnBodiesAreAlwaysCarried == FilterSpec => OwnBodiesAreCarried
<1> DEFINE Carries ==
             IsPass => \A p \in Viewers :
               Owned(p) \ conns[p].hidden \subseteq DOMAIN conns'[p].members
<1>1. FilterInv /\ [FilterNext]_filterVars => [Carries]_filterVars
  <2> SUFFICES ASSUME FilterInv, [FilterNext]_filterVars, IsPass, ~UNCHANGED filterVars
               PROVE  Carries
    OBVIOUS
  <2>1. UpdateInterest
    BY PassIsUpdate
  <2>2. \A p \in Viewers :
          conns'[p] = FilterLinear(AoiConfig, Shared, p, SeatObservers(AoiConfig, p))
    BY <2>1, PassIsLinear
  <2>3. QED
    BY <2>2, PassShape
<1>2. QED
  BY <1>1, FilterInvariance, PTL DEF FilterSpec, OwnBodiesAreCarried

-----------------------------------------------------------------------------
(***************************************************************************)
(* The seats.  What the engine releases on its own was given to nobody     *)
(* connected, a queued release is announced by the frame that drains it,   *)
(* and the roster follows the seats, at the server and at a client that    *)
(* has read the whole stream.                                              *)
(***************************************************************************)

(* What the properties rest on.                                            *)

Owner == Peers \cup {ServerPeer}

Body == [owner : Owner, seat : Labels]

\* A body in the server's hands, without a label.
Released == [owner |-> ServerPeer, seat |-> 0]

SeatRow == Bodies \X Owner \X Labels

SeatTypeOK ==
    /\ policy \in {"hold", "expiry", "drop"}
    /\ links \in [Peers -> Nat]
    /\ who \in Seq(Identities \cup {NoIdentity})
    /\ bodies \in [Bodies -> Body]
    /\ pending \subseteq Peers
    /\ table \subseteq SeatRow
    /\ wire \in Seq(SUBSET SeatRow)
    /\ given \in [Bodies -> Nat]
    /\ verbs \in Nat

\* A generation is connected under one id, and every generation seen so far has
\* an identity on record.
GenerationsAreApart ==
    /\ \A p, q \in Peers : links[p] = links[q] /\ links[p] # 0 => p = q
    /\ \A p \in Peers : links[p] <= Len(who)
    /\ \A b \in Bodies : given[b] <= Len(who)

\* A body given to a generation that is still connected is driven by its id, or
\* by the server if it was taken back; a body of the server has no label.
BodiesFollowTheGame ==
    \A b \in Bodies :
      /\ \A p \in Peers : links[p] # 0 /\ given[b] = links[p] => bodies[b].owner \in {p, ServerPeer}
      /\ bodies[b].owner = ServerPeer => bodies[b].seat = 0

\* The last table on the wire is the one the roster was announced from.
WireEndsInTheRoster == wire # <<>> => SeatsOf(wire[Len(wire)]) = roster

SeatInv ==
    SeatTypeOK /\ GenerationsAreApart /\ BodiesFollowTheGame /\ RostersAgree /\ WireEndsInTheRoster

-----------------------------------------------------------------------------
(* Operators.                                                              *)

(* replace_into, applied to its own two lists, ends in the new seats.      *)
LEMMA ReplaceIntoIsNew ==
    ASSUME NEW old, NEW new PROVE ReplaceInto(old, new) = new
  BY DEF ReplaceInto, Closed, Opened

(* A release hands a body of one of its ids to the server, and leaves the  *)
(* others.                                                                 *)
LEMMA ReleaseShape ==
    ASSUME NEW all \in [Bodies -> Body], NEW ids
    PROVE  LET q == ReleaseOwnedBodies(all, ids)
           IN  /\ q \in [Bodies -> Body]
               /\ \A b \in Bodies : q[b] = IF all[b].owner \in ids THEN Released ELSE all[b]
  BY SeatAssumption DEF ReleaseOwnedBodies, Body, Released, Owner

(* What a drain leaves of a body: itself, or the server's if the id that   *)
(* drove it is not connected; under the drop policy, no body of an id that *)
(* was queued and is gone.                                                 *)
LEMMA DrainShape ==
    ASSUME NEW all \in [Bodies -> Body]
    PROVE  LET q == DrainSeatReleases(all)
           IN  /\ q \in [Bodies -> Body]
               /\ \A b \in Bodies :
                    /\ \/ q[b] = all[b]
                       \/ q[b] = Released /\ ~PeerIsLive(all[b].owner)
                    /\ policy = "drop" /\ all[b].owner \in pending
                         => PeerIsLive(all[b].owner) \/ q[b] = Released
<1> DEFINE ids == {p \in pending : ReleasesSeats(policy, "drop", PeerIsLive(p))}
<1>1. DrainSeatReleases(all) = ReleaseOwnedBodies(all, ids)
  BY DEF DrainSeatReleases
<1>2. \A p \in ids : ~PeerIsLive(p)
  BY DEF ReleasesSeats
<1>3. policy = "drop" => \A p \in pending : ~PeerIsLive(p) => p \in ids
  BY DEF ReleasesSeats
<1>4. QED
  <2> HIDE DEF ids
  <2>1. QED
    BY <1>1, <1>2, <1>3, ReleaseShape

(* What the end of a window leaves of a body: itself, or the server's if   *)
(* the id that drove it is not connected.                                  *)
LEMMA ExpiryShape ==
    ASSUME NEW all \in [Bodies -> Body], NEW due
    PROVE  LET q == ExpireHeldSessions(all, due)
           IN  /\ q \in [Bodies -> Body]
               /\ \A b \in Bodies : \/ q[b] = all[b]
                                    \/ q[b] = Released /\ ~PeerIsLive(all[b].owner)
<1> DEFINE ids == {p \in {due[k].peer : k \in DOMAIN due} :
                      ReleasesSeats(policy, "expiry", PeerIsLive(p))}
<1>1. ExpireHeldSessions(all, due) = ReleaseOwnedBodies(all, ids)
  BY DEF ExpireHeldSessions
<1>2. \A p \in ids : ~PeerIsLive(p)
  BY DEF ReleasesSeats
<1>3. QED
  <2> HIDE DEF ids
  <2>1. QED
    BY <1>1, <1>2, ReleaseShape

(* A scan gives rows of bodies and their owners; the seats of it are those *)
(* of the bodies.                                                          *)
LEMMA ScanShape ==
    ASSUME NEW all \in [Bodies -> Body]
    PROVE  /\ Scan(all) \in SUBSET SeatRow
           /\ \A seat \in SeatsOf(Scan(all)) : \E b \in Bodies : seat[1] = all[b].owner
<1> DEFINE kept == {c \in Bodies : all[c].owner # ServerPeer \/ mode = "host"}
<1>1. Scan(all) = {<<b, all[b].owner, all[b].seat>> : b \in kept}
  BY DEF Scan
<1>2. Scan(all) \in SUBSET SeatRow
  BY <1>1 DEF SeatRow, Body
<1>3. ASSUME NEW seat \in SeatsOf(Scan(all)) PROVE \E b \in Bodies : seat[1] = all[b].owner
  <2>1. PICK row \in Scan(all) : seat = <<row[2], row[3]>>
    BY DEF SeatsOf
  <2>2. PICK b \in kept : row = <<b, all[b].owner, all[b].seat>>
    BY <1>1
  <2>3. QED
    BY <2>1, <2>2
<1>4. QED
  BY <1>2, <1>3

-----------------------------------------------------------------------------
(* The inductive invariant, action by action.                              *)

(* It holds at the start.                                                  *)
LEMMA SeatInitHolds == SeatInit => SeatInv
<1> SUFFICES ASSUME SeatInit PROVE SeatInv
  OBVIOUS
<1>1. SeatTypeOK
  BY SeatAssumption DEF SeatInit, SeatTypeOK, Body, Owner
<1>2. GenerationsAreApart
  BY DEF SeatInit, GenerationsAreApart
<1>3. BodiesFollowTheGame
  BY DEF SeatInit, BodiesFollowTheGame
<1>4. RostersAgree /\ WireEndsInTheRoster
  BY DEF SeatInit, RostersAgree, WireEndsInTheRoster, SeatsOf
<1>5. QED
  BY <1>1, <1>2, <1>3, <1>4 DEF SeatInv

(* What the engine does to a body on its own: nothing, or a release from   *)
(* an id that is not connected.                                            *)
LEMMA EngineReleases ==
    ASSUME SeatInv, TickFrame \/ IdleFrame
    PROVE  /\ bodies' \in [Bodies -> Body]
           /\ \A b \in Bodies : \/ bodies'[b] = bodies[b]
                                \/ bodies'[b] = Released /\ ~PeerIsLive(bodies[b].owner)
<1>1. bodies \in [Bodies -> Body]
  BY DEF SeatInv, SeatTypeOK
<1>2. CASE TickFrame
  <2> DEFINE drained == DrainSeatReleases(bodies)
  <2>1. PICK due : bodies' = ExpireHeldSessions(drained, due)
    BY <1>2 DEF TickFrame
  <2>2. /\ drained \in [Bodies -> Body]
        /\ \A b \in Bodies : \/ drained[b] = bodies[b]
                             \/ drained[b] = Released /\ ~PeerIsLive(bodies[b].owner)
    BY <1>1, DrainShape
  <2>3. /\ bodies' \in [Bodies -> Body]
        /\ \A b \in Bodies : \/ bodies'[b] = drained[b]
                             \/ bodies'[b] = Released /\ ~PeerIsLive(drained[b].owner)
    <3> HIDE DEF drained
    <3>1. QED
      BY <2>1, <2>2, ExpiryShape
  <2>4. QED
    <3> HIDE DEF drained
    <3>1. QED
      BY <2>2, <2>3
<1>3. CASE IdleFrame
  <2>1. PICK due : bodies' = ExpireHeldSessions(bodies, due)
    BY <1>3 DEF IdleFrame
  <2>2. QED
    BY <1>1, <2>1, ExpiryShape
<1>4. QED
  BY <1>2, <1>3

(* A tick's frame: drain, announce, upkeep, publish.                       *)
LEMMA TickFrameKeeps ==
    ASSUME SeatInv, TickFrame
    PROVE  /\ SeatInv'
           /\ roster' = SeatsOf(Scan(DrainSeatReleases(bodies)))
<1> DEFINE scanned == Scan(DrainSeatReleases(bodies))
<1>1. /\ pending' = {} /\ table' = scanned
      /\ roster' = IF scanned # table THEN ReplaceInto(roster, SeatsOf(scanned)) ELSE roster
      /\ wire' = IF scanned # table \/ dirty THEN Append(wire, scanned) ELSE wire
      /\ UNCHANGED <<mode, policy, links, who, seen, mirror, given, verbs>>
  BY DEF TickFrame, Announced
<1>2. /\ SeatTypeOK /\ GenerationsAreApart /\ BodiesFollowTheGame
      /\ roster = SeatsOf(table)
  BY DEF SeatInv, RostersAgree
<1>3. scanned \in SUBSET SeatRow
  BY <1>2, DrainShape, ScanShape DEF SeatTypeOK
<1>4. roster' = SeatsOf(scanned)
  <2> HIDE DEF scanned
  <2>1. QED
    BY <1>1, <1>2, ReplaceIntoIsNew
<1>5. SeatTypeOK'
  <2> HIDE DEF scanned
  <2>1. wire' \in Seq(SUBSET SeatRow)
    BY <1>1, <1>2, <1>3 DEF SeatTypeOK
  <2>2. QED
    BY <1>1, <1>2, <1>3, <2>1, EngineReleases DEF SeatTypeOK
<1>6. GenerationsAreApart'
  BY <1>1, <1>2 DEF GenerationsAreApart
<1>7. BodiesFollowTheGame'
  BY <1>1, <1>2, EngineReleases DEF BodiesFollowTheGame, Released
<1>8. RostersAgree' /\ WireEndsInTheRoster'
  <2>1. CASE scanned # table \/ dirty
    <3> HIDE DEF scanned
    <3>1. wire' = Append(wire, scanned) /\ wire \in Seq(SUBSET SeatRow)
      BY <1>1, <1>2, <2>1 DEF SeatTypeOK
    <3>2. wire' # <<>> /\ wire'[Len(wire')] = scanned
      BY <1>3, <3>1
    <3>3. QED
      BY <1>1, <1>4, <3>2 DEF RostersAgree, WireEndsInTheRoster
  <2>2. CASE ~(scanned # table \/ dirty)
    <3> HIDE DEF scanned
    <3>1. wire' = wire /\ roster' = roster /\ table' = table /\ mirror' = mirror
      BY <1>1, <2>2
    <3>2. QED
      BY <3>1 DEF SeatInv, RostersAgree, WireEndsInTheRoster
  <2>3. QED
    BY <2>1, <2>2
<1>9. QED
  BY <1>4, <1>5, <1>6, <1>7, <1>8 DEF SeatInv

(* A client reads the oldest table on the wire.                            *)
LEMMA ReadSeatsKeeps ==
    ASSUME SeatInv, ReadSeats PROVE SeatInv'
<1>1. /\ wire # <<>> /\ wire \in Seq(SUBSET SeatRow)
      /\ wire' = Tail(wire)
      /\ mirror' = ReplaceInto(mirror, SeatsOf(Head(wire)))
      /\ UNCHANGED <<mode, policy, links, who, bodies, pending, table, roster, given, verbs>>
  BY DEF ReadSeats, SeatInv, SeatTypeOK
<1>2. wire' \in Seq(SUBSET SeatRow) /\ Len(wire') = Len(wire) - 1 /\ Len(wire) \in Nat
  BY <1>1
<1>3. SeatTypeOK' /\ GenerationsAreApart' /\ BodiesFollowTheGame'
  BY <1>1, <1>2 DEF SeatInv, SeatTypeOK, GenerationsAreApart, BodiesFollowTheGame
<1>4. SeatsOf(wire[Len(wire)]) = roster
  BY <1>1 DEF SeatInv, WireEndsInTheRoster
<1>5. mirror' = SeatsOf(Head(wire))
  BY <1>1, ReplaceIntoIsNew
<1>6. wire' = <<>> => mirror' = roster'
  <2> SUFFICES ASSUME wire' = <<>> PROVE mirror' = roster'
    OBVIOUS
  <2>1. Len(wire) = 1
    BY <1>2
  <2>2. Head(wire) = wire[Len(wire)]
    BY <1>1, <2>1
  <2>3. QED
    BY <1>1, <1>4, <1>5, <2>2
<1>7. wire' # <<>> => wire'[Len(wire')] = wire[Len(wire)]
  BY <1>1, <1>2
<1>8. RostersAgree' /\ WireEndsInTheRoster'
  BY <1>1, <1>4, <1>6, <1>7 DEF SeatInv, RostersAgree, WireEndsInTheRoster
<1>9. QED
  BY <1>3, <1>8 DEF SeatInv

(* The steps of the connections, of the game and of a frame without a      *)
(* tick: none of them touches a roster.                                    *)
LEMMA OthersKeep ==
    ASSUME SeatInv,
           \/ IdleFrame
           \/ \E p \in Peers, s \in Identities \cup {NoIdentity} : Connect(p, s)
           \/ \E p \in Peers, grace \in BOOLEAN : Disconnect(p, grace)
           \/ \E b \in Bodies, p \in Peers, label \in Labels : AssignSeat(b, p, label)
           \/ \E p \in Peers, label \in Labels : ReleaseSeatOf(p, label)
           \/ \E rule \in Policies : SetSeatReleasePolicy(rule)
    PROVE  SeatInv'
<1>1. /\ SeatTypeOK /\ GenerationsAreApart /\ BodiesFollowTheGame
      /\ RostersAgree /\ WireEndsInTheRoster
      /\ Len(who) \in Nat
  BY DEF SeatInv, SeatTypeOK
<1>2. UNCHANGED <<table, roster, wire, mirror>> /\ verbs' \in Nat
  <2>1. UNCHANGED <<table, roster, wire, mirror>>
    BY DEF IdleFrame, Connect, Disconnect, AssignSeat, ReleaseSeatOf, SetSeatReleasePolicy
  <2>2. verbs' = verbs \/ verbs' = verbs + 1
    BY DEF IdleFrame, Connect, Disconnect, AssignSeat, ReleaseSeatOf, SetSeatReleasePolicy
  <2>3. QED
    BY <1>1, <2>1, <2>2 DEF SeatTypeOK
<1>3. RostersAgree' /\ WireEndsInTheRoster'
  BY <1>1, <1>2 DEF RostersAgree, WireEndsInTheRoster
<1>4. SUFFICES SeatTypeOK' /\ GenerationsAreApart' /\ BodiesFollowTheGame'
  BY <1>3 DEF SeatInv
<1>5. CASE IdleFrame
  <2>1. UNCHANGED <<policy, links, who, pending, given>>
    BY <1>5 DEF IdleFrame
  <2>2. QED
    BY <1>1, <1>2, <1>5, <2>1, EngineReleases
    DEF SeatTypeOK, GenerationsAreApart, BodiesFollowTheGame, Released
<1>6. ASSUME NEW p \in Peers, NEW s \in Identities \cup {NoIdentity}, Connect(p, s)
      PROVE  SeatTypeOK' /\ GenerationsAreApart' /\ BodiesFollowTheGame'
  <2> DEFINE g == Len(who) + 1
  <2>1. /\ links' = [links EXCEPT ![p] = g]
        /\ UNCHANGED <<policy, bodies, pending, given>>
    BY <1>6 DEF Connect
  <2>2. PICK i \in Identities \cup {NoIdentity} : who' = Append(who, i)
    BY <1>6 DEF Connect
  <2>3. who' \in Seq(Identities \cup {NoIdentity}) /\ Len(who') = Len(who) + 1
    BY <1>1, <2>2 DEF SeatTypeOK
  <2>4. SeatTypeOK'
    BY <1>1, <1>2, <2>1, <2>3 DEF SeatTypeOK
  <2>5. GenerationsAreApart'
    BY <1>1, <2>1, <2>3 DEF SeatTypeOK, GenerationsAreApart
  <2>6. BodiesFollowTheGame'
    BY <1>1, <2>1 DEF SeatTypeOK, GenerationsAreApart, BodiesFollowTheGame
  <2>7. QED
    BY <2>4, <2>5, <2>6
<1>7. ASSUME NEW p \in Peers, NEW grace \in BOOLEAN, Disconnect(p, grace)
      PROVE  SeatTypeOK' /\ GenerationsAreApart' /\ BodiesFollowTheGame'
  <2>1. /\ links' = [links EXCEPT ![p] = 0]
        /\ pending' \subseteq pending \cup {p}
        /\ UNCHANGED <<policy, who, bodies, given>>
    BY <1>7 DEF Disconnect
  <2>2. SeatTypeOK'
    BY <1>1, <1>2, <2>1 DEF SeatTypeOK
  <2>3. GenerationsAreApart'
    BY <1>1, <2>1 DEF SeatTypeOK, GenerationsAreApart
  <2>4. BodiesFollowTheGame'
    BY <1>1, <2>1 DEF SeatTypeOK, BodiesFollowTheGame
  <2>5. QED
    BY <2>2, <2>3, <2>4
<1>8. ASSUME NEW b \in Bodies, NEW p \in Peers, NEW label \in Labels, AssignSeat(b, p, label)
      PROVE  SeatTypeOK' /\ GenerationsAreApart' /\ BodiesFollowTheGame'
  <2>1. /\ bodies' = [bodies EXCEPT ![b] = [owner |-> p, seat |-> label]]
        /\ given' = [given EXCEPT ![b] = links[p]]
        /\ UNCHANGED <<policy, links, who, pending>>
    BY <1>8 DEF AssignSeat
  <2>2. p # ServerPeer
    BY SeatAssumption
  <2>3. [owner |-> p, seat |-> label] \in Body
    BY DEF Body, Owner
  <2>4. SeatTypeOK'
    BY <1>1, <1>2, <2>1, <2>3 DEF SeatTypeOK
  <2>5. GenerationsAreApart'
    BY <1>1, <2>1 DEF SeatTypeOK, GenerationsAreApart
  <2>6. BodiesFollowTheGame'
    BY <1>1, <2>1, <2>2 DEF SeatTypeOK, GenerationsAreApart, BodiesFollowTheGame
  <2>7. QED
    BY <2>4, <2>5, <2>6
<1>9. ASSUME NEW p \in Peers, NEW label \in Labels, ReleaseSeatOf(p, label)
      PROVE  SeatTypeOK' /\ GenerationsAreApart' /\ BodiesFollowTheGame'
  <2>1. /\ \A b \in Bodies : bodies'[b] \in {bodies[b], Released}
        /\ bodies' = [b \in Bodies |-> bodies'[b]]
        /\ UNCHANGED <<policy, links, who, pending, given>>
    BY <1>9 DEF ReleaseSeatOf, Released
  <2>2. Released \in Body
    BY SeatAssumption DEF Released, Body, Owner
  <2>3. bodies' \in [Bodies -> Body]
    BY <1>1, <2>1, <2>2 DEF SeatTypeOK
  <2>4. SeatTypeOK' /\ GenerationsAreApart'
    BY <1>1, <1>2, <2>1, <2>3 DEF SeatTypeOK, GenerationsAreApart
  <2>5. BodiesFollowTheGame'
    BY <1>1, <2>1 DEF BodiesFollowTheGame, Released
  <2>6. QED
    BY <2>4, <2>5
<1>10. ASSUME NEW rule \in Policies, SetSeatReleasePolicy(rule)
       PROVE  SeatTypeOK' /\ GenerationsAreApart' /\ BodiesFollowTheGame'
  <2>1. policy' = rule /\ UNCHANGED <<links, who, bodies, pending, given>>
    BY <1>10 DEF SetSeatReleasePolicy
  <2>2. QED
    BY <1>1, <1>2, <2>1, SeatAssumption
    DEF SeatTypeOK, GenerationsAreApart, BodiesFollowTheGame
<1>11. QED
  BY <1>5, <1>6, <1>7, <1>8, <1>9, <1>10

(* Every step keeps the inductive invariant.                               *)
LEMMA SeatStepKeeps == SeatInv /\ [SeatNext]_seatVars => SeatInv'
<1> SUFFICES ASSUME SeatInv, [SeatNext]_seatVars PROVE SeatInv'
  OBVIOUS
<1>1. CASE TickFrame
  BY <1>1, TickFrameKeeps
<1>2. CASE ReadSeats
  BY <1>2, ReadSeatsKeeps
<1>3. CASE \/ IdleFrame
           \/ \E p \in Peers, s \in Identities \cup {NoIdentity} : Connect(p, s)
           \/ \E p \in Peers, grace \in BOOLEAN : Disconnect(p, grace)
           \/ \E b \in Bodies, p \in Peers, label \in Labels : AssignSeat(b, p, label)
           \/ \E p \in Peers, label \in Labels : ReleaseSeatOf(p, label)
           \/ \E rule \in Policies : SetSeatReleasePolicy(rule)
  BY <1>3, OthersKeep
<1>4. CASE UNCHANGED seatVars
  BY <1>4 DEF seatVars, SeatInv, SeatTypeOK, GenerationsAreApart, BodiesFollowTheGame,
              RostersAgree, WireEndsInTheRoster
<1>5. QED
  BY <1>1, <1>2, <1>3, <1>4 DEF SeatNext

-----------------------------------------------------------------------------
(* The theorems.                                                           *)

(* The inductive invariant holds throughout.                               *)
THEOREM SeatInvariance == SeatSpec => []SeatInv
<1>1. QED
  BY SeatInitHolds, SeatStepKeeps, PTL DEF SeatSpec

(* The announced roster is the seats of the last scan, and a client that   *)
(* has read the whole stream was told the same seats.                      *)
THEOREM RostersAlwaysAgree == SeatSpec => []RostersAgree
<1>1. SeatInv => RostersAgree
  BY DEF SeatInv
<1>2. QED
  BY <1>1, SeatInvariance, PTL

(* The release the engine performs on its own, at a drain or at the end of *)
(* a window, never takes a body from a player who is connected, whoever    *)
(* has been given the id since.                                            *)
THEOREM ReleasesSpareTheLiving == SeatSpec => ReleaseSparesTheLiving
<1> DEFINE Spares == verbs' = verbs
                       => \A b \in Bodies : bodies'[b] # bodies[b] => given[b] \notin Connected
<1>1. ASSUME SeatInv, [SeatNext]_seatVars PROVE [Spares]_seatVars
  <2>1. CASE TickFrame \/ IdleFrame
    <3> SUFFICES ASSUME NEW b \in Bodies, bodies'[b] # bodies[b], given[b] \in Connected
                 PROVE  FALSE
      OBVIOUS
    <3>1. PICK p \in Peers : given[b] = links[p] /\ links[p] # 0
      BY DEF Connected
    <3>2. bodies'[b] = Released /\ ~PeerIsLive(bodies[b].owner)
      BY <1>1, <2>1, EngineReleases
    <3>3. bodies[b].owner \in {p, ServerPeer}
      BY <1>1, <3>1 DEF SeatInv, BodiesFollowTheGame
    <3>4. bodies[b].owner # p
      BY <3>1, <3>2 DEF PeerIsLive
    <3>5. bodies[b] = Released
      BY <1>1, <3>3, <3>4 DEF SeatInv, SeatTypeOK, BodiesFollowTheGame, Body, Released
    <3>6. QED
      BY <3>2, <3>5
  <2>2. CASE \/ ReadSeats
             \/ \E p \in Peers, s \in Identities \cup {NoIdentity} : Connect(p, s)
             \/ \E p \in Peers, grace \in BOOLEAN : Disconnect(p, grace)
    BY <2>2 DEF ReadSeats, Connect, Disconnect
  <2>3. CASE \/ \E b \in Bodies, p \in Peers, label \in Labels : AssignSeat(b, p, label)
             \/ \E p \in Peers, label \in Labels : ReleaseSeatOf(p, label)
             \/ \E rule \in Policies : SetSeatReleasePolicy(rule)
    BY <1>1, <2>3 DEF AssignSeat, ReleaseSeatOf, SetSeatReleasePolicy, SeatInv, SeatTypeOK
  <2>4. CASE UNCHANGED seatVars
    BY <2>4
  <2>5. QED
    BY <1>1, <2>1, <2>2, <2>3, <2>4 DEF SeatNext
<1>2. QED
  BY <1>1, SeatInvariance, PTL DEF SeatSpec, ReleaseSparesTheLiving

(* The frame that drains a queued release under the drop policy announces  *)
(* it: no seat of an id that is gone is left in the roster.                *)
THEOREM ReleasesAreAnnouncedAtOnce == SeatSpec => ReleaseIsAnnouncedAtOnce
<1> DEFINE Announces == pending # {} /\ pending' = {} /\ policy = "drop"
                          => \A p \in pending : PeerIsLive(p) \/ \A seat \in roster' : seat[1] # p
<1>1. ASSUME SeatInv, [SeatNext]_seatVars PROVE [Announces]_seatVars
  <2>1. CASE TickFrame
    <3> DEFINE drained == DrainSeatReleases(bodies)
    <3> SUFFICES ASSUME policy = "drop", NEW p \in pending, ~PeerIsLive(p),
                        NEW seat \in roster', seat[1] = p
                 PROVE  FALSE
      OBVIOUS
    <3>1. bodies \in [Bodies -> Body] /\ p \in Peers /\ p # ServerPeer
      BY <1>1, SeatAssumption DEF SeatInv, SeatTypeOK
    <3>2. /\ drained \in [Bodies -> Body]
          /\ \A b \in Bodies : /\ drained[b] \in {bodies[b], Released}
                               /\ bodies[b].owner = p => drained[b] = Released
      BY <3>1, DrainShape
    <3>3. seat \in SeatsOf(Scan(drained))
      BY <1>1, <2>1, TickFrameKeeps
    <3>4. PICK b \in Bodies : p = drained[b].owner
      BY <3>2, <3>3, ScanShape
    <3>5. QED
      <4> HIDE DEF drained
      <4>1. QED
        BY <3>1, <3>2, <3>4 DEF Released
  <2>2. CASE \/ IdleFrame \/ ReadSeats
             \/ \E p \in Peers, s \in Identities \cup {NoIdentity} : Connect(p, s)
    BY <2>2 DEF IdleFrame, ReadSeats, Connect
  <2>3. ASSUME NEW p \in Peers, NEW grace \in BOOLEAN, Disconnect(p, grace) PROVE Announces
    <3>1. pending \subseteq pending'
      BY <2>3 DEF Disconnect
    <3>2. QED
      BY <3>1
  <2>4. CASE \/ \E b \in Bodies, p \in Peers, label \in Labels : AssignSeat(b, p, label)
             \/ \E p \in Peers, label \in Labels : ReleaseSeatOf(p, label)
             \/ \E rule \in Policies : SetSeatReleasePolicy(rule)
    BY <2>4 DEF AssignSeat, ReleaseSeatOf, SetSeatReleasePolicy
  <2>5. CASE UNCHANGED seatVars
    BY <2>5
  <2>6. QED
    BY <1>1, <2>1, <2>2, <2>3, <2>4, <2>5 DEF SeatNext
<1>2. QED
  BY <1>1, SeatInvariance, PTL DEF SeatSpec, ReleaseIsAnnouncedAtOnce

-----------------------------------------------------------------------------
(* The parts together.                                                     *)

(* A behaviour of the simulated world is, seen from any of its parts, a    *)
(* behaviour of that part: what is proved of the rollback, of the seats or *)
(* of the interest filter holds wherever the world's runs go.              *)
THEOREM WorldIsItsParts == MCSpec => Spec /\ SeatSpec /\ FilterSpec
<1>1. MCInit => Init /\ SeatInit /\ FilterInit
  BY DEF MCInit, RollbackIdle, SeatIdle, FilterIdle
<1>2. [MCNext]_<<part, vars, seatVars, filterVars>>
        => [Next]_vars /\ [SeatNext]_seatVars /\ [FilterNext]_filterVars
  BY DEF MCNext
<1>3. QED
  BY <1>1, <1>2, PTL DEF MCSpec, Spec, SeatSpec, FilterSpec

(* AnnouncementsAddUp: a roster replayed from its announcements is the     *)
(* roster of seats, and an interest set replayed from its enter and leave  *)
(* events is the set of the last pass.                                     *)
THEOREM AnnouncementsAlwaysAddUp == MCSpec => []AnnouncementsAddUp
<1>1. RostersAgree /\ EventsAddUp => AnnouncementsAddUp
  BY DEF AnnouncementsAddUp
<1>2. QED
  BY <1>1, WorldIsItsParts, RostersAlwaysAgree, EventsAlwaysAddUp, PTL

(* FilterPathsAgree: the grid path and the flat path of update_interest    *)
(* give every connection the same sets.                                    *)
THEOREM FilterPathsAlwaysAgree == MCSpec => []FilterPathsAgree
<1>1. PathsAgree => FilterPathsAgree
  BY DEF FilterPathsAgree
<1>2. QED
  BY <1>1, WorldIsItsParts, PathsAlwaysAgree, PTL

=============================================================================
