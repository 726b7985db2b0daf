---------------------------- MODULE StateLaneProofs ----------------------------
(***************************************************************************)
(* Proofs about StateLane, for any entities, rows, ring span, log depth    *)
(* and schedule of losses: the records keep their shape, every row a       *)
(* client decodes is the row the server captured, a decoded row is kept    *)
(* until the ring has moved past it, and a base counted as proven rests on *)
(* a block that reached the client.  Then about Binding, for any bodies,   *)
(* hooks and float widths: a half survives its round trip, a row lands     *)
(* whole by hook or by walk, and what a peer reads of a row is what the    *)
(* sender stored.                                                          *)
(***************************************************************************)
EXTENDS StateLane, Binding, SequenceTheorems, FiniteSetTheorems, WellFoundedInduction, TLAPS

-----------------------------------------------------------------------------
(* What the safety properties rest on.                                     *)

\* The server captured a row of e at tick t.
Captured(e, t) == t \in 1..tick /\ rows[e][t] \in Row

\* The sent log and the bases name ticks at which every row was captured.
PastIsCaptured ==
    /\ \A f \in peer.log : f.tick \in 1..tick /\ \A e \in Entity : Captured(e, f.tick)
    /\ \A e \in Entity : peer.base[e] # NoTick => Captured(e, peer.base[e])

\* Laid over the row of its base, a block gives the row of its tick.
BlockIsTrue(e, t, b) ==
    /\ Captured(e, t)
    /\ b.base = NoTick => b.set = rows[e][t]
    /\ b.base # NoTick => /\ Captured(e, b.base)
                          /\ ApplyMasked(b.set, rows[e][b.base]) = rows[e][t]

BlocksAreTrue == \A d \in down : \A e \in DOMAIN d.blocks : BlockIsTrue(e, d.tick, d.blocks[e])

HeldIsTrue ==
    \A e \in Entity : \A r \in client.held[e] :
      Captured(e, r.tick) /\ r.row = rows[e][r.tick]

Truth == PastIsCaptured /\ BlocksAreTrue /\ HeldIsTrue

\* Nothing was decoded for a tick past the one the entity shows.
DecodedIsPast == \A e \in Entity : \A t \in client.decoded[e] : t <= client.latest[e]

Kept == DecodedIsPast /\ DecodedIsKept

\* An acknowledgment names ticks the server has sent, and of those that went
\* out whole every block has reached the client.
AckIsTrue(acked) ==
    /\ acked \subseteq 0..tick
    /\ \A f \in peer.log : f.tick \in acked /\ ~f.split =>
          \A e \in f.ents : f.tick \in client.heard[e]

AcksAreTrue ==
    /\ AckIsTrue({client.newest} \cup client.bits)
    /\ \A m \in up : AckIsTrue({m.ack} \cup m.bits)

\* A datagram of a tick that went out whole carries all that tick carried.
WholeIsWhole ==
    \A d \in down, f \in peer.log :
      f.tick = d.tick /\ ~f.split => f.ents \subseteq DOMAIN d.blocks

AcksProve == AcksAreTrue /\ WholeIsWhole /\ ProvenBaseArrived

InductiveInv == TypeOK /\ Truth /\ Kept /\ AcksProve

-----------------------------------------------------------------------------
(* Numbers and finite sets.                                                *)

(* A nonempty set of naturals has a least member.                          *)
LEMMA LeastNatural ==
    ASSUME NEW S \in SUBSET Nat, S # {}
    PROVE  \E x \in S : \A y \in S : x <= y
<1>1. PICK x \in S : \A y \in S : ~(<<y, x>> \in OpToRel(<, Nat))
  BY NatLessThanWellFounded, WFMin
<1>2. \A y \in S : ~(y < x)
  BY <1>1 DEF OpToRel
<1>3. QED
  BY <1>2

(* A nonempty set of naturals under a bound has a greatest member.         *)
LEMMA GreatestNatural ==
    ASSUME NEW S \in SUBSET Nat, S # {}, NEW n \in Nat, \A x \in S : x <= n
    PROVE  \E x \in S : \A y \in S : y <= x
<1> DEFINE D == {n - x : x \in S}
<1>0. \A x \in S : n - x \in Nat
  OBVIOUS
<1>1. D \in SUBSET Nat /\ D # {}
  BY <1>0
<1>2. PICK d \in D : \A y \in D : d <= y
  BY <1>1, LeastNatural
<1>3. PICK x \in S : d = n - x
  BY <1>2
<1>4. \A y \in S : n - x <= n - y
  BY <1>2, <1>3
<1>5. QED
  BY <1>4

(* A natural is the divisor times the quotient plus the remainder.         *)
LEMMA Division ==
    ASSUME NEW S \in Nat \ {0}, NEW a \in Nat
    PROVE  /\ a = S * (a \div S) + (a % S)
           /\ a \div S \in Nat
           /\ a % S \in 0..(S - 1)
  BY SMT

(* Multiples of S by different factors are at least S apart.               *)
LEMMA MultiplesAreApart ==
    ASSUME NEW S \in Nat \ {0}, NEW q \in Int, NEW r \in Int, q # r
    PROVE  S * q - S * r >= S \/ S * r - S * q >= S
<1>1. CASE q > r
  <2>1. S * (q - r) >= S * 1
    BY <1>1, SMT
  <2>2. S * (q - r) = S * q - S * r
    BY SMT
  <2>3. QED
    BY <2>1, <2>2
<1>2. CASE q < r
  <2>1. S * (r - q) >= S * 1
    BY <1>2, SMT
  <2>2. S * (r - q) = S * r - S * q
    BY SMT
  <2>3. QED
    BY <2>1, <2>2
<1>3. QED
  BY <1>1, <1>2

(* Two ticks that share a slot of a ring of S rows are the same tick, or   *)
(* at least S apart.                                                       *)
LEMMA SlotsAreApart ==
    ASSUME NEW S \in Nat \ {0}, NEW a \in Nat, NEW b \in Nat,
           a % S = b % S, a < b + S, b < a + S
    PROVE  a = b
<1> DEFINE x == S * (a \div S)
           y == S * (b \div S)
<1>1. /\ a = x + (a % S) /\ a \div S \in Int /\ a % S \in Int
      /\ b = y + (b % S) /\ b \div S \in Int /\ b % S \in Int
  BY Division
<1>2. CASE (a \div S) # (b \div S)
  <2>1. x - y >= S \/ y - x >= S
    BY <1>1, <1>2, MultiplesAreApart
  <2>2. x \in Int /\ y \in Int
    BY <1>1
  <2>3. QED
    <3> HIDE DEF x, y
    <3>1. QED
      BY <1>1, <2>1, <2>2
<1>3. QED
  BY <1>1, <1>2

-----------------------------------------------------------------------------
(* Shapes of what the actions build.                                       *)

(* The log, trimmed, is a finite part of what it was and within its depth. *)
LEMMA TrimLogShape ==
    ASSUME NEW log \in SUBSET LoggedFrame, IsFiniteSet(log),
           Cardinality(log) <= LogDepth + 1
    PROVE  /\ TrimLog(log) \subseteq log
           /\ IsFiniteSet(TrimLog(log))
           /\ Cardinality(TrimLog(log)) <= LogDepth
<1>1. LogDepth \in Nat
  BY LaneAssumption
<1>2. Cardinality(log) \in Nat
  BY FS_CardinalityType
<1>3. CASE ~(Cardinality(log) > LogDepth)
  BY <1>1, <1>2, <1>3 DEF TrimLog
<1>4. CASE Cardinality(log) > LogDepth
  <2> DEFINE rest == {f \in log : \E g \in log : g.tick < f.tick}
  <2>1. TrimLog(log) = rest /\ rest \in SUBSET log
    BY <1>4 DEF TrimLog
  <2>2. log # {}
    BY <1>1, <1>4, FS_EmptySet
  <2>3. {f.tick : f \in log} \in SUBSET Nat /\ {f.tick : f \in log} # {}
    BY <2>2 DEF LoggedFrame
  <2>4. PICK t \in {f.tick : f \in log} : \A y \in {f.tick : f \in log} : t <= y
    BY <2>3, LeastNatural
  <2>5. PICK f \in log : f.tick = t
    BY <2>4
  <2>6. \A g \in log : g.tick \in Nat /\ f.tick <= g.tick
    BY <2>4, <2>5 DEF LoggedFrame
  <2>7. f \notin rest
    BY <2>6
  <2>8. /\ IsFiniteSet(rest)
        /\ Cardinality(rest) <= Cardinality(log)
        /\ Cardinality(log) = Cardinality(rest) => log = rest
    BY <2>1, FS_Subset
  <2>9. Cardinality(rest) \in Nat
    BY <2>8, FS_CardinalityType
  <2>10. Cardinality(rest) # Cardinality(log)
    BY <2>7, <2>8
  <2>11. Cardinality(rest) <= LogDepth
    BY <1>1, <1>2, <2>8, <2>9, <2>10
  <2>12. QED
    BY <2>1, <2>8, <2>11
<1>5. QED
  BY <1>3, <1>4

(* note_sent_frame touches the log only, keeps it finite and within its    *)
(* depth, and adds one frame to it.                                        *)
LEMMA NoteSentFrameShape ==
    ASSUME NEW p \in PeerState, IsFiniteSet(p.log), Cardinality(p.log) <= LogDepth,
           NEW now \in Nat, NEW datagrams \in SUBSET SUBSET Entity
    PROVE  LET q == NoteSentFrame(p, now, datagrams)
               sent == [tick |-> now, ents |-> UNION datagrams,
                        split |-> Cardinality(datagrams) > 1]
           IN  /\ q = [p EXCEPT !.log = q.log]
               /\ q \in PeerState
               /\ q.log \subseteq p.log \cup {sent}
               /\ datagrams = {} => q.log = p.log
               /\ IsFiniteSet(q.log) /\ Cardinality(q.log) <= LogDepth
<1> DEFINE sent == [tick |-> now, ents |-> UNION datagrams,
                    split |-> Cardinality(datagrams) > 1]
           log == p.log \cup {sent}
           q == NoteSentFrame(p, now, datagrams)
<1>1. CASE datagrams = {}
  <2>1. q = p
    BY <1>1 DEF NoteSentFrame
  <2>2. p = [p EXCEPT !.log = p.log]
    BY DEF PeerState
  <2>3. QED
    BY <1>1, <2>1, <2>2
<1>2. CASE datagrams # {}
  <2>1. (Cardinality(datagrams) > 1) \in BOOLEAN
    OBVIOUS
  <2>2. sent \in LoggedFrame
    BY <2>1 DEF LoggedFrame
  <2>3. log \in SUBSET LoggedFrame
    BY <2>2 DEF PeerState
  <2>4. /\ Cardinality(p.log) \in Nat /\ LogDepth \in Nat
        /\ IsFiniteSet(log)
        /\ Cardinality(log) = IF sent \in p.log THEN Cardinality(p.log)
                                                ELSE Cardinality(p.log) + 1
    BY FS_CardinalityType, FS_AddElement, LaneAssumption
  <2>5. Cardinality(log) <= LogDepth + 1
    BY <2>4
  <2>6. /\ TrimLog(log) \subseteq log
        /\ IsFiniteSet(TrimLog(log))
        /\ Cardinality(TrimLog(log)) <= LogDepth
    BY <2>3, <2>4, <2>5, TrimLogShape
  <2>7. q = [p EXCEPT !.log = TrimLog(log)]
    BY <1>2 DEF NoteSentFrame
  <2>8. q.log = TrimLog(log)
    BY <2>7 DEF PeerState
  <2>9. TrimLog(log) \in SUBSET LoggedFrame
    BY <2>3, <2>6
  <2>10. q \in PeerState
    <3> HIDE DEF log, sent
    <3>1. QED
      BY <2>7, <2>9 DEF PeerState
  <2>11. QED
    BY <1>2, <2>6, <2>7, <2>8, <2>10
<1>3. QED
  BY <1>1, <1>2

(* The newest of the confirmed frames that carried an entity is one of     *)
(* them.                                                                   *)
LEMMA NewestFrameShape ==
    ASSUME NEW frames \in SUBSET LoggedFrame, frames # {}, NEW n \in Nat,
           \A f \in frames : f.tick <= n
    PROVE  /\ NewestFrame(frames) \in frames
           /\ \A g \in frames : g.tick <= NewestFrame(frames).tick
<1> DEFINE T == {f.tick : f \in frames}
<1>1. T \in SUBSET Nat /\ T # {} /\ \A t \in T : t <= n
  BY DEF LoggedFrame
<1>2. PICK t \in T : \A u \in T : u <= t
  BY <1>1, GreatestNatural
<1>3. PICK f \in frames : f.tick = t
  BY <1>2
<1>4. \A g \in frames : g.tick <= f.tick
  BY <1>2, <1>3
<1>5. QED
  BY <1>4 DEF NewestFrame

(* consume_ack drops frames from the log; an entity keeps its base and the *)
(* standing of it, or takes both from one confirmed frame that carried it. *)
LEMMA ConsumeAckShape ==
    ASSUME NEW p \in PeerState, IsFiniteSet(p.log), Cardinality(p.log) <= LogDepth,
           NEW n \in Nat, \A f \in p.log : f.tick <= n,
           NEW ack \in Nat, NEW bits \in SUBSET Nat
    PROVE  LET q == ConsumeAck(p, ack, bits)
           IN  /\ q \in PeerState
               /\ q.log \subseteq p.log
               /\ IsFiniteSet(q.log) /\ Cardinality(q.log) <= LogDepth
               /\ \A e \in Entity :
                    \/ /\ q.base[e] = p.base[e]
                       /\ e \in q.unproven <=> e \in p.unproven
                    \/ /\ ack # 0
                       /\ \E f \in Promoting(p.log, ack, bits, e) :
                            q.base[e] = f.tick /\ (e \in q.unproven <=> f.split)
<1> DEFINE q == ConsumeAck(p, ack, bits)
           from(e) == Promoting(p.log, ack, bits, e)
           last(e) == NewestFrame(from(e))
           promoted == {e \in Entity : from(e) # {} /\ last(e).tick >= p.base[e]}
           newest == IF ack > p.newestAck THEN ack ELSE p.newestAck
           log == {f \in p.log : ~Confirmed(f, ack, bits) /\ f.tick + AckWindow >= newest}
           base == [e \in Entity |-> IF e \in promoted THEN last(e).tick ELSE p.base[e]]
           unproven == (p.unproven \ promoted) \cup {e \in promoted : last(e).split}
<1>1. CASE ack = 0
  <2>1. q = p
    BY <1>1 DEF ConsumeAck
  <2>2. QED
    BY <2>1
<1>2. CASE ack # 0
  <2>1. q = [p EXCEPT !.newestAck = newest, !.log = log, !.base = base,
                      !.unproven = unproven]
    BY <1>2 DEF ConsumeAck
  <2>2. \A e \in Entity : from(e) \in SUBSET p.log /\ from(e) \in SUBSET LoggedFrame
    BY DEF Promoting, PeerState
  <2>3. \A e \in promoted : last(e) \in from(e) /\ last(e) \in LoggedFrame
    BY <2>2, NewestFrameShape
  <2>4. newest \in Nat /\ log \in SUBSET p.log /\ log \in SUBSET LoggedFrame
    BY DEF PeerState
  <2>5. base \in [Entity -> Nat]
    BY <2>3 DEF PeerState, LoggedFrame
  <2>6. unproven \in SUBSET Entity
    BY DEF PeerState
  <2>7. /\ q.log = log /\ q.base = base /\ q.unproven = unproven
        /\ q \in PeerState
    <3> HIDE DEF newest, log, base, unproven
    <3>1. QED
      BY <2>1, <2>4, <2>5, <2>6 DEF PeerState
  <2>8. IsFiniteSet(log) /\ Cardinality(log) <= Cardinality(p.log)
    BY <2>4, FS_Subset
  <2>9. Cardinality(log) \in Nat /\ Cardinality(p.log) \in Nat /\ LogDepth \in Nat
    BY <2>8, FS_CardinalityType, LaneAssumption
  <2>10. Cardinality(log) <= LogDepth
    BY <2>8, <2>9
  <2>11. ASSUME NEW e \in Entity
         PROVE  \/ /\ q.base[e] = p.base[e]
                   /\ e \in q.unproven <=> e \in p.unproven
                \/ /\ ack # 0
                   /\ \E f \in from(e) :
                        q.base[e] = f.tick /\ (e \in q.unproven <=> f.split)
    <3>1. CASE e \in promoted
      <4>1. q.base[e] = last(e).tick /\ (e \in q.unproven <=> last(e).split)
        BY <2>7, <3>1
      <4>2. QED
        BY <1>2, <2>3, <3>1, <4>1
    <3>2. CASE e \notin promoted
      <4>1. q.base[e] = p.base[e] /\ (e \in q.unproven <=> e \in p.unproven)
        BY <2>7, <3>2
      <4>2. QED
        BY <4>1
    <3>3. QED
      BY <3>1, <3>2
  <2>12. QED
    <3> HIDE DEF log, base, unproven
    <3>1. QED
      BY <2>4, <2>7, <2>8, <2>10, <2>11
<1>3. QED
  BY <1>1, <1>2

(* note_nack forgets every base, and leaves the log alone.                 *)
LEMMA NoteNackShape ==
    ASSUME NEW p \in PeerState
    PROVE  LET q == NoteNack(p)
           IN  /\ q \in PeerState
               /\ q.log = p.log /\ q.lastFull = p.lastFull
               /\ \A e \in Entity : q.base[e] = NoTick
  BY DEF NoteNack, PeerState, NoTick

(* forget_entity forgets one base, and leaves the log alone.               *)
LEMMA ForgetEntityShape ==
    ASSUME NEW p \in PeerState, NEW e \in Entity
    PROVE  LET q == ForgetEntity(p, e)
           IN  /\ q \in PeerState
               /\ q.log = p.log
               /\ \A x \in Entity : \/ q.base[x] = NoTick
                                    \/ /\ q.base[x] = p.base[x]
                                       /\ x \in q.unproven <=> x \in p.unproven
<1> DEFINE q == ForgetEntity(p, e)
           lastFull == [p.lastFull EXCEPT ![e] = NoTick]
           base == [p.base EXCEPT ![e] = NoTick]
           unproven == p.unproven \ {e}
<1>1. q = [p EXCEPT !.lastFull = lastFull, !.base = base, !.unproven = unproven]
  BY DEF ForgetEntity
<1>2. /\ lastFull \in [Entity -> Nat] /\ base \in [Entity -> Nat]
      /\ unproven \in SUBSET Entity
  BY DEF PeerState, NoTick
<1>3. /\ q.log = p.log /\ q.base = base /\ q.unproven = unproven
      /\ q \in PeerState
  <2> HIDE DEF lastFull, base, unproven
  <2>1. QED
    BY <1>1, <1>2 DEF PeerState
<1>4. ASSUME NEW x \in Entity
      PROVE  \/ base[x] = NoTick
             \/ base[x] = p.base[x] /\ (x \in unproven <=> x \in p.unproven)
  BY DEF PeerState
<1>5. QED
  <2> HIDE DEF base, unproven
  <2>1. QED
    BY <1>3, <1>4

(* A block is well formed; laid over the row of its base it gives the row  *)
(* the entity has now.                                                     *)
LEMMA EncodeShape ==
    ASSUME TypeOK, PastIsCaptured, NEW e \in Entity, NEW now \in Nat
    PROVE  LET b == EncodedBlock(peer, e, now)
           IN  /\ IsBlock(b)
               /\ b.base = NoTick => b.set = value[e]
               /\ b.base # NoTick => /\ Captured(e, b.base)
                                     /\ ApplyMasked(b.set, rows[e][b.base]) = value[e]
<1> DEFINE b == EncodedBlock(peer, e, now)
           ref == Reference(peer, e, now)
           mask == {c \in Channel : ref # NoTick => rows[e][ref][c] # value[e][c]}
<1>1. b = [base |-> ref, set |-> [c \in mask |-> value[e][c]]]
  BY DEF EncodedBlock
<1>2. b.base = ref /\ b.set = [c \in mask |-> value[e][c]]
  BY <1>1
<1>3. value[e] \in Row /\ value[e] = [c \in Channel |-> value[e][c]]
  BY DEF TypeOK, Row
<1>4. ref \in Nat /\ (ref # NoTick => Captured(e, ref))
  BY DEF Reference, PastIsCaptured, TypeOK, PeerState, NoTick
<1>5. CASE ref = NoTick
  <2>1. mask = Channel
    BY <1>5
  <2>2. b.set = value[e]
    BY <1>2, <1>3, <2>1
  <2>3. IsBlock(b)
    BY <1>2, <1>3, <1>5, <2>2 DEF IsBlock, NoTick, Row
  <2>4. QED
    BY <1>2, <1>5, <2>2, <2>3
<1>6. CASE ref # NoTick
  <2>1. DOMAIN b.set = mask /\ \A c \in mask : b.set[c] = value[e][c]
    BY <1>2
  <2>2. IsBlock(b)
    BY <1>2, <1>3, <1>4, <1>6, <2>1 DEF IsBlock, Row
  <2>3. \A c \in Channel : c \notin mask => rows[e][ref][c] = value[e][c]
    BY <1>6
  <2>4. ApplyMasked(b.set, rows[e][ref]) = [c \in Channel |-> value[e][c]]
    BY <2>1, <2>3 DEF ApplyMasked
  <2>5. QED
    BY <1>2, <1>3, <1>4, <1>6, <2>2, <2>4
<1>7. QED
  BY <1>5, <1>6

(* A block that states the truth over a ring that holds the truth decodes  *)
(* to the row the server captured, or not at all.                          *)
LEMMA DecodeShape ==
    ASSUME TypeOK, HeldIsTrue, NEW e \in Entity, NEW t, NEW b, BlockIsTrue(e, t, b)
    PROVE  LET v == Decode(client.held[e], b)
           IN  v # NoRow => v \in Row /\ v = rows[e][t]
<1> DEFINE ring == client.held[e]
           bases == {r \in ring : r.tick = b.base}
           v == Decode(ring, b)
<1>1. rows[e][t] \in Row
  BY DEF BlockIsTrue, Captured
<1>2. CASE b.base = NoTick
  BY <1>1, <1>2 DEF BlockIsTrue, Decode
<1>3. CASE b.base # NoTick /\ bases = {}
  BY <1>3 DEF Decode
<1>4. CASE b.base # NoTick /\ bases # {}
  <2> DEFINE r == CHOOSE r \in bases : TRUE
  <2>1. r \in bases
    BY <1>4
  <2>2. r.tick = b.base /\ r.row = rows[e][b.base]
    BY <2>1 DEF HeldIsTrue
  <2>3. v = ApplyMasked(b.set, r.row)
    BY <1>4 DEF Decode
  <2>4. QED
    BY <1>1, <1>4, <2>2, <2>3 DEF BlockIsTrue
<1>5. QED
  BY <1>2, <1>3, <1>4

(* What a block leaves in the ring is what was there, and its own row.     *)
LEMMA ApplyShape ==
    ASSUME TypeOK, HeldIsTrue, NEW e \in Entity, NEW t \in Nat, NEW b, BlockIsTrue(e, t, b)
    PROVE  LET a == ApplyStateBlock(client, e, t, b)
           IN  /\ a.held \subseteq client.held[e] \cup {[tick |-> t, row |-> rows[e][t]]}
               /\ a.held \in SUBSET Held
               /\ a.latest \in Nat
<1> DEFINE ring == client.held[e]
           latest == client.latest[e]
           v == Decode(ring, b)
           a == ApplyStateBlock(client, e, t, b)
<1>1. ring \in SUBSET Held /\ latest \in Nat
  BY DEF TypeOK, ClientState
<1>2. /\ a.held = IF v = NoRow THEN ring ELSE WriteRow(ring, latest, t, v)
      /\ a.latest = IF v = NoRow \/ t <= latest THEN latest ELSE t
  BY DEF ApplyStateBlock
<1>3. v # NoRow => v \in Row /\ v = rows[e][t]
  BY DecodeShape
<1>4. v # NoRow => [tick |-> t, row |-> v] \in Held
  BY <1>3 DEF Held
<1>5. WriteRow(ring, latest, t, v) \subseteq ring \cup {[tick |-> t, row |-> v]}
  BY DEF WriteRow
<1>6. QED
  <2> HIDE DEF a, v, ring, latest
  <2>1. a.held \subseteq ring \cup {[tick |-> t, row |-> rows[e][t]]} /\ a.held \in SUBSET Held
    BY <1>1, <1>2, <1>3, <1>4, <1>5
  <2>2. a.latest \in Nat
    BY <1>1, <1>2
  <2>3. QED
    BY <2>1, <2>2 DEF a, ring

(* A decoded block is in the ring afterwards if the ring still reaches its *)
(* tick, and pushes out no row the ring still reaches.                     *)
LEMMA ApplyKeeps ==
    ASSUME TypeOK, NEW e \in Entity, NEW t \in Nat, NEW b,
           Decode(client.held[e], b) # NoRow
    PROVE  LET a == ApplyStateBlock(client, e, t, b)
           IN  /\ a.latest = IF t <= client.latest[e] THEN client.latest[e] ELSE t
               /\ t + Span > a.latest => \E r \in a.held : r.tick = t
               /\ \A s \in Nat :
                    /\ s <= client.latest[e] /\ s + Span > a.latest
                    /\ \E r \in client.held[e] : r.tick = s
                    => \E r \in a.held : r.tick = s
<1> DEFINE ring == client.held[e]
           latest == client.latest[e]
           v == Decode(ring, b)
           a == ApplyStateBlock(client, e, t, b)
           fresh == [tick |-> t, row |-> v]
<1>1. ring \in SUBSET Held /\ latest \in Nat /\ Span \in Nat \ {0}
  BY LaneAssumption DEF TypeOK, ClientState
<1>2. /\ a.held = WriteRow(ring, latest, t, v)
      /\ a.latest = IF t <= latest THEN latest ELSE t
  BY DEF ApplyStateBlock
<1>3. CASE t + Span <= latest
  <2>1. a.held = ring /\ a.latest = latest
    BY <1>1, <1>2, <1>3 DEF WriteRow
  <2>2. ~(t + Span > a.latest)
    BY <1>1, <1>3, <2>1
  <2>3. QED
    BY <1>2, <2>1, <2>2
<1>4. CASE ~(t + Span <= latest)
  <2>1. a.held = {r \in ring : r.tick % Span # t % Span} \cup {fresh}
    BY <1>2, <1>4 DEF WriteRow
  <2>2. fresh \in a.held /\ fresh.tick = t
    BY <2>1
  <2>3. ASSUME NEW s \in Nat, s <= latest, s + Span > a.latest,
               NEW r \in ring, r.tick = s
        PROVE  \E x \in a.held : x.tick = s
    <3>1. CASE s % Span # t % Span
      BY <2>1, <2>3, <3>1
    <3>2. CASE s % Span = t % Span
      <4>1. t < s + Span /\ s < t + Span
        BY <1>1, <1>2, <1>4, <2>3
      <4>2. s = t
        BY <1>1, <3>2, <4>1, SlotsAreApart
      <4>3. QED
        BY <2>2, <4>2
    <3>3. QED
      BY <3>1, <3>2
  <2>4. QED
    BY <1>2, <2>2, <2>3
<1>5. QED
  BY <1>3, <1>4

\* What a flush does: the rows it captures, the datagrams it sends, each a set
\* of entities, and the frame it files.
Flushed(now, datagrams) ==
    /\ IsFiniteSet(datagrams)
    /\ now = tick' /\ now > tick
    /\ rows' \in [Entity -> [1..now -> Row \cup {NoRow}]]
    /\ \A e \in Entity : /\ rows'[e][now] = value[e]
                         /\ \A t \in 1..tick : rows'[e][t] = rows[e][t]
    /\ \A d \in down' \ down :
         /\ d.tick = now
         /\ DOMAIN d.blocks \in datagrams
         /\ \A e \in DOMAIN d.blocks : d.blocks[e] = EncodedBlock(peer, e, now)
    /\ peer' \in PeerState
    /\ peer'.log \subseteq
         peer.log \cup {[tick |-> now, ents |-> UNION datagrams,
                         split |-> Cardinality(datagrams) > 1]}
    /\ datagrams = {} => peer'.log = peer.log
    /\ IsFiniteSet(peer'.log) /\ Cardinality(peer'.log) <= LogDepth
    /\ peer'.base = peer.base /\ peer'.unproven = peer.unproven

(* What a flush sends, files and captures, as sets of entities.            *)
LEMMA FlushShape ==
    ASSUME TypeOK, NEW k \in Strides, NEW deal \in [Entity -> 0..k], ServerFlush(k, deal)
    PROVE  \E now \in Nat, datagrams \in SUBSET SUBSET Entity : Flushed(now, datagrams)
<1> DEFINE now == tick + k
           block(e) == EncodedBlock(peer, e, now)
           offered == {e \in members : SendPhase(e, now, Tier[e]) /\ deal[e] # 0}
           written == {e \in offered : ~BlockIsUnWritten(peer, e, block(e))}
           carried(i) == {e \in written : deal[e] = i}
           dealt == {carried(i) : i \in 1..k}
           datagrams == dealt \ {{}}
           full == {e \in written : block(e).base = NoTick}
           sent == NoteSentFrame(peer, now, datagrams)
           lastFull == [e \in Entity |-> IF e \in full THEN now ELSE sent.lastFull[e]]
<1>1. now \in Nat /\ now > tick /\ k \in Nat /\ tick \in Nat
  BY LaneAssumption DEF TypeOK
<1>2. tick' = now
  BY DEF ServerFlush
<1>3. members \subseteq Entity /\ peer \in PeerState /\ value \in [Entity -> Row]
      /\ IsFiniteSet(peer.log) /\ Cardinality(peer.log) <= LogDepth
      /\ rows \in [Entity -> [1..tick -> Row \cup {NoRow}]]
  BY DEF TypeOK
<1>4. datagrams \in SUBSET SUBSET Entity
  BY <1>3
<1>5. IsFiniteSet(datagrams)
  <2> DEFINE f == [i \in 1..k |-> carried(i)]
  <2>1. f \in Surjection(1..k, dealt)
    BY DEF Surjection
  <2>2. IsFiniteSet(1..k)
    BY <1>1, FS_Interval
  <2>3. IsFiniteSet(dealt)
    BY <2>1, <2>2, FS_Surjection
  <2>4. QED
    BY <2>3, FS_Difference
<1>6. rows' = [e \in Entity |-> [t \in 1..now |-> IF t <= tick THEN rows[e][t]
                                                  ELSE IF t = now THEN value[e]
                                                  ELSE NoRow]]
  BY DEF ServerFlush
<1>7. rows' \in [Entity -> [1..now -> Row \cup {NoRow}]]
  <2>1. ASSUME NEW e \in Entity, NEW t \in 1..now, t <= tick
        PROVE  rows[e][t] \in Row \cup {NoRow}
    BY <1>1, <1>3, <2>1
  <2>2. QED
    BY <1>3, <1>6, <2>1
<1>8. \A e \in Entity : /\ rows'[e][now] = value[e]
                        /\ \A t \in 1..tick : rows'[e][t] = rows[e][t]
  BY <1>1, <1>6
<1>9. ASSUME NEW d \in down' \ down
      PROVE  /\ d.tick = now
             /\ DOMAIN d.blocks \in datagrams
             /\ \A e \in DOMAIN d.blocks : d.blocks[e] = EncodedBlock(peer, e, now)
  <2>1. down' = down \cup {[tick |-> now, blocks |-> [e \in S |-> block(e)]] :
                             S \in datagrams}
    BY DEF ServerFlush
  <2>2. PICK S \in datagrams : d = [tick |-> now, blocks |-> [e \in S |-> block(e)]]
    <3> HIDE DEF datagrams, block, now
    <3>1. QED
      BY <1>9, <2>1
  <2>3. d.tick = now /\ d.blocks = [e \in S |-> block(e)]
    <3> HIDE DEF datagrams, block, now
    <3>1. QED
      BY <2>2
  <2>4. QED
    <3> HIDE DEF datagrams
    <3>1. QED
      BY <2>3
<1>10. /\ sent = [peer EXCEPT !.log = sent.log]
       /\ sent \in PeerState
       /\ IsFiniteSet(sent.log) /\ Cardinality(sent.log) <= LogDepth
       /\ sent.log \subseteq peer.log \cup {[tick |-> now, ents |-> UNION datagrams,
                                             split |-> Cardinality(datagrams) > 1]}
       /\ datagrams = {} => sent.log = peer.log
  <2>1. sent = NoteSentFrame(peer, now, datagrams)
    OBVIOUS
  <2> HIDE DEF datagrams, now, sent, lastFull
  <2>2. QED
    BY <1>1, <1>3, <1>4, <2>1, NoteSentFrameShape
<1>11. peer' = [sent EXCEPT !.wantFull = sent.wantFull /\ datagrams = {},
                            !.lastFull = lastFull]
  BY DEF ServerFlush
<1>12. lastFull \in [Entity -> Nat]
  <2> HIDE DEF sent, full, now
  <2>1. QED
    BY <1>1, <1>10 DEF PeerState
<1>13. /\ peer' \in PeerState
       /\ peer'.log = sent.log /\ peer'.base = sent.base /\ peer'.unproven = sent.unproven
  <2> HIDE DEF sent, datagrams, lastFull
  <2>1. QED
    BY <1>10, <1>11, <1>12 DEF PeerState
<1>14. sent.base = peer.base /\ sent.unproven = peer.unproven
  <2> HIDE DEF sent
  <2>1. QED
    BY <1>3, <1>10 DEF PeerState
<1>15. QED
  <2> HIDE DEF datagrams, now, sent
  <2>1. QED
    BY <1>1, <1>2, <1>4, <1>5, <1>7, <1>8, <1>9, <1>10, <1>13, <1>14 DEF Flushed

-----------------------------------------------------------------------------
(* The inductive invariant, action by action.                              *)

(* It holds at the start.                                                  *)
LEMMA InitHolds == Init => InductiveInv
<1> SUFFICES ASSUME Init PROVE InductiveInv
  OBVIOUS
<1>1. FreshPeer \in PeerState /\ FreshClient({}, 0) \in ClientState
  BY DEF FreshPeer, PeerState, FreshClient, ClientState, NoTick
<1>2. IsFiniteSet({}) /\ Cardinality({}) = 0 /\ LogDepth \in Nat
  BY FS_EmptySet, LaneAssumption
<1>3. rows \in [Entity -> [1..tick -> Row \cup {NoRow}]]
  BY DEF Init
<1>4. value \in [Entity -> Row]
  BY DEF Init, Row
<1>5. TypeOK
  BY <1>1, <1>2, <1>3, <1>4 DEF Init, TypeOK, FreshPeer, NoTick
<1>6. Truth
  BY DEF Init, Truth, PastIsCaptured, BlocksAreTrue, HeldIsTrue, FreshPeer, FreshClient, NoTick
<1>7. Kept
  BY DEF Init, Kept, DecodedIsPast, DecodedIsKept, FreshClient
<1>8. AcksProve
  BY DEF Init, AcksProve, AcksAreTrue, AckIsTrue, WholeIsWhole, ProvenBaseArrived,
         FreshPeer, FreshClient, NoTick
<1>9. QED
  BY <1>5, <1>6, <1>7, <1>8 DEF InductiveInv

(* A step that captures nothing, takes datagrams off the link, shortens    *)
(* the log, forgets bases and empties rings, and does not forget what      *)
(* arrived, leaves true what was true.                                     *)
LEMMA ForgettingKeeps ==
    ASSUME InductiveInv, TypeOK', tick' = tick, rows' = rows,
           down' \subseteq down, up' \subseteq up,
           peer'.log \subseteq peer.log,
           \A e \in Entity : \/ peer'.base[e] = NoTick
                             \/ /\ peer'.base[e] = peer.base[e]
                                /\ e \in peer'.unproven <=> e \in peer.unproven,
           \A e \in Entity : client'.held[e] \subseteq client.held[e],
           client'.heard = client.heard,
           {client'.newest} \cup client'.bits \subseteq {NoTick, client.newest} \cup client.bits
    PROVE  Truth' /\ AcksProve'
<1>1. PastIsCaptured'
  BY DEF InductiveInv, Truth, PastIsCaptured, Captured, TypeOK
<1>2. BlocksAreTrue'
  BY DEF InductiveInv, Truth, BlocksAreTrue, BlockIsTrue, Captured
<1>3. HeldIsTrue'
  BY DEF InductiveInv, Truth, HeldIsTrue, Captured
<1>4. \A f \in peer.log : \A e \in f.ents : f.tick # NoTick
  BY DEF InductiveInv, TypeOK, PeerState, LoggedFrame, Truth, PastIsCaptured, Captured, NoTick
<1>5. AckIsTrue({client.newest} \cup client.bits)'
  <2>1. {client'.newest} \cup client'.bits \subseteq 0..tick
    <3>1. NoTick \in 0..tick
      BY DEF InductiveInv, TypeOK, NoTick
    <3>2. {client.newest} \cup client.bits \subseteq 0..tick
      BY DEF InductiveInv, AcksProve, AcksAreTrue, AckIsTrue
    <3>3. QED
      BY <3>1, <3>2
  <2>2. ASSUME NEW f \in peer'.log, f.tick \in {client'.newest} \cup client'.bits, ~f.split,
               NEW e \in f.ents
        PROVE  f.tick \in client'.heard[e]
    <3>1. f.tick \in {client.newest} \cup client.bits
      BY <1>4, <2>2
    <3>2. QED
      BY <2>2, <3>1 DEF InductiveInv, AcksProve, AcksAreTrue, AckIsTrue
  <2>3. QED
    BY <2>1, <2>2 DEF AckIsTrue
<1>6. \A m \in up' : AckIsTrue({m.ack} \cup m.bits)'
  BY DEF InductiveInv, AcksProve, AcksAreTrue, AckIsTrue
<1>7. WholeIsWhole'
  BY DEF InductiveInv, AcksProve, WholeIsWhole
<1>8. ProvenBaseArrived'
  BY DEF InductiveInv, AcksProve, ProvenBaseArrived
<1>9. QED
  BY <1>1, <1>2, <1>3, <1>5, <1>6, <1>7, <1>8 DEF Truth, AcksProve, AcksAreTrue

(* ServerFlush: a frame is captured, sent and filed.                       *)
LEMMA FlushKeeps ==
    ASSUME InductiveInv, NEW k \in Strides, NEW deal \in [Entity -> 0..k],
           ServerFlush(k, deal)
    PROVE  InductiveInv'
<1>1. TypeOK /\ PastIsCaptured
  BY DEF InductiveInv, Truth
<1>2. PICK now \in Nat, datagrams \in SUBSET SUBSET Entity : Flushed(now, datagrams)
  BY <1>1, FlushShape
<1> USE DEF Flushed
<1> DEFINE sent == [tick |-> now, ents |-> UNION datagrams,
                    split |-> Cardinality(datagrams) > 1]
<1>3. UNCHANGED <<value, since, members, client, up, churn, losses>>
  BY DEF ServerFlush
<1>4. tick \in Nat /\ value \in [Entity -> Row]
  BY <1>1 DEF TypeOK
<1>5. peer'.log \subseteq peer.log \cup {sent} /\ (datagrams = {} => peer'.log = peer.log)
  BY <1>2
<1>6. \A e \in Entity : \A t : Captured(e, t) => Captured(e, t)' /\ rows'[e][t] = rows[e][t]
  BY <1>2, <1>4 DEF Captured
<1>7. \A e \in Entity : Captured(e, now)'
  BY <1>2, <1>4 DEF Captured
<1>8. ASSUME NEW d \in down' \ down, NEW e \in DOMAIN d.blocks
      PROVE  IsBlock(d.blocks[e]) /\ BlockIsTrue(e, d.tick, d.blocks[e])'
  <2>1. e \in Entity /\ d.tick = now /\ d.blocks[e] = EncodedBlock(peer, e, now)
    BY <1>2, <1>8
  <2>2. PICK b : b = d.blocks[e]
    OBVIOUS
  <2>3. /\ IsBlock(b)
        /\ b.base = NoTick => b.set = value[e]
        /\ b.base # NoTick => /\ Captured(e, b.base)
                              /\ ApplyMasked(b.set, rows[e][b.base]) = value[e]
    BY <1>1, <2>1, <2>2, EncodeShape
  <2>4. BlockIsTrue(e, now, b)'
    BY <1>2, <1>6, <1>7, <2>1, <2>3 DEF BlockIsTrue
  <2>5. QED
    BY <2>1, <2>2, <2>3, <2>4
<1>9. TypeOK'
  <2>1. ASSUME NEW d \in down' PROVE IsSnapshot(d)'
    <3>1. CASE d \in down
      BY <1>1, <1>2, <1>4, <3>1 DEF TypeOK, IsSnapshot
    <3>2. CASE d \notin down
      <4>1. d.tick \in 1..now /\ DOMAIN d.blocks \subseteq Entity
        BY <1>2, <1>4, <3>2
      <4>2. QED
        BY <1>2, <1>8, <3>2, <4>1 DEF IsSnapshot
    <3>3. QED
      BY <3>1, <3>2
  <2>2. QED
    BY <1>1, <1>2, <1>3, <2>1 DEF TypeOK
<1>10. PastIsCaptured'
  <2>1. \A t \in 1..tick : t \in 1..now
    BY <1>2, <1>4
  <2>2. now \in 1..now
    BY <1>2, <1>4
  <2>3. QED
    BY <1>1, <1>2, <1>5, <1>6, <1>7, <2>1, <2>2 DEF PastIsCaptured
<1>11. BlocksAreTrue'
  <2>1. ASSUME NEW d \in down, NEW e \in DOMAIN d.blocks
        PROVE  BlockIsTrue(e, d.tick, d.blocks[e])'
    <3>1. BlockIsTrue(e, d.tick, d.blocks[e]) /\ e \in Entity
      BY <1>1 DEF InductiveInv, Truth, BlocksAreTrue, TypeOK, IsSnapshot
    <3>2. QED
      BY <1>6, <3>1 DEF BlockIsTrue
  <2>2. QED
    BY <1>8, <2>1 DEF BlocksAreTrue
<1>12. HeldIsTrue'
  BY <1>3, <1>6 DEF InductiveInv, Truth, HeldIsTrue
<1>13. Kept'
  BY <1>3 DEF InductiveInv, Kept, DecodedIsPast, DecodedIsKept
<1>14. \A acked : AckIsTrue(acked) => AckIsTrue(acked)'
  BY <1>2, <1>3, <1>4, <1>5 DEF AckIsTrue
<1>15. AcksAreTrue'
  BY <1>3, <1>14 DEF InductiveInv, AcksProve, AcksAreTrue
<1>16. WholeIsWhole'
  <2> SUFFICES ASSUME NEW d \in down', NEW f \in peer'.log, f.tick = d.tick, ~f.split,
                      NEW e \in f.ents
               PROVE  e \in DOMAIN d.blocks
    BY DEF WholeIsWhole
  <2>1. CASE d \in down /\ f \in peer.log
    BY <2>1 DEF InductiveInv, AcksProve, WholeIsWhole
  <2>2. CASE d \notin down /\ f \in peer.log
    <3>1. d.tick = now
      BY <1>2, <2>2
    <3>2. Captured(e, f.tick)
      BY <1>1, <2>2 DEF PastIsCaptured, TypeOK, PeerState, LoggedFrame
    <3>3. QED
      BY <1>2, <1>4, <3>1, <3>2 DEF Captured
  <2>3. CASE d \in down /\ f \notin peer.log
    <3>1. f.tick = now
      BY <1>5, <2>3
    <3>2. d.tick \in 1..tick
      BY <1>1, <2>3 DEF TypeOK, IsSnapshot
    <3>3. QED
      BY <1>2, <1>4, <3>1, <3>2
  <2>4. CASE d \notin down /\ f \notin peer.log
    <3>1. DOMAIN d.blocks \in datagrams
      BY <1>2, <2>4
    <3>2. f = sent
      BY <1>5, <2>4
    <3>3. Cardinality(datagrams) \in Nat
      BY <1>2, FS_CardinalityType
    <3>4. ~(Cardinality(datagrams) > 1)
      BY <3>2
    <3>5. datagrams # {}
      BY <3>1
    <3>6. Cardinality(datagrams) = 1
      BY <1>2, <3>3, <3>4, <3>5, FS_EmptySet
    <3>7. PICK x : datagrams = {x}
      BY <1>2, <3>6, FS_Singleton
    <3>8. f.ents = DOMAIN d.blocks
      BY <3>1, <3>2, <3>7
    <3>9. QED
      BY <3>8
  <2>5. QED
    BY <2>1, <2>2, <2>3, <2>4
<1>17. ProvenBaseArrived'
  BY <1>2, <1>3 DEF InductiveInv, AcksProve, ProvenBaseArrived
<1>18. QED
  BY <1>9, <1>10, <1>11, <1>12, <1>13, <1>15, <1>16, <1>17
  DEF InductiveInv, Truth, AcksProve

(* HandleSnapshot: the window slides, then each block is read.             *)
LEMMA SnapshotKeeps ==
    ASSUME InductiveInv, NEW d \in down, HandleSnapshot(d)
    PROVE  InductiveInv'
<1> DEFINE slid == SlideAck(client, d.tick)
           read == DOMAIN d.blocks \cap client.known
           after(e) == ApplyStateBlock(client, e, d.tick, d.blocks[e])
           broken == {e \in read : Decode(client.held[e], d.blocks[e]) = NoRow}
           held == [e \in Entity |-> IF e \in read THEN after(e).held ELSE slid.held[e]]
           latest == [e \in Entity |-> IF e \in read THEN after(e).latest
                                                     ELSE slid.latest[e]]
           heard == [e \in Entity |-> IF e \in DOMAIN d.blocks THEN slid.heard[e] \cup {d.tick}
                                                               ELSE slid.heard[e]]
           decoded == [e \in Entity |-> IF e \in read \ broken
                                        THEN slid.decoded[e] \cup {d.tick}
                                        ELSE slid.decoded[e]]
<1>1. TypeOK /\ HeldIsTrue /\ IsSnapshot(d)
  BY DEF InductiveInv, Truth, TypeOK
<1>2. /\ client \in ClientState /\ tick \in Nat
      /\ d.tick \in 1..tick /\ d.tick \in Nat /\ DOMAIN d.blocks \subseteq Entity
  BY <1>1 DEF TypeOK, IsSnapshot
<1>3. /\ slid \in ClientState
      /\ slid.known = client.known /\ slid.held = client.held
      /\ slid.latest = client.latest /\ slid.heard = client.heard
      /\ slid.decoded = client.decoded
      /\ slid.newest \in {client.newest, d.tick}
      /\ slid.bits \subseteq {client.newest, d.tick} \cup client.bits
  <2> DEFINE ahead == d.tick > client.newest
             seen == IF ~ahead THEN client.bits \cup {d.tick}
                     ELSE IF client.newest = NoTick \/ d.tick >= client.newest + AckWindow
                          THEN {} ELSE client.bits \cup {client.newest}
             newest == IF ahead THEN d.tick ELSE client.newest
             bits == {s \in seen : s < newest /\ s + AckWindow >= newest}
  <2>1. slid = [client EXCEPT !.newest = newest, !.bits = bits, !.unacked = TRUE]
    BY DEF SlideAck
  <2>2. newest \in Nat /\ newest \in {client.newest, d.tick}
    BY <1>2 DEF ClientState
  <2>3. seen \subseteq {client.newest, d.tick} \cup client.bits /\ bits \subseteq seen
    OBVIOUS
  <2>4. bits \in SUBSET Nat
    BY <1>2, <2>3 DEF ClientState
  <2>5. QED
    <3> HIDE DEF newest, bits, seen, slid
    <3>1. QED
      BY <1>2, <2>1, <2>2, <2>3, <2>4 DEF ClientState
<1>4. ASSUME NEW e \in read
      PROVE  /\ BlockIsTrue(e, d.tick, d.blocks[e])
             /\ after(e).held \subseteq
                  client.held[e] \cup {[tick |-> d.tick, row |-> rows[e][d.tick]]}
             /\ after(e).held \in SUBSET Held /\ after(e).latest \in Nat
  <2>1. e \in Entity /\ BlockIsTrue(e, d.tick, d.blocks[e])
    BY <1>2 DEF InductiveInv, Truth, BlocksAreTrue
  <2>2. QED
    BY <1>1, <1>2, <2>1, ApplyShape
<1>5. /\ held \in [Entity -> SUBSET Held] /\ latest \in [Entity -> Nat]
      /\ heard \in [Entity -> SUBSET Nat] /\ decoded \in [Entity -> SUBSET Nat]
  <2> HIDE DEF after, read, broken, slid
  <2>1. QED
    BY <1>2, <1>3, <1>4 DEF ClientState
<1>6. /\ client' = [slid EXCEPT !.held = held, !.latest = latest, !.heard = heard,
                                !.decoded = decoded,
                                !.wantFull = slid.wantFull \/ broken # {}]
      /\ UNCHANGED <<tick, value, rows, since, members, peer, up, churn, losses>>
      /\ down' \subseteq down
  BY DEF HandleSnapshot, world
<1>7. /\ client' \in ClientState
      /\ client'.held = held /\ client'.latest = latest /\ client'.heard = heard
      /\ client'.decoded = decoded
      /\ client'.newest = slid.newest /\ client'.bits = slid.bits
  <2> HIDE DEF held, latest, heard, decoded, slid, broken
  <2>1. QED
    BY <1>3, <1>5, <1>6 DEF ClientState
<1>8. TypeOK'
  BY <1>1, <1>6, <1>7 DEF TypeOK, IsSnapshot
<1>9. PastIsCaptured' /\ BlocksAreTrue'
  BY <1>6 DEF InductiveInv, Truth, PastIsCaptured, BlocksAreTrue, BlockIsTrue, Captured
<1>10. HeldIsTrue'
  <2>1. ASSUME NEW e \in Entity, NEW r \in client'.held[e]
        PROVE  Captured(e, r.tick) /\ r.row = rows[e][r.tick]
    <3>1. CASE r \in client.held[e]
      BY <1>1, <3>1 DEF HeldIsTrue
    <3>2. CASE r \notin client.held[e]
      <4>1. e \in read
        BY <1>3, <1>7, <2>1, <3>2
      <4>2. r = [tick |-> d.tick, row |-> rows[e][d.tick]]
        BY <1>4, <1>7, <2>1, <3>2, <4>1
      <4>3. Captured(e, d.tick)
        BY <1>4, <4>1 DEF BlockIsTrue
      <4>4. QED
        BY <4>2, <4>3
    <3>3. QED
      BY <3>1, <3>2
  <2>2. QED
    BY <1>6, <2>1 DEF HeldIsTrue, Captured
<1>11. ASSUME NEW e \in Entity, NEW t \in client'.decoded[e]
       PROVE  /\ t <= client'.latest[e]
              /\ t + Span > client'.latest[e] => \E r \in client'.held[e] : r.tick = t
  <2>1. /\ client.latest[e] \in Nat /\ client.decoded[e] \subseteq Nat
        /\ \A s \in client.decoded[e] :
             /\ s <= client.latest[e]
             /\ s + Span > client.latest[e] => \E r \in client.held[e] : r.tick = s
    BY <1>2 DEF InductiveInv, Kept, DecodedIsPast, DecodedIsKept, ClientState
  <2>2. CASE e \in read \ broken
    <3>1. Decode(client.held[e], d.blocks[e]) # NoRow
      BY <2>2
    <3>2. client'.held[e] = after(e).held /\ client'.latest[e] = after(e).latest
      BY <1>7, <2>2
    <3>3. t \in client.decoded[e] \cup {d.tick}
      BY <1>3, <1>7, <1>11, <2>2
    <3>4. /\ after(e).latest = IF d.tick <= client.latest[e] THEN client.latest[e] ELSE d.tick
          /\ d.tick + Span > after(e).latest => \E r \in after(e).held : r.tick = d.tick
          /\ \A s \in Nat :
               /\ s <= client.latest[e] /\ s + Span > after(e).latest
               /\ \E r \in client.held[e] : r.tick = s
               => \E r \in after(e).held : r.tick = s
      BY <1>1, <1>2, <3>1, ApplyKeeps
    <3>5. Span \in Nat
      BY LaneAssumption
    <3>6. CASE t = d.tick
      <4> HIDE DEF after
      <4>1. QED
        BY <1>2, <2>1, <3>2, <3>4, <3>6
    <3>7. CASE t \in client.decoded[e]
      <4>1. t \in Nat /\ t <= client.latest[e]
        BY <2>1, <3>7
      <4>2. client.latest[e] <= after(e).latest /\ after(e).latest \in Nat
        <5> HIDE DEF after
        <5>1. QED
          BY <1>2, <2>1, <3>4
      <4>3. t + Span > after(e).latest => t + Span > client.latest[e]
        <5> HIDE DEF after
        <5>1. QED
          BY <2>1, <3>5, <4>1, <4>2
      <4>4. QED
        <5> HIDE DEF after
        <5>1. QED
          BY <2>1, <3>2, <3>4, <3>5, <3>7, <4>1, <4>2, <4>3
    <3>8. QED
      BY <3>3, <3>6, <3>7
  <2>3. CASE e \in broken
    <3>1. after(e).held = client.held[e] /\ after(e).latest = client.latest[e]
      BY <2>3 DEF ApplyStateBlock
    <3>2. QED
      BY <1>3, <1>7, <1>11, <2>1, <2>3, <3>1
  <2>4. CASE e \notin read
    BY <1>3, <1>7, <1>11, <2>1, <2>4
  <2>5. QED
    BY <2>2, <2>3, <2>4
<1>12. Kept'
  BY <1>11 DEF Kept, DecodedIsPast, DecodedIsKept
<1>13. \A e \in Entity : /\ client.heard[e] \subseteq client'.heard[e]
                         /\ e \in DOMAIN d.blocks => d.tick \in client'.heard[e]
  <2> HIDE DEF slid
  <2>1. QED
    BY <1>3, <1>7
<1>14. ASSUME NEW acked, AckIsTrue(acked) PROVE AckIsTrue(acked)'
  <2>1. \A f \in peer.log : f.ents \subseteq Entity
    BY <1>1 DEF TypeOK, PeerState, LoggedFrame
  <2>2. QED
    BY <1>6, <1>13, <1>14, <2>1 DEF AckIsTrue
<1>15. AckIsTrue({client.newest} \cup client.bits)'
  <2>1. {client'.newest} \cup client'.bits \subseteq {client.newest, d.tick} \cup client.bits
    BY <1>3, <1>7
  <2>2. AckIsTrue({client.newest} \cup client.bits)
    BY DEF InductiveInv, AcksProve, AcksAreTrue
  <2>3. {client'.newest} \cup client'.bits \subseteq 0..tick'
    BY <1>2, <1>6, <2>1, <2>2 DEF AckIsTrue
  <2>4. ASSUME NEW f \in peer.log, f.tick \in {client'.newest} \cup client'.bits, ~f.split,
               NEW e \in f.ents
        PROVE  f.tick \in client'.heard[e]
    <3>1. e \in Entity
      BY <1>1 DEF TypeOK, PeerState, LoggedFrame
    <3>2. CASE f.tick = d.tick
      <4>1. e \in DOMAIN d.blocks
        BY <2>4, <3>2 DEF InductiveInv, AcksProve, WholeIsWhole
      <4>2. QED
        BY <1>13, <3>1, <3>2, <4>1
    <3>3. CASE f.tick \in {client.newest} \cup client.bits
      BY <1>13, <2>2, <2>4, <3>1, <3>3 DEF AckIsTrue
    <3>4. QED
      BY <2>1, <2>4, <3>2, <3>3
  <2>5. QED
    BY <1>6, <2>3, <2>4 DEF AckIsTrue
<1>16. AcksAreTrue'
  BY <1>6, <1>14, <1>15 DEF InductiveInv, AcksProve, AcksAreTrue
<1>17. WholeIsWhole'
  BY <1>6 DEF InductiveInv, AcksProve, WholeIsWhole
<1>18. ProvenBaseArrived'
  BY <1>6, <1>13 DEF InductiveInv, AcksProve, ProvenBaseArrived
<1>19. QED
  BY <1>8, <1>9, <1>10, <1>12, <1>16, <1>17, <1>18 DEF InductiveInv, Truth, AcksProve

(* HandleClientInput: what an input acknowledges is promoted, then what it *)
(* asks for forgotten.                                                     *)
LEMMA InputKeeps ==
    ASSUME InductiveInv, NEW m \in up, HandleClientInput(m)
    PROVE  InductiveInv'
<1> DEFINE q == ConsumeAck(peer, m.ack, m.bits)
<1>1. /\ TypeOK /\ peer \in PeerState /\ tick \in Nat
      /\ IsFiniteSet(peer.log) /\ Cardinality(peer.log) <= LogDepth
      /\ m.ack \in Nat /\ m.bits \in SUBSET Nat
  BY DEF InductiveInv, TypeOK, Input
<1>2. /\ UNCHANGED <<tick, value, rows, since, members, client, down, churn, losses>>
      /\ up' \subseteq up
      /\ peer' = IF m.nack THEN NoteNack(q) ELSE q
  BY DEF HandleClientInput, TakeInput, world
<1>3. \A f \in peer.log : f.tick <= tick
  BY <1>1 DEF InductiveInv, Truth, PastIsCaptured
<1>4. /\ q \in PeerState
      /\ q.log \subseteq peer.log
      /\ IsFiniteSet(q.log) /\ Cardinality(q.log) <= LogDepth
      /\ \A e \in Entity :
           \/ /\ q.base[e] = peer.base[e]
              /\ e \in q.unproven <=> e \in peer.unproven
           \/ /\ m.ack # 0
              /\ \E f \in Promoting(peer.log, m.ack, m.bits, e) :
                   q.base[e] = f.tick /\ (e \in q.unproven <=> f.split)
  BY <1>1, <1>3, ConsumeAckShape
<1>5. /\ peer' \in PeerState /\ peer'.log = q.log
      /\ \A e \in Entity : \/ peer'.base[e] = NoTick
                           \/ /\ peer'.base[e] = q.base[e]
                              /\ e \in peer'.unproven <=> e \in q.unproven
  <2> HIDE DEF q
  <2>1. QED
    BY <1>2, <1>4, NoteNackShape
<1>6. TypeOK'
  <2> HIDE DEF q
  <2>1. QED
    BY <1>1, <1>2, <1>4, <1>5 DEF TypeOK, IsSnapshot
<1>7. ASSUME NEW e \in Entity, q.base[e] # NoTick
      PROVE  /\ Captured(e, q.base[e])
             /\ e \notin q.unproven => q.base[e] \in client.heard[e]
  <2>1. CASE q.base[e] = peer.base[e] /\ (e \in q.unproven <=> e \in peer.unproven)
    BY <1>7, <2>1 DEF InductiveInv, Truth, PastIsCaptured, AcksProve, ProvenBaseArrived
  <2>2. CASE \E f \in Promoting(peer.log, m.ack, m.bits, e) :
               q.base[e] = f.tick /\ (e \in q.unproven <=> f.split)
    <3>1. PICK f \in peer.log : /\ q.base[e] = f.tick /\ (e \in q.unproven <=> f.split)
                                /\ e \in f.ents
                                /\ f.tick \in {m.ack} \cup m.bits
      BY <2>2 DEF Promoting, Confirmed
    <3>2. Captured(e, f.tick)
      BY DEF InductiveInv, Truth, PastIsCaptured
    <3>3. ~f.split => f.tick \in client.heard[e]
      BY <3>1 DEF InductiveInv, AcksProve, AcksAreTrue, AckIsTrue
    <3>4. QED
      BY <3>1, <3>2, <3>3
  <2>3. QED
    BY <1>4, <2>1, <2>2
<1>8. Truth'
  <2>1. PastIsCaptured'
    BY <1>2, <1>4, <1>5, <1>7 DEF InductiveInv, Truth, PastIsCaptured, Captured
  <2>2. BlocksAreTrue' /\ HeldIsTrue'
    BY <1>2 DEF InductiveInv, Truth, BlocksAreTrue, BlockIsTrue, HeldIsTrue, Captured
  <2>3. QED
    BY <2>1, <2>2 DEF Truth
<1>9. Kept'
  BY <1>2 DEF InductiveInv, Kept, DecodedIsPast, DecodedIsKept
<1>10. \A acked : AckIsTrue(acked) => AckIsTrue(acked)'
  BY <1>2, <1>4, <1>5 DEF AckIsTrue
<1>11. AcksAreTrue'
  BY <1>2, <1>10 DEF InductiveInv, AcksProve, AcksAreTrue
<1>12. WholeIsWhole'
  BY <1>2, <1>4, <1>5 DEF InductiveInv, AcksProve, WholeIsWhole
<1>13. ProvenBaseArrived'
  BY <1>2, <1>5, <1>7 DEF ProvenBaseArrived
<1>14. QED
  BY <1>6, <1>8, <1>9, <1>11, <1>12, <1>13 DEF InductiveInv, AcksProve

(* The client's own steps: a flush, a spawn, a despawn, a resync.          *)
LEMMA ClientKeeps ==
    ASSUME InductiveInv,
           \/ ClientFlush
           \/ \E e \in Entity : Spawn(e) \/ Despawn(e)
           \/ HardResync
    PROVE  InductiveInv'
<1>1. /\ TypeOK /\ client \in ClientState /\ tick \in Nat
  BY DEF InductiveInv, TypeOK
<1>2. CASE ClientFlush
  <2> DEFINE m == [at |-> tick, ack |-> client.newest, bits |-> client.bits,
                   nack |-> client.wantFull]
  <2>1. client' = [client EXCEPT !.at = tick, !.unacked = FALSE, !.wantFull = FALSE]
    BY <1>2 DEF ClientFlush
  <2>2. /\ client' \in ClientState
        /\ client'.held = client.held /\ client'.latest = client.latest
        /\ client'.heard = client.heard /\ client'.decoded = client.decoded
        /\ client'.newest = client.newest /\ client'.bits = client.bits
    BY <1>1, <2>1 DEF ClientState
  <2>3. /\ UNCHANGED <<tick, value, rows, since, members, peer, down, churn, losses>>
        /\ up' \subseteq up \cup {m}
    BY <1>2 DEF ClientFlush, world
  <2>4. m \in Input
    BY <1>1 DEF ClientState, Input
  <2>5. TypeOK'
    BY <1>1, <2>2, <2>3, <2>4 DEF TypeOK, IsSnapshot
  <2>6. Truth' /\ Kept' /\ WholeIsWhole' /\ ProvenBaseArrived'
    BY <2>2, <2>3 DEF InductiveInv, Truth, PastIsCaptured, BlocksAreTrue, BlockIsTrue,
                      HeldIsTrue, Captured, Kept, DecodedIsPast, DecodedIsKept,
                      AcksProve, WholeIsWhole, ProvenBaseArrived
  <2>7. \A acked : AckIsTrue(acked) => AckIsTrue(acked)'
    BY <2>2, <2>3 DEF AckIsTrue
  <2>8. AckIsTrue({client.newest} \cup client.bits)'
    BY <2>2, <2>7 DEF InductiveInv, AcksProve, AcksAreTrue
  <2>9. ASSUME NEW x \in up' PROVE AckIsTrue({x.ack} \cup x.bits)'
    <3>1. CASE x \in up
      BY <2>7, <3>1 DEF InductiveInv, AcksProve, AcksAreTrue
    <3>2. CASE x = m
      <4>1. x.ack = client.newest /\ x.bits = client.bits
        BY <3>2
      <4>2. AckIsTrue({x.ack} \cup x.bits)
        BY <4>1 DEF InductiveInv, AcksProve, AcksAreTrue
      <4>3. QED
        BY <2>7, <4>2
    <3>3. QED
      BY <2>3, <3>1, <3>2
  <2>10. AcksAreTrue'
    BY <2>8, <2>9 DEF AcksAreTrue
  <2>11. QED
    BY <2>5, <2>6, <2>10 DEF InductiveInv, AcksProve
<1>3. ASSUME NEW e \in Entity, Spawn(e) PROVE InductiveInv'
  <2>1. /\ client' = [client EXCEPT !.known = client.known \cup {e}]
        /\ UNCHANGED <<tick, value, rows, since, members, peer, down, up, churn, losses>>
    BY <1>3 DEF Spawn, world
  <2>2. /\ client' \in ClientState
        /\ client'.held = client.held /\ client'.latest = client.latest
        /\ client'.heard = client.heard /\ client'.decoded = client.decoded
        /\ client'.newest = client.newest /\ client'.bits = client.bits
    BY <1>1, <2>1 DEF ClientState
  <2>3. TypeOK'
    BY <1>1, <2>1, <2>2 DEF TypeOK, IsSnapshot
  <2>4. Truth' /\ AcksProve'
    BY <2>1, <2>2, <2>3, ForgettingKeeps
  <2>5. Kept'
    BY <2>2 DEF InductiveInv, Kept, DecodedIsPast, DecodedIsKept
  <2>6. QED
    BY <2>3, <2>4, <2>5 DEF InductiveInv
<1>4. ASSUME NEW e \in Entity, Despawn(e) PROVE InductiveInv'
  <2> DEFINE held == [client.held EXCEPT ![e] = {}]
             latest == [client.latest EXCEPT ![e] = NoTick]
             decoded == [client.decoded EXCEPT ![e] = {}]
  <2>1. /\ client' = [client EXCEPT !.known = client.known \ {e}, !.held = held,
                                    !.latest = latest, !.decoded = decoded]
        /\ UNCHANGED <<tick, value, rows, since, members, peer, down, up, losses>>
        /\ churn' = churn + 1
    BY <1>4 DEF Despawn, world
  <2>2. /\ held \in [Entity -> SUBSET Held] /\ latest \in [Entity -> Nat]
        /\ decoded \in [Entity -> SUBSET Nat]
    BY <1>1 DEF ClientState, NoTick
  <2>3. /\ client' \in ClientState
        /\ client'.held = held /\ client'.latest = latest
        /\ client'.heard = client.heard /\ client'.decoded = decoded
        /\ client'.newest = client.newest /\ client'.bits = client.bits
    <3> HIDE DEF held, latest, decoded
    <3>1. QED
      BY <1>1, <2>1, <2>2 DEF ClientState
  <2>4. TypeOK'
    BY <1>1, <2>1, <2>3 DEF TypeOK, IsSnapshot
  <2>5. \A x \in Entity : client'.held[x] \subseteq client.held[x]
    BY <1>1, <2>3 DEF ClientState
  <2>6. Truth' /\ AcksProve'
    BY <2>1, <2>3, <2>4, <2>5, ForgettingKeeps
  <2>7. Kept'
    <3>1. ASSUME NEW x \in Entity, NEW t \in client'.decoded[x]
          PROVE  /\ client'.held[x] = client.held[x]
                 /\ client'.latest[x] = client.latest[x]
                 /\ t \in client.decoded[x]
      BY <1>1, <2>3, <3>1 DEF ClientState
    <3>2. QED
      BY <3>1 DEF InductiveInv, Kept, DecodedIsPast, DecodedIsKept
  <2>8. QED
    BY <2>4, <2>6, <2>7 DEF InductiveInv
<1>5. CASE HardResync
  <2> DEFINE held == [x \in Entity |-> {}]
             latest == [x \in Entity |-> NoTick]
             decoded == [x \in Entity |-> {}]
  <2>1. /\ client' = [client EXCEPT !.held = held, !.latest = latest, !.decoded = decoded,
                                    !.newest = NoTick, !.bits = {}, !.wantFull = TRUE]
        /\ UNCHANGED <<tick, value, rows, since, members, peer, down, up, losses>>
        /\ churn' = churn + 1
    BY <1>5 DEF HardResync, world
  <2>2. /\ held \in [Entity -> SUBSET Held] /\ latest \in [Entity -> Nat]
        /\ decoded \in [Entity -> SUBSET Nat] /\ NoTick \in Nat
    BY DEF NoTick
  <2>3. /\ client' \in ClientState
        /\ client'.held = held /\ client'.latest = latest
        /\ client'.heard = client.heard /\ client'.decoded = decoded
        /\ client'.newest = NoTick /\ client'.bits = {}
    <3> HIDE DEF held, latest, decoded
    <3>1. QED
      BY <1>1, <2>1, <2>2 DEF ClientState
  <2>4. TypeOK'
    BY <1>1, <2>1, <2>3 DEF TypeOK, IsSnapshot
  <2>5. Truth' /\ AcksProve'
    BY <2>1, <2>3, <2>4, ForgettingKeeps
  <2>6. Kept'
    BY <2>3 DEF Kept, DecodedIsPast, DecodedIsKept
  <2>7. QED
    BY <2>4, <2>5, <2>6 DEF InductiveInv
<1>6. QED
  BY <1>2, <1>3, <1>4, <1>5

(* The world's steps and the server's: a change of a row, of the set, of a *)
(* node, of the key, a retried hello.                                      *)
LEMMA WorldKeeps ==
    ASSUME InductiveInv,
           \/ \E e \in Entity, c \in Channel, v \in Value : Change(e, c, v)
           \/ \E e \in Entity : Leave(e) \/ Enter(e) \/ Respawn(e)
           \/ Rekey \/ RetryHello
    PROVE  InductiveInv'
<1>1. /\ TypeOK /\ client \in ClientState /\ peer \in PeerState /\ tick \in Nat
      /\ IsFiniteSet(peer.log) /\ Cardinality(peer.log) <= LogDepth
  BY DEF InductiveInv, TypeOK
<1>2. UNCHANGED client => Kept'
  BY DEF InductiveInv, Kept, DecodedIsPast, DecodedIsKept
<1>3. ASSUME NEW e \in Entity, NEW c \in Channel, NEW v \in Value, Change(e, c, v)
      PROVE  InductiveInv'
  <2>1. /\ value' = [value EXCEPT ![e] = [value[e] EXCEPT ![c] = v]]
        /\ UNCHANGED <<tick, rows, since, members, peer, client, down, up, losses>>
        /\ churn' = churn + 1
    BY <1>3 DEF Change
  <2>2. value' \in [Entity -> Row]
    BY <1>1, <2>1 DEF TypeOK, Row
  <2>3. TypeOK'
    BY <1>1, <2>1, <2>2 DEF TypeOK, IsSnapshot
  <2>4. Truth' /\ AcksProve'
    BY <2>1, <2>3, ForgettingKeeps
  <2>5. QED
    BY <1>2, <2>1, <2>3, <2>4 DEF InductiveInv
<1>4. ASSUME NEW e \in Entity, Leave(e) \/ Respawn(e) PROVE InductiveInv'
  <2>1. /\ peer' = ForgetEntity(peer, e)
        /\ UNCHANGED <<tick, value, rows, client, down, up, losses>>
        /\ churn' = churn + 1
        /\ members' \subseteq members
        /\ since' \in {since, [since EXCEPT ![e] = tick]}
    BY <1>4 DEF Leave, Respawn
  <2>2. /\ peer' \in PeerState
        /\ peer'.log = peer.log
        /\ \A x \in Entity : \/ peer'.base[x] = NoTick
                             \/ /\ peer'.base[x] = peer.base[x]
                                /\ x \in peer'.unproven <=> x \in peer.unproven
    BY <1>1, <2>1, ForgetEntityShape
  <2>3. since' \in [Entity -> Nat]
    BY <1>1, <2>1 DEF TypeOK
  <2>4. TypeOK'
    BY <1>1, <2>1, <2>2, <2>3 DEF TypeOK, IsSnapshot
  <2>5. Truth' /\ AcksProve'
    BY <2>1, <2>2, <2>4, ForgettingKeeps
  <2>6. QED
    BY <1>2, <2>1, <2>4, <2>5 DEF InductiveInv
<1>5. ASSUME NEW e \in Entity, Enter(e) PROVE InductiveInv'
  <2>1. /\ members' = members \cup {e}
        /\ UNCHANGED <<tick, value, rows, since, peer, client, down, up, churn, losses>>
    BY <1>5 DEF Enter
  <2>2. TypeOK'
    BY <1>1, <2>1 DEF TypeOK, IsSnapshot
  <2>3. Truth' /\ AcksProve'
    BY <2>1, <2>2, ForgettingKeeps
  <2>4. QED
    BY <1>2, <2>1, <2>2, <2>3 DEF InductiveInv
<1>6. CASE Rekey
  <2> DEFINE q == NoteNack(peer)
             lastFull == [x \in Entity |-> NoTick]
  <2>1. /\ peer' = [q EXCEPT !.lastFull = lastFull]
        /\ client' = FreshClient(client.known, tick)
        /\ down' = {} /\ up' = {} /\ churn' = churn + 1
        /\ UNCHANGED <<tick, value, rows, since, members, losses>>
    BY <1>6 DEF Rekey, world
  <2>2. q \in PeerState /\ q.log = peer.log /\ \A e \in Entity : q.base[e] = NoTick
    BY <1>1, NoteNackShape
  <2>3. lastFull \in [Entity -> Nat]
    BY DEF NoTick
  <2>4. peer' \in PeerState /\ peer'.log = peer.log /\ \A e \in Entity : peer'.base[e] = NoTick
    <3> HIDE DEF q, lastFull
    <3>1. QED
      BY <2>1, <2>2, <2>3 DEF PeerState
  <2>5. client' \in ClientState
    BY <1>1, <2>1 DEF FreshClient, ClientState, NoTick
  <2>6. /\ \A e \in Entity : client'.held[e] = {} /\ client'.decoded[e] = {}
        /\ client'.newest = NoTick /\ client'.bits = {}
    BY <2>1 DEF FreshClient
  <2>7. TypeOK'
    BY <1>1, <2>1, <2>4, <2>5 DEF TypeOK
  <2>8. Truth'
    BY <2>1, <2>4, <2>6 DEF InductiveInv, Truth, PastIsCaptured, BlocksAreTrue, HeldIsTrue,
                            Captured
  <2>9. Kept'
    BY <2>6 DEF Kept, DecodedIsPast, DecodedIsKept
  <2>10. AcksAreTrue'
    <3>1. {client'.newest} \cup client'.bits = {NoTick}
      BY <2>6
    <3>2. NoTick \in 0..tick /\ \A f \in peer.log : f.tick # NoTick
      BY <1>1 DEF NoTick, InductiveInv, Truth, PastIsCaptured
    <3>3. QED
      BY <2>1, <2>4, <3>1, <3>2 DEF AcksAreTrue, AckIsTrue
  <2>11. WholeIsWhole' /\ ProvenBaseArrived'
    BY <2>1, <2>4 DEF WholeIsWhole, ProvenBaseArrived
  <2>12. QED
    BY <2>7, <2>8, <2>9, <2>10, <2>11 DEF InductiveInv, AcksProve
<1>7. CASE RetryHello
  <2>1. /\ peer' = [peer EXCEPT !.wantFull = TRUE]
        /\ UNCHANGED <<tick, value, rows, since, members, client, down, up, losses>>
        /\ churn' = churn + 1
    BY <1>7 DEF RetryHello, world
  <2>2. /\ peer' \in PeerState /\ peer'.log = peer.log
        /\ peer'.base = peer.base /\ peer'.unproven = peer.unproven
    BY <1>1, <2>1 DEF PeerState
  <2>3. TypeOK'
    BY <1>1, <2>1, <2>2 DEF TypeOK, IsSnapshot
  <2>4. Truth' /\ AcksProve'
    BY <2>1, <2>2, <2>3, ForgettingKeeps
  <2>5. QED
    BY <1>2, <2>1, <2>3, <2>4 DEF InductiveInv
<1>8. QED
  BY <1>3, <1>4, <1>5, <1>6, <1>7

(* The network's steps: it only loses.                                     *)
LEMMA NetworkKeeps ==
    ASSUME InductiveInv,
           \/ \E d \in down : LoseSnapshot(d)
           \/ \E m \in up : LoseInput(m)
    PROVE  InductiveInv'
<1>1. /\ down' \subseteq down /\ up' \subseteq up /\ losses' = losses + 1
      /\ UNCHANGED <<tick, value, rows, since, members, peer, client, churn>>
  BY DEF LoseSnapshot, LoseInput, world
<1>2. TypeOK'
  BY <1>1 DEF InductiveInv, TypeOK, IsSnapshot
<1>3. Truth' /\ AcksProve'
  BY <1>1, <1>2, ForgettingKeeps
<1>4. Kept'
  BY <1>1 DEF InductiveInv, Kept, DecodedIsPast, DecodedIsKept
<1>5. QED
  BY <1>2, <1>3, <1>4 DEF InductiveInv

(* Every step keeps the inductive invariant.                               *)
LEMMA StepKeeps == InductiveInv /\ [Next]_vars => InductiveInv'
<1> SUFFICES ASSUME InductiveInv, [Next]_vars PROVE InductiveInv'
  OBVIOUS
<1>1. CASE Flush
  <2>1. PICK k \in Strides : \E deal \in [Entity -> 0..k] : ServerFlush(k, deal)
    BY <1>1 DEF Flush
  <2>2. PICK deal \in [Entity -> 0..k] : ServerFlush(k, deal)
    BY <2>1
  <2>3. QED
    BY <2>2, FlushKeeps
<1>2. CASE \/ \E e \in Entity, c \in Channel, v \in Value : Change(e, c, v)
           \/ \E e \in Entity : Leave(e) \/ Enter(e) \/ Respawn(e)
           \/ Rekey \/ RetryHello
  BY <1>2, WorldKeeps
<1>3. CASE \/ ClientFlush
           \/ \E e \in Entity : Spawn(e) \/ Despawn(e)
           \/ HardResync
  BY <1>3, ClientKeeps
<1>4. ASSUME NEW d \in down, HandleSnapshot(d) PROVE InductiveInv'
  BY <1>4, SnapshotKeeps
<1>5. ASSUME NEW m \in up, HandleClientInput(m) PROVE InductiveInv'
  BY <1>5, InputKeeps
<1>6. CASE \/ \E d \in down : LoseSnapshot(d)
           \/ \E m \in up : LoseInput(m)
  BY <1>6, NetworkKeeps
<1>7. CASE UNCHANGED vars
  BY <1>7 DEF vars, InductiveInv, TypeOK, IsSnapshot, Truth, PastIsCaptured, BlocksAreTrue,
              BlockIsTrue, HeldIsTrue, Captured, Kept, DecodedIsPast, DecodedIsKept,
              AcksProve, AcksAreTrue, AckIsTrue, WholeIsWhole, ProvenBaseArrived
<1>8. QED
  BY <1>1, <1>2, <1>3, <1>4, <1>5, <1>6, <1>7 DEF Next

-----------------------------------------------------------------------------
(* The theorems.                                                           *)

(* The inductive invariant holds throughout.                               *)
THEOREM LaneInvariance == Spec => []InductiveInv
<1>1. QED
  BY InitHolds, StepKeeps, PTL DEF Spec

(* The server's record of the connection, the client and the datagrams in  *)
(* flight are well formed throughout, and the sent log is within its depth *)
(* whatever was acknowledged, lost or never answered.                      *)
THEOREM LaneTypeCorrectness == Spec => []TypeOK
<1>1. InductiveInv => TypeOK
  BY DEF InductiveInv
<1>2. QED
  BY <1>1, LaneInvariance, PTL

(* Every row a client's ring holds is the row the server captured for that *)
(* entity at that tick, whatever bases it was rebuilt from, and a row it   *)
(* decoded stays a base it can answer for until its ring has moved past    *)
(* it.                                                                     *)
THEOREM RowsAreAlwaysTrue == Spec => []RowsAreTrue
<1>1. InductiveInv => RowsAreTrue
  BY DEF InductiveInv, Truth, HeldIsTrue, RowsAreTrue, Kept
<1>2. QED
  BY <1>1, LaneInvariance, PTL

(* A base counted as proven is a tick whose block for that entity reached  *)
(* the client, though ticks go out in several datagrams and any may be     *)
(* lost.                                                                   *)
THEOREM ProvenBasesArrived == Spec => []ProvenBaseArrived
<1>1. InductiveInv => ProvenBaseArrived
  BY DEF InductiveInv, AcksProve
<1>2. QED
  BY <1>1, LaneInvariance, PTL

-----------------------------------------------------------------------------
(* Powers of two.                                                          *)

PowStep(f, n) == IF n = 0 THEN 1 ELSE 2 * f[n - 1]

\* f lists the powers of two up to the n-th.
IsPowTable(f, n) == f \in [0..n -> Nat \ {0}] /\ \A k \in 0..n : f[k] = PowStep(f, k)

(* There is a table of powers up to any exponent.                          *)
LEMMA PowTableExists == \A n \in Nat : \E f : IsPowTable(f, n)
<1> DEFINE Lacking == {n \in Nat : ~ \E f : IsPowTable(f, n)}
<1>1. SUFFICES ASSUME Lacking # {} PROVE FALSE
  OBVIOUS
<1>2. PICK n \in Lacking : \A m \in Lacking : n <= m
  BY <1>1, LeastNatural
<1>3. CASE n = 0
  <2>1. IsPowTable([k \in 0..0 |-> 1], 0)
    BY DEF IsPowTable, PowStep
  <2>2. QED
    BY <1>2, <1>3, <2>1
<1>4. CASE n # 0
  <2>1. n - 1 \in Nat /\ n - 1 \notin Lacking
    BY <1>2, <1>4
  <2>2. PICK f : IsPowTable(f, n - 1)
    BY <2>1
  <2> DEFINE g == [k \in 0..n |-> IF k = n THEN 2 * f[n - 1] ELSE f[k]]
  <2>3. \A k \in 0..(n - 1) : f[k] \in Nat \ {0} /\ g[k] = f[k]
    BY <2>1, <2>2 DEF IsPowTable
  <2>4. n - 1 \in 0..(n - 1) /\ g[n] = 2 * f[n - 1]
    BY <2>1
  <2>5. g \in [0..n -> Nat \ {0}]
    <3>0. n \in Nat /\ n - 1 \in 0..(n - 1) /\ \A k \in 0..n : k # n => k \in 0..(n - 1)
      BY <2>1
    <3> HIDE DEF g
    <3>1. f[n - 1] \in Nat \ {0}
      BY <3>0, <2>3
    <3>2. \A k \in 0..n : k # n => f[k] \in Nat \ {0}
      BY <3>0, <2>3
    <3> USE DEF g
    <3>3. 2 * f[n - 1] \in Nat \ {0}
      BY <3>1
    <3>4. QED
      BY <3>2, <3>3
  <2>6. ASSUME NEW k \in 0..n PROVE g[k] = PowStep(g, k)
    <3>1. CASE k = n
      BY <3>1, <1>4, <2>3, <2>4 DEF PowStep
    <3>2. CASE k # n
      <4>1. k \in 0..(n - 1) /\ g[k] = f[k] /\ f[k] = PowStep(f, k)
        BY <3>2, <2>1, <2>2, <2>3 DEF IsPowTable
      <4>2. k # 0 => g[k - 1] = f[k - 1]
        BY <3>2, <2>1, <2>3
      <4>3. QED
        BY <4>1, <4>2 DEF PowStep
    <3>3. QED
      BY <3>1, <3>2
  <2>7. IsPowTable(g, n)
    BY <2>5, <2>6 DEF IsPowTable
  <2>8. QED
    BY <1>2, <2>7
<1>5. QED
  BY <1>3, <1>4

(* Two tables of powers agree where both are defined.                      *)
LEMMA PowTablesAgree ==
    ASSUME NEW n \in Nat, NEW m \in Nat, n <= m, NEW f, NEW g,
           IsPowTable(f, n), IsPowTable(g, m)
    PROVE  \A k \in 0..n : f[k] = g[k]
<1> DEFINE Apart == {k \in 0..n : f[k] # g[k]}
<1>1. SUFFICES ASSUME Apart # {} PROVE FALSE
  OBVIOUS
<1>2. PICK k \in Apart : \A j \in Apart : k <= j
  <2>1. Apart \in SUBSET Nat
    OBVIOUS
  <2> HIDE DEF Apart
  <2>2. QED
    BY <1>1, <2>1, LeastNatural
<1>3. k \in 0..n /\ k \in 0..m /\ f[k] # g[k]
  OBVIOUS
<1>4. f[k] = PowStep(f, k) /\ g[k] = PowStep(g, k)
  BY <1>3 DEF IsPowTable
<1>5. k # 0
  BY <1>3, <1>4 DEF PowStep
<1>6. k - 1 \in 0..n /\ k - 1 \notin Apart
  BY <1>2, <1>3, <1>5
<1>7. QED
  BY <1>3, <1>4, <1>5, <1>6 DEF PowStep

(* The powers of two are what their recursion says.                        *)
LEMMA PowersOfTwo ==
    /\ Pow2 \in [Nat -> Nat \ {0}]
    /\ Pow2[0] = 1
    /\ \A n \in Nat : Pow2[n + 1] = 2 * Pow2[n]
<1> DEFINE G == [n \in Nat |-> (CHOOSE t : IsPowTable(t, n))[n]]
<1>1. ASSUME NEW n \in Nat, NEW m \in Nat, n <= m
      PROVE  (CHOOSE t : IsPowTable(t, m))[n] = G[n] /\ G[n] \in Nat \ {0}
  <2> DEFINE f == CHOOSE t : IsPowTable(t, n)
             g == CHOOSE t : IsPowTable(t, m)
  <2>1. IsPowTable(f, n) /\ IsPowTable(g, m)
    BY PowTableExists
  <2>2. G[n] = f[n]
    OBVIOUS
  <2>3. n \in 0..n
    OBVIOUS
  <2> HIDE DEF f, g, G
  <2>4. f[n] = g[n]
    BY <1>1, <2>1, <2>3, PowTablesAgree
  <2>5. f[n] \in Nat \ {0}
    BY <2>1, <2>3 DEF IsPowTable
  <2>6. QED
    BY <2>2, <2>4, <2>5 DEF g
<1>2. ASSUME NEW n \in Nat PROVE G[n] = PowStep(G, n)
  <2> DEFINE f == CHOOSE t : IsPowTable(t, n)
  <2>1. IsPowTable(f, n)
    BY PowTableExists
  <2>2. G[n] = f[n] /\ n \in 0..n
    OBVIOUS
  <2>3. f[n] = PowStep(f, n)
    BY <2>1, <2>2 DEF IsPowTable
  <2>4. n # 0 => n - 1 \in Nat /\ n - 1 <= n
    OBVIOUS
  <2>5. n # 0 => f[n - 1] = G[n - 1]
    BY <2>4, <1>1
  <2> HIDE DEF f, G
  <2>6. QED
    BY <2>2, <2>3, <2>5 DEF PowStep
<1>3. \A n \in Nat : G[n] \in Nat \ {0}
  BY <1>1
<1> DEFINE Body(f) == [n \in Nat |-> IF n = 0 THEN 1 ELSE 2 * f[n - 1]]
<1>4. G = Body(G)
  <2>1. \A n \in Nat : G[n] = Body(G)[n]
    BY <1>2 DEF PowStep
  <2>2. QED
    BY <2>1
<1> HIDE DEF G
<1>5. Pow2 = CHOOSE f : f = Body(f)
  BY DEF Pow2
<1>6. Pow2 = Body(Pow2)
  <2> HIDE DEF Body
  <2>1. (CHOOSE f : f = Body(f)) = Body(CHOOSE f : f = Body(f))
    BY <1>4
  <2>2. QED
    BY <1>5, <2>1
<1>7. \A n \in Nat : Pow2[n] = IF n = 0 THEN 1 ELSE 2 * Pow2[n - 1]
  <2>1. \A n \in Nat : Pow2[n] = Body(Pow2)[n]
    <3> HIDE DEF Body
    <3>1. QED
      BY <1>6
  <2>2. QED
    BY <2>1
<1>8. Pow2[0] = 1
  BY <1>7
<1>9. ASSUME NEW n \in Nat PROVE Pow2[n + 1] = 2 * Pow2[n]
  <2>1. n + 1 \in Nat /\ n + 1 # 0 /\ (n + 1) - 1 = n
    OBVIOUS
  <2>2. QED
    BY <2>1, <1>7
<1>10. \A n \in Nat : Pow2[n] \in Nat \ {0}
  <2> DEFINE Bad == {n \in Nat : Pow2[n] \notin Nat \ {0}}
  <2>1. SUFFICES ASSUME Bad # {} PROVE FALSE
    OBVIOUS
  <2>2. PICK n \in Bad : \A m \in Bad : n <= m
    BY <2>1, LeastNatural
  <2>3. n # 0
    BY <1>8
  <2>4. n - 1 \in Nat /\ n - 1 \notin Bad
    BY <2>2, <2>3
  <2>5. Pow2[n] = 2 * Pow2[n - 1]
    BY <1>7, <2>3
  <2>6. QED
    BY <2>4, <2>5
<1>11. DOMAIN Pow2 = Nat /\ Pow2 = [n \in DOMAIN Pow2 |-> Pow2[n]]
  <2> DEFINE c == CHOOSE f : f = Body(f)
  <2>1. Pow2 = [n \in Nat |-> IF n = 0 THEN 1 ELSE 2 * Pow2[n - 1]]
    BY <1>6
  <2>2. QED
    BY <2>1
<1>12. QED
  BY <1>8, <1>9, <1>10, <1>11

(* A product of powers is the power of the sum.                            *)
LEMMA PowersMultiply ==
    ASSUME NEW a \in Nat, NEW b \in Nat
    PROVE  Pow2[a] * Pow2[b] = Pow2[a + b]
<1> DEFINE Bad == {n \in Nat : Pow2[a] * Pow2[n] # Pow2[a + n]}
<1>1. SUFFICES ASSUME Bad # {} PROVE FALSE
  OBVIOUS
<1>2. PICK n \in Bad : \A m \in Bad : n <= m
  BY <1>1, LeastNatural
<1>3. Pow2[a] \in Nat
  BY PowersOfTwo
<1>4. n # 0
  BY <1>3, PowersOfTwo
<1>5. n - 1 \in Nat /\ n - 1 \notin Bad /\ Pow2[n - 1] \in Nat
  BY <1>2, <1>4, PowersOfTwo
<1>6. Pow2[n] = 2 * Pow2[n - 1]
  <2>1. (n - 1) + 1 = n
    OBVIOUS
  <2>2. QED
    BY <2>1, <1>5, PowersOfTwo
<1>7. Pow2[a + n] = 2 * Pow2[a + (n - 1)]
  <2>1. a + (n - 1) \in Nat /\ (a + (n - 1)) + 1 = a + n
    BY <1>5
  <2>2. QED
    BY <2>1, PowersOfTwo
<1>8. Pow2[a] * Pow2[n - 1] = Pow2[a + (n - 1)]
  BY <1>5
<1>9. Pow2[a] * (2 * Pow2[n - 1]) = 2 * (Pow2[a] * Pow2[n - 1])
  BY <1>3, <1>5
<1>10. QED
  BY <1>6, <1>7, <1>8, <1>9

-----------------------------------------------------------------------------
(* Halves.                                                                 *)

Float == [neg : BOOLEAN, exp : Int, man : Nat]

Half == [neg : BOOLEAN, bits : 0..(Infinity - 1)]

(* Quotient and remainder are the only pair of their kind.                 *)
LEMMA DivisionIsUnique ==
    ASSUME NEW S \in Nat \ {0}, NEW q \in Nat, NEW r \in 0..(S - 1)
    PROVE  /\ (S * q + r) \div S = q
           /\ (S * q + r) % S = r
<1> DEFINE a == S * q + r
           p == a \div S
           t == a % S
<1>1. a \in Nat
  BY SMT
<1>2. a = S * p + t /\ p \in Nat /\ t \in 0..(S - 1)
  <2> HIDE DEF a
  <2>1. QED
    BY <1>1, Division
<1>3. S * q + r = S * p + t
  BY <1>2
<1> HIDE DEF a, p, t
<1>4. S * (q - p) = t - r
  BY <1>2, <1>3, SMT
<1>5. ~(q - p >= 1)
  <2>1. q - p >= 1 => S * (q - p) >= S
    BY <1>2, SMT
  <2>2. QED
    BY <1>2, <1>4, <2>1
<1>6. ~(p - q >= 1)
  <2>1. p - q >= 1 => S * (p - q) >= S
    BY <1>2, SMT
  <2>2. S * (p - q) = -(S * (q - p))
    BY <1>2, SMT
  <2>3. QED
    BY <1>2, <1>4, <2>1, <2>2
<1>7. p = q
  BY <1>2, <1>5, <1>6
<1>8. t = r
  BY <1>2, <1>4, <1>7
<1>9. QED
  BY <1>7, <1>8 DEF p, t, a

(* A multiple of the power that is dropped rounds to its factor.           *)
LEMMA ExactRounding ==
    ASSUME NEW m \in Nat, NEW d \in Nat \ {0}
    PROVE  RoundEven(m * Pow2[d], d) = m
<1>1. Pow2[d] \in Nat \ {0} /\ Pow2[d - 1] \in Nat \ {0}
  BY PowersOfTwo
<1>2. (Pow2[d] * m + 0) \div Pow2[d] = m /\ (Pow2[d] * m + 0) % Pow2[d] = 0
  <2>1. 0 \in 0..(Pow2[d] - 1)
    BY <1>1
  <2>2. QED
    BY <1>1, <2>1, DivisionIsUnique
<1>3. m * Pow2[d] = Pow2[d] * m + 0
  BY <1>1, SMT
<1>4. (m * Pow2[d]) \div Pow2[d] = m /\ (m * Pow2[d]) % Pow2[d] = 0
  BY <1>2, <1>3
<1>5. ~(0 > Pow2[d - 1]) /\ 0 # Pow2[d - 1]
  BY <1>1
<1>6. QED
  BY <1>4, <1>5 DEF RoundEven

(* Rounding gives a natural.                                               *)
LEMMA RoundingShape ==
    ASSUME NEW x \in Nat, NEW d \in Nat
    PROVE  RoundEven(x, d) \in Nat
<1>1. Pow2[d] \in Nat \ {0}
  BY PowersOfTwo
<1>2. x \div Pow2[d] \in Nat
  BY <1>1, Division
<1>3. (x \div Pow2[d]) + 1 \in Nat
  BY <1>2
<1>4. QED
  BY <1>2, <1>3 DEF RoundEven

(* There is at least one half.                                             *)
LEMMA InfinityShape == Infinity \in Nat \ {0}
<1>1. Pow2[HalfBits] \in Nat \ {0}
  BY PowersOfTwo, FloatAssumption
<1>2. HalfTop - HalfMin + 2 \in Nat \ {0}
  BY FloatAssumption
<1> DEFINE a == Pow2[HalfBits]
           b == HalfTop - HalfMin + 2
<1> HIDE DEF a, b
<1>3. a \in Nat \ {0} /\ b \in Nat \ {0} => a * b \in Nat \ {0}
  BY SMT
<1>4. QED
  BY <1>1, <1>2, <1>3 DEF Infinity, a, b

(* The lesser of two naturals under a bound is one of them.                *)
LEMMA LesserOfTwo ==
    ASSUME NEW a \in Nat, NEW b \in Nat
    PROVE  /\ Min({a, b}) \in {a, b}
           /\ Min({a, b}) <= a /\ Min({a, b}) <= b
           /\ a <= b => Min({a, b}) = a
<1>1. \E x \in {a, b} : \A y \in {a, b} : x <= y
  OBVIOUS
<1>2. /\ Min({a, b}) \in {a, b}
      /\ \A y \in {a, b} : Min({a, b}) <= y
  <2> DEFINE T == {a, b}
  <2>1. Min(T) = CHOOSE x \in T : \A y \in T : x <= y
    BY DEF Min
  <2>2. \E x \in T : \A y \in T : x <= y
    BY <1>1
  <2> HIDE DEF T
  <2>3. Min(T) \in T /\ \A y \in T : Min(T) <= y
    BY <2>1, <2>2
  <2>4. QED
    BY <2>3 DEF T
<1>3. QED
  BY <1>2

(* What the encoder yields is a half.                                      *)
LEMMA EncodedIsHalf ==
    ASSUME NEW v \in Float
    PROVE  F32ToF16Bits(v) \in Half
<1> DEFINE drop == FracBits - HalfBits
           low == RoundEven(v.man + Pow2[FracBits], HalfMin - v.exp + drop)
           high == (v.exp - HalfMin + 1) * Pow2[HalfBits] + RoundEven(v.man, drop)
           bits == IF v.exp < HalfMin - HalfBits THEN 0
                   ELSE IF v.exp < HalfMin THEN low ELSE high
<1>1. v.exp \in Int /\ v.man \in Nat /\ v.neg \in BOOLEAN /\ drop \in Nat
  BY FloatAssumption DEF Float
<1>2. Pow2[FracBits] \in Nat /\ Pow2[HalfBits] \in Nat
  BY PowersOfTwo, FloatAssumption
<1>3. v.exp < HalfMin => low \in Nat
  <2>1. v.exp < HalfMin => HalfMin - v.exp + drop \in Nat
    BY <1>1, FloatAssumption
  <2>2. v.man + Pow2[FracBits] \in Nat
    BY <1>1, <1>2
  <2>3. QED
    BY <2>1, <2>2, RoundingShape
<1>4. ~(v.exp < HalfMin) => high \in Nat
  <2>1. RoundEven(v.man, drop) \in Nat
    BY <1>1, RoundingShape
  <2>2. ~(v.exp < HalfMin) => v.exp - HalfMin + 1 \in Nat
    BY <1>1, FloatAssumption
  <2> DEFINE p == v.exp - HalfMin + 1
             q == Pow2[HalfBits]
             r == RoundEven(v.man, drop)
  <2> HIDE DEF p, q, r
  <2>3. p \in Nat /\ q \in Nat /\ r \in Nat => p * q + r \in Nat
    BY SMT
  <2>4. QED
    BY <1>2, <2>1, <2>2, <2>3 DEF p, q, r
<1>5. bits \in Nat
  BY <1>3, <1>4
<1>6. Infinity - 1 \in Nat
  BY InfinityShape
<1>7. 0 \in 0..(Infinity - 1)
  BY <1>6
<1>8. Min({bits, Infinity - 1}) \in 0..(Infinity - 1)
  <2> HIDE DEF bits
  <2>1. QED
    BY <1>5, <1>6, LesserOfTwo
<1>9. F32ToF16Bits(v) = IF v = NonFinite THEN [neg |-> FALSE, bits |-> 0]
                        ELSE [neg |-> v.neg, bits |-> Min({bits, Infinity - 1})]
  BY DEF F32ToF16Bits
<1> HIDE DEF bits
<1>10. QED
  BY <1>1, <1>7, <1>8, <1>9 DEF Half

(* A half decodes to a float that encodes to the half it came from: the    *)
(* round trip of f32_to_f16_bits and f16_bits_to_f32.                      *)
THEOREM HalfRoundTrip ==
    ASSUME NEW half \in Half
    PROVE  F32ToF16Bits(F16BitsToF32(half)) = half
<1> DEFINE P == Pow2[HalfBits]
           exp == half.bits \div P
           man == half.bits % P
           top == Max({k \in 0..HalfBits : Pow2[k] <= man})
           drop == FracBits - HalfBits
           v == F16BitsToF32(half)
           low == RoundEven(v.man + Pow2[FracBits], HalfMin - v.exp + drop)
           high == (v.exp - HalfMin + 1) * P + RoundEven(v.man, drop)
           bits == IF v.exp < HalfMin - HalfBits THEN 0
                   ELSE IF v.exp < HalfMin THEN low ELSE high
<1>0. SUFFICES F32ToF16Bits(v) = half
  OBVIOUS
<1>1. /\ HalfBits \in Nat /\ FracBits \in Nat /\ HalfBits < FracBits
      /\ HalfMin \in Int /\ HalfTop \in Int /\ HalfMin <= HalfTop /\ HalfTop <= 98
      /\ drop \in Nat \ {0} /\ P \in Nat \ {0} /\ Pow2[FracBits] \in Nat \ {0}
  BY FloatAssumption, PowersOfTwo
<1>2. /\ half.neg \in BOOLEAN /\ half.bits \in Nat /\ half.bits <= Infinity - 1
      /\ half = [neg |-> half.neg, bits |-> half.bits]
      /\ Infinity \in Nat \ {0}
  BY InfinityShape DEF Half
<1>3. /\ half.bits = P * exp + man
      /\ exp \in Nat /\ man \in 0..(P - 1)
  <2> HIDE DEF P
  <2>1. QED
    BY <1>1, <1>2, Division
<1>4. Min({half.bits, Infinity - 1}) = half.bits
  BY <1>2, LesserOfTwo
<1>5. F32ToF16Bits(v) = IF v = NonFinite THEN [neg |-> FALSE, bits |-> 0]
                        ELSE [neg |-> v.neg, bits |-> Min({bits, Infinity - 1})]
  BY DEF F32ToF16Bits
<1>6. v = IF half.bits >= Infinity THEN Zero(FALSE)
          ELSE IF half.bits = 0 THEN Zero(half.neg)
          ELSE IF exp = 0
               THEN [neg |-> half.neg, exp |-> HalfMin - HalfBits + top,
                     man |-> (man - Pow2[top]) * Pow2[FracBits - top]]
               ELSE [neg |-> half.neg, exp |-> exp - 1 + HalfMin,
                     man |-> man * Pow2[drop]]
  BY DEF F16BitsToF32
<1>7. ~(half.bits >= Infinity)
  BY <1>2
<1>8. v.exp # 99 => v # NonFinite
  BY DEF NonFinite
<1>9. ASSUME v.exp # 99, v.neg = half.neg, bits = half.bits
      PROVE  F32ToF16Bits(v) = half
  <2> HIDE DEF v, bits
  <2>1. QED
    BY <1>2, <1>4, <1>5, <1>8, <1>9
<1>10. CASE half.bits = 0
  <2>1. v = Zero(half.neg)
    <3> HIDE DEF v
    <3>1. QED
      BY <1>6, <1>7, <1>10
  <2>2. v.neg = half.neg /\ v.exp = HalfMin - 2 * FracBits
    BY <2>1 DEF Zero
  <2>3. v.exp < HalfMin - HalfBits /\ v.exp # 99
    <3> HIDE DEF v
    <3>1. QED
      BY <1>1, <2>2
  <2>4. bits = 0
    <3> HIDE DEF v
    <3>1. QED
      BY <2>3
  <2> HIDE DEF v, bits
  <2>5. QED
    BY <1>9, <1>10, <2>2, <2>3, <2>4
<1>11. CASE half.bits # 0 /\ exp = 0
  <2>1. half.bits = man /\ man \in Nat \ {0} /\ man < P
    <3> HIDE DEF P, exp, man
    <3>1. QED
      BY <1>1, <1>2, <1>3, <1>11
  <2> DEFINE Below == {k \in 0..HalfBits : Pow2[k] <= man}
  <2>2. top \in Below
    <3> HIDE DEF man, P
    <3>1. 0 \in Below
      BY <1>1, <2>1, PowersOfTwo
    <3>2. \E x \in Below : \A y \in Below : y <= x
      <4>1. Below \in SUBSET Nat /\ \A x \in Below : x <= HalfBits
        BY <1>1
      <4> HIDE DEF Below
      <4>2. QED
        BY <1>1, <3>1, <4>1, GreatestNatural
    <3>3. \E x \in Below : \A y \in Below : x >= y
      BY <1>1, <3>2
    <3>4. top = CHOOSE x \in Below : \A y \in Below : x >= y
      BY DEF Max
    <3> HIDE DEF Below, top
    <3>5. QED
      BY <3>3, <3>4
  <2>3. top \in 0..HalfBits /\ Pow2[top] <= man /\ top # HalfBits
    <3> HIDE DEF man, top
    <3>1. top \in 0..HalfBits /\ Pow2[top] <= man
      BY <2>2
    <3>2. Pow2[top] \in Nat
      BY <1>1, <3>1, PowersOfTwo
    <3>3. top = HalfBits => P <= man
      BY <3>1
    <3>4. ~(P <= man)
      <4> HIDE DEF P
      <4>1. QED
        BY <1>1, <2>1
    <3>5. QED
      BY <3>1, <3>3, <3>4
  <2> HIDE DEF top, exp
  <2>4. v = [neg |-> half.neg, exp |-> HalfMin - HalfBits + top,
             man |-> (man - Pow2[top]) * Pow2[FracBits - top]]
    <3> HIDE DEF v, man, P
    <3>1. QED
      BY <1>6, <1>7, <1>11
  <2>5. /\ v.neg = half.neg /\ v.exp = HalfMin - HalfBits + top
        /\ v.man = (man - Pow2[top]) * Pow2[FracBits - top]
    <3> HIDE DEF man
    <3>1. QED
      BY <2>4
  <2> HIDE DEF v, man
  <2>6. FracBits - top \in Nat \ {0} /\ HalfMin - v.exp + drop = FracBits - top
    BY <1>1, <2>3, <2>5
  <2>7. Pow2[top] * Pow2[FracBits - top] = Pow2[FracBits]
    <3>1. top \in Nat /\ top + (FracBits - top) = FracBits
      BY <1>1, <2>3
    <3>2. QED
      BY <2>6, <3>1, PowersMultiply
  <2>8. v.man + Pow2[FracBits] = man * Pow2[FracBits - top]
    <3> DEFINE a == Pow2[top]
               b == Pow2[FracBits - top]
    <3>1. a \in Nat /\ b \in Nat
      BY <1>1, <2>3, <2>6, PowersOfTwo
    <3> HIDE DEF a, b
    <3>2. man \in Nat => (man - a) * b + a * b = man * b
      BY <3>1, SMT
    <3>3. QED
      BY <2>1, <2>5, <2>7, <3>2 DEF a, b
  <2>9. low = man
    <3>1. low = RoundEven(man * Pow2[FracBits - top], FracBits - top)
      BY <2>6, <2>8
    <3>2. QED
      BY <2>1, <2>6, <3>1, ExactRounding
  <2>10. ~(v.exp < HalfMin - HalfBits) /\ v.exp < HalfMin /\ v.exp # 99
    BY <1>1, <2>3, <2>5
  <2>11. bits = half.bits
    <3> HIDE DEF low
    <3>1. QED
      BY <2>1, <2>9, <2>10
  <2> HIDE DEF bits
  <2>12. QED
    BY <1>9, <2>5, <2>10, <2>11
<1>12. CASE half.bits # 0 /\ exp # 0
  <2> HIDE DEF top, exp
  <2>1. v = [neg |-> half.neg, exp |-> exp - 1 + HalfMin, man |-> man * Pow2[drop]]
    <3> HIDE DEF v, man, P, drop
    <3>1. QED
      BY <1>6, <1>7, <1>12
  <2>2. v.neg = half.neg /\ v.exp = exp - 1 + HalfMin /\ v.man = man * Pow2[drop]
    <3> HIDE DEF man, drop
    <3>1. QED
      BY <2>1
  <2>3. exp < HalfTop - HalfMin + 2
    <3> DEFINE n == HalfTop - HalfMin + 2
    <3>1. Infinity = P * n
      BY DEF Infinity
    <3>2. n \in Nat
      BY <1>1
    <3> HIDE DEF n, P, man
    <3>3. P * exp < P * n
      <4>1. P * exp \in Int
        BY <1>1, <1>3
      <4>2. QED
        BY <1>1, <1>2, <1>3, <3>1, <4>1
    <3>4. exp >= n => P * exp >= P * n
      BY <1>1, <1>3, <3>2, SMT
    <3>5. QED
      <4>1. P * exp \in Int /\ P * n \in Int
        BY <1>1, <1>3, <3>2
      <4>2. QED
        BY <1>3, <3>2, <3>3, <3>4, <4>1 DEF n
  <2> HIDE DEF v
  <2>4. ~(v.exp < HalfMin - HalfBits) /\ ~(v.exp < HalfMin) /\ v.exp # 99
    <3> HIDE DEF P, man
    <3>1. QED
      BY <1>1, <1>3, <1>12, <2>2, <2>3
  <2>5. RoundEven(v.man, drop) = man
    <3> HIDE DEF drop, P
    <3>1. man \in Nat
      BY <1>1, <1>3
    <3> HIDE DEF man
    <3>2. QED
      BY <1>1, <2>2, <3>1, ExactRounding
  <2>6. (v.exp - HalfMin + 1) * P + man = half.bits
    <3> HIDE DEF P, man
    <3>0. exp \in Int /\ HalfMin \in Int
      BY <1>1, <1>3
    <3>1. v.exp - HalfMin + 1 = exp
      BY <3>0, <2>2
    <3>2. exp * P = P * exp
      BY <1>1, <1>3, SMT
    <3>3. QED
      BY <1>3, <3>1, <3>2
  <2>7. bits = half.bits
    <3> HIDE DEF low, P, man, drop
    <3>1. QED
      BY <2>4, <2>5, <2>6
  <2> HIDE DEF bits
  <2>8. QED
    BY <1>9, <2>2, <2>4, <2>7
<1>13. QED
  BY <1>10, <1>11, <1>12

-----------------------------------------------------------------------------
(* The indices of a set in ascending order.                                *)

(* InOrder lists a set of indices without repetition or omission.          *)
LEMMA InOrderLists ==
    ASSUME NEW n \in Nat, NEW S \in SUBSET (1..n)
    PROVE  /\ Cardinality(S) \in Nat
           /\ DOMAIN InOrder(S) = 1..Cardinality(S)
           /\ \A k \in 1..Cardinality(S) : InOrder(S)[k] \in S
           /\ \A i \in S : \E k \in 1..Cardinality(S) : InOrder(S)[k] = i
<1> DEFINE UpTo(i) == {j \in S : j <= i}
           rank == [i \in S |-> Cardinality(UpTo(i))]
           c == Cardinality(S)
<1>1. IsFiniteSet(S) /\ c \in Nat
  <2>1. IsFiniteSet(1..n)
    BY FS_Interval
  <2>2. IsFiniteSet(S)
    BY <2>1, FS_Subset
  <2>3. QED
    BY <2>2, FS_CardinalityType
<1>2. ASSUME NEW i \in S
      PROVE  rank[i] \in 1..c
  <2>1. IsFiniteSet(UpTo(i)) /\ Cardinality(UpTo(i)) <= c
    BY <1>1, FS_Subset
  <2>2. Cardinality(UpTo(i)) \in Nat
    BY <2>1, FS_CardinalityType
  <2>3. i \in UpTo(i)
    OBVIOUS
  <2>4. Cardinality(UpTo(i)) # 0
    BY <2>1, <2>3, FS_EmptySet
  <2> HIDE DEF UpTo
  <2>5. QED
    BY <1>1, <2>1, <2>2, <2>4
<1>3. ASSUME NEW i \in S, NEW j \in S, i < j
      PROVE  rank[i] # rank[j]
  <2>0. S \subseteq Int /\ i \in Int /\ j \in Int
    OBVIOUS
  <2>1. UpTo(i) \in SUBSET UpTo(j) /\ j \in UpTo(j) /\ j \notin UpTo(i)
    <3>1. ASSUME NEW x \in UpTo(i) PROVE x \in UpTo(j)
      <4>1. x \in S /\ x \in Int /\ x <= i
        BY <2>0
      <4>2. x <= j
        BY <1>3, <2>0, <4>1
      <4>3. QED
        BY <4>1, <4>2
    <3>2. j \in UpTo(j)
      BY <2>0
    <3>3. j \notin UpTo(i)
      BY <1>3, <2>0
    <3> HIDE DEF UpTo
    <3>4. QED
      BY <3>1, <3>2, <3>3
  <2>2. IsFiniteSet(UpTo(j))
    BY <1>1, FS_Subset
  <2> HIDE DEF UpTo
  <2>3. Cardinality(UpTo(j)) # Cardinality(UpTo(i))
    BY <2>1, <2>2, FS_Subset
  <2>4. QED
    BY <2>3
<1>4. ASSUME NEW i \in S, NEW j \in S, rank[i] = rank[j]
      PROVE  i = j
  <2>1. i \in Int /\ j \in Int
    OBVIOUS
  <2> HIDE DEF rank
  <2>2. QED
    BY <2>1, <1>3, <1>4
<1>5. rank \in Surjection(S, 1..c)
  <2>1. rank \in [S -> 1..c]
    BY <1>2
  <2>2. rank \in Injection(S, 1..c)
    <3> HIDE DEF rank, c
    <3>1. QED
      BY <2>1, <1>4 DEF Injection, IsInjective
  <2>3. IsFiniteSet(1..c) /\ Cardinality(1..c) = c
    BY <1>1, FS_Interval
  <2>4. Cardinality(S) = Cardinality(1..c)
    BY <2>3
  <2> HIDE DEF rank, c
  <2>5. QED
    BY <2>2, <2>3, <2>4, FS_Injection
<1>6. ASSUME NEW k \in 1..c, NEW i \in S, rank[i] = k
      PROVE  InOrder(S)[k] = i
  <2> DEFINE x == CHOOSE x \in S : Cardinality(UpTo(x)) = k
  <2>1. InOrder(S)[k] = x
    BY DEF InOrder
  <2>2. Cardinality(UpTo(i)) = k
    BY <1>6
  <2> HIDE DEF UpTo
  <2>3. x \in S /\ Cardinality(UpTo(x)) = k
    BY <2>2
  <2> HIDE DEF x
  <2>4. rank[x] = k
    BY <2>3
  <2> HIDE DEF rank
  <2>5. x = i
    BY <1>4, <1>6, <2>3, <2>4
  <2>6. QED
    BY <2>1, <2>5
<1>7. DOMAIN InOrder(S) = 1..c
  BY DEF InOrder
<1>8. ASSUME NEW k \in 1..c
      PROVE  InOrder(S)[k] \in S
  <2> HIDE DEF rank, c
  <2>1. PICK i \in S : rank[i] = k
    BY <1>5 DEF Surjection
  <2>2. QED
    BY <1>6, <2>1
<1>9. ASSUME NEW i \in S
      PROVE  \E k \in 1..c : InOrder(S)[k] = i
  <2> HIDE DEF rank, c
  <2>1. rank[i] \in 1..c
    BY <1>2
  <2>2. QED
    BY <1>6, <2>1
<1>10. QED
  BY <1>1, <1>7, <1>8, <1>9

-----------------------------------------------------------------------------
(* The values a property settles on.                                       *)

\* One decode after one encode.
RoundTrip(prop, v) == DecodeProp(prop, EncodeProp(prop, v))

IsSettled(prop, v) == RoundTrip(prop, v) = v

\* What a property may hold before it is first rounded.
IsNative(prop, v) == v \in Samples(prop.kind) \/ v = Zeroed(prop.kind)

\* What a row may hold of a property.
IsKept(prop, v) == IsNative(prop, v) \/ IsSettled(prop, v)

\* A property as one of the declarations resolves it.
IsDeclared(prop) ==
    \E e \in Declarations : \E n \in DOMAIN e : prop = PushQuantized(e[n])

(* Eight rounds of decode after encode take an orientation the game may    *)
(* write to one that a further round leaves alone: what canonicalize_value *)
(* calls its fixed point.  The walk of the pack has a bound, so this is a  *)
(* fact about the grid the widths give, and TLC evaluates it for a run's.  *)
OrientationsSettle ==
    \A e \in Declarations : \A n \in DOMAIN e :
        LET prop == PushQuantized(e[n])
        IN  prop.quant = "Ss3" =>
                \A v \in Samples(prop.kind) \cup {Zeroed(prop.kind)} :
                    IsSettled(prop, CanonicalizeValue(prop, v))

(* A quantised value is canonicalised by eight rounds, each from the last. *)
LEMMA EightRounds ==
    ASSUME NEW prop, NEW v, prop.quant # "None"
    PROVE  \E r : /\ r[0] = v
                  /\ \A k \in 0..7 : r[k + 1] = RoundTrip(prop, r[k])
                  /\ CanonicalizeValue(prop, v) = r[8]
<1> DEFINE G(x) == DecodeProp(prop, EncodeProp(prop, x))
           a1 == G(v)
           a2 == G(a1)
           a3 == G(a2)
           a4 == G(a3)
           a5 == G(a4)
           a6 == G(a5)
           a7 == G(a6)
           a8 == G(a7)
           w == [k \in 0..8 |->
                   IF k = 0 THEN v ELSE IF k = 1 THEN a1 ELSE IF k = 2 THEN a2
                   ELSE IF k = 3 THEN a3 ELSE IF k = 4 THEN a4 ELSE IF k = 5 THEN a5
                   ELSE IF k = 6 THEN a6 ELSE IF k = 7 THEN a7 ELSE a8]
           Round(f) == [k \in 0..8 |-> IF k = 0 THEN v ELSE G(f[k - 1])]
           chosen == CHOOSE f : f = Round(f)
<1>1. w = Round(w)
  <2> HIDE DEF a1, a2, a3, a4, a5, a6, a7, a8
  <2>1. /\ a1 = G(v) /\ a2 = G(a1) /\ a3 = G(a2) /\ a4 = G(a3)
        /\ a5 = G(a4) /\ a6 = G(a5) /\ a7 = G(a6) /\ a8 = G(a7)
    BY DEF a1, a2, a3, a4, a5, a6, a7, a8
  <2> HIDE DEF G
  <2>2. \A k \in 0..8 : w[k] = IF k = 0 THEN v ELSE G(w[k - 1])
    BY <2>1
  <2>3. w = [k \in 0..8 |-> w[k]]
    OBVIOUS
  <2> HIDE DEF w
  <2>4. QED
    BY <2>2, <2>3
<1> HIDE DEF w
<1>2. chosen = Round(chosen)
  <2> HIDE DEF Round
  <2>1. QED
    BY <1>1
<1>3. CanonicalizeValue(prop, v) = chosen[8]
  BY DEF CanonicalizeValue
<1> HIDE DEF chosen
<1>4. chosen[0] = v /\ \A k \in 0..7 : chosen[k + 1] = G(chosen[k])
  <2> HIDE DEF G
  <2>1. \A k \in 0..8 : chosen[k] = IF k = 0 THEN v ELSE G(chosen[k - 1])
    BY <1>2
  <2>2. \A k \in 0..7 : k + 1 \in 0..8 /\ k + 1 # 0 /\ (k + 1) - 1 = k
    OBVIOUS
  <2>3. QED
    BY <2>1, <2>2
<1>5. QED
  BY <1>3, <1>4 DEF RoundTrip

(* A settled value is canonical already.                                   *)
LEMMA SettledIsCanonical ==
    ASSUME NEW prop, NEW v, IsSettled(prop, v)
    PROVE  CanonicalizeValue(prop, v) = v
<1>1. CASE prop.quant = "None"
  BY <1>1 DEF CanonicalizeValue
<1>2. CASE prop.quant # "None"
  <2>1. PICK r : /\ r[0] = v
                 /\ \A k \in 0..7 : r[k + 1] = RoundTrip(prop, r[k])
                 /\ CanonicalizeValue(prop, v) = r[8]
    BY <1>2, EightRounds
  <2>2. /\ r[1] = RoundTrip(prop, r[0]) /\ r[2] = RoundTrip(prop, r[1])
        /\ r[3] = RoundTrip(prop, r[2]) /\ r[4] = RoundTrip(prop, r[3])
        /\ r[5] = RoundTrip(prop, r[4]) /\ r[6] = RoundTrip(prop, r[5])
        /\ r[7] = RoundTrip(prop, r[6]) /\ r[8] = RoundTrip(prop, r[7])
    BY <2>1
  <2>3. QED
    BY <2>1, <2>2 DEF IsSettled
<1>3. QED
  BY <1>1, <1>2

(* A value that one round settles is settled by eight.                     *)
LEMMA OneRoundSettles ==
    ASSUME NEW prop, NEW v, prop.quant # "None", IsSettled(prop, RoundTrip(prop, v))
    PROVE  IsSettled(prop, CanonicalizeValue(prop, v))
<1>1. PICK r : /\ r[0] = v
               /\ \A k \in 0..7 : r[k + 1] = RoundTrip(prop, r[k])
               /\ CanonicalizeValue(prop, v) = r[8]
  BY EightRounds
<1>2. /\ r[1] = RoundTrip(prop, r[0]) /\ r[2] = RoundTrip(prop, r[1])
      /\ r[3] = RoundTrip(prop, r[2]) /\ r[4] = RoundTrip(prop, r[3])
      /\ r[5] = RoundTrip(prop, r[4]) /\ r[6] = RoundTrip(prop, r[5])
      /\ r[7] = RoundTrip(prop, r[6]) /\ r[8] = RoundTrip(prop, r[7])
  BY <1>1
<1>3. RoundTrip(prop, r[1]) = r[1]
  BY <1>1, <1>2 DEF IsSettled
<1>4. QED
  BY <1>1, <1>2, <1>3 DEF IsSettled

(* A resolved property carries a quantiser its kind admits.                *)
LEMMA DeclaredQuantisers ==
    ASSUME NEW prop, IsDeclared(prop)
    PROVE  /\ prop.quant \in {"None", "Ss3", "Half"}
           /\ prop.quant = "Half" =>
                 /\ prop.kind \in {"Vec3", "Vec2", "F32"}
                 /\ \A v : IsNative(prop, v) => v \in Seq(Float)
<1>0. PICK e \in Declarations : \E n \in DOMAIN e : prop = PushQuantized(e[n])
  BY DEF IsDeclared
<1>1. PICK n \in DOMAIN e : prop = PushQuantized(e[n])
  BY <1>0
<1>2. /\ prop.kind = e[n].kind
      /\ prop.quant = IF ValidFor(e[n].asks, e[n].kind) THEN e[n].asks ELSE "None"
  BY <1>1 DEF PushQuantized
<1>3. /\ prop.quant \in {"None", "Ss3", "Half"}
      /\ prop.quant = "Half" => prop.kind \in {"Vec3", "Vec2", "F32"}
  BY <1>2 DEF ValidFor
<1>4. ASSUME prop.quant = "Half", NEW v, IsNative(prop, v)
      PROVE  v \in Seq(Float)
  <2>1. prop.kind \in {"Vec3", "Vec2", "F32"} /\ e[n].kind \in {"Vec3", "Vec2", "F32"}
    BY <1>2, <1>3, <1>4
  <2>2. CASE v \in Samples(prop.kind)
    BY <1>2, <2>1, <2>2, DeclarationsAssumption DEF Float
  <2>3. CASE v = Zeroed(prop.kind)
    <3> DEFINE z == Zero(FALSE)
    <3>1. z \in Float
      BY FloatAssumption DEF Float, Zero
    <3>2. <<z>> \in Seq(Float) /\ <<z, z>> \in Seq(Float) /\ <<z, z, z>> \in Seq(Float)
      <4> HIDE DEF z
      <4>1. QED
        BY <3>1
    <3>3. QED
      BY <2>1, <2>3, <3>2 DEF Zeroed
  <2>4. QED
    BY <1>4, <2>2, <2>3 DEF IsNative
<1>5. QED
  BY <1>3, <1>4

(* One round settles a vector of floats.                                   *)
LEMMA HalvesSettle ==
    ASSUME NEW prop, prop.quant = "Half", NEW v \in Seq(Float)
    PROVE  IsSettled(prop, RoundTrip(prop, v))
<1> DEFINE enc == [i \in DOMAIN v |-> F32ToF16Bits(v[i])]
           dec == [i \in DOMAIN v |-> F16BitsToF32(enc[i])]
<1>1. \A x : EncodeProp(prop, x) = [i \in DOMAIN x |-> F32ToF16Bits(x[i])]
  BY DEF EncodeProp
<1>2. \A x : DecodeProp(prop, x) = [i \in DOMAIN x |-> F16BitsToF32(x[i])]
  BY DEF DecodeProp
<1>3. RoundTrip(prop, v) = dec
  <2>1. EncodeProp(prop, v) = enc
    BY <1>1
  <2>2. DecodeProp(prop, enc) = dec
    BY <1>2
  <2>3. QED
    BY <2>1, <2>2 DEF RoundTrip
<1>4. ASSUME NEW i \in DOMAIN v
      PROVE  F32ToF16Bits(dec[i]) = enc[i]
  <2>1. v[i] \in Float
    BY ElementOfSeq
  <2>2. enc[i] \in Half
    BY <2>1, EncodedIsHalf
  <2>3. dec[i] = F16BitsToF32(enc[i])
    OBVIOUS
  <2> HIDE DEF enc, dec
  <2>4. QED
    BY <2>2, <2>3, HalfRoundTrip
<1>5. EncodeProp(prop, dec) = enc
  <2>1. EncodeProp(prop, dec) = [i \in DOMAIN dec |-> F32ToF16Bits(dec[i])]
    BY <1>1
  <2>2. DOMAIN dec = DOMAIN v
    OBVIOUS
  <2>3. [i \in DOMAIN v |-> F32ToF16Bits(dec[i])] = [i \in DOMAIN v |-> enc[i]]
    <3> HIDE DEF enc, dec
    <3>1. QED
      BY <1>4
  <2>4. enc = [i \in DOMAIN v |-> enc[i]]
    OBVIOUS
  <2> HIDE DEF enc, dec
  <2>5. QED
    BY <2>1, <2>2, <2>3, <2>4
<1>6. DecodeProp(prop, enc) = dec
  BY <1>2
<1> HIDE DEF enc, dec
<1>7. QED
  BY <1>3, <1>5, <1>6 DEF IsSettled, RoundTrip

(* What a capture stores is settled.                                       *)
LEMMA CaptureSettles ==
    ASSUME OrientationsSettle, NEW prop, IsDeclared(prop), NEW v, IsKept(prop, v)
    PROVE  IsSettled(prop, CanonicalizeValue(prop, v))
<1>1. CASE IsSettled(prop, v)
  BY <1>1, SettledIsCanonical
<1>2. CASE prop.quant = "None"
  <2>1. CanonicalizeValue(prop, v) = v
    BY <1>2 DEF CanonicalizeValue
  <2>2. EncodeProp(prop, v) = v
    BY <1>2 DEF EncodeProp
  <2>3. DecodeProp(prop, v) = v
    BY <1>2 DEF DecodeProp
  <2>4. QED
    BY <2>1, <2>2, <2>3 DEF IsSettled, RoundTrip
<1>3. CASE IsNative(prop, v) /\ prop.quant = "Half"
  <2>1. v \in Seq(Float)
    BY <1>3, DeclaredQuantisers
  <2>2. QED
    BY <1>3, <2>1, HalvesSettle, OneRoundSettles
<1>4. CASE IsNative(prop, v) /\ prop.quant = "Ss3"
  <2>0. PICK e \in Declarations : \E n \in DOMAIN e : prop = PushQuantized(e[n])
    BY DEF IsDeclared
  <2>1. PICK n \in DOMAIN e : prop = PushQuantized(e[n])
    BY <2>0
  <2>2. v \in Samples(prop.kind) \cup {Zeroed(prop.kind)}
    BY <1>4 DEF IsNative
  <2>3. QED
    BY <1>4, <2>1, <2>2 DEF OrientationsSettle
<1>5. QED
  BY <1>1, <1>2, <1>3, <1>4, DeclaredQuantisers DEF IsKept

-----------------------------------------------------------------------------
(* The rows of a body.                                                     *)

\* The schema is a list of properties some declaration resolves.
SchemaShape ==
    /\ \E n \in Nat : DOMAIN schema = 1..n
    /\ \A i \in DOMAIN schema : IsDeclared(schema[i])

FullRow(r) == r = [i \in DOMAIN schema |-> r[i]]

\* A staged call carries the newest row, and a filled array what the game holds.
CallsCarryTheRow ==
    /\ phase = "restoring" /\ staged # NoCall =>
           staged = [hook |-> "restore", values |-> Marshalled("restore", row)]
    /\ phase = "recorded" /\ staged # NoCall =>
           staged = [hook |-> "apply", values |-> Marshalled("apply", row)]
    /\ phase = "capturing" /\ staged # NoCall => staged = [NoCall EXCEPT !.hook = "capture"]
    /\ phase = "filled" => staged.values = live
    /\ phase \notin {"restoring", "capturing", "filled", "recorded"} => staged = NoCall

\* What the game still holds of the restored properties is the newest row.
BodyIsRow ==
    \A i \in DOMAIN schema \ gone :
        IsRestored(schema[i].role) /\ live[i] # Drifted => live[i] = row[i]

\* A body that nothing is staged for has its row already.
WalkedBodiesLanded ==
    /\ phase = "restoring" /\ staged = NoCall => BodyIsRow
    /\ phase = "recorded" /\ staged = NoCall /\ ~IsInputLane => BodyIsRow

LandInv ==
    /\ SchemaShape
    /\ FullRow(live)
    /\ phase = "received" => FullRow(pending)
    /\ CallsCarryTheRow
    /\ WalkedBodiesLanded
    /\ RowsLandWhole

(* Resolution keeps to the declarations.                                   *)
LEMMA ResolvedShape ==
    ASSUME NEW e \in Declarations, schema = ResolveEntries(e)
    PROVE  SchemaShape
<1> DEFINE S == {i \in DOMAIN e : e[i].resolves}
           found == InOrder(S)
<1>1. e \in Seq([kind : STRING, role : STRING, asks : STRING, resolves : BOOLEAN])
  BY DeclarationsAssumption
<1>2. Len(e) \in Nat /\ DOMAIN e = 1..Len(e)
  <2>1. \A X : \A s \in Seq(X) : Len(s) \in Nat /\ DOMAIN s = 1..Len(s)
    OBVIOUS
  <2>2. QED
    BY <1>1, <2>1
<1>3. S \in SUBSET (1..Len(e))
  BY <1>2
<1> HIDE DEF S
<1>4. /\ Cardinality(S) \in Nat
      /\ DOMAIN found = 1..Cardinality(S)
      /\ \A k \in 1..Cardinality(S) : found[k] \in S
  BY <1>2, <1>3, InOrderLists
<1> HIDE DEF found
<1>5. schema = [k \in DOMAIN found |-> PushQuantized(e[found[k]])]
  BY DEF ResolveEntries, found, S
<1>6. DOMAIN schema = 1..Cardinality(S)
  BY <1>4, <1>5
<1>7. ASSUME NEW k \in DOMAIN schema
      PROVE  IsDeclared(schema[k])
  <2>1. found[k] \in DOMAIN e
    BY <1>2, <1>3, <1>4, <1>6
  <2>2. schema[k] = PushQuantized(e[found[k]])
    BY <1>4, <1>5, <1>6
  <2>3. QED
    BY <2>1, <2>2 DEF IsDeclared
<1>8. QED
  BY <1>4, <1>6, <1>7 DEF SchemaShape

(* A hook's method writes the row it was handed: every property of it by   *)
(* the apply hook, the restored ones by the restore hook, and of the rest  *)
(* nothing but what the row holds.                                         *)
LEMMA HooksLandTheRow ==
    ASSUME SchemaShape, NEW h \in {"restore", "apply"}, NEW r, NEW body
    PROVE  LET lands == Invoked(h, Marshalled(h, r), body)
           IN  /\ FullRow(lands)
               /\ \A i \in DOMAIN schema :
                     /\ lands[i] \in {r[i], body[i]}
                     /\ h = "apply" \/ IsRestored(schema[i].role) => lands[i] = r[i]
<1> DEFINE order == GameOrder(h)
           values == Marshalled(h, r)
           lands == Invoked(h, values, body)
           at(i) == {k \in DOMAIN values : order[k] = i}
<1>0. PICK n \in Nat : DOMAIN schema = 1..n
  BY DEF SchemaShape
<1> DEFINE S == {i \in DOMAIN schema : IsRestored(schema[i].role)}
<1>1. HookSlots(schema)[h] = order
  BY DEF HookSlots, GameOrder
<1>2. values = [k \in DOMAIN order |-> r[order[k]]]
  <2> HIDE DEF order
  <2>1. QED
    BY <1>1 DEF Marshalled
<1>3. lands = [i \in DOMAIN schema |->
                  IF at(i) = {} THEN body[i] ELSE values[CHOOSE k \in at(i) : TRUE]]
  BY DEF Invoked
<1>4. ASSUME NEW i \in DOMAIN schema, h = "apply" \/ IsRestored(schema[i].role)
      PROVE  \E k \in DOMAIN order : order[k] = i
  <2>1. CASE h = "apply"
    <3>1. order = [j \in DOMAIN schema |-> j]
      BY <2>1 DEF GameOrder
    <3> HIDE DEF order
    <3>2. i \in DOMAIN order /\ order[i] = i
      BY <3>1
    <3>3. QED
      BY <3>2
  <2>2. CASE h # "apply"
    <3>1. order = InOrder(S)
      BY <2>2 DEF GameOrder, Restored
    <3>2. S \in SUBSET (1..n) /\ i \in S
      BY <1>0, <1>4, <2>2
    <3> HIDE DEF S, order
    <3>3. QED
      BY <3>1, <3>2, InOrderLists
  <2>3. QED
    BY <2>1, <2>2
<1> HIDE DEF order, values, lands
<1>5. ASSUME NEW i \in DOMAIN schema
      PROVE  /\ at(i) # {} => lands[i] = r[i]
             /\ at(i) = {} => lands[i] = body[i]
  <2>1. CASE at(i) = {}
    BY <1>3, <2>1
  <2>2. CASE at(i) # {}
    <3> DEFINE k == CHOOSE k \in at(i) : TRUE
    <3>1. k \in at(i)
      <4> HIDE DEF at
      <4>1. QED
        BY <2>2
    <3>2. lands[i] = values[k]
      BY <1>3, <2>2
    <3> HIDE DEF k
    <3>3. k \in DOMAIN order /\ order[k] = i
      BY <1>2, <3>1
    <3>4. values[k] = r[order[k]]
      BY <1>2, <3>3
    <3>5. QED
      BY <2>2, <3>2, <3>3, <3>4
  <2>3. QED
    BY <2>1, <2>2
<1>6. ASSUME NEW i \in DOMAIN schema, h = "apply" \/ IsRestored(schema[i].role)
      PROVE  lands[i] = r[i]
  <2>1. PICK k \in DOMAIN order : order[k] = i
    BY <1>4, <1>6
  <2>2. k \in at(i)
    BY <1>2, <2>1
  <2>3. at(i) # {}
    <3> HIDE DEF at
    <3>1. QED
      BY <2>2
  <2>4. QED
    BY <1>5, <2>3
<1>7. FullRow(lands)
  <2>1. \A i \in DOMAIN lands : lands[i] = lands[i]
    OBVIOUS
  <2>2. DOMAIN lands = DOMAIN schema /\ lands = [i \in DOMAIN schema |-> lands[i]]
    BY <1>3
  <2>3. QED
    BY <2>2 DEF FullRow
<1>8. QED
  <2> HIDE DEF at
  <2>1. \A i \in DOMAIN schema : lands[i] \in {r[i], body[i]}
    BY <1>5
  <2>2. QED
    BY <1>6, <1>7, <2>1 DEF lands, values

(* The first state has nothing staged and nothing to land.                 *)
LEMMA LandInit == BindingInit => LandInv
<1> SUFFICES ASSUME BindingInit PROVE LandInv
  OBVIOUS
<1>1. SchemaShape
  BY ResolvedShape DEF BindingInit
<1>2. FullRow(live)
  BY DEF BindingInit, FullRow
<1>3. phase = "idle" /\ staged = NoCall
  BY DEF BindingInit
<1>4. CallsCarryTheRow /\ WalkedBodiesLanded /\ RowsLandWhole
  BY <1>3 DEF CallsCarryTheRow, WalkedBodiesLanded, RowsLandWhole
<1>5. QED
  BY <1>1, <1>2, <1>3, <1>4 DEF LandInv

(* A body the walk restores or writes back holds its row.                  *)
LEMMA WalksLandTheRow ==
    ASSUME NEW r, NEW body, NEW indices
    PROVE  LET lands == ApplyTo(body, r, indices)
           IN  /\ FullRow(lands)
               /\ \A i \in DOMAIN schema :
                     lands[i] = IF i \in indices \ gone THEN r[i] ELSE body[i]
  BY DEF ApplyTo, FullRow

(* The steps of a tick in which rows land.                                 *)
LEMMA RestoreLands ==
    ASSUME LandInv, RestoreTick
    PROVE  LandInv'
<1>1. /\ phase' = "restoring" /\ schema' = schema /\ gone' = gone /\ row' = row
      /\ IF Usable("restore")
         THEN StageFromRow("restore", row) /\ UNCHANGED live
         ELSE live' = ApplyRow(live, row, TRUE) /\ UNCHANGED staged
  BY DEF RestoreTick
<1>2. SchemaShape /\ FullRow(live)
  BY DEF LandInv
<1>3. SchemaShape'
  BY <1>1, <1>2 DEF SchemaShape
<1>4. CASE Usable("restore")
  <2>1. staged' = [hook |-> "restore", values |-> Marshalled("restore", row)] /\ live' = live
    BY <1>1, <1>4 DEF StageFromRow
  <2>2. Marshalled("restore", row)' = Marshalled("restore", row)
    BY <1>1 DEF Marshalled
  <2>3. FullRow(live)'
    BY <1>1, <1>2, <2>1 DEF FullRow
  <2>4. staged' # NoCall
    <3>1. staged'.hook = "restore"
      BY <2>1
    <3>2. QED
      BY <3>1 DEF NoCall
  <2>5. CallsCarryTheRow'
    BY <1>1, <2>1, <2>2 DEF CallsCarryTheRow
  <2>6. WalkedBodiesLanded' /\ RowsLandWhole'
    BY <1>1, <2>4 DEF WalkedBodiesLanded, RowsLandWhole, NoCall
  <2>7. QED
    BY <1>1, <1>3, <2>3, <2>5, <2>6 DEF LandInv
<1>5. CASE ~Usable("restore")
  <2> DEFINE indices == {i \in DOMAIN schema : IsRestored(schema[i].role)}
  <2>1. live' = ApplyTo(live, row, indices)
    <3>1. ApplyRow(live, row, TRUE) = ApplyTo(live, row, indices)
      BY DEF ApplyRow
    <3>2. QED
      BY <1>1, <1>5, <3>1
  <2>2. /\ FullRow(live')
        /\ \A i \in DOMAIN schema :
              live'[i] = IF i \in indices \ gone THEN row[i] ELSE live[i]
    <3> HIDE DEF indices
    <3>1. QED
      BY <2>1, WalksLandTheRow
  <2>3. FullRow(live)'
    BY <1>1, <2>2 DEF FullRow
  <2>4. BodyIsRow'
    BY <1>1, <2>2 DEF BodyIsRow
  <2>5. staged' = staged
    BY <1>1, <1>5
  <2>6. CallsCarryTheRow'
    <3>1. staged' = NoCall
      BY <2>5 DEF LandInv, CallsCarryTheRow, RestoreTick
    <3>2. QED
      BY <1>1, <3>1 DEF CallsCarryTheRow, NoCall
  <2>7. WalkedBodiesLanded' /\ RowsLandWhole'
    BY <1>1, <2>4 DEF WalkedBodiesLanded, RowsLandWhole
  <2>8. QED
    BY <1>1, <1>3, <2>3, <2>6, <2>7 DEF LandInv
<1>6. QED
  BY <1>4, <1>5

\* The steps that land no row and stage no row.
QuietStep ==
    \/ Simulate \/ GameDriftsAType \/ GameFreesANode \/ GameResizesAnArray
    \/ StageCapture \/ CaptureHooksRun \/ Receive \/ NextTick

(* A decoded row has a value for every property.                           *)
LEMMA DecodedIsFull == FullRow(DecodeRow(schema, EncodeRow(schema, row)))
  BY DEF FullRow, DecodeRow

LEMMA QuietStepsLand ==
    ASSUME LandInv, QuietStep
    PROVE  LandInv'
<1>1. /\ phase' \in {"simulated", "misused", "capturing", "filled", "received", "idle"}
      /\ schema' = schema
  BY DEF QuietStep, Simulate, GameDriftsAType, GameFreesANode, GameResizesAnArray,
         StageCapture, CaptureHooksRun, Receive, NextTick
<1>2. SchemaShape /\ FullRow(live) /\ CallsCarryTheRow
  BY DEF LandInv
<1>3. SchemaShape'
  BY <1>1, <1>2 DEF SchemaShape
<1>4. live' = live \/ \E i \in DOMAIN schema : \E v : live' = [live EXCEPT ![i] = v]
  BY DEF QuietStep, Simulate, GameDriftsAType, GameFreesANode, GameResizesAnArray,
         StageCapture, CaptureHooksRun, Receive, NextTick
<1>5. FullRow(live')
  <2>1. CASE live' = live
    BY <1>2, <2>1
  <2>2. CASE live' # live
    <3>1. PICK i \in DOMAIN schema : \E v : live' = [live EXCEPT ![i] = v]
      BY <1>4, <2>2
    <3>2. PICK v : live' = [live EXCEPT ![i] = v]
      BY <3>1
    <3>3. live = [j \in DOMAIN schema |-> live[j]]
      BY <1>2 DEF FullRow
    <3>4. QED
      BY <3>2, <3>3 DEF FullRow
  <2>3. QED
    BY <2>1, <2>2
<1>6. FullRow(live)'
  BY <1>1, <1>5 DEF FullRow
<1>7. (phase = "received" => FullRow(pending))'
  <2>1. phase' = "received" => pending' = DecodeRow(schema, EncodeRow(schema, row))
    BY DEF QuietStep, Simulate, GameDriftsAType, GameFreesANode, GameResizesAnArray,
           StageCapture, CaptureHooksRun, Receive, NextTick
  <2>2. phase' = "received" => FullRow(pending')
    BY <2>1, DecodedIsFull
  <2>3. QED
    BY <1>1, <2>2 DEF FullRow
<1>8. CallsCarryTheRow'
  <2>1. CASE StageCapture
    <3>1. /\ phase' = "capturing"
          /\ staged' = [NoCall EXCEPT !.hook = "capture"] \/ staged' = NoCall
      BY <2>1 DEF StageCapture
    <3>2. QED
      BY <3>1 DEF CallsCarryTheRow, NoCall
  <2>2. CASE CaptureHooksRun
    <3>1. /\ phase = "capturing" /\ staged # NoCall /\ phase' = "filled"
          /\ staged' = [staged EXCEPT !.values = live] /\ live' = live
      BY <2>2 DEF CaptureHooksRun
    <3>2. staged = [NoCall EXCEPT !.hook = "capture"]
      BY <1>2, <3>1 DEF CallsCarryTheRow
    <3>3. staged'.values = live
      BY <3>1, <3>2 DEF NoCall
    <3>4. QED
      BY <3>1, <3>3 DEF CallsCarryTheRow
  <2>3. CASE Simulate \/ GameDriftsAType \/ GameFreesANode \/ GameResizesAnArray
                \/ Receive \/ NextTick
    <3>1. /\ phase' \in {"simulated", "misused", "received", "idle"}
          /\ phase \in {"idle", "restored", "simulated", "landed", "applied"}
          /\ staged' = staged
      BY <2>3 DEF Simulate, GameDriftsAType, GameFreesANode, GameResizesAnArray,
                  Receive, NextTick
    <3>2. staged' = NoCall
      BY <1>2, <3>1 DEF CallsCarryTheRow
    <3>3. QED
      BY <3>1, <3>2 DEF CallsCarryTheRow
  <2>4. QED
    BY <2>1, <2>2, <2>3 DEF QuietStep
<1>9. WalkedBodiesLanded' /\ RowsLandWhole'
  BY <1>1 DEF WalkedBodiesLanded, RowsLandWhole
<1>10. QED
  BY <1>3, <1>6, <1>7, <1>8, <1>9 DEF LandInv

(* A capture leaves a property that is not quantised as the game holds it. *)
LEMMA CaptureKeepsTheUnquantised ==
    ASSUME NEW values, NEW usable, NEW i \in DOMAIN schema, i \in usable,
           schema[i].quant = "None", values[i] # Drifted
    PROVE  CaptureFrom(values, usable, scratch)[i] = values[i]
<1>1. CaptureFrom(values, usable, scratch)[i] = CanonicalizeValue(schema[i], values[i])
  BY DEF CaptureFrom
<1>2. QED
  BY <1>1 DEF CanonicalizeValue

\* The row a capture yields: of the values the game holds, or of those it
\* handed over, by properties that are all there.
IsCapture(r) ==
    \E usable : /\ DOMAIN schema \ gone \subseteq usable
                /\ r = CaptureFrom(live, usable, scratch)

LEMMA RecordCaptures ==
    ASSUME LandInv, Record
    PROVE  \E r : /\ IsCapture(r)
                  /\ row' = r /\ scratch' = r /\ phase' = "recorded"
                  /\ UNCHANGED <<schema, hooks, gone, remote, pending, simTick>>
                  /\ IF IsInputLane
                     THEN UNCHANGED live /\ staged' = NoCall
                     ELSE IF WritebackBulk /\ Usable("apply")
                     THEN StageFromRow("apply", r) /\ UNCHANGED live
                     ELSE live' = ApplyQuantizedRow(live, r) /\ staged' = NoCall
<1>1. IsCapture(CaptureRow)
  BY DEF IsCapture, CaptureRow
<1>2. CASE phase = "capturing" /\ staged = NoCall /\ RecordTick(FALSE)
  BY <1>1, <1>2 DEF RecordTick
<1>3. CASE phase = "filled" /\ RecordTick(TRUE)
  <2>1. staged.values = live
    BY <1>3 DEF LandInv, CallsCarryTheRow
  <2>2. IsCapture(CaptureRowFromHook)
    BY <2>1 DEF IsCapture, CaptureRowFromHook
  <2>3. QED
    BY <1>1, <1>3, <2>2 DEF RecordTick
<1>4. QED
  BY <1>2, <1>3 DEF Record

LEMMA RecordLands ==
    ASSUME LandInv, Record
    PROVE  LandInv'
<1>1. PICK r : /\ IsCapture(r)
               /\ row' = r /\ scratch' = r /\ phase' = "recorded"
               /\ UNCHANGED <<schema, hooks, gone, remote, pending, simTick>>
               /\ IF IsInputLane
                  THEN UNCHANGED live /\ staged' = NoCall
                  ELSE IF WritebackBulk /\ Usable("apply")
                  THEN StageFromRow("apply", r) /\ UNCHANGED live
                  ELSE live' = ApplyQuantizedRow(live, r) /\ staged' = NoCall
  BY RecordCaptures
<1>2. SchemaShape /\ FullRow(live)
  BY DEF LandInv
<1>3. SchemaShape' /\ (phase = "received" => FullRow(pending))' /\ RowsLandWhole'
  BY <1>1, <1>2 DEF SchemaShape, RowsLandWhole
<1>4. CASE IsInputLane
  <2>1. live' = live /\ staged' = NoCall /\ schema' = schema /\ phase' = "recorded"
    BY <1>1, <1>4
  <2>2. IsInputLane'
    BY <1>4, <2>1 DEF IsInputLane
  <2>3. FullRow(live)' /\ CallsCarryTheRow' /\ WalkedBodiesLanded'
    BY <1>2, <2>1, <2>2 DEF FullRow, CallsCarryTheRow, WalkedBodiesLanded
  <2>4. QED
    BY <1>3, <2>3 DEF LandInv
<1>5. CASE ~IsInputLane /\ WritebackBulk /\ Usable("apply")
  <2>1. /\ staged' = [hook |-> "apply", values |-> Marshalled("apply", r)]
        /\ live' = live /\ schema' = schema /\ phase' = "recorded" /\ row' = r
    BY <1>1, <1>5 DEF StageFromRow
  <2>2. Marshalled("apply", row)' = Marshalled("apply", r)
    BY <2>1 DEF Marshalled
  <2>3. staged' # NoCall
    <3>1. staged'.hook = "apply"
      BY <2>1
    <3>2. QED
      BY <3>1 DEF NoCall
  <2>4. FullRow(live)'
    BY <1>2, <2>1 DEF FullRow
  <2>5. CallsCarryTheRow'
    BY <2>1, <2>2 DEF CallsCarryTheRow
  <2>6. WalkedBodiesLanded'
    BY <2>1, <2>3 DEF WalkedBodiesLanded, NoCall
  <2>7. QED
    BY <1>3, <2>4, <2>5, <2>6 DEF LandInv
<1>6. CASE ~IsInputLane /\ ~(WritebackBulk /\ Usable("apply"))
  <2> DEFINE indices == {i \in DOMAIN schema : schema[i].quant # "None"}
  <2>1. /\ staged' = NoCall /\ schema' = schema /\ gone' = gone
        /\ phase' = "recorded" /\ row' = r
        /\ live' = ApplyTo(live, r, indices)
    BY <1>1, <1>6 DEF ApplyQuantizedRow
  <2>2. /\ FullRow(live')
        /\ \A i \in DOMAIN schema :
              live'[i] = IF i \in indices \ gone THEN r[i] ELSE live[i]
    <3> HIDE DEF indices
    <3>1. QED
      BY <2>1, WalksLandTheRow
  <2>3. ASSUME NEW i \in DOMAIN schema \ gone, live'[i] # Drifted
        PROVE  live'[i] = r[i]
    <3>1. CASE i \in indices
      BY <2>2, <3>1
    <3>2. CASE i \notin indices
      <4>1. live'[i] = live[i] /\ schema[i].quant = "None"
        BY <2>2, <3>2
      <4>2. PICK usable : /\ DOMAIN schema \ gone \subseteq usable
                          /\ r = CaptureFrom(live, usable, scratch)
        BY <1>1 DEF IsCapture
      <4>3. QED
        BY <2>3, <4>1, <4>2, CaptureKeepsTheUnquantised
    <3>3. QED
      BY <3>1, <3>2
  <2> HIDE DEF indices
  <2>4. BodyIsRow'
    BY <2>1, <2>3 DEF BodyIsRow
  <2>5. FullRow(live)'
    BY <2>1, <2>2 DEF FullRow
  <2>6. CallsCarryTheRow' /\ WalkedBodiesLanded'
    BY <2>1, <2>4 DEF CallsCarryTheRow, WalkedBodiesLanded
  <2>7. QED
    BY <1>3, <2>5, <2>6 DEF LandInv
<1>7. QED
  BY <1>4, <1>5, <1>6

LEMMA HooksRunLands ==
    ASSUME LandInv, RunHooks
    PROVE  LandInv'
<1>1. /\ phase \in {"restoring", "recorded"}
      /\ phase' = IF phase = "restoring" THEN "restored" ELSE "landed"
      /\ live' = IF staged = NoCall THEN live ELSE Invoked(staged.hook, staged.values, live)
      /\ staged' = NoCall
      /\ schema' = schema /\ gone' = gone /\ row' = row /\ pending' = pending
  BY DEF RunHooks
<1>2. SchemaShape /\ FullRow(live) /\ CallsCarryTheRow /\ WalkedBodiesLanded
  BY DEF LandInv
<1>3. SchemaShape' /\ CallsCarryTheRow' /\ WalkedBodiesLanded'
      /\ (phase = "received" => FullRow(pending))'
  BY <1>1, <1>2 DEF SchemaShape, CallsCarryTheRow, WalkedBodiesLanded
<1>4. /\ FullRow(live')
      /\ ~(IsInputLane /\ phase = "recorded") =>
            \A i \in DOMAIN schema \ gone :
                IsRestored(schema[i].role) /\ live'[i] # Drifted => live'[i] = row[i]
  <2>1. CASE staged = NoCall
    <3>1. live' = live
      BY <1>1, <2>1
    <3>2. ~(IsInputLane /\ phase = "recorded") => BodyIsRow
      BY <1>1, <1>2, <2>1 DEF WalkedBodiesLanded
    <3>3. QED
      BY <1>2, <3>1, <3>2 DEF BodyIsRow
  <2>2. CASE staged # NoCall
    <3>1. PICK h \in {"restore", "apply"} :
              staged = [hook |-> h, values |-> Marshalled(h, row)]
      BY <1>1, <1>2, <2>2 DEF CallsCarryTheRow
    <3>2. live' = Invoked(h, Marshalled(h, row), live)
      BY <1>1, <2>2, <3>1
    <3>3. FullRow(live')
      BY <1>2, <3>2, HooksLandTheRow
    <3>4. \A i \in DOMAIN schema : IsRestored(schema[i].role) => live'[i] = row[i]
      BY <1>2, <3>2, HooksLandTheRow
    <3>5. QED
      BY <3>3, <3>4
  <2>3. QED
    BY <2>1, <2>2
<1>5. FullRow(live)'
  BY <1>1, <1>4 DEF FullRow
<1>6. RowsLandWhole'
  <2>1. IsInputLane' <=> IsInputLane
    BY <1>1 DEF IsInputLane
  <2>2. phase' # "applied"
    BY <1>1
  <2>3. phase' = "landed" <=> phase = "recorded"
    BY <1>1
  <2>4. QED
    BY <1>1, <1>4, <2>1, <2>2, <2>3 DEF RowsLandWhole
<1>7. QED
  BY <1>3, <1>5, <1>6 DEF LandInv

LEMMA DisplayLands ==
    ASSUME LandInv, ApplyPendingDisplay
    PROVE  LandInv'
<1>1. /\ phase = "received" /\ phase' = "applied"
      /\ \/ remote' = Invoked("apply", Marshalled("apply", pending), remote)
         \/ remote' = pending
      /\ schema' = schema /\ live' = live /\ staged' = staged /\ pending' = pending
  BY DEF ApplyPendingDisplay
<1>2. SchemaShape /\ FullRow(live) /\ FullRow(pending) /\ CallsCarryTheRow
  BY <1>1 DEF LandInv
<1>3. staged = NoCall
  BY <1>1, <1>2 DEF CallsCarryTheRow
<1>4. remote' = pending
  <2> DEFINE lands == Invoked("apply", Marshalled("apply", pending), remote)
  <2>1. FullRow(lands) /\ \A i \in DOMAIN schema : lands[i] = pending[i]
    BY <1>2, HooksLandTheRow
  <2> HIDE DEF lands
  <2>2. [i \in DOMAIN schema |-> lands[i]] = [i \in DOMAIN schema |-> pending[i]]
    BY <2>1
  <2>3. lands = pending
    BY <1>2, <2>1, <2>2 DEF FullRow
  <2>4. QED
    BY <1>1, <2>3 DEF lands
<1>5. SchemaShape' /\ FullRow(live)' /\ (phase = "received" => FullRow(pending))'
  BY <1>1, <1>2 DEF SchemaShape, FullRow
<1>6. CallsCarryTheRow' /\ WalkedBodiesLanded'
  BY <1>1, <1>3 DEF CallsCarryTheRow, WalkedBodiesLanded
<1>7. RowsLandWhole'
  BY <1>1, <1>4 DEF RowsLandWhole
<1>8. QED
  BY <1>5, <1>6, <1>7 DEF LandInv

LEMMA BindingStepLands == LandInv /\ [BindingNext]_bindingVars => LandInv'
<1> SUFFICES ASSUME LandInv, [BindingNext]_bindingVars
             PROVE  LandInv'
  OBVIOUS
<1>1. CASE RestoreTick
  BY <1>1, RestoreLands
<1>2. CASE QuietStep
  BY <1>2, QuietStepsLand
<1>3. CASE Record
  BY <1>3, RecordLands
<1>4. CASE RunHooks
  BY <1>4, HooksRunLands
<1>5. CASE ApplyPendingDisplay
  BY <1>5, DisplayLands
<1>6. CASE UNCHANGED bindingVars
  BY <1>6 DEF bindingVars, LandInv, SchemaShape, FullRow, CallsCarryTheRow,
              WalkedBodiesLanded, BodyIsRow, RowsLandWhole, IsInputLane, Marshalled
<1>7. QED
  BY <1>1, <1>2, <1>3, <1>4, <1>5, <1>6 DEF BindingNext, QuietStep

(* In every run of a body, a staged call carries the newest row, and what  *)
(* a walk restored or wrote back is that row already.                      *)
THEOREM LandingInvariance == BindingSpec => []LandInv
<1>1. BindingInit => LandInv
  BY LandInit
<1>2. LandInv /\ [BindingNext]_bindingVars => LandInv'
  BY BindingStepLands
<1>3. QED
  BY <1>1, <1>2, PTL DEF BindingSpec

(* A row lands whole, by hook or by walk: restoring the row a body just    *)
(* recorded would change nothing the game still holds, and a receiver's    *)
(* body shows every property of the row (record_tick, restore_tick and     *)
(* apply_pending_display).                                                 *)
THEOREM RowsAlwaysLandWhole == BindingSpec => []RowsLandWhole
<1>1. LandInv => RowsLandWhole
  BY DEF LandInv
<1>2. QED
  BY <1>1, LandingInvariance, PTL

-----------------------------------------------------------------------------
(* What a row stores is what a peer reads.                                 *)

\* Everything a body's buffers hold is a value of the game or a settled one.
BuffersAreKept ==
    \A i \in DOMAIN schema :
        /\ IsKept(schema[i], scratch[i])
        /\ row # EmptyRow \/ phase \in {"restoring", "recorded"} => IsKept(schema[i], row[i])
        /\ live[i] = Drifted \/ IsKept(schema[i], live[i])

\* From its recording to the next tick a row is settled where nodes are left.
RowsAreSettled ==
    phase \in {"recorded", "landed", "received", "applied"} =>
        \A i \in DOMAIN schema \ gone : IsSettled(schema[i], row[i])

PendingHasItsPhase == pending # EmptyRow => phase \in {"received", "applied"}

StoreInv ==
    /\ LandInv
    /\ BuffersAreKept
    /\ RowsAreSettled
    /\ PendingHasItsPhase
    /\ ReceivedIsStored

LEMMA StoreInit == BindingInit => StoreInv
<1> SUFFICES ASSUME BindingInit PROVE StoreInv
  OBVIOUS
<1>1. /\ phase = "idle" /\ row = EmptyRow /\ pending = EmptyRow
      /\ live = [i \in DOMAIN schema |-> CHOOSE v \in Samples(schema[i].kind) : TRUE]
      /\ scratch = [i \in DOMAIN schema |-> Zeroed(schema[i].kind)]
  BY DEF BindingInit
<1>2. ASSUME NEW i \in DOMAIN schema
      PROVE  IsKept(schema[i], scratch[i]) /\ (live[i] = Drifted \/ IsKept(schema[i], live[i]))
  <2>1. IsKept(schema[i], scratch[i])
    BY <1>1 DEF IsKept, IsNative
  <2>2. live[i] = CHOOSE v \in Samples(schema[i].kind) : TRUE
    BY <1>1
  <2>3. Samples(schema[i].kind) # {}
    <3>1. IsDeclared(schema[i])
      BY LandInit DEF LandInv, SchemaShape
    <3>2. PICK e \in Declarations : \E n \in DOMAIN e : schema[i] = PushQuantized(e[n])
      BY <3>1 DEF IsDeclared
    <3>3. PICK n \in DOMAIN e : schema[i] = PushQuantized(e[n])
      BY <3>2
    <3>4. schema[i].kind = e[n].kind
      BY <3>3 DEF PushQuantized
    <3>5. QED
      BY <3>4, DeclarationsAssumption
  <2>4. QED
    BY <2>1, <2>2, <2>3 DEF IsKept, IsNative
<1>3. QED
  BY <1>1, <1>2, LandInit
     DEF StoreInv, BuffersAreKept, RowsAreSettled, PendingHasItsPhase, ReceivedIsStored

(* A capture stores a value that settles wherever the node is there.       *)
LEMMA CaptureStores ==
    ASSUME OrientationsSettle, SchemaShape, BuffersAreKept, NEW r, IsCapture(r),
           NEW i \in DOMAIN schema
    PROVE  /\ IsKept(schema[i], r[i])
           /\ i \notin gone => IsSettled(schema[i], r[i])
<1> DEFINE kept(u) == IF i \in u /\ live[i] # Drifted THEN live[i] ELSE scratch[i]
<1>1. PICK usable : /\ DOMAIN schema \ gone \subseteq usable
                    /\ r = CaptureFrom(live, usable, scratch)
  BY DEF IsCapture
<1>2. r[i] = IF i \in usable THEN CanonicalizeValue(schema[i], kept(usable))
             ELSE kept(usable)
  BY <1>1 DEF CaptureFrom
<1>3. IsKept(schema[i], kept(usable))
  BY DEF BuffersAreKept
<1>4. IsDeclared(schema[i])
  BY DEF SchemaShape
<1> HIDE DEF kept
<1>5. CASE i \in usable
  <2>1. IsSettled(schema[i], r[i])
    BY <1>2, <1>3, <1>4, <1>5, CaptureSettles
  <2>2. QED
    BY <2>1 DEF IsKept
<1>6. CASE i \notin usable
  BY <1>1, <1>2, <1>3, <1>6
<1>7. QED
  BY <1>5, <1>6

LEMMA RestoreStores ==
    ASSUME StoreInv, RestoreTick
    PROVE  StoreInv'
<1>1. /\ phase = "idle" /\ row # EmptyRow /\ phase' = "restoring"
      /\ schema' = schema /\ scratch' = scratch /\ row' = row /\ pending' = pending
      /\ live' = live \/ live' = ApplyRow(live, row, TRUE)
  BY DEF RestoreTick
<1>2. LandInv'
  BY RestoreLands DEF StoreInv
<1>3. BuffersAreKept'
  <2>1. ASSUME NEW i \in DOMAIN schema
        PROVE  live'[i] = Drifted \/ IsKept(schema[i], live'[i])
    <3>1. live'[i] \in {live[i], row[i]}
      BY <1>1 DEF ApplyRow, ApplyTo
    <3>2. QED
      BY <1>1, <3>1 DEF StoreInv, BuffersAreKept
  <2>2. QED
    BY <1>1, <2>1 DEF StoreInv, BuffersAreKept
<1>4. pending = EmptyRow
  BY <1>1 DEF StoreInv, PendingHasItsPhase
<1>5. RowsAreSettled' /\ PendingHasItsPhase' /\ ReceivedIsStored'
  BY <1>1, <1>4 DEF RowsAreSettled, PendingHasItsPhase, ReceivedIsStored
<1>6. QED
  BY <1>2, <1>3, <1>5 DEF StoreInv

LEMMA QuietStepsStore ==
    ASSUME StoreInv, QuietStep
    PROVE  StoreInv'
<1>1. LandInv'
  BY QuietStepsLand DEF StoreInv
<1>2. /\ phase' \in {"simulated", "misused", "capturing", "filled", "received", "idle"}
      /\ schema' = schema /\ scratch' = scratch /\ row' = row
      /\ \/ live' = live
         \/ \E i \in DOMAIN schema : \E v :
               /\ live' = [live EXCEPT ![i] = v]
               /\ v \in Samples(schema[i].kind) \/ v = Drifted
  BY DEF QuietStep, Simulate, GameDriftsAType, GameFreesANode, GameResizesAnArray,
         StageCapture, CaptureHooksRun, Receive, NextTick
<1>3. BuffersAreKept'
  <2>1. ASSUME NEW j \in DOMAIN schema
        PROVE  live'[j] = Drifted \/ IsKept(schema[j], live'[j])
    <3>1. CASE live' = live
      BY <3>1 DEF StoreInv, BuffersAreKept
    <3>2. CASE live' # live
      <4>1. PICK i \in DOMAIN schema : \E v :
                /\ live' = [live EXCEPT ![i] = v]
                /\ v \in Samples(schema[i].kind) \/ v = Drifted
        BY <1>2, <3>2
      <4>2. PICK v : /\ live' = [live EXCEPT ![i] = v]
                     /\ v \in Samples(schema[i].kind) \/ v = Drifted
        BY <4>1
      <4>3. live = [k \in DOMAIN schema |-> live[k]]
        BY DEF StoreInv, LandInv, FullRow
      <4>4. live'[j] = IF j = i THEN v ELSE live[j]
        BY <4>2, <4>3
      <4>5. QED
        BY <4>2, <4>4 DEF StoreInv, BuffersAreKept, IsKept, IsNative
    <3>3. QED
      BY <3>1, <3>2
  <2>2. QED
    BY <1>2, <2>1 DEF StoreInv, BuffersAreKept
<1>4. CASE Receive
  <2>1. /\ phase = "landed" /\ gone' = gone
        /\ \/ phase' = "idle" /\ pending' = pending
           \/ phase' = "received" /\ pending' = DecodeRow(schema, EncodeRow(schema, row))
    BY <1>4 DEF Receive
  <2>2. pending = EmptyRow
    BY <2>1 DEF StoreInv, PendingHasItsPhase
  <2>3. ASSUME NEW i \in DOMAIN schema \ gone
        PROVE  /\ IsSettled(schema[i], row[i])
               /\ DecodeRow(schema, EncodeRow(schema, row))[i] = row[i]
    <3>1. IsSettled(schema[i], row[i])
      BY <2>1 DEF StoreInv, RowsAreSettled
    <3>2. DecodeRow(schema, EncodeRow(schema, row))[i] = RoundTrip(schema[i], row[i])
      BY DEF DecodeRow, EncodeRow, RoundTrip
    <3>3. QED
      BY <3>1, <3>2 DEF IsSettled
  <2>4. RowsAreSettled' /\ PendingHasItsPhase' /\ ReceivedIsStored'
    BY <1>2, <2>1, <2>2, <2>3 DEF RowsAreSettled, PendingHasItsPhase, ReceivedIsStored
  <2>5. QED
    BY <1>1, <1>3, <2>4 DEF StoreInv
<1>5. CASE ~Receive
  <2>1. phase' # "received" /\ pending' = EmptyRow
    <3>1. CASE NextTick
      BY <3>1 DEF NextTick
    <3>2. CASE ~NextTick
      <4>1. phase' # "received" /\ pending' = pending /\ phase \notin {"received", "applied"}
        BY <1>5, <3>2 DEF QuietStep, Simulate, GameDriftsAType, GameFreesANode,
                          GameResizesAnArray, StageCapture, CaptureHooksRun
      <4>2. QED
        BY <4>1 DEF StoreInv, PendingHasItsPhase
    <3>3. QED
      BY <3>1, <3>2
  <2>2. RowsAreSettled' /\ PendingHasItsPhase' /\ ReceivedIsStored'
    BY <1>2, <2>1 DEF RowsAreSettled, PendingHasItsPhase, ReceivedIsStored, EmptyRow
  <2>3. QED
    BY <1>1, <1>3, <2>2 DEF StoreInv
<1>6. QED
  BY <1>4, <1>5

LEMMA RecordStores ==
    ASSUME OrientationsSettle, StoreInv, Record
    PROVE  StoreInv'
<1>1. LandInv' /\ LandInv
  BY RecordLands DEF StoreInv
<1>2. PICK r : /\ IsCapture(r)
               /\ row' = r /\ scratch' = r /\ phase' = "recorded"
               /\ UNCHANGED <<schema, hooks, gone, remote, pending, simTick>>
               /\ IF IsInputLane
                  THEN UNCHANGED live /\ staged' = NoCall
                  ELSE IF WritebackBulk /\ Usable("apply")
                  THEN StageFromRow("apply", r) /\ UNCHANGED live
                  ELSE live' = ApplyQuantizedRow(live, r) /\ staged' = NoCall
  BY <1>1, RecordCaptures
<1>3. live' = live \/ live' = ApplyQuantizedRow(live, r)
  BY <1>2
<1>4. \A i \in DOMAIN schema : /\ IsKept(schema[i], r[i])
                               /\ i \notin gone => IsSettled(schema[i], r[i])
  BY <1>1, <1>2, CaptureStores DEF StoreInv, LandInv
<1>5. BuffersAreKept'
  <2>1. ASSUME NEW i \in DOMAIN schema
        PROVE  live'[i] = Drifted \/ IsKept(schema[i], live'[i])
    <3>1. live'[i] \in {live[i], r[i]}
      BY <1>3 DEF ApplyQuantizedRow, ApplyTo
    <3>2. QED
      BY <1>4, <3>1 DEF StoreInv, BuffersAreKept
  <2>2. QED
    BY <1>2, <1>4, <2>1 DEF BuffersAreKept
<1>6. RowsAreSettled'
  BY <1>2, <1>4 DEF RowsAreSettled
<1>7. pending = EmptyRow
  BY DEF StoreInv, PendingHasItsPhase, Record
<1>8. PendingHasItsPhase' /\ ReceivedIsStored'
  BY <1>2, <1>7 DEF PendingHasItsPhase, ReceivedIsStored
<1>9. QED
  BY <1>1, <1>5, <1>6, <1>8 DEF StoreInv

LEMMA HooksRunStores ==
    ASSUME StoreInv, RunHooks
    PROVE  StoreInv'
<1>1. /\ phase \in {"restoring", "recorded"}
      /\ phase' = IF phase = "restoring" THEN "restored" ELSE "landed"
      /\ live' = IF staged = NoCall THEN live ELSE Invoked(staged.hook, staged.values, live)
      /\ schema' = schema /\ gone' = gone /\ row' = row /\ pending' = pending
      /\ scratch' = scratch
  BY DEF RunHooks
<1>2. LandInv' /\ SchemaShape /\ CallsCarryTheRow
  BY HooksRunLands DEF StoreInv, LandInv
<1>3. ASSUME NEW i \in DOMAIN schema
      PROVE  live'[i] = Drifted \/ IsKept(schema[i], live'[i])
  <2>1. CASE staged = NoCall
    BY <1>1, <2>1 DEF StoreInv, BuffersAreKept
  <2>2. CASE staged # NoCall
    <3>1. PICK h \in {"restore", "apply"} :
              staged = [hook |-> h, values |-> Marshalled(h, row)]
      BY <1>1, <1>2, <2>2 DEF CallsCarryTheRow
    <3>2. live' = Invoked(h, Marshalled(h, row), live)
      BY <1>1, <2>2, <3>1
    <3>3. live'[i] \in {row[i], live[i]}
      BY <1>2, <3>2, HooksLandTheRow
    <3>4. QED
      BY <1>1, <3>3 DEF StoreInv, BuffersAreKept
  <2>3. QED
    BY <2>1, <2>2
<1>4. BuffersAreKept'
  BY <1>1, <1>3 DEF StoreInv, BuffersAreKept
<1>5. pending = EmptyRow
  BY <1>1 DEF StoreInv, PendingHasItsPhase
<1>6. RowsAreSettled' /\ PendingHasItsPhase' /\ ReceivedIsStored'
  BY <1>1, <1>5 DEF StoreInv, RowsAreSettled, PendingHasItsPhase, ReceivedIsStored
<1>7. QED
  BY <1>2, <1>4, <1>6 DEF StoreInv

LEMMA DisplayStores ==
    ASSUME StoreInv, ApplyPendingDisplay
    PROVE  StoreInv'
<1>1. /\ phase = "received" /\ phase' = "applied"
      /\ UNCHANGED <<schema, hooks, gone, live, scratch, row, staged, pending, simTick>>
  BY DEF ApplyPendingDisplay
<1>2. LandInv'
  BY DisplayLands DEF StoreInv
<1>3. BuffersAreKept' /\ RowsAreSettled' /\ PendingHasItsPhase' /\ ReceivedIsStored'
  BY <1>1 DEF StoreInv, BuffersAreKept, RowsAreSettled, PendingHasItsPhase, ReceivedIsStored
<1>4. QED
  BY <1>2, <1>3 DEF StoreInv

LEMMA BindingStepStores ==
    ASSUME OrientationsSettle
    PROVE  StoreInv /\ [BindingNext]_bindingVars => StoreInv'
<1> SUFFICES ASSUME StoreInv, [BindingNext]_bindingVars
             PROVE  StoreInv'
  OBVIOUS
<1>1. CASE RestoreTick
  BY <1>1, RestoreStores
<1>2. CASE QuietStep
  BY <1>2, QuietStepsStore
<1>3. CASE Record
  BY <1>3, RecordStores
<1>4. CASE RunHooks
  BY <1>4, HooksRunStores
<1>5. CASE ApplyPendingDisplay
  BY <1>5, DisplayStores
<1>6. CASE UNCHANGED bindingVars
  <2>1. LandInv'
    BY <1>6, BindingStepLands DEF StoreInv
  <2>2. BuffersAreKept' /\ RowsAreSettled' /\ PendingHasItsPhase' /\ ReceivedIsStored'
    BY <1>6 DEF bindingVars, StoreInv, BuffersAreKept, RowsAreSettled,
                PendingHasItsPhase, ReceivedIsStored
  <2>3. QED
    BY <2>1, <2>2 DEF StoreInv
<1>7. QED
  BY <1>1, <1>2, <1>3, <1>4, <1>5, <1>6 DEF BindingNext, QuietStep

(* What a peer reconstructs from the wire is, value for value, the row the *)
(* sender stored, so the same bytes go out again, whatever nodes the game  *)
(* frees and types it changes in between (canonicalize_value, record_tick).*)
(* Halves and unquantised values are proved to settle; that orientations   *)
(* do is the hypothesis.                                                   *)
THEOREM ReceivedRowsAreStored ==
    ASSUME OrientationsSettle
    PROVE  BindingSpec => []ReceivedIsStored
<1>1. BindingInit => StoreInv
  BY StoreInit
<1>2. StoreInv /\ [BindingNext]_bindingVars => StoreInv'
  BY BindingStepStores
<1>3. StoreInv => ReceivedIsStored
  BY DEF StoreInv
<1>4. QED
  BY <1>1, <1>2, <1>3, PTL DEF BindingSpec
=============================================================================
