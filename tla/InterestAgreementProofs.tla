------------------------ MODULE InterestAgreementProofs ------------------------
(***************************************************************************)
(* Why two ends of the interest lane that have both fallen silent agree.   *)
(*                                                                         *)
(* The server keeps what it believes of the mirror in three places: the    *)
(* set and its pending halves, the prefix in flight, and the whole set in  *)
(* flight.  The invariant says what each of them promises about a mirror   *)
(* the client has yet to show: at the newest generation, and unless it is  *)
(* asking for a whole set, the client holds every member whose enter is    *)
(* not pending, and holds nothing besides members, pending leaves and what *)
(* a manifest on its way will drop.  An ack may retire a prefix because    *)
(* every frame at or past its stamp carries it.                            *)
(*                                                                         *)
(* A slot means the same entity to both ends as long as no message that    *)
(* mentions it outlives its quarantine, hence Lag < Quarantine.  And every *)
(* datagram of a prefix's flush has to carry it, hence MaxPasses = 1: the  *)
(* run interest_split is the counterexample with two.                      *)
(***************************************************************************)
EXTENDS InterestSyncProofs

Msg == Manifest \cup InterestTable

-----------------------------------------------------------------------------
(* Names: what the client calls a slot, now and after each manifest.       *)

Manifests(q) == {i \in 1..Len(q) : q[i].kind = "manifest"}

\* A position is the client's own table (0) or a manifest in flight.
Positions(q) == {0} \cup Manifests(q)

NamesAt(own, q, j) == IF j = 0 THEN own ELSE q[j].names

\* A manifest in flight no longer names e, and the mirror will drop it.
Dropping(q, e) == \E i \in Manifests(q) : e \notin Named(q[i].names)

\* The slot still names e on the server and in every later manifest.
Stands(n, q, j, s, e) == n[s] = e /\ \A i \in Manifests(q) : i > j => q[i].names[s] = e

\* The slot was freed, is still quarantined, and a later manifest drops e.
Goes(n, f, q, j, s, e) ==
    /\ n[s] = NoEntity /\ f[s] # NoTick
    /\ \E i \in Manifests(q) : i > j /\ q[i].at <= f[s] /\ e \notin Named(q[i].names)

NamesSettle(own, n, f, q) ==
    \A j \in Positions(q), s \in Slot :
      NamesAt(own, q, j)[s] # NoEntity
        => \/ Stands(n, q, j, s, NamesAt(own, q, j)[s])
           \/ Goes(n, f, q, j, s, NamesAt(own, q, j)[s])

NamesAreOne(own, n, q) == OneName(n) /\ \A j \in Positions(q) : OneName(NamesAt(own, q, j))

\* A slot a frame mentions is named, or was freed after the frame was built.
FramesNamed(n, f, sent) ==
    \A d \in sent : \A s \in d.left \cup d.entered :
      n[s] # NoEntity \/ (f[s] # NoTick /\ d.tick < f[s])

FramesSplit(sent) == \A d \in sent : d.left \cap d.entered = {}

Naming(own, n, f, q, sent) ==
    /\ NamesSettle(own, n, f, q)
    /\ NamesAreOne(own, n, q)
    /\ FramesNamed(n, f, sent)
    /\ FramesSplit(sent)

-----------------------------------------------------------------------------
(* What the server's record says of the client.                            *)

\* The server knows what the mirror will be: nothing is owed, or a whole set
\* is in flight.
Tracked(p) == p.generation > 0 /\ (p.inflight # NoTable \/ ~p.fullDue)

InPrefix(p) == Tracked(p) /\ p.deltaTick # NoTick

\* The rules the fields of the record keep among themselves.
PeerRules(p) ==
    /\ p.inflight # NoTable =>
         /\ p.inflight.gen = p.generation
         /\ p.acked < p.generation
         /\ p.deltaTick = NoTick
         /\ p.fullDue
    /\ Tracked(p) => p.seeded
    /\ p.generation > 0 /\ ~p.fullDue => p.acked = p.generation
    /\ p.seeded \/ p.deltaTick # NoTick => p.generation > 0
    /\ p.deltaTick = NoTick => p.leftSent = {} /\ p.enteredSent = {}

FramesAcked(p, sent) == \A d \in sent : d.carries => d.gen <= p.acked

AckFollows(p, c) == InPrefix(p) /\ p.newestAck >= p.deltaTick => c.newest >= p.deltaTick

MembersNamed(p, n) ==
    /\ p.set \ p.enters \subseteq Named(n)
    /\ p.enteredSent \subseteq Named(n)

Carrier(p, d) == d.carries /\ d.gen = p.generation

\* A section the client would still apply undoes nothing that is settled.
NewsIsRight(p, c, n, sent) ==
    Tracked(p) => \A d \in sent : Carrier(p, d) /\ d.tick >= c.newest =>
      /\ \A s \in d.left : n[s] \notin p.set \ p.enters
      /\ \A s \in d.entered : n[s] # NoEntity => n[s] \in p.set \cup p.leaves

\* A frame at or past the stamp carries what is left of the prefix, and takes
\* out whatever an older frame, or the mirror, still has of its leaves.
PrefixFrame(p, c, n, sent, d) ==
    /\ Carrier(p, d)
    /\ SlotsOf(n, p.enteredSent) \subseteq d.entered
    /\ \A b \in sent : Carrier(p, b) =>
         \A s \in b.entered : n[s] \in p.leftSent => s \in d.left
    /\ \A s \in Slot : n[s] \in p.leftSent \cap c.mirror /\ c.slots[s] = n[s] => s \in d.left

PrefixIsRight(p, c, n, sent) ==
    InPrefix(p) => \A d \in sent : d.tick >= p.deltaTick => PrefixFrame(p, c, n, sent, d)

\* The client holds e, under the slot the server knows it by.
Rooted(c, n, e) == e \in c.mirror /\ \E s \in Slot : n[s] = e /\ c.slots[s] = e

\* The client stands at the newest generation and asks for nothing.
Current(p, c) == Tracked(p) /\ c.mirrorGen = p.generation /\ ~c.wantInterest

MirrorFollows(p, c, n, q) ==
    Current(p, c) =>
      /\ \A e \in p.set \ p.enters : Rooted(c, n, e)
      /\ \A e \in c.mirror : e \in p.set \cup p.leaves \/ Dropping(q, e)

\* A client that has seen a frame of the prefix has applied the prefix.
Delivered(p, c, n, q) ==
    Current(p, c) /\ InPrefix(p) /\ c.newest >= p.deltaTick =>
      /\ \A e \in p.enteredSent : Rooted(c, n, e)
      /\ \A e \in p.leftSent : e \notin c.mirror \/ Dropping(q, e)

\* The whole set in flight will make the mirror follow.
Stated(p, n) ==
    p.inflight # NoTable =>
      /\ \A e \in p.set \ p.enters : \E s \in Slot : n[s] = e /\ p.inflight.pairs[s] = e
      /\ IdsOf(p.inflight.pairs, Slot) \subseteq p.set \cup p.leaves

\* The position the client's table will be at when message i is reached.
Precedes(q, j, i) ==
    j \in Positions(q) /\ j < i /\ \A k \in Manifests(q) : k < i => k <= j

TablesRight(p, own, q) ==
    p.inflight # NoTable =>
      \A i \in 1..Len(q) : q[i].kind = "table" /\ q[i].gen = p.generation =>
        /\ q[i].stated = SlotsOf(p.inflight.pairs, Entity)
        /\ \A j \in Nat : Precedes(q, j, i) =>
             \A s \in q[i].stated :
               NamesAt(own, q, j)[s] \in {NoEntity, p.inflight.pairs[s]}

Follows(p, c, n, q, sent) ==
    /\ FramesAcked(p, sent)
    /\ AckFollows(p, c)
    /\ MembersNamed(p, n)
    /\ NewsIsRight(p, c, n, sent)
    /\ PrefixIsRight(p, c, n, sent)
    /\ MirrorFollows(p, c, n, q)
    /\ Delivered(p, c, n, q)
    /\ Stated(p, n)
    /\ TablesRight(p, c.slots, q)

Lane(p, c, n, f, q, sent) ==
    /\ Naming(c.slots, n, f, q, sent)
    /\ PeerRules(p)
    /\ Follows(p, c, n, q, sent)

Clocks ==
    /\ peer.newestAck <= tick
    /\ client.newest <= tick
    /\ \A d \in down : d.tick <= tick
    /\ \A m \in up : m.ack <= client.newest

AgreementInv ==
    /\ Clocks
    /\ Lane(peer, client, slots, freed, reliable, down)

-----------------------------------------------------------------------------
(* The invariant and silence.                                              *)

LEMMA SilenceIsAgreement ==
    ASSUME InductiveInv, AgreementInv, Quiescent
    PROVE  client.mirror = peer.set
<1>1. /\ peer \in PeerState /\ client \in ClientState
      /\ PeerRules(peer)
      /\ MirrorFollows(peer, client, slots, reliable)
      /\ peer.acked <= client.mirrorGen /\ client.mirrorGen <= peer.generation
  BY InvUnfolds DEF AgreementInv, Lane, Follows, TypeOK
<1>2. Current(peer, client)
  BY <1>1 DEF Quiescent, GateOpen, PeerRules, Current, Tracked, PeerState, ClientState
<1>3. \A e : ~Dropping(reliable, e)
  BY DEF Quiescent, Dropping, Manifests
<1>4. /\ \A e \in peer.set : e \in client.mirror
      /\ \A e \in client.mirror : e \in peer.set
  BY <1>1, <1>2, <1>3 DEF MirrorFollows, Rooted, Quiescent
<1> QED
  BY <1>4

-----------------------------------------------------------------------------
(* The server's record, with everything else as it is.                     *)

\* The server promises no more of the mirror than it did.
Shrinks(p, r) ==
    /\ r.generation = p.generation
    /\ r.deltaTick = p.deltaTick
    /\ r.newestAck = p.newestAck
    /\ p.acked <= r.acked
    /\ r.inflight \in {p.inflight, NoTable}
    /\ Tracked(r) => Tracked(p)
    /\ r.set \ r.enters \subseteq p.set \ p.enters
    /\ p.set \cup p.leaves \subseteq r.set \cup r.leaves
    /\ r.leftSent \subseteq p.leftSent
    /\ r.enteredSent \subseteq p.enteredSent

LEMMA ShrinkingFollows ==
    ASSUME NEW p \in PeerState, NEW r \in PeerState, NEW c \in ClientState,
           NEW n \in Names, NEW q \in Seq(Msg), NEW sent \in SUBSET Datagram,
           Shrinks(p, r), Follows(p, c, n, q, sent)
    PROVE  Follows(r, c, n, q, sent)
<1>1. FramesAcked(r, sent)
  BY DEF Follows, FramesAcked, Shrinks, PeerState, Datagram
<1>2. InPrefix(r) => InPrefix(p)
  BY DEF InPrefix, Shrinks
<1>3. AckFollows(r, c)
  BY <1>2 DEF Follows, AckFollows, Shrinks
<1>4. MembersNamed(r, n)
  BY DEF Follows, MembersNamed, Shrinks
<1>5. NewsIsRight(r, c, n, sent)
  BY DEF Follows, NewsIsRight, Carrier, Shrinks
<1>6. PrefixIsRight(r, c, n, sent)
  <2> SUFFICES ASSUME InPrefix(r), NEW d \in sent, d.tick >= r.deltaTick
               PROVE  PrefixFrame(r, c, n, sent, d)
    BY DEF PrefixIsRight
  <2>1. PrefixFrame(p, c, n, sent, d)
    BY <1>2 DEF Follows, PrefixIsRight, Shrinks
  <2>2. SlotsOf(n, r.enteredSent) \subseteq SlotsOf(n, p.enteredSent)
    BY DEF SlotsOf, Shrinks
  <2> QED
    BY <2>1, <2>2 DEF PrefixFrame, Carrier, Shrinks
<1>7. Current(r, c) => Current(p, c)
  BY DEF Current, Shrinks
<1>8. MirrorFollows(r, c, n, q)
  BY <1>7 DEF Follows, MirrorFollows, Shrinks
<1>9. Delivered(r, c, n, q)
  BY <1>2, <1>7 DEF Follows, Delivered, Shrinks
<1>10. Stated(r, n)
  BY DEF Follows, Stated, Shrinks
<1>11. TablesRight(r, c.slots, q)
  BY DEF Follows, TablesRight, Shrinks
<1> QED
  BY <1>1, <1>3, <1>4, <1>5, <1>6, <1>8, <1>9, <1>10, <1>11 DEF Follows

\* The server drops members, queues changes and owes whole sets, and nothing else.
Moves(p, r) ==
    /\ r.generation = p.generation
    /\ r.acked = p.acked
    /\ r.seeded = p.seeded
    /\ r.deltaTick = p.deltaTick
    /\ r.newestAck = p.newestAck
    /\ \/ r.inflight = p.inflight /\ r.fullDue = p.fullDue
       \/ r.inflight = NoTable /\ r.fullDue
    /\ r.set \ r.enters \subseteq p.set \ p.enters
    /\ p.set \cup p.leaves \subseteq r.set \cup r.leaves
    /\ r.leftSent \subseteq p.leftSent
    /\ r.enteredSent \subseteq p.enteredSent

\* What Moves says of the fields that are not sets.
Demands(p, r) ==
    /\ r.generation = p.generation
    /\ r.acked = p.acked
    /\ r.seeded = p.seeded
    /\ r.deltaTick = p.deltaTick
    /\ r.newestAck = p.newestAck
    /\ \/ r.inflight = p.inflight /\ r.fullDue = p.fullDue
       \/ r.inflight = NoTable /\ r.fullDue

LEMMA MovesKeeps ==
    ASSUME NEW p \in PeerState, NEW r \in PeerState, Moves(p, r)
    PROVE  Shrinks(p, r) /\ (PeerRules(p) => PeerRules(r))
<1>1. p.acked \in Nat /\ p.acked <= r.acked
  BY DEF Moves, PeerState
<1>2. Tracked(r) => Tracked(p)
  BY DEF Moves, Tracked
<1>3. Shrinks(p, r)
  BY <1>1, <1>2 DEF Moves, Shrinks
<1>4. ASSUME PeerRules(p) PROVE PeerRules(r)
  BY <1>2, <1>4 DEF Moves, PeerRules
<1> QED
  BY <1>3, <1>4

LEMMA OweDemands ==
    ASSUME NEW p \in PeerState, NEW pushed, NEW half
    PROVE  /\ Demands(p, OweWholeInterestSet(p))
           /\ Demands(p, OweIfOverflowed(p, pushed, half))
<1>1. Demands(p, OweWholeInterestSet(p))
  BY DEF OweWholeInterestSet, PeerState, Demands
<1>2. Demands(p, p)
  BY DEF Demands
<1> QED
  BY <1>1, <1>2 DEF OweIfOverflowed

LEMMA LeaveDemands ==
    ASSUME NEW p \in PeerState, NEW ids \in SUBSET Entity
    PROVE  /\ Demands(p, NoteInterestLeave(p, ids))
           /\ Demands(p, NoteInterestEnter(p, ids))
<1> DEFINE q == [p EXCEPT !.enters = @ \ ids,
                          !.enteredSent = @ \ ids,
                          !.leaves = @ \cup ids]
           r == [p EXCEPT !.leaves = @ \ ids,
                          !.leftSent = @ \ ids,
                          !.enters = @ \cup ids]
<1>1. q \in PeerState /\ Demands(p, q) /\ r \in PeerState /\ Demands(p, r)
  BY DEF PeerState, Demands
<1>2. /\ NoteInterestLeave(p, ids) = OweIfOverflowed(q, ids, q.leaves)
      /\ NoteInterestEnter(p, ids) = OweIfOverflowed(r, ids, r.enters)
  BY DEF NoteInterestLeave, NoteInterestEnter
<1> HIDE DEF q, r
<1>3. /\ Demands(q, OweIfOverflowed(q, ids, q.leaves))
      /\ Demands(r, OweIfOverflowed(r, ids, r.enters))
  BY <1>1, OweDemands
<1> QED
  BY <1>1, <1>2, <1>3 DEF Demands

LEMMA OweMoves ==
    ASSUME NEW p \in PeerState
    PROVE  Moves(p, OweWholeInterestSet(p))
<1>1. Demands(p, OweWholeInterestSet(p))
  BY OweDemands
<1> QED
  BY <1>1, OweKeeps DEF Demands, Moves

\* Dropping a member, and a filter pass.
LEMMA LoseMoves ==
    ASSUME NEW p \in PeerState, NEW e \in Entity
    PROVE  Moves(p, LoseMember(p, e))
<1>1. CASE e \notin p.set
  BY <1>1 DEF LoseMember, Moves
<1>2. CASE e \in p.set
  <2> DEFINE q == NoteInterestLeave(p, {e})
             r == [q EXCEPT !.set = @ \ {e}]
  <2>1. LoseMember(p, e) = r
    BY <1>2 DEF LoseMember
  <2>2. /\ q \in PeerState
        /\ q.set = p.set
        /\ q.leaves = p.leaves \cup {e}
        /\ q.enters = p.enters \ {e}
        /\ q.leftSent = p.leftSent
        /\ q.enteredSent = p.enteredSent \ {e}
    BY LeaveKeeps
  <2>3. Demands(p, q)
    BY LeaveDemands
  <2> HIDE DEF q
  <2>4. Demands(p, r)
    BY <2>2, <2>3 DEF PeerState, Demands
  <2>5. /\ r.set = p.set \ {e}
        /\ r.leaves = p.leaves \cup {e}
        /\ r.enters = p.enters \ {e}
        /\ r.leftSent = p.leftSent
        /\ r.enteredSent = p.enteredSent \ {e}
    BY <2>2 DEF PeerState
  <2> HIDE DEF r
  <2> QED
    BY <2>1, <2>4, <2>5 DEF Demands, Moves
<1> QED
  BY <1>1, <1>2

LEMMA UpdateMoves ==
    ASSUME NEW p \in PeerState, NEW members \in SUBSET Entity
    PROVE  /\ Moves(p, UpdateInterest(p, members))
           /\ UpdateInterest(p, members).set = members
           /\ UpdateInterest(p, members).fullDue \in BOOLEAN
<1> DEFINE left == NoteInterestLeave(p, p.set \ members)
           both == NoteInterestEnter(left, members \ p.set)
           done == [both EXCEPT !.set = members]
<1>0. p.set \in SUBSET Entity /\ p.set \ members \in SUBSET Entity
      /\ members \ p.set \in SUBSET Entity
  BY DEF PeerState
<1>1. /\ left \in PeerState
      /\ left.leaves = p.leaves \cup (p.set \ members)
      /\ left.enters = p.enters \ (p.set \ members)
      /\ left.leftSent = p.leftSent
      /\ left.enteredSent = p.enteredSent \ (p.set \ members)
      /\ Demands(p, left)
  BY <1>0, LeaveKeeps, LeaveDemands
<1> HIDE DEF left
<1>2. /\ both \in PeerState
      /\ both.leaves = left.leaves \ (members \ p.set)
      /\ both.enters = left.enters \cup (members \ p.set)
      /\ both.leftSent = left.leftSent \ (members \ p.set)
      /\ both.enteredSent = left.enteredSent
      /\ Demands(left, both)
  BY <1>0, <1>1, EnterKeeps, LeaveDemands
<1> HIDE DEF both
<1>3. Demands(p, both)
  BY <1>1, <1>2 DEF Demands
<1>4. Demands(p, done) /\ done \in PeerState
  BY <1>2, <1>3 DEF PeerState, Demands
<1>5. /\ done.set = members
      /\ done.leaves = both.leaves
      /\ done.enters = both.enters
      /\ done.leftSent = both.leftSent
      /\ done.enteredSent = both.enteredSent
  BY <1>2 DEF PeerState
<1>6. UpdateInterest(p, members) = done
  BY DEF UpdateInterest, left, both
<1> HIDE DEF done
<1>7. Moves(p, done)
  BY <1>1, <1>2, <1>4, <1>5 DEF Demands, Moves
<1> QED
  BY <1>4, <1>5, <1>6, <1>7 DEF PeerState

\* An echo settles the whole set in flight, and promises nothing new.
LEMMA EchoShrinks ==
    ASSUME NEW p \in PeerState, NEW echo \in Nat, PeerRules(p),
           p.acked <= p.generation
    PROVE  LET r == NoteInterestEcho(p, echo)
           IN  /\ Shrinks(p, r)
               /\ PeerRules(r)
<1> DEFINE heard == IF echo < p.generation THEN echo ELSE p.generation
           acked == IF heard > p.acked THEN heard ELSE p.acked
           settled == p.inflight # NoTable /\ p.inflight.gen = acked
           due == p.fullDue /\ ~settled
           inflight == IF settled THEN NoTable ELSE p.inflight
           r == [p EXCEPT !.acked = acked, !.fullDue = due,
                          !.inflight = inflight]
<1>1. NoteInterestEcho(p, echo) = r
  BY DEF NoteInterestEcho
<1>2. p.generation \in Nat /\ p.acked \in Nat
  BY DEF PeerState
<1>3. acked \in Nat /\ p.acked <= acked /\ acked <= p.generation
  BY <1>2
<1>4. settled => p.inflight # NoTable /\ p.inflight.gen = acked
  OBVIOUS
<1>5. ~settled /\ p.inflight # NoTable => acked < p.generation
  BY <1>2, <1>3 DEF PeerRules
<1> HIDE DEF acked
<1>6. /\ r.generation = p.generation
      /\ r.acked = acked
      /\ r.seeded = p.seeded
      /\ r.deltaTick = p.deltaTick
      /\ r.newestAck = p.newestAck
      /\ r.inflight = inflight
      /\ r.fullDue = due
      /\ r.set = p.set
      /\ r.leaves = p.leaves
      /\ r.enters = p.enters
      /\ r.leftSent = p.leftSent
      /\ r.enteredSent = p.enteredSent
  BY DEF PeerState
<1> HIDE DEF r
<1>7. Tracked(r) => Tracked(p)
  BY <1>4, <1>6 DEF Tracked
<1>8. Shrinks(p, r)
  BY <1>3, <1>6, <1>7 DEF Shrinks
<1>9. PeerRules(r)
  <2>1. r.inflight # NoTable => /\ ~settled
                                /\ r.inflight.gen = r.generation
                                /\ r.acked < r.generation
                                /\ r.deltaTick = NoTick
                                /\ r.fullDue
    BY <1>5, <1>6 DEF PeerRules
  <2>2. r.generation > 0 /\ ~r.fullDue => r.acked = r.generation
    <3>1. CASE settled
      BY <1>4, <1>6, <3>1 DEF PeerRules
    <3>2. CASE ~settled
      <4>1. p.fullDue \in BOOLEAN
        BY DEF PeerState
      <4>2. r.fullDue = p.fullDue
        BY <1>6, <3>2, <4>1
      <4>3. p.generation > 0 /\ ~p.fullDue => p.acked = p.generation
        BY DEF PeerRules
      <4> QED
        BY <1>2, <1>3, <1>6, <4>2, <4>3
    <3> QED
      BY <3>1, <3>2
  <2> QED
    BY <1>6, <1>7, <2>1, <2>2 DEF PeerRules
<1> QED
  BY <1>1, <1>8, <1>9

\* An ack of a frame the client has seen.
LEMMA AckKeeps ==
    ASSUME NEW p \in PeerState, NEW r \in PeerState, NEW c \in ClientState,
           NEW n \in Names, NEW q \in Seq(Msg), NEW sent \in SUBSET Datagram,
           NEW ack \in Nat, ack <= c.newest,
           r = [p EXCEPT !.newestAck = IF ack > p.newestAck THEN ack ELSE p.newestAck],
           PeerRules(p), Follows(p, c, n, q, sent)
    PROVE  PeerRules(r) /\ Follows(r, c, n, q, sent)
<1> DEFINE newest == IF ack > p.newestAck THEN ack ELSE p.newestAck
<1>1. newest \in {ack, p.newestAck}
  OBVIOUS
<1> HIDE DEF newest
<1>2. /\ r.generation = p.generation
      /\ r.acked = p.acked
      /\ r.seeded = p.seeded
      /\ r.deltaTick = p.deltaTick
      /\ r.newestAck = newest
      /\ r.inflight = p.inflight
      /\ r.fullDue = p.fullDue
      /\ r.set = p.set
      /\ r.leaves = p.leaves
      /\ r.enters = p.enters
      /\ r.leftSent = p.leftSent
      /\ r.enteredSent = p.enteredSent
  BY DEF PeerState, newest
<1>3. (Tracked(r) <=> Tracked(p)) /\ (InPrefix(r) <=> InPrefix(p))
  BY <1>2 DEF Tracked, InPrefix
<1>4. p.deltaTick \in Nat /\ c.newest \in Nat
  BY DEF PeerState, ClientState
<1>5. AckFollows(r, c)
  BY <1>1, <1>2, <1>3, <1>4 DEF AckFollows, Follows
<1>6. PeerRules(r)
  BY <1>2, <1>3 DEF PeerRules
<1>7. /\ FramesAcked(r, sent)
      /\ MembersNamed(r, n)
      /\ NewsIsRight(r, c, n, sent)
      /\ PrefixIsRight(r, c, n, sent)
  BY <1>2, <1>3 DEF Follows, FramesAcked, MembersNamed, NewsIsRight, PrefixIsRight,
                    PrefixFrame, Carrier
<1>8. /\ MirrorFollows(r, c, n, q)
      /\ Delivered(r, c, n, q)
      /\ Stated(r, n)
      /\ TablesRight(r, c.slots, q)
  BY <1>2, <1>3 DEF Follows, MirrorFollows, Delivered, Stated, TablesRight, Current
<1> QED
  BY <1>5, <1>6, <1>7, <1>8 DEF Follows

\* The fields a retirement leaves behind, by whichever way it went.
LEMMA RetireFields ==
    ASSUME NEW p \in PeerState, NEW now \in Nat
    PROVE  LET r == RetireInterestDelta(p, now)
           IN  \/ r = p
               \/ /\ p.deltaTick # NoTick
                  /\ r.generation = p.generation
                  /\ r.acked = p.acked
                  /\ r.newestAck = p.newestAck
                  /\ r.seeded
                  /\ r.deltaTick = NoTick
                  /\ r.set = p.set
                  /\ r.leaves = p.leaves \ p.leftSent
                  /\ r.enters = p.enters \ p.enteredSent
                  /\ r.leftSent = {} /\ r.enteredSent = {}
                  /\ \/ /\ p.newestAck >= p.deltaTick
                        /\ r.inflight = p.inflight /\ r.fullDue = p.fullDue
                     \/ r.inflight = NoTable /\ r.fullDue
<1> DEFINE acked == p.newestAck >= p.deltaTick
           given == IF acked THEN p ELSE OweWholeInterestSet(p)
           done == [given EXCEPT !.leaves = @ \ p.leftSent,
                                 !.enters = @ \ p.enteredSent,
                                 !.leftSent = {},
                                 !.enteredSent = {},
                                 !.deltaTick = NoTick,
                                 !.seeded = TRUE]
<1>1. \/ RetireInterestDelta(p, now) = p
      \/ p.deltaTick # NoTick /\ RetireInterestDelta(p, now) = done
  BY DEF RetireInterestDelta
<1>2. /\ given \in PeerState
      /\ given.set = p.set
      /\ given.leaves = p.leaves
      /\ given.enters = p.enters
  BY OweKeeps
<1>3. /\ Demands(p, given)
      /\ \/ acked /\ given.inflight = p.inflight /\ given.fullDue = p.fullDue
         \/ given.inflight = NoTable /\ given.fullDue
  <2>1. CASE acked
    BY <2>1 DEF Demands
  <2>2. CASE ~acked
    <3>1. given = OweWholeInterestSet(p)
      BY <2>2
    <3>2. given.inflight = NoTable /\ given.fullDue
      BY <3>1 DEF OweWholeInterestSet, PeerState
    <3> QED
      BY <3>1, <3>2, OweDemands
  <2> QED
    BY <2>1, <2>2
<1> HIDE DEF given
<1>4. /\ done.generation = given.generation
      /\ done.acked = given.acked
      /\ done.newestAck = given.newestAck
      /\ done.seeded
      /\ done.deltaTick = NoTick
      /\ done.set = given.set
      /\ done.leaves = given.leaves \ p.leftSent
      /\ done.enters = given.enters \ p.enteredSent
      /\ done.leftSent = {} /\ done.enteredSent = {}
      /\ done.inflight = given.inflight
      /\ done.fullDue = given.fullDue
  BY <1>2 DEF PeerState
<1> HIDE DEF done
<1> QED
  BY <1>1, <1>2, <1>3, <1>4 DEF Demands

\* Retiring a prefix: an ack that reaches the stamp proves the client applied
\* it; giving it up promises nothing until a whole set is stated.
LEMMA RetireFollows ==
    ASSUME NEW p \in PeerState, NEW now \in Nat, NEW c \in ClientState,
           NEW n \in Names, NEW q \in Seq(Msg), NEW sent \in SUBSET Datagram,
           PendingAgrees(p), PeerRules(p), Follows(p, c, n, q, sent), FramesSplit(sent)
    PROVE  LET r == RetireInterestDelta(p, now)
           IN  PeerRules(r) /\ Follows(r, c, n, q, sent)
<1> DEFINE r == RetireInterestDelta(p, now)
<1> HIDE DEF r
<1>1. SUFFICES ASSUME p.deltaTick # NoTick,
                      r.generation = p.generation,
                      r.acked = p.acked,
                      r.newestAck = p.newestAck,
                      r.seeded,
                      r.deltaTick = NoTick,
                      r.set = p.set,
                      r.leaves = p.leaves \ p.leftSent,
                      r.enters = p.enters \ p.enteredSent,
                      r.leftSent = {}, r.enteredSent = {},
                      \/ /\ p.newestAck >= p.deltaTick
                         /\ r.inflight = p.inflight /\ r.fullDue = p.fullDue
                      \/ r.inflight = NoTable /\ r.fullDue
               PROVE  PeerRules(r) /\ Follows(r, c, n, q, sent)
  BY RetireFields DEF r
<1>2. r.inflight = NoTable
  BY <1>1 DEF PeerRules
<1>3. Tracked(r) => InPrefix(p) /\ p.newestAck >= p.deltaTick
  BY <1>1, <1>2 DEF Tracked, InPrefix
<1>4. PeerRules(r)
  <2>1. r.generation > 0
    BY <1>1 DEF PeerRules
  <2> QED
    BY <1>1, <1>2, <2>1 DEF PeerRules, Tracked
<1>5. ~InPrefix(r)
  BY <1>1 DEF InPrefix
<1>6. Tracked(r) => c.newest >= p.deltaTick
  BY <1>3 DEF Follows, AckFollows
<1>7. FramesAcked(r, sent) /\ AckFollows(r, c) /\ PrefixIsRight(r, c, n, sent)
      /\ Delivered(r, c, n, q) /\ Stated(r, n) /\ TablesRight(r, c.slots, q)
  BY <1>1, <1>2, <1>5 DEF Follows, FramesAcked, AckFollows, PrefixIsRight, Delivered,
                          Stated, TablesRight
<1>8. MembersNamed(r, n)
  BY <1>1 DEF Follows, MembersNamed
<1>9. NewsIsRight(r, c, n, sent)
  <2> SUFFICES ASSUME Tracked(r), NEW d \in sent, Carrier(r, d), d.tick >= c.newest
               PROVE  /\ \A s \in d.left : n[s] \notin r.set \ r.enters
                      /\ \A s \in d.entered : n[s] # NoEntity => n[s] \in r.set \cup r.leaves
    BY DEF NewsIsRight
  <2>1. Carrier(p, d) /\ Tracked(p)
    BY <1>1, <1>3 DEF Carrier, InPrefix
  <2>2. /\ \A s \in d.left : n[s] \notin p.set \ p.enters
        /\ \A s \in d.entered : n[s] # NoEntity => n[s] \in p.set \cup p.leaves
    BY <2>1 DEF Follows, NewsIsRight
  <2>3. d.tick >= p.deltaTick
    BY <1>6 DEF ClientState, PeerState, Datagram
  <2>4. PrefixFrame(p, c, n, sent, d)
    BY <1>3, <2>3 DEF Follows, PrefixIsRight
  <2>5. d.left \cap d.entered = {} /\ d.left \subseteq Slot /\ d.entered \subseteq Slot
    BY DEF FramesSplit, Datagram
  <2>6. \A s \in d.left : n[s] \notin p.enteredSent
    BY <2>4, <2>5 DEF PrefixFrame, SlotsOf
  <2>7. \A s \in d.entered : n[s] \notin p.leftSent
    BY <2>1, <2>4, <2>5 DEF PrefixFrame
  <2> QED
    BY <1>1, <2>2, <2>6, <2>7
<1>10. MirrorFollows(r, c, n, q)
  <2> SUFFICES ASSUME Current(r, c)
               PROVE  /\ \A e \in r.set \ r.enters : Rooted(c, n, e)
                      /\ \A e \in c.mirror : e \in r.set \cup r.leaves \/ Dropping(q, e)
    BY DEF MirrorFollows
  <2>1. Current(p, c) /\ InPrefix(p) /\ c.newest >= p.deltaTick
    BY <1>1, <1>3, <1>6 DEF Current, InPrefix
  <2>2. /\ \A e \in p.set \ p.enters : Rooted(c, n, e)
        /\ \A e \in c.mirror : e \in p.set \cup p.leaves \/ Dropping(q, e)
        /\ \A e \in p.enteredSent : Rooted(c, n, e)
        /\ \A e \in p.leftSent : e \notin c.mirror \/ Dropping(q, e)
    BY <2>1 DEF Follows, MirrorFollows, Delivered
  <2> QED
    BY <1>1, <2>2
<1> QED
  BY <1>4, <1>7, <1>8, <1>9, <1>10 DEF Follows

\* The head of a section: retire, then perhaps owe a set.
LEMMA SectionBaseFollows ==
    ASSUME NEW p \in PeerState, NEW now \in Nat, NEW c \in ClientState,
           NEW n \in Names, NEW q \in Seq(Msg), NEW sent \in SUBSET Datagram,
           PendingAgrees(p), PeerRules(p), Follows(p, c, n, q, sent), FramesSplit(sent)
    PROVE  LET r == SectionBase(p, now)
           IN  /\ PeerRules(r)
               /\ Follows(r, c, n, q, sent)
               /\ r.set = p.set
               /\ r.newestAck = p.newestAck
<1> DEFINE m == RetireInterestDelta(p, now)
<1>1. m \in PeerState
  BY RetireKeeps
<1>2. PeerRules(m) /\ Follows(m, c, n, q, sent)
  BY RetireFollows
<1>3. m.set = p.set /\ m.newestAck = p.newestAck
  BY RetireFields
<1>4. SectionBase(p, now) \in {m, OweWholeInterestSet(m)}
  BY DEF SectionBase
<1> HIDE DEF m
<1>5. CASE SectionBase(p, now) = m
  BY <1>2, <1>3, <1>5
<1>6. CASE SectionBase(p, now) = OweWholeInterestSet(m)
  <2>1. OweWholeInterestSet(m) \in PeerState /\ Moves(m, OweWholeInterestSet(m))
        /\ OweWholeInterestSet(m).set = m.set
    BY <1>1, OweKeeps, OweMoves
  <2>2. /\ PeerRules(OweWholeInterestSet(m))
        /\ Follows(OweWholeInterestSet(m), c, n, q, sent)
    BY <1>1, <1>2, <2>1, MovesKeeps, ShrinkingFollows
  <2> QED
    BY <1>3, <1>6, <2>1, <2>2 DEF Moves
<1> QED
  BY <1>4, <1>5, <1>6

-----------------------------------------------------------------------------
(* One message more at the end of the channel.                             *)

LEMMA OneMore ==
    ASSUME NEW q \in Seq(Msg), NEW m \in Msg
    PROVE  /\ q \o <<m>> \in Seq(Msg)
           /\ Len(q) \in Nat
           /\ Len(q \o <<m>>) = Len(q) + 1
           /\ \A i \in 1..Len(q) : (q \o <<m>>)[i] = q[i]
           /\ (q \o <<m>>)[Len(q) + 1] = m
<1>1. <<m>> \in Seq(Msg) /\ Len(<<m>>) = 1 /\ <<m>>[1] = m
  OBVIOUS
<1>2. /\ q \o <<m>> \in Seq(Msg)
      /\ Len(q \o <<m>>) = Len(q) + Len(<<m>>)
      /\ \A i \in 1..Len(q) + Len(<<m>>) :
           (q \o <<m>>)[i] = IF i <= Len(q) THEN q[i] ELSE <<m>>[i - Len(q)]
  BY <1>1, ConcatProperties
<1>3. Len(q) \in Nat
  OBVIOUS
<1> HIDE DEF Msg
<1> QED
  BY <1>1, <1>2, <1>3

\* A table at the end names nothing: positions and what they name stay.
LEMMA TableAtEnd ==
    ASSUME NEW q \in Seq(Msg), NEW t \in InterestTable
    PROVE  LET x == q \o <<t>>
           IN  /\ Manifests(x) = Manifests(q)
               /\ Positions(x) = Positions(q)
               /\ \A i \in Manifests(q) : i \in 1..Len(q) /\ x[i] = q[i]
               /\ \A own : \A j \in Positions(q) : NamesAt(own, x, j) = NamesAt(own, q, j)
               /\ \A e : Dropping(x, e) <=> Dropping(q, e)
               /\ \A j, i : i \in 1..Len(q) => (Precedes(x, j, i) <=> Precedes(q, j, i))
<1> DEFINE x == q \o <<t>>
<1>1. /\ Len(q) \in Nat
      /\ Len(x) = Len(q) + 1
      /\ \A i \in 1..Len(q) : x[i] = q[i]
      /\ x[Len(q) + 1] = t
  BY OneMore DEF Msg
<1> HIDE DEF x
<1>2. x[Len(q) + 1].kind # "manifest"
  BY <1>1 DEF InterestTable
<1>3. Manifests(x) = Manifests(q)
  BY <1>1, <1>2 DEF Manifests
<1>4. Positions(x) = Positions(q)
  BY <1>3 DEF Positions
<1>5. \A i \in Manifests(q) : i \in 1..Len(q) /\ x[i] = q[i]
  BY <1>1 DEF Manifests
<1>6. \A own : \A j \in Positions(q) : NamesAt(own, x, j) = NamesAt(own, q, j)
  BY <1>5 DEF Positions, NamesAt
<1>7. \A e : Dropping(x, e) <=> Dropping(q, e)
  BY <1>3, <1>5 DEF Dropping
<1>8. \A j, i : i \in 1..Len(q) => (Precedes(x, j, i) <=> Precedes(q, j, i))
  BY <1>3, <1>4 DEF Precedes
<1> QED
  BY <1>3, <1>4, <1>5, <1>6, <1>7, <1>8 DEF x

LEMMA TableAtEndKeepsNaming ==
    ASSUME NEW q \in Seq(Msg), NEW t \in InterestTable, NEW own \in Names,
           NEW n \in Names, NEW f \in [Slot -> Nat], NEW sent \in SUBSET Datagram,
           Naming(own, n, f, q, sent)
    PROVE  Naming(own, n, f, q \o <<t>>, sent)
<1> DEFINE x == q \o <<t>>
<1>1. /\ Manifests(x) = Manifests(q)
      /\ Positions(x) = Positions(q)
      /\ \A i \in Manifests(q) : x[i] = q[i]
      /\ \A j \in Positions(q) : NamesAt(own, x, j) = NamesAt(own, q, j)
  BY TableAtEnd
<1> HIDE DEF x
<1>2. NamesSettle(own, n, f, x)
  <2> SUFFICES ASSUME NEW j \in Positions(x), NEW s \in Slot,
                      NamesAt(own, x, j)[s] # NoEntity
               PROVE  \/ Stands(n, x, j, s, NamesAt(own, x, j)[s])
                      \/ Goes(n, f, x, j, s, NamesAt(own, x, j)[s])
    BY DEF NamesSettle
  <2> DEFINE e == NamesAt(own, q, j)[s]
  <2>1. NamesAt(own, x, j)[s] = e /\ j \in Positions(q)
    BY <1>1
  <2>2. Stands(n, q, j, s, e) \/ Goes(n, f, q, j, s, e)
    BY <2>1 DEF Naming, NamesSettle
  <2> HIDE DEF e
  <2>3. Stands(n, q, j, s, e) => Stands(n, x, j, s, e)
    BY <1>1 DEF Stands
  <2>4. Goes(n, f, q, j, s, e) => Goes(n, f, x, j, s, e)
    BY <1>1 DEF Goes
  <2> QED
    BY <2>1, <2>2, <2>3, <2>4
<1>3. NamesAreOne(own, n, x)
  BY <1>1 DEF Naming, NamesAreOne
<1> QED
  BY <1>2, <1>3 DEF Naming, x

\* A whole set is sent while each slot it states still means what it states.
Sendable(p, n) ==
    /\ p.inflight # NoTable
    /\ \A s \in Slot : p.inflight.pairs[s] # NoEntity => n[s] \in {NoEntity, p.inflight.pairs[s]}

LEMMA SendingFollows ==
    ASSUME NEW p \in PeerState, NEW c \in ClientState, NEW n \in Names,
           NEW f \in [Slot -> Nat], NEW q \in Seq(Msg), NEW sent \in SUBSET Datagram,
           NEW t \in InterestTable, t.stated = SlotsOf(p.inflight.pairs, Entity),
           Sendable(p, n), Naming(c.slots, n, f, q, sent), Follows(p, c, n, q, sent)
    PROVE  Follows(p, c, n, q \o <<t>>, sent)
<1> DEFINE x == q \o <<t>>
<1>1. /\ Manifests(x) = Manifests(q)
      /\ Positions(x) = Positions(q)
      /\ \A i \in Manifests(q) : i \in 1..Len(q)
      /\ \A j \in Positions(q) : NamesAt(c.slots, x, j) = NamesAt(c.slots, q, j)
      /\ \A e : Dropping(x, e) <=> Dropping(q, e)
      /\ \A j, i : i \in 1..Len(q) => (Precedes(x, j, i) <=> Precedes(q, j, i))
  BY TableAtEnd
<1>2. /\ Len(q) \in Nat
      /\ Len(x) = Len(q) + 1
      /\ \A i \in 1..Len(q) : x[i] = q[i]
      /\ x[Len(q) + 1] = t
  BY OneMore DEF Msg
<1>3. c.slots \in Names /\ p.inflight.pairs \in Names
  BY DEF ClientState, PeerState, Table
<1> HIDE DEF x
<1>4. MirrorFollows(p, c, n, x) /\ Delivered(p, c, n, x)
  BY <1>1 DEF Follows, MirrorFollows, Delivered
<1>5. TablesRight(p, c.slots, x)
  <2> SUFFICES ASSUME p.inflight # NoTable, NEW i \in 1..Len(x),
                      x[i].kind = "table", x[i].gen = p.generation
               PROVE  /\ x[i].stated = SlotsOf(p.inflight.pairs, Entity)
                      /\ \A j \in Nat : Precedes(x, j, i) =>
                           \A s \in x[i].stated :
                             NamesAt(c.slots, x, j)[s] \in {NoEntity, p.inflight.pairs[s]}
    BY DEF TablesRight
  <2>1. CASE i \in 1..Len(q)
    <3>1. /\ x[i].stated = SlotsOf(p.inflight.pairs, Entity)
          /\ \A j \in Nat : Precedes(q, j, i) =>
               \A s \in x[i].stated :
                 NamesAt(c.slots, q, j)[s] \in {NoEntity, p.inflight.pairs[s]}
      BY <1>2, <2>1 DEF Follows, TablesRight
    <3>2. \A j \in Nat : Precedes(x, j, i) => j \in Positions(q) /\ Precedes(q, j, i)
      BY <1>1, <2>1 DEF Precedes
    <3> QED
      BY <1>1, <3>1, <3>2
  <2>2. CASE i = Len(q) + 1
    <3>1. x[i].stated = SlotsOf(p.inflight.pairs, Entity)
      BY <1>2, <2>2
    <3>2. ASSUME NEW j \in Nat, Precedes(x, j, i), NEW s \in x[i].stated
          PROVE  NamesAt(c.slots, x, j)[s] \in {NoEntity, p.inflight.pairs[s]}
      <4> DEFINE e == NamesAt(c.slots, q, j)[s]
      <4>1. j \in Positions(q) /\ \A k \in Manifests(q) : k <= j /\ k \in Nat
        BY <1>1, <1>2, <2>2, <3>2 DEF Precedes
      <4>2. /\ s \in Slot /\ p.inflight.pairs[s] # NoEntity
            /\ n[s] \in {NoEntity, p.inflight.pairs[s]}
        BY <3>1, NamingAssumption DEF SlotsOf, Sendable
      <4>3. NamesAt(c.slots, x, j)[s] = e
        BY <1>1, <4>1
      <4>4. e = NoEntity \/ Stands(n, q, j, s, e) \/ Goes(n, f, q, j, s, e)
        BY <4>1, <4>2 DEF Naming, NamesSettle
      <4> HIDE DEF e
      <4>5. ~Goes(n, f, q, j, s, e)
        BY <4>1 DEF Goes
      <4> QED
        BY <4>2, <4>3, <4>4, <4>5 DEF Stands
    <3> QED
      BY <3>1, <3>2
  <2> QED
    BY <1>2, <2>1, <2>2
<1> QED
  BY <1>4, <1>5 DEF Follows, x

-----------------------------------------------------------------------------
(* Stating the whole set.                                                  *)

LEMMA StatingFollows ==
    ASSUME NEW p \in PeerState, NEW c \in ClientState, NEW n \in Names,
           NEW q \in Seq(Msg), NEW sent \in SUBSET Datagram,
           p.fullDue, p.acked <= p.generation, c.mirrorGen <= p.generation,
           TablesAtMost(q, p.generation), Follows(p, c, n, q, sent)
    PROVE  LET r == StateWholeInterestSet(p, n)
           IN  /\ PeerRules(r)
               /\ Follows(r, c, n, q, sent)
               /\ Sendable(r, n)
               /\ r.set = p.set
               /\ r.newestAck = p.newestAck
<1> DEFINE pairs == [s \in Slot |-> IF n[s] \in p.set THEN n[s] ELSE NoEntity]
           table == [gen |-> p.generation + 1, pairs |-> pairs]
           r == StateWholeInterestSet(p, n)
<1>1. p.generation \in Nat /\ p.acked \in Nat /\ c.mirrorGen \in Nat /\ p.set \in SUBSET Entity
  BY DEF PeerState, ClientState
<1>2. table.gen = p.generation + 1 /\ table.pairs = pairs /\ table # NoTable
  BY <1>1 DEF NoTable
<1>3. \A s \in Slot : pairs[s] = IF n[s] \in p.set THEN n[s] ELSE NoEntity
  OBVIOUS
<1>4. StateWholeInterestSet(p, n) =
        [p EXCEPT !.generation = p.generation + 1,
                  !.inflight = table,
                  !.leaves = {},
                  !.enters = p.enters \ Named(n),
                  !.leftSent = {},
                  !.enteredSent = {},
                  !.deltaTick = NoTick,
                  !.seeded = TRUE]
  BY DEF StateWholeInterestSet
<1> HIDE DEF table
<1>5. /\ r.generation = p.generation + 1
      /\ r.acked = p.acked
      /\ r.seeded
      /\ r.newestAck = p.newestAck
      /\ r.deltaTick = NoTick
      /\ r.inflight = table
      /\ r.fullDue
      /\ r.set = p.set
      /\ r.leaves = {}
      /\ r.enters = p.enters \ Named(n)
      /\ r.leftSent = {} /\ r.enteredSent = {}
  BY <1>4 DEF PeerState
<1> HIDE DEF r, pairs
<1>6. PeerRules(r)
  BY <1>1, <1>2, <1>5 DEF PeerRules
<1>7. Sendable(r, n)
  BY <1>2, <1>3, <1>5 DEF Sendable
<1>8. FramesAcked(r, sent) /\ AckFollows(r, c) /\ PrefixIsRight(r, c, n, sent)
      /\ Delivered(r, c, n, q)
  BY <1>5 DEF Follows, FramesAcked, AckFollows, PrefixIsRight, Delivered, InPrefix
<1>9. MembersNamed(r, n)
  BY <1>5 DEF Follows, MembersNamed
<1>10. NewsIsRight(r, c, n, sent)
  <2>1. \A d \in sent : ~Carrier(r, d)
    BY <1>1, <1>5 DEF Follows, FramesAcked, Carrier, Datagram
  <2> QED
    BY <2>1 DEF NewsIsRight
<1>11. MirrorFollows(r, c, n, q)
  BY <1>1, <1>5 DEF MirrorFollows, Current
<1>12. Stated(r, n)
  <2>1. \A e \in r.set \ r.enters : \E s \in Slot : n[s] = e /\ r.inflight.pairs[s] = e
    <3> SUFFICES ASSUME NEW e \in r.set \ r.enters
                 PROVE  \E s \in Slot : n[s] = e /\ r.inflight.pairs[s] = e
      OBVIOUS
    <3>1. e \in Named(n) /\ e \in p.set
      BY <1>5 DEF Follows, MembersNamed
    <3>2. PICK s \in Slot : n[s] = e
      BY <3>1 DEF Named, IdsOf
    <3> QED
      BY <1>2, <1>3, <1>5, <3>1, <3>2
  <2>2. IdsOf(r.inflight.pairs, Slot) \subseteq r.set
    BY <1>2, <1>3, <1>5 DEF IdsOf
  <2> QED
    BY <2>1, <2>2 DEF Stated
<1>13. TablesRight(r, c.slots, q)
  <2>1. \A i \in 1..Len(q) : q[i] \in Msg
    OBVIOUS
  <2>2. \A i \in 1..Len(q) : q[i].kind = "table" => q[i].gen \in Nat
    BY <2>1 DEF Msg, Manifest, InterestTable
  <2>3. \A i \in 1..Len(q) : ~(q[i].kind = "table" /\ q[i].gen = r.generation)
    BY <1>1, <1>5, <2>2 DEF TablesAtMost
  <2> QED
    BY <2>3 DEF TablesRight
<1> QED
  BY <1>5, <1>6, <1>7, <1>8, <1>9, <1>10, <1>11, <1>12, <1>13 DEF Follows, r

LEMMA MintedType ==
    ASSUME NEW p \in PeerState, NEW n \in Names
    PROVE  StateWholeInterestSet(p, n) \in PeerState
<1> DEFINE pairs == [s \in Slot |-> IF n[s] \in p.set THEN n[s] ELSE NoEntity]
           table == [gen |-> p.generation + 1, pairs |-> pairs]
           next == p.generation + 1
           still == p.enters \ Named(n)
<1>1. pairs \in Names
  BY DEF Names
<1> HIDE DEF pairs
<1>2. next \in Nat /\ still \in SUBSET Entity
  BY DEF PeerState
<1>3. table \in Table
  BY <1>1, <1>2 DEF Table
<1> DEFINE built == [p EXCEPT !.generation = next,
                              !.inflight = table,
                              !.leaves = {},
                              !.enters = still,
                              !.leftSent = {},
                              !.enteredSent = {},
                              !.deltaTick = 0,
                              !.seeded = TRUE]
<1>4. StateWholeInterestSet(p, n) = built
  BY DEF StateWholeInterestSet, pairs, NoTick
<1> HIDE DEF table, next, still
<1>5. built \in PeerState
  BY <1>2, <1>3 DEF PeerState
<1> QED
  BY <1>4, <1>5

\* Sending a whole set, a copy of the one in flight or a fresh one.
LEMMA ToSendFollows ==
    ASSUME NEW p \in PeerState, NEW c \in ClientState, NEW n \in Names,
           NEW q \in Seq(Msg), NEW sent \in SUBSET Datagram, NEW now \in Nat,
           PendingAgrees(p), p.inflight.gen <= p.generation,
           p.fullDue, p.acked <= p.generation, c.mirrorGen <= p.generation,
           TablesAtMost(q, p.generation), PeerRules(p), Follows(p, c, n, q, sent)
    PROVE  LET r == InterestTableToSend(p, n, now)
           IN  /\ r \in PeerState
               /\ PeerRules(r)
               /\ Follows(r, c, n, q, sent)
               /\ Sendable(r, n)
               /\ r.set = p.set
               /\ r.newestAck = p.newestAck
<1> DEFINE chosen == IF Reusable(p, n) THEN p ELSE StateWholeInterestSet(p, n)
           r == [chosen EXCEPT !.tableTick = now]
<1>1. InterestTableToSend(p, n, now) = r
  BY DEF InterestTableToSend
<1>2. r \in PeerState
  BY <1>1, TableToSendKeeps
<1>3. /\ PeerRules(chosen) /\ Follows(chosen, c, n, q, sent)
      /\ Sendable(chosen, n) /\ chosen.set = p.set /\ chosen.newestAck = p.newestAck
  <2>1. CASE Reusable(p, n)
    BY <2>1 DEF Reusable, Sendable
  <2>2. CASE ~Reusable(p, n)
    BY <2>2, StatingFollows
  <2> QED
    BY <2>1, <2>2
<1>4. chosen \in PeerState
  <2>1. CASE Reusable(p, n)
    BY <2>1
  <2>2. CASE ~Reusable(p, n)
    BY <2>2, MintedType
  <2> QED
    BY <2>1, <2>2
<1> HIDE DEF chosen
<1>5. Moves(chosen, r) /\ r.set = chosen.set /\ r.inflight = chosen.inflight
  BY <1>4 DEF Moves, PeerState
<1>6. PeerRules(r) /\ Follows(r, c, n, q, sent)
  BY <1>2, <1>3, <1>4, <1>5, MovesKeeps, ShrinkingFollows
<1>7. Sendable(r, n) /\ r.newestAck = p.newestAck
  BY <1>3, <1>5 DEF Sendable, Moves
<1> QED
  BY <1>1, <1>2, <1>3, <1>5, <1>6, <1>7

-----------------------------------------------------------------------------
(* Renaming: the slots are reconciled and the new table is published.      *)

\* y is q with m at its end.
Ends(q, m, y) ==
    /\ Len(y) = Len(q) + 1
    /\ \A i \in 1..Len(q) : y[i] = q[i]
    /\ y[Len(q) + 1] = m

LEMMA EndOfConcat ==
    ASSUME NEW q \in Seq(Msg), NEW m \in Msg
    PROVE  Ends(q, m, q \o <<m>>) /\ q \o <<m>> \in Seq(Msg)
  BY OneMore DEF Ends

LEMMA ManifestAtEnd ==
    ASSUME NEW q \in Seq(Msg), NEW m \in Manifest, NEW y, Ends(q, m, y)
    PROVE  /\ Len(q) \in Nat
           /\ Manifests(y) = Manifests(q) \cup {Len(q) + 1}
           /\ Positions(y) = Positions(q) \cup {Len(q) + 1}
           /\ \A i \in Manifests(q) : i \in 1..Len(q) /\ y[i] = q[i]
           /\ \A j \in Positions(q) : j \in 0..Len(q)
           /\ \A own, j : j \in Positions(q) => NamesAt(own, y, j) = NamesAt(own, q, j)
           /\ \A own : NamesAt(own, y, Len(q) + 1) = m.names
           /\ \A e : Dropping(q, e) => Dropping(y, e)
           /\ \A j, i : i \in 1..Len(q) => (Precedes(y, j, i) <=> Precedes(q, j, i))
<1>1. /\ Len(q) \in Nat
      /\ Len(y) = Len(q) + 1
      /\ \A i \in 1..Len(q) : y[i] = q[i]
      /\ y[Len(q) + 1] = m
  BY DEF Ends
<1>2. m.kind = "manifest"
  BY DEF Manifest
<1>3. Manifests(y) = Manifests(q) \cup {Len(q) + 1}
  BY <1>1, <1>2 DEF Manifests
<1>4. Positions(y) = Positions(q) \cup {Len(q) + 1}
  BY <1>3 DEF Positions
<1>5. \A i \in Manifests(q) : i \in 1..Len(q) /\ y[i] = q[i]
  BY <1>1 DEF Manifests
<1>6. /\ \A j \in Positions(q) : j \in 0..Len(q)
      /\ \A own, j : j \in Positions(q) => NamesAt(own, y, j) = NamesAt(own, q, j)
  BY <1>1, <1>5 DEF Positions, NamesAt
<1>7. \A own : NamesAt(own, y, Len(q) + 1) = m.names
  BY <1>1 DEF NamesAt
<1>8. \A e : Dropping(q, e) => Dropping(y, e)
  BY <1>3, <1>5 DEF Dropping
<1>9. \A j, i : i \in 1..Len(q) => (Precedes(y, j, i) <=> Precedes(q, j, i))
  <2> SUFFICES ASSUME NEW j, NEW i \in 1..Len(q)
               PROVE  Precedes(y, j, i) <=> Precedes(q, j, i)
    OBVIOUS
  <2>1. ~(Len(q) + 1 < i) /\ (j = Len(q) + 1 => ~(j < i))
    BY <1>1
  <2> QED
    BY <1>3, <1>4, <2>1 DEF Precedes
<1> QED
  BY <1>1, <1>3, <1>4, <1>5, <1>6, <1>7, <1>8, <1>9

\* What a reconciliation does to each slot.
Renames(n, f, x, g, live, now) ==
    /\ NoEntity \notin live
    /\ OneName(x)
    /\ Named(x) \subseteq live
    /\ \A s \in Slot :
         /\ n[s] \in live => x[s] = n[s]
         /\ n[s] \notin live /\ n[s] # NoEntity => x[s] = NoEntity /\ g[s] = now
         /\ n[s] = NoEntity /\ f[s] # NoTick /\ now < f[s] + Quarantine
              => x[s] = NoEntity /\ g[s] = f[s]

LEMMA ReconciledRenames ==
    ASSUME NEW n \in Names, NEW x \in Names, NEW f \in [Slot -> Nat], NEW now \in Nat,
           NEW live \in SUBSET Entity, x \in Renamings(n, f, live, now)
    PROVE  Renames(n, f, x, FreedAfter(n, x, f, now), live, now)
<1> DEFINE g == FreedAfter(n, x, f, now)
<1>1. NoEntity \notin live
  BY NamingAssumption
<1>2. /\ \A s \in Slot : n[s] \in live => x[s] = n[s]
      /\ \A s \in Slot : n[s] \notin live =>
           x[s] = NoEntity \/ (s \in Open(n, f, now) /\ x[s] \in live \ Named(n))
      /\ OneName(x)
  BY DEF Renamings
<1>3. Named(x) \subseteq live
  BY <1>2 DEF Named, IdsOf
<1>4. ASSUME NEW s \in Slot, n[s] \notin live, n[s] # NoEntity
      PROVE  x[s] = NoEntity /\ g[s] = now
  BY <1>2, <1>4 DEF Open, FreedAfter
<1>5. ASSUME NEW s \in Slot, n[s] = NoEntity, f[s] # NoTick, now < f[s] + Quarantine
      PROVE  x[s] = NoEntity /\ g[s] = f[s]
  <2>1. s \notin Open(n, f, now)
    BY <1>5, NamingAssumption DEF Open
  <2>2. x[s] = NoEntity
    BY <1>1, <1>2, <1>5, <2>1
  <2> QED
    BY <1>5, <2>2 DEF FreedAfter
<1> QED
  BY <1>1, <1>2, <1>3, <1>4, <1>5 DEF Renames

\* The channel after the flush published x, if it did.
Publishes(q, y, n, x, now) ==
    \/ y = q /\ x = n
    \/ \E m \in Manifest : m.names = x /\ m.at = now /\ Ends(q, m, y)

LEMMA RenamingKeepsNaming ==
    ASSUME NEW own \in Names, NEW n \in Names, NEW x \in Names,
           NEW f \in [Slot -> Nat], NEW g \in [Slot -> Nat],
           NEW q \in Seq(Msg), NEW y \in Seq(Msg),
           NEW sent \in SUBSET Datagram, NEW live, NEW now \in Nat \ {0},
           Lag < Quarantine,
           Renames(n, f, x, g, live, now), Publishes(q, y, n, x, now),
           \A i \in 1..Len(q) : now <= q[i].at + Lag,
           \A d \in sent : now <= d.tick + Lag /\ d.tick < now,
           Naming(own, n, f, q, sent)
    PROVE  Naming(own, x, g, y, sent)
<1>1. Lag \in Nat /\ Quarantine \in Nat
  BY ConstantsAssumption, NamingAssumption
<1>2. FramesNamed(x, g, sent)
  <2> SUFFICES ASSUME NEW d \in sent, NEW s \in d.left \cup d.entered
               PROVE  x[s] # NoEntity \/ (g[s] # NoTick /\ d.tick < g[s])
    BY DEF FramesNamed
  <2>1. s \in Slot /\ d.tick \in Nat /\ f[s] \in Nat
    BY DEF Datagram
  <2>2. n[s] # NoEntity \/ (f[s] # NoTick /\ d.tick < f[s])
    BY DEF Naming, FramesNamed
  <2>3. CASE n[s] # NoEntity
    BY <2>1, <2>3 DEF Renames, NoTick
  <2>4. CASE n[s] = NoEntity
    <3>1. now < f[s] + Quarantine
      BY <1>1, <2>1, <2>2, <2>4
    <3> QED
      BY <2>1, <2>2, <2>4, <3>1 DEF Renames
  <2> QED
    BY <2>3, <2>4
<1>3. \* what each slot settles on, before anything is published
      ASSUME NEW j \in Positions(q), NEW s \in Slot,
             NamesAt(own, q, j)[s] # NoEntity
      PROVE  LET e == NamesAt(own, q, j)[s]
             IN  \/ Stands(n, q, j, s, e) /\ x[s] = e
                 \/ /\ Stands(n, q, j, s, e) /\ x[s] = NoEntity /\ g[s] = now
                    /\ e \notin Named(x) /\ x # n
                 \/ Goes(x, g, q, j, s, e)
  <2> DEFINE e == NamesAt(own, q, j)[s]
  <2>1. Stands(n, q, j, s, e) \/ Goes(n, f, q, j, s, e)
    BY <1>3 DEF Naming, NamesSettle
  <2>2. e # NoEntity
    BY <1>3
  <2> HIDE DEF e
  <2>3. CASE Stands(n, q, j, s, e)
    <3>1. n[s] = e
      BY <2>3 DEF Stands
    <3> QED
      BY <2>2, <2>3, <3>1 DEF Renames, e
  <2>4. CASE Goes(n, f, q, j, s, e)
    <3>1. PICK i \in Manifests(q) : i > j /\ q[i].at <= f[s] /\ e \notin Named(q[i].names)
      BY <2>4 DEF Goes
    <3>2. n[s] = NoEntity /\ f[s] # NoTick
      BY <2>4 DEF Goes
    <3>3. i \in 1..Len(q) /\ q[i] \in Msg /\ q[i].at \in Nat /\ f[s] \in Nat
      BY DEF Manifests, Msg, Manifest, InterestTable
    <3>4. now < f[s] + Quarantine
      BY <1>1, <3>1, <3>3
    <3>5. x[s] = NoEntity /\ g[s] = f[s]
      BY <3>2, <3>4 DEF Renames
    <3>6. Goes(x, g, q, j, s, e)
      BY <3>1, <3>2, <3>5 DEF Goes
    <3> QED
      BY <3>6 DEF e
  <2> QED
    BY <2>1, <2>3, <2>4
<1>4. CASE y = q /\ x = n
  <2>1. NamesSettle(own, x, g, q)
    BY <1>3, <1>4 DEF NamesSettle
  <2>2. NamesAreOne(own, x, q)
    BY <1>4 DEF Naming, NamesAreOne
  <2> QED
    BY <1>2, <1>4, <2>1, <2>2 DEF Naming
<1>5. ASSUME NEW m \in Manifest, m.names = x, m.at = now, Ends(q, m, y)
      PROVE  Naming(own, x, g, y, sent)
  <2>1. /\ Len(q) \in Nat
        /\ Manifests(y) = Manifests(q) \cup {Len(q) + 1}
        /\ Positions(y) = Positions(q) \cup {Len(q) + 1}
        /\ \A i \in Manifests(q) : i \in 1..Len(q) /\ y[i] = q[i]
        /\ \A j \in Positions(q) : j \in 0..Len(q)
        /\ \A j \in Positions(q) : NamesAt(own, y, j) = NamesAt(own, q, j)
        /\ NamesAt(own, y, Len(q) + 1) = x
    BY <1>5, ManifestAtEnd
  <2>2. y[Len(q) + 1] = m
    BY <1>5 DEF Ends
  <2>3. NamesAreOne(own, x, y)
    BY <2>1 DEF Naming, NamesAreOne, Renames
  <2>4. NamesSettle(own, x, g, y)
    <3> SUFFICES ASSUME NEW j \in Positions(y), NEW s \in Slot,
                        NamesAt(own, y, j)[s] # NoEntity
                 PROVE  \/ Stands(x, y, j, s, NamesAt(own, y, j)[s])
                        \/ Goes(x, g, y, j, s, NamesAt(own, y, j)[s])
      BY DEF NamesSettle
    <3>1. CASE j = Len(q) + 1
      <4>1. \A i \in Manifests(y) : ~(i > j)
        BY <2>1, <3>1
      <4>2. NamesAt(own, y, j) = x
        BY <2>1, <3>1
      <4> QED
        BY <4>1, <4>2 DEF Stands
    <3>2. CASE j \in Positions(q)
      <4> DEFINE e == NamesAt(own, q, j)[s]
      <4>1. NamesAt(own, y, j)[s] = e /\ e # NoEntity /\ Len(q) + 1 > j
        BY <2>1, <3>2
      <4>2. \/ Stands(n, q, j, s, e) /\ x[s] = e
            \/ /\ Stands(n, q, j, s, e) /\ x[s] = NoEntity /\ g[s] = now
               /\ e \notin Named(x)
            \/ Goes(x, g, q, j, s, e)
        BY <1>3, <3>2, <4>1
      <4> HIDE DEF e
      <4>3. CASE Stands(n, q, j, s, e) /\ x[s] = e
        BY <1>5, <2>1, <2>2, <4>1, <4>3 DEF Stands
      <4>4. CASE x[s] = NoEntity /\ g[s] = now /\ e \notin Named(x)
        <5>1. Len(q) + 1 \in Manifests(y) /\ y[Len(q) + 1] = m
          BY <2>1, <2>2
        <5>2. m.at <= g[s] /\ g[s] # 0 /\ e \notin Named(m.names)
          BY <1>5, <4>4
        <5>3. Goes(x, g, y, j, s, e)
          BY <4>1, <4>4, <5>1, <5>2 DEF Goes, NoTick
        <5> QED
          BY <4>1, <5>3
      <4>5. CASE Goes(x, g, q, j, s, e)
        BY <2>1, <2>2, <4>1, <4>5 DEF Goes
      <4> QED
        BY <4>2, <4>3, <4>4, <4>5
    <3> QED
      BY <2>1, <3>1, <3>2
  <2> QED
    BY <1>2, <2>3, <2>4 DEF Naming
<1> QED
  BY <1>4, <1>5 DEF Publishes

LEMMA PublishingKeepsPlaces ==
    ASSUME NEW q \in Seq(Msg), NEW y \in Seq(Msg), NEW n, NEW x, NEW now,
           Publishes(q, y, n, x, now)
    PROVE  /\ \A e : Dropping(q, e) => Dropping(y, e)
           /\ \A i \in 1..Len(y) : y[i].kind = "table" => i \in 1..Len(q) /\ y[i] = q[i]
           /\ \A own, j : j \in Positions(q) => NamesAt(own, y, j) = NamesAt(own, q, j)
           /\ \A j, i : i \in 1..Len(q) => (Precedes(y, j, i) <=> Precedes(q, j, i))
<1>1. CASE y = q
  BY <1>1
<1>2. CASE \E m \in Manifest : Ends(q, m, y)
  <2> PICK m \in Manifest : Ends(q, m, y)
    BY <1>2
  <2>1. m.kind = "manifest"
    BY DEF Manifest
  <2>2. /\ Len(q) \in Nat
        /\ \A own, j : j \in Positions(q) => NamesAt(own, y, j) = NamesAt(own, q, j)
        /\ \A e : Dropping(q, e) => Dropping(y, e)
        /\ \A j, i : i \in 1..Len(q) => (Precedes(y, j, i) <=> Precedes(q, j, i))
    BY ManifestAtEnd
  <2>3. \A i \in 1..Len(y) : y[i].kind = "table" => i \in 1..Len(q) /\ y[i] = q[i]
    BY <2>1, <2>2 DEF Ends
  <2> QED
    BY <2>2, <2>3
<1> QED
  BY <1>1, <1>2 DEF Publishes

LEMMA RenamingFollows ==
    ASSUME NEW p \in PeerState, NEW c \in ClientState,
           NEW n \in Names, NEW x \in Names, NEW f \in [Slot -> Nat], NEW g,
           NEW q \in Seq(Msg), NEW y \in Seq(Msg),
           NEW sent \in SUBSET Datagram, NEW live \in SUBSET Entity, NEW now \in Nat,
           Lag < Quarantine,
           Renames(n, f, x, g, live, now), Publishes(q, y, n, x, now),
           \A i \in 1..Len(q) : now <= q[i].at + Lag,
           \A d \in sent : now <= d.tick + Lag,
           p.set \subseteq live, PendingAgrees(p),
           Naming(c.slots, n, f, q, sent), Follows(p, c, n, q, sent)
    PROVE  Follows(p, c, x, y, sent)
<1>1. /\ Lag \in Nat /\ Quarantine \in Nat
      /\ p.set \subseteq Entity /\ p.leftSent \subseteq Entity /\ p.leaves \subseteq Entity
      /\ p.enteredSent \subseteq p.set
      /\ NoEntity \notin Entity
  BY ConstantsAssumption, NamingAssumption DEF PeerState, PendingAgrees
<1>2. /\ \A e : Dropping(q, e) => Dropping(y, e)
      /\ \A i \in 1..Len(y) : y[i].kind = "table" => i \in 1..Len(q) /\ y[i] = q[i]
      /\ \A j \in Positions(q) : NamesAt(c.slots, y, j) = NamesAt(c.slots, q, j)
      /\ \A j, i : i \in 1..Len(q) => (Precedes(y, j, i) <=> Precedes(q, j, i))
  BY PublishingKeepsPlaces
<1>3. \* a member keeps its slot
      \A s \in Slot : n[s] \in p.set => x[s] = n[s]
  BY DEF Renames
<1>4. \* a slot some frame mentions names what it named, or nothing
      \A d \in sent : \A s \in d.left \cup d.entered : x[s] \in {n[s], NoEntity}
  <2> SUFFICES ASSUME NEW d \in sent, NEW s \in d.left \cup d.entered
               PROVE  x[s] \in {n[s], NoEntity}
    OBVIOUS
  <2>1. s \in Slot /\ d.tick \in Nat /\ f[s] \in Nat
    BY DEF Datagram
  <2>2. n[s] # NoEntity \/ (f[s] # NoTick /\ d.tick < f[s])
    BY DEF Naming, FramesNamed
  <2>3. CASE n[s] # NoEntity
    BY <2>1, <2>3 DEF Renames
  <2>4. CASE n[s] = NoEntity
    <3>1. now < f[s] + Quarantine
      BY <1>1, <2>1, <2>2, <2>4
    <3> QED
      BY <2>1, <2>2, <2>4, <3>1 DEF Renames
  <2> QED
    BY <2>3, <2>4
<1>5. \* nor is a slot the client still names given to anyone else
      \A s \in Slot : c.slots[s] # NoEntity => x[s] \in {n[s], NoEntity}
  <2> SUFFICES ASSUME NEW s \in Slot, c.slots[s] # NoEntity
               PROVE  x[s] \in {n[s], NoEntity}
    OBVIOUS
  <2>1. NamesAt(c.slots, q, 0) = c.slots /\ 0 \in Positions(q)
    BY DEF NamesAt, Positions
  <2>2. Stands(n, q, 0, s, c.slots[s]) \/ Goes(n, f, q, 0, s, c.slots[s])
    BY <2>1 DEF Naming, NamesSettle
  <2>3. CASE n[s] # NoEntity
    BY <2>3 DEF Renames
  <2>4. CASE n[s] = NoEntity
    <3>1. f[s] # NoTick /\ \E i \in Manifests(q) : q[i].at <= f[s]
      BY <2>2, <2>4 DEF Stands, Goes
    <3>2. \A i \in Manifests(q) : now <= q[i].at + Lag /\ q[i].at \in Nat
      <4>1. \A i \in Manifests(q) : i \in 1..Len(q) /\ q[i] \in Msg
        BY DEF Manifests
      <4> QED
        BY <4>1 DEF Msg, Manifest, InterestTable
    <3>3. now < f[s] + Quarantine
      BY <1>1, <3>1, <3>2
    <3> QED
      BY <2>4, <3>1, <3>3 DEF Renames
  <2> QED
    BY <2>3, <2>4
<1>6. \A e \in p.set : Rooted(c, n, e) => Rooted(c, x, e)
  BY <1>3 DEF Rooted
<1>7. FramesAcked(p, sent) /\ AckFollows(p, c)
  BY DEF Follows
<1>8. MembersNamed(p, x)
  <2>1. ASSUME NEW e \in p.set, e \in Named(n) PROVE e \in Named(x)
    <3>1. PICK s \in Slot : n[s] = e
      BY <2>1 DEF Named, IdsOf
    <3>2. x[s] = e /\ e # NoEntity
      BY <1>1, <1>3, <2>1, <3>1
    <3> QED
      BY <3>2 DEF Named, IdsOf
  <2> QED
    BY <1>1, <2>1 DEF Follows, MembersNamed
<1>9. NewsIsRight(p, c, x, sent)
  <2> SUFFICES ASSUME Tracked(p), NEW d \in sent, Carrier(p, d), d.tick >= c.newest
               PROVE  /\ \A s \in d.left : x[s] \notin p.set \ p.enters
                      /\ \A s \in d.entered : x[s] # NoEntity => x[s] \in p.set \cup p.leaves
    BY DEF NewsIsRight
  <2>1. /\ \A s \in d.left : n[s] \notin p.set \ p.enters
        /\ \A s \in d.entered : n[s] # NoEntity => n[s] \in p.set \cup p.leaves
    BY DEF Follows, NewsIsRight
  <2>2. NoEntity \notin p.set
    BY <1>1
  <2> QED
    BY <1>4, <2>1, <2>2
<1>10. PrefixIsRight(p, c, x, sent)
  <2> SUFFICES ASSUME InPrefix(p), NEW d \in sent, d.tick >= p.deltaTick
               PROVE  PrefixFrame(p, c, x, sent, d)
    BY DEF PrefixIsRight
  <2>1. PrefixFrame(p, c, n, sent, d)
    BY DEF Follows, PrefixIsRight
  <2>2. SlotsOf(x, p.enteredSent) \subseteq d.entered
    <3> SUFFICES ASSUME NEW s \in Slot, x[s] \in p.enteredSent PROVE s \in d.entered
      BY DEF SlotsOf
    <3>1. x[s] \in Named(n) /\ x[s] \in p.set
      BY <1>1 DEF Follows, MembersNamed
    <3>2. PICK t \in Slot : n[t] = x[s]
      BY <3>1 DEF Named, IdsOf
    <3>3. x[t] = x[s] /\ x[s] # NoEntity
      BY <1>1, <1>3, <3>1, <3>2
    <3>4. t = s
      BY <3>3 DEF Renames, OneName
    <3> QED
      BY <2>1, <3>2, <3>4 DEF PrefixFrame, SlotsOf
  <2>3. ASSUME NEW b \in sent, Carrier(p, b), NEW s \in b.entered, x[s] \in p.leftSent
        PROVE  s \in d.left
    <3>1. x[s] = n[s]
      BY <1>1, <1>4, <2>3
    <3> QED
      BY <2>1, <2>3, <3>1 DEF PrefixFrame
  <2>4. ASSUME NEW s \in Slot, x[s] \in p.leftSent \cap c.mirror, c.slots[s] = x[s]
        PROVE  s \in d.left
    <3>1. x[s] # NoEntity
      BY <1>1, <2>4
    <3>2. x[s] = n[s]
      BY <1>5, <2>4, <3>1
    <3> QED
      BY <2>1, <2>4, <3>2 DEF PrefixFrame
  <2> QED
    BY <2>1, <2>2, <2>3, <2>4 DEF PrefixFrame
<1>11. MirrorFollows(p, c, x, y)
  BY <1>2, <1>6 DEF Follows, MirrorFollows
<1>12. Delivered(p, c, x, y)
  BY <1>1, <1>2, <1>6 DEF Follows, Delivered
<1>13. Stated(p, x)
  BY <1>3 DEF Follows, Stated
<1>14. TablesRight(p, c.slots, y)
  <2> SUFFICES ASSUME p.inflight # NoTable, NEW i \in 1..Len(y),
                      y[i].kind = "table", y[i].gen = p.generation
               PROVE  /\ y[i].stated = SlotsOf(p.inflight.pairs, Entity)
                      /\ \A j \in Nat : Precedes(y, j, i) =>
                           \A s \in y[i].stated :
                             NamesAt(c.slots, y, j)[s] \in {NoEntity, p.inflight.pairs[s]}
    BY DEF TablesRight
  <2>1. i \in 1..Len(q) /\ y[i] = q[i]
    BY <1>2
  <2>2. /\ q[i].stated = SlotsOf(p.inflight.pairs, Entity)
        /\ \A j \in Nat : Precedes(q, j, i) =>
             \A s \in q[i].stated :
               NamesAt(c.slots, q, j)[s] \in {NoEntity, p.inflight.pairs[s]}
    BY <2>1 DEF Follows, TablesRight
  <2>3. \A j \in Nat : Precedes(y, j, i) => Precedes(q, j, i) /\ j \in Positions(q)
    BY <1>2, <2>1 DEF Precedes
  <2> QED
    BY <1>2, <2>1, <2>2, <2>3
<1> QED
  BY <1>7, <1>8, <1>9, <1>10, <1>11, <1>12, <1>13, <1>14 DEF Follows

-----------------------------------------------------------------------------
(* Building the section and sending the frame that carries it.             *)

\* What building a section leaves in the record.
LEMMA SectionFields ==
    ASSUME NEW p \in PeerState, NEW n \in Names, NEW now \in Nat, PendingAgrees(p),
           NEW section \in Sections(p, n)
    PROVE  LET r == AfterSection(p, n, section, now)
           IN  \/ ~GateOpen(p) /\ r = p /\ section.left = {} /\ section.entered = {}
               \/ /\ GateOpen(p) /\ p.deltaTick # NoTick /\ r = p
                  /\ section.left = p.leftSent /\ section.entered = p.enteredSent
               \/ /\ GateOpen(p) /\ p.deltaTick = NoTick
                  /\ section.left \subseteq p.leaves \cap Named(n)
                  /\ section.entered \subseteq p.enters \cap Named(n)
                  /\ r.generation = p.generation
                  /\ r.acked = p.acked
                  /\ r.newestAck = p.newestAck
                  /\ r.seeded = p.seeded
                  /\ r.inflight = p.inflight
                  /\ r.fullDue = p.fullDue
                  /\ r.set = p.set
                  /\ r.enters = p.enters
                  /\ r.leaves = p.leaves \cap Named(n)
                  /\ r.leftSent = section.left
                  /\ r.enteredSent = section.entered
                  /\ r.deltaTick = IF Carries(p, section) THEN now ELSE NoTick
<1>1. CASE ~GateOpen(p)
  BY <1>1 DEF AfterSection, Sections
<1>2. CASE GateOpen(p) /\ p.deltaTick # NoTick
  BY <1>2 DEF AfterSection, Sections
<1>3. CASE GateOpen(p) /\ p.deltaTick = NoTick
  <2>1. section \in FreshSections(p, n)
    BY <1>3 DEF Sections
  <2>2. /\ section.left \subseteq p.leaves \cap Named(n)
        /\ section.entered \subseteq p.enters \cap Named(n)
    BY <2>1 DEF FreshSections, AtMost
  <2> DEFINE stamp == IF Carries(p, section) THEN now ELSE NoTick
             r == [p EXCEPT !.leaves = @ \cap Named(n),
                            !.leftSent = section.left,
                            !.enteredSent = section.entered,
                            !.deltaTick = stamp]
  <2>3. AfterSection(p, n, section, now) = r
    BY <1>3 DEF AfterSection
  <2> HIDE DEF stamp
  <2>4. /\ r.generation = p.generation
        /\ r.acked = p.acked
        /\ r.newestAck = p.newestAck
        /\ r.seeded = p.seeded
        /\ r.inflight = p.inflight
        /\ r.fullDue = p.fullDue
        /\ r.set = p.set
        /\ r.enters = p.enters
        /\ r.leaves = p.leaves \cap Named(n)
        /\ r.leftSent = section.left
        /\ r.enteredSent = section.entered
        /\ r.deltaTick = stamp
    BY DEF PeerState
  <2> HIDE DEF r
  <2> QED
    BY <1>3, <2>2, <2>3, <2>4 DEF stamp
<1> QED
  BY <1>1, <1>2, <1>3

\* A leave whose slot is gone needs no frame: a manifest on its way drops it.
LEMMA UnnamedIsDropping ==
    ASSUME NEW c \in ClientState, NEW n \in Names, NEW f \in [Slot -> Nat],
           NEW q \in Seq(Msg), NEW sent, Bound(c), Naming(c.slots, n, f, q, sent),
           NEW e \in c.mirror, e \notin Named(n)
    PROVE  Dropping(q, e)
<1>1. PICK s \in Slot : c.slots[s] = e /\ e # NoEntity
  BY DEF Bound, Named, IdsOf
<1>2. NamesAt(c.slots, q, 0) = c.slots /\ 0 \in Positions(q)
  BY DEF NamesAt, Positions
<1>3. Stands(n, q, 0, s, e) \/ Goes(n, f, q, 0, s, e)
  BY <1>1, <1>2 DEF Naming, NamesSettle
<1>4. ~Stands(n, q, 0, s, e)
  BY <1>1 DEF Stands, Named, IdsOf
<1> QED
  BY <1>3, <1>4 DEF Goes, Dropping

LEMMA AfterSectionFollows ==
    ASSUME NEW p \in PeerState, NEW c \in ClientState, NEW n \in Names,
           NEW f \in [Slot -> Nat], NEW q \in Seq(Msg), NEW sent \in SUBSET Datagram,
           NEW now \in Nat \ {0}, NEW section \in Sections(p, n),
           PendingAgrees(p), Bound(c), PeerRules(p),
           Naming(c.slots, n, f, q, sent), Follows(p, c, n, q, sent),
           c.newest < now, p.newestAck < now, \A d \in sent : d.tick < now
    PROVE  LET r == AfterSection(p, n, section, now)
           IN  PeerRules(r) /\ Follows(r, c, n, q, sent)
<1> DEFINE r == AfterSection(p, n, section, now)
           stamp == IF Carries(p, section) THEN now ELSE NoTick
<1> HIDE DEF r, stamp
<1>1. SUFFICES ASSUME GateOpen(p), p.deltaTick = NoTick,
                      section.left \subseteq p.leaves \cap Named(n),
                      section.entered \subseteq p.enters \cap Named(n),
                      r.generation = p.generation,
                      r.acked = p.acked,
                      r.newestAck = p.newestAck,
                      r.seeded = p.seeded,
                      r.inflight = p.inflight,
                      r.fullDue = p.fullDue,
                      r.set = p.set,
                      r.enters = p.enters,
                      r.leaves = p.leaves \cap Named(n),
                      r.leftSent = section.left,
                      r.enteredSent = section.entered,
                      r.deltaTick = stamp
               PROVE  PeerRules(r) /\ Follows(r, c, n, q, sent)
  BY SectionFields DEF r, stamp
<1>2. /\ stamp \in {now, NoTick}
      /\ stamp = NoTick => section.left = {} /\ section.entered = {}
  BY <1>1 DEF stamp, Carries, NoTick
<1>3. p.inflight = NoTable /\ (Tracked(r) <=> Tracked(p))
  BY <1>1 DEF PeerRules, GateOpen, Tracked, PeerState
<1>4. PeerRules(r)
  BY <1>1, <1>2, <1>3 DEF PeerRules, GateOpen
<1>5. FramesAcked(r, sent) /\ Stated(r, n) /\ TablesRight(r, c.slots, q)
  BY <1>1, <1>3 DEF Follows, FramesAcked, Stated, TablesRight
<1>6. InPrefix(r) => r.deltaTick = now
  BY <1>1, <1>2 DEF InPrefix
<1>7. /\ c.newest \in Nat /\ p.newestAck \in Nat
      /\ \A d \in sent : d.tick \in Nat
  BY DEF ClientState, PeerState, Datagram
<1>8. AckFollows(r, c) /\ PrefixIsRight(r, c, n, sent) /\ Delivered(r, c, n, q)
  BY <1>1, <1>6, <1>7 DEF AckFollows, PrefixIsRight, Delivered
<1>9. MembersNamed(r, n)
  BY <1>1 DEF Follows, MembersNamed
<1>10. NewsIsRight(r, c, n, sent)
  <2> SUFFICES ASSUME Tracked(r), NEW d \in sent, Carrier(r, d), d.tick >= c.newest
               PROVE  /\ \A s \in d.left : n[s] \notin r.set \ r.enters
                      /\ \A s \in d.entered : n[s] # NoEntity => n[s] \in r.set \cup r.leaves
    BY DEF NewsIsRight
  <2>1. /\ \A s \in d.left : n[s] \notin p.set \ p.enters
        /\ \A s \in d.entered : n[s] # NoEntity => n[s] \in p.set \cup p.leaves
    BY <1>1, <1>3 DEF Follows, NewsIsRight, Carrier
  <2>2. \A s \in d.entered : n[s] # NoEntity => n[s] \in Named(n)
    BY DEF Named, IdsOf, Datagram
  <2> QED
    BY <1>1, <2>1, <2>2
<1>11. MirrorFollows(r, c, n, q)
  <2> SUFFICES ASSUME Current(r, c)
               PROVE  /\ \A e \in r.set \ r.enters : Rooted(c, n, e)
                      /\ \A e \in c.mirror : e \in r.set \cup r.leaves \/ Dropping(q, e)
    BY DEF MirrorFollows
  <2>1. Current(p, c)
    BY <1>1, <1>3 DEF Current
  <2>2. /\ \A e \in p.set \ p.enters : Rooted(c, n, e)
        /\ \A e \in c.mirror : e \in p.set \cup p.leaves \/ Dropping(q, e)
    BY <2>1 DEF Follows, MirrorFollows
  <2>3. \A e \in c.mirror : e \notin Named(n) => Dropping(q, e)
    BY UnnamedIsDropping
  <2> QED
    BY <1>1, <2>2, <2>3
<1> QED
  BY <1>4, <1>5, <1>8, <1>9, <1>10, <1>11 DEF Follows

\* A datagram of the flush: it carries the prefix, or nothing is in flight.
FlushFrame(p, n, d, now) ==
    /\ d.tick = now
    /\ \/ ~d.carries /\ d.left = {} /\ d.entered = {} /\ ~InPrefix(p)
       \/ /\ d.carries /\ d.gen = p.generation /\ p.acked = p.generation
          /\ d.left = SlotsOf(n, p.leftSent)
          /\ d.entered = SlotsOf(n, p.enteredSent)

LEMMA FramesFollow ==
    ASSUME NEW p \in PeerState, NEW c \in ClientState, NEW n \in Names,
           NEW f \in [Slot -> Nat], NEW q \in Seq(Msg), NEW sent \in SUBSET Datagram,
           NEW more \in SUBSET Datagram, NEW now,
           \A d \in more : FlushFrame(p, n, d, now),
           PendingAgrees(p),
           Naming(c.slots, n, f, q, sent), Follows(p, c, n, q, sent)
    PROVE  /\ Naming(c.slots, n, f, q, sent \cup more)
           /\ Follows(p, c, n, q, sent \cup more)
<1> DEFINE all == sent \cup more
<1>0. /\ p.set \subseteq Entity /\ p.leaves \subseteq Entity /\ NoEntity \notin Entity
      /\ p.leftSent \subseteq p.leaves /\ p.leaves \cap p.set = {}
      /\ p.enteredSent \subseteq p.enters /\ p.enters \subseteq p.set
      /\ p.acked \in Nat /\ p.generation \in Nat
  BY NamingAssumption DEF PeerState, PendingAgrees
<1>1. ASSUME NEW d \in more
      PROVE  /\ \A s \in d.left : s \in Slot /\ n[s] \in p.leftSent
             /\ \A s \in d.entered : s \in Slot /\ n[s] \in p.enteredSent
  BY DEF FlushFrame, SlotsOf
<1>2. FramesNamed(n, f, all)
  BY <1>0, <1>1 DEF Naming, FramesNamed
<1>3. FramesSplit(all)
  BY <1>0, <1>1 DEF Naming, FramesSplit
<1>4. FramesAcked(p, all)
  BY <1>0 DEF Follows, FramesAcked, FlushFrame
<1>5. NewsIsRight(p, c, n, all)
  <2> SUFFICES ASSUME Tracked(p), NEW d \in all, Carrier(p, d), d.tick >= c.newest
               PROVE  /\ \A s \in d.left : n[s] \notin p.set \ p.enters
                      /\ \A s \in d.entered : n[s] # NoEntity => n[s] \in p.set \cup p.leaves
    BY DEF NewsIsRight
  <2>1. CASE d \in sent
    BY <2>1 DEF Follows, NewsIsRight
  <2>2. CASE d \in more
    BY <1>0, <1>1, <2>2
  <2> QED
    BY <2>1, <2>2
<1>6. PrefixIsRight(p, c, n, all)
  <2> SUFFICES ASSUME InPrefix(p), NEW d \in all, d.tick >= p.deltaTick
               PROVE  PrefixFrame(p, c, n, all, d)
    BY DEF PrefixIsRight
  <2>1. CASE d \in more
    <3>1. /\ d.carries /\ d.gen = p.generation
          /\ d.left = SlotsOf(n, p.leftSent)
          /\ d.entered = SlotsOf(n, p.enteredSent)
      BY <2>1 DEF FlushFrame
    <3>2. \A b \in all : b.entered \subseteq Slot
      BY DEF Datagram
    <3> QED
      BY <3>1, <3>2 DEF PrefixFrame, Carrier, SlotsOf
  <2>2. CASE d \in sent
    <3>1. PrefixFrame(p, c, n, sent, d)
      BY <2>2 DEF Follows, PrefixIsRight
    <3>2. \A b \in more : \A s \in b.entered : n[s] \notin p.leftSent
      BY <1>0, <1>1
    <3> QED
      BY <3>1, <3>2 DEF PrefixFrame
  <2> QED
    BY <2>1, <2>2
<1> QED
  BY <1>2, <1>3, <1>4, <1>5, <1>6 DEF Naming, Follows

\* With one tick per flush the only datagram is the one that carries the section.
LEMMA FlushSendsFrames ==
    ASSUME NEW p \in PeerState, NEW n \in Names, NEW section \in Sections(p, n),
           NEW filled \in 0..1, NEW shut, NEW now \in Nat \ {0}, PendingAgrees(p),
           PeerRules(p)
    PROVE  \A d \in Datagrams(p, n, section, filled, shut, now) :
             d \in Datagram /\ FlushFrame(AfterSection(p, n, section, now), n, d, now)
<1> DEFINE carries == Carries(p, section)
           gen == IF carries THEN p.generation ELSE 0
           left == SlotsOf(n, section.left)
           entered == SlotsOf(n, section.entered)
           first == [tick |-> now, pass |-> 0, carries |-> carries, gen |-> gen,
                     left |-> left, entered |-> entered]
           r == AfterSection(p, n, section, now)
<1>1. 1..filled - 1 = {}
  OBVIOUS
<1>2. \A d \in Datagrams(p, n, section, filled, shut, now) : d = first
  BY <1>1 DEF Datagrams
<1>3. SUFFICES first \in Datagram /\ FlushFrame(r, n, first, now)
  BY <1>2
<1>4. carries \in BOOLEAN /\ gen \in Nat /\ left \in SUBSET Slot /\ entered \in SUBSET Slot
  BY DEF Carries, GateOpen, PeerState, SlotsOf
<1>5. carries => gen = p.generation /\ p.acked = p.generation
  BY DEF Carries, GateOpen
<1>6. \/ ~GateOpen(p) /\ r = p /\ section.left = {} /\ section.entered = {}
      \/ /\ GateOpen(p) /\ p.deltaTick # NoTick /\ r = p
         /\ section.left = p.leftSent /\ section.entered = p.enteredSent
      \/ /\ GateOpen(p) /\ p.deltaTick = NoTick
         /\ r.generation = p.generation
         /\ r.acked = p.acked
         /\ r.leftSent = section.left
         /\ r.enteredSent = section.entered
         /\ r.deltaTick = IF carries THEN now ELSE NoTick
  BY SectionFields
<1>7. InPrefix(p) => GateOpen(p)
  BY DEF InPrefix, Tracked, PeerRules, GateOpen
<1>8. carries <=> /\ GateOpen(p)
                  /\ p.deltaTick # NoTick \/ section.left \cup section.entered # {}
  BY DEF Carries
<1> HIDE DEF carries, gen, r
<1>9. first \in Datagram
  BY <1>4 DEF Datagram
<1>10. CASE carries
  <2>1. r.generation = p.generation /\ r.acked = p.acked
        /\ r.leftSent = section.left /\ r.enteredSent = section.entered
    BY <1>6, <1>8, <1>10
  <2> QED
    BY <1>5, <1>9, <1>10, <2>1 DEF FlushFrame
<1>11. CASE ~carries
  <2>1. section.left = {} /\ section.entered = {} /\ ~InPrefix(r)
    BY <1>6, <1>7, <1>8, <1>11 DEF InPrefix
  <2>2. left = {} /\ entered = {}
    BY <2>1 DEF SlotsOf
  <2> QED
    BY <1>9, <1>11, <2>1, <2>2 DEF FlushFrame
<1> QED
  BY <1>10, <1>11

-----------------------------------------------------------------------------
(* The client receives a frame.                                            *)

\* With fewer frames in flight nothing more is promised.
LEMMA FewerFrames ==
    ASSUME NEW p, NEW c, NEW n, NEW f, NEW q, NEW sent, NEW fewer \in SUBSET sent,
           Naming(c.slots, n, f, q, sent), Follows(p, c, n, q, sent)
    PROVE  Naming(c.slots, n, f, q, fewer) /\ Follows(p, c, n, q, fewer)
<1>1. Naming(c.slots, n, f, q, fewer)
  BY DEF Naming, FramesNamed, FramesSplit
<1>2. FramesAcked(p, fewer) /\ NewsIsRight(p, c, n, fewer)
  BY DEF Follows, FramesAcked, NewsIsRight
<1>3. PrefixIsRight(p, c, n, fewer)
  BY DEF Follows, PrefixIsRight, PrefixFrame
<1> QED
  BY <1>1, <1>2, <1>3 DEF Follows

\* What a slot the client names means to the server.
LEMMA OwnNameMeans ==
    ASSUME NEW c \in ClientState, NEW n \in Names, NEW f, NEW q, NEW sent,
           Naming(c.slots, n, f, q, sent), NEW s \in Slot, c.slots[s] # NoEntity
    PROVE  n[s] = c.slots[s] \/ (n[s] = NoEntity /\ Dropping(q, c.slots[s]))
<1>1. NamesAt(c.slots, q, 0) = c.slots /\ 0 \in Positions(q)
  BY DEF NamesAt, Positions
<1>2. Stands(n, q, 0, s, c.slots[s]) \/ Goes(n, f, q, 0, s, c.slots[s])
  BY <1>1 DEF Naming, NamesSettle
<1> QED
  BY <1>2 DEF Stands, Goes, Dropping

LEMMA OwnNamesAreOne ==
    ASSUME NEW own, NEW n, NEW f, NEW q, NEW sent, Naming(own, n, f, q, sent)
    PROVE  OneName(own)
<1>1. NamesAt(own, q, 0) = own /\ 0 \in Positions(q)
  BY DEF NamesAt, Positions
<1> QED
  BY <1>1 DEF Naming, NamesAreOne

\* A frame whose section is not applied moves the newest tick at most.
LEMMA SeenFollows ==
    ASSUME NEW p \in PeerState, NEW c \in ClientState, NEW k \in ClientState,
           NEW n \in Names, NEW f, NEW q, NEW sent \in SUBSET Datagram, NEW d \in sent,
           k.mirror = c.mirror, k.slots = c.slots, k.mirrorGen = c.mirrorGen,
           k.wantInterest = c.wantInterest \/ k.wantInterest,
           c.newest <= k.newest,
           \/ k.newest = c.newest
           \/ k.newest = d.tick /\ (~d.carries \/ k.wantInterest),
           Naming(c.slots, n, f, q, sent), Follows(p, c, n, q, sent)
    PROVE  Follows(p, k, n, q, sent)
<1>0. /\ c.newest \in Nat /\ k.newest \in Nat /\ p.deltaTick \in Nat
      /\ \A b \in sent : b.tick \in Nat
      /\ c.wantInterest \in BOOLEAN /\ k.wantInterest \in BOOLEAN
  BY DEF ClientState, PeerState, Datagram
<1>1. Current(p, k) => Current(p, c)
  BY <1>0 DEF Current
<1>2. \A e : Rooted(c, n, e) => Rooted(k, n, e)
  BY DEF Rooted
<1>3. AckFollows(p, k)
  BY <1>0 DEF Follows, AckFollows
<1>4. NewsIsRight(p, k, n, sent)
  BY <1>0 DEF Follows, NewsIsRight
<1>5. PrefixIsRight(p, k, n, sent)
  BY DEF Follows, PrefixIsRight, PrefixFrame
<1>6. MirrorFollows(p, k, n, q)
  BY <1>1, <1>2 DEF Follows, MirrorFollows
<1>7. Delivered(p, k, n, q)
  <2> SUFFICES ASSUME Current(p, k), InPrefix(p), k.newest >= p.deltaTick
               PROVE  /\ \A e \in p.enteredSent : Rooted(k, n, e)
                      /\ \A e \in p.leftSent : e \notin k.mirror \/ Dropping(q, e)
    BY DEF Delivered
  <2>1. c.newest >= p.deltaTick
    <3>1. CASE k.newest = c.newest
      BY <3>1
    <3>2. CASE k.newest = d.tick /\ (~d.carries \/ k.wantInterest)
      <4>1. PrefixFrame(p, c, n, sent, d)
        BY <3>2 DEF Follows, PrefixIsRight
      <4>2. d.carries /\ ~k.wantInterest
        BY <4>1 DEF PrefixFrame, Carrier, Current
      <4> QED
        BY <3>2, <4>2
    <3> QED
      BY <3>1, <3>2
  <2> QED
    BY <1>1, <1>2, <2>1 DEF Follows, Delivered
<1> QED
  BY <1>3, <1>4, <1>5, <1>6, <1>7 DEF Follows

\* A section applied: its leaves go out of the mirror, its enters come in.
LEMMA AppliedFollows ==
    ASSUME NEW p \in PeerState, NEW c \in ClientState, NEW k \in ClientState,
           NEW n \in Names, NEW f \in [Slot -> Nat], NEW q \in Seq(Msg),
           NEW sent \in SUBSET Datagram, NEW d \in sent,
           d.carries, d.gen = c.mirrorGen, c.newest <= d.tick,
           k.mirror = (c.mirror \ IdsOf(c.slots, d.left)) \cup IdsOf(c.slots, d.entered),
           k.slots = c.slots, k.mirrorGen = c.mirrorGen, k.newest = d.tick,
           ~k.wantInterest => ~c.wantInterest /\ Resolves(c, d.entered),
           Bound(c), PeerRules(p), p.acked <= c.mirrorGen, c.mirrorGen <= p.generation,
           PendingAgrees(p), Naming(c.slots, n, f, q, sent), Follows(p, c, n, q, sent)
    PROVE  Follows(p, k, n, q, sent)
<1>0. /\ c.newest \in Nat /\ p.deltaTick \in Nat /\ p.acked \in Nat /\ p.generation \in Nat
      /\ c.mirrorGen \in Nat
      /\ \A b \in sent : b.tick \in Nat /\ b.left \subseteq Slot /\ b.entered \subseteq Slot
      /\ p.leftSent \subseteq Entity /\ NoEntity \notin Entity
      /\ p.enteredSent \subseteq Entity /\ c.mirror \subseteq Entity
  BY NamingAssumption DEF ClientState, PeerState, Datagram
<1>1. OneName(c.slots) /\ d.left \cap d.entered = {}
  BY OwnNamesAreOne DEF Naming, FramesSplit
<1>2. ASSUME NEW e \in k.mirror
      PROVE  \/ e \in c.mirror /\ \A s \in d.left : c.slots[s] # e
             \/ \E s \in d.entered : c.slots[s] = e /\ e # NoEntity
  BY <1>0 DEF IdsOf
<1>3. \* what the section brings in
      ASSUME NEW s \in d.entered, c.slots[s] # NoEntity
      PROVE  /\ c.slots[s] \in k.mirror
             /\ n[s] = c.slots[s] \/ Dropping(q, c.slots[s])
  <2>1. s \in Slot
    BY <1>0
  <2> QED
    BY <1>3, <2>1, OwnNameMeans DEF IdsOf
<1>4. InPrefix(p) => Carrier(p, d)
  BY <1>0 DEF InPrefix, Tracked, PeerRules, Carrier
<1>5. AckFollows(p, k) /\ NewsIsRight(p, k, n, sent)
  BY <1>0 DEF Follows, AckFollows, NewsIsRight
<1>6. PrefixIsRight(p, k, n, sent)
  <2> SUFFICES ASSUME InPrefix(p), NEW b \in sent, b.tick >= p.deltaTick,
                      NEW s \in Slot, n[s] \in p.leftSent \cap k.mirror,
                      c.slots[s] = n[s]
               PROVE  s \in b.left
    BY DEF Follows, PrefixIsRight, PrefixFrame
  <2>1. PrefixFrame(p, c, n, sent, b)
    BY DEF Follows, PrefixIsRight
  <2>2. CASE n[s] \in c.mirror
    BY <2>1, <2>2 DEF PrefixFrame
  <2>3. CASE n[s] \notin c.mirror
    <3>1. PICK t \in d.entered : c.slots[t] = n[s] /\ n[s] # NoEntity
      BY <1>2, <2>3
    <3>2. t = s
      BY <1>0, <1>1, <3>1 DEF OneName
    <3> QED
      BY <1>4, <2>1, <3>1, <3>2 DEF PrefixFrame
  <2> QED
    BY <2>2, <2>3
<1>7. Current(p, k) => Current(p, c) /\ Resolves(c, d.entered) /\ Carrier(p, d)
  BY DEF Current, Carrier
<1>8. Current(p, k) =>
        /\ \A s \in d.left : n[s] \notin p.set \ p.enters
        /\ \A s \in d.entered : n[s] # NoEntity => n[s] \in p.set \cup p.leaves
  BY <1>0, <1>7 DEF Follows, NewsIsRight, Current
<1>9. MirrorFollows(p, k, n, q)
  <2> SUFFICES ASSUME Current(p, k)
               PROVE  /\ \A e \in p.set \ p.enters : Rooted(k, n, e)
                      /\ \A e \in k.mirror : e \in p.set \cup p.leaves \/ Dropping(q, e)
    BY DEF MirrorFollows
  <2>1. /\ \A e \in p.set \ p.enters : Rooted(c, n, e)
        /\ \A e \in c.mirror : e \in p.set \cup p.leaves \/ Dropping(q, e)
    BY <1>7 DEF Follows, MirrorFollows
  <2>2. ASSUME NEW e \in p.set \ p.enters PROVE Rooted(k, n, e)
    <3>1. e \in c.mirror
      BY <2>1 DEF Rooted
    <3>2. PICK s \in Slot : n[s] = e /\ c.slots[s] = e
      BY <2>1 DEF Rooted
    <3>3. e # NoEntity
      BY <1>0 DEF PeerState
    <3>4. e \notin IdsOf(c.slots, d.left)
      <4>1. ASSUME NEW t \in d.left, c.slots[t] = e PROVE FALSE
        <5>1. t = s
          BY <1>0, <1>1, <3>2, <3>3, <4>1 DEF OneName
        <5> QED
          BY <1>8, <3>2, <5>1
      <4> QED
        BY <4>1 DEF IdsOf
    <3> QED
      BY <3>1, <3>2, <3>4 DEF Rooted
  <2>3. ASSUME NEW e \in k.mirror PROVE e \in p.set \cup p.leaves \/ Dropping(q, e)
    <3>1. CASE e \in c.mirror
      BY <2>1, <3>1
    <3>2. CASE \E s \in d.entered : c.slots[s] = e /\ e # NoEntity
      BY <1>3, <1>8, <3>2
    <3> QED
      BY <1>2, <3>1, <3>2
  <2> QED
    BY <2>2, <2>3
<1>10. Delivered(p, k, n, q)
  <2> SUFFICES ASSUME Current(p, k), InPrefix(p), d.tick >= p.deltaTick
               PROVE  /\ \A e \in p.enteredSent : Rooted(k, n, e)
                      /\ \A e \in p.leftSent : e \notin k.mirror \/ Dropping(q, e)
    BY DEF Delivered
  <2>1. PrefixFrame(p, c, n, sent, d)
    BY DEF Follows, PrefixIsRight
  <2>2. ASSUME NEW e \in p.enteredSent PROVE Rooted(k, n, e)
    <3>1. e \in Named(n) /\ e # NoEntity
      BY <1>0 DEF Follows, MembersNamed
    <3>2. PICK s \in Slot : n[s] = e
      BY <3>1 DEF Named, IdsOf
    <3>3. s \in d.entered
      BY <2>1, <3>2 DEF PrefixFrame, SlotsOf
    <3>4. c.slots[s] # NoEntity
      BY <1>7, <3>3 DEF Resolves
    <3>5. c.slots[s] = e
      BY <3>1, <3>2, <3>4, OwnNameMeans
    <3>6. c.slots[s] \in k.mirror
      BY <1>3, <3>3, <3>4
    <3> QED
      BY <3>2, <3>5, <3>6 DEF Rooted
  <2>3. ASSUME NEW e \in p.leftSent, e \in k.mirror PROVE Dropping(q, e)
    <3>1. e # NoEntity
      BY <1>0
    <3>2. CASE \E s \in d.entered : c.slots[s] = e
      <4>1. PICK s \in d.entered : c.slots[s] = e
        BY <3>2
      <4>2. n[s] # e
        BY <1>1, <1>4, <2>1, <4>1 DEF PrefixFrame
      <4> QED
        BY <1>3, <3>1, <4>1, <4>2
    <3>3. CASE e \in c.mirror /\ \A s \in d.left : c.slots[s] # e
      <4>1. PICK s \in Slot : c.slots[s] = e
        BY <3>3 DEF Bound, Named, IdsOf
      <4>2. n[s] # e
        BY <2>1, <3>3, <4>1 DEF PrefixFrame
      <4> QED
        BY <3>1, <4>1, <4>2, OwnNameMeans
    <3> QED
      BY <1>2, <2>3, <3>2, <3>3
  <2> QED
    BY <2>2, <2>3
<1> QED
  BY <1>5, <1>6, <1>9, <1>10 DEF Follows

-----------------------------------------------------------------------------
(* The channel delivers: positions move down by one.                       *)

LEMMA TailIsShift ==
    ASSUME NEW q \in Seq(Msg), q # <<>>
    PROVE  /\ Tail(q) \in Seq(Msg)
           /\ Head(q) = q[1] /\ Head(q) \in Msg
           /\ Len(q) \in Nat /\ Len(q) >= 1
           /\ Len(Tail(q)) = Len(q) - 1
           /\ \A i \in 1..Len(Tail(q)) : Tail(q)[i] = q[i + 1]
  BY HeadTailProperties

\* What follows the head, as seen from a client that has taken it.
Took(q, y, own, new) ==
    /\ Len(y) = Len(q) - 1 /\ Len(q) >= 1 /\ Len(q) \in Nat
    /\ \A i \in 1..Len(y) : y[i] = q[i + 1]
    /\ \/ q[1].kind = "table" /\ new = own
       \/ q[1].kind = "manifest" /\ new = q[1].names

LEMMA TakingShifts ==
    ASSUME NEW q \in Seq(Msg), NEW y, NEW own, NEW new, Took(q, y, own, new)
    PROVE  /\ \A i : i \in Manifests(y) <=> i \in Nat /\ i >= 1 /\ i + 1 \in Manifests(q)
           /\ \A i \in Manifests(y) : y[i] = q[i + 1]
           /\ \A i \in 1..Len(y) : i + 1 \in 1..Len(q) /\ y[i] = q[i + 1]
           /\ \A j \in Positions(y) : \E w \in Positions(q) :
                /\ NamesAt(new, y, j) = NamesAt(own, q, w)
                /\ \A i \in Nat : i + 1 \in Manifests(q) /\ i + 1 > w => i \in Manifests(y) /\ i > j
                /\ \A i \in Manifests(y) : i > j => i + 1 > w
                /\ \A i \in Manifests(q) : i > w => i >= 2
                /\ \A i \in 1..Len(y) : Precedes(y, j, i) => Precedes(q, w, i + 1)
           /\ q[1].kind = "table" => \A i \in Manifests(q) : i >= 2
<1>1. \A i : i \in Manifests(y) <=> i \in Nat /\ i >= 1 /\ i + 1 \in Manifests(q)
  <2>1. ASSUME NEW i, i \in Manifests(y)
        PROVE  i \in Nat /\ i >= 1 /\ i + 1 \in Manifests(q)
    BY <2>1 DEF Manifests, Took
  <2>2. ASSUME NEW i, i \in Nat, i >= 1, i + 1 \in Manifests(q)
        PROVE  i \in Manifests(y)
    BY <2>2 DEF Manifests, Took
  <2> QED
    BY <2>1, <2>2
<1>2. \A i \in 1..Len(y) : i + 1 \in 1..Len(q) /\ y[i] = q[i + 1]
  BY DEF Took
<1>3. \A i \in Manifests(y) : y[i] = q[i + 1]
  BY <1>2 DEF Manifests
<1>4. q[1].kind = "table" => \A i \in Manifests(q) : i >= 2
  BY DEF Manifests
<1>5. ASSUME NEW j \in Positions(y)
      PROVE  \E w \in Positions(q) :
                /\ NamesAt(new, y, j) = NamesAt(own, q, w)
                /\ \A i \in Nat : i + 1 \in Manifests(q) /\ i + 1 > w => i \in Manifests(y) /\ i > j
                /\ \A i \in Manifests(y) : i > j => i + 1 > w
                /\ \A i \in Manifests(q) : i > w => i >= 2
                /\ \A i \in 1..Len(y) : Precedes(y, j, i) => Precedes(q, w, i + 1)
  <2> DEFINE w == IF j = 0 /\ q[1].kind = "table" THEN 0 ELSE j + 1
  <2>1. j \in Nat /\ (j # 0 => j \in Manifests(y)) /\ w \in Nat
    BY <1>1 DEF Positions
  <2>2. 1 \in 1..Len(q)
    BY DEF Took
  <2>3. w \in Positions(q)
    <3>1. CASE j = 0
      BY <2>2, <3>1 DEF Took, Positions, Manifests
    <3>2. CASE j # 0
      BY <1>1, <2>1, <3>2 DEF Positions
    <3> QED
      BY <3>1, <3>2
  <2>4. NamesAt(new, y, j) = NamesAt(own, q, w)
    <3>1. CASE j = 0
      BY <3>1 DEF Took, NamesAt
    <3>2. CASE j # 0
      BY <1>3, <2>1, <3>2 DEF NamesAt
    <3> QED
      BY <3>1, <3>2
  <2>5. \A i \in Nat : i + 1 \in Manifests(q) /\ i + 1 > w => i \in Manifests(y) /\ i > j
    <3> SUFFICES ASSUME NEW i \in Nat, i + 1 \in Manifests(q), i + 1 > w
                 PROVE  i \in Manifests(y) /\ i > j
      OBVIOUS
    <3>1. i >= 1
      BY <1>4, <2>1
    <3> QED
      BY <1>1, <2>1, <3>1
  <2>6. \A i \in Manifests(y) : i > j => i + 1 > w
    BY <1>1, <2>1
  <2>7. \A i \in Manifests(q) : i > w => i >= 2
    BY <1>4, <2>1 DEF Manifests
  <2>8. ASSUME NEW i \in 1..Len(y), Precedes(y, j, i)
        PROVE  Precedes(q, w, i + 1)
    <3>0. i \in Nat
      OBVIOUS
    <3>1. j < i /\ \A k \in Manifests(y) : k < i => k <= j
      BY <2>8 DEF Precedes
    <3>2. w < i + 1
      BY <2>1, <3>0, <3>1
    <3>3. ASSUME NEW k \in Manifests(q), k < i + 1 PROVE k <= w
      <4>1. k \in Nat /\ k >= 1
        BY DEF Manifests
      <4>2. CASE k = 1
        <5>1. q[1].kind = "manifest"
          BY <4>2 DEF Manifests
        <5> QED
          BY <2>1, <4>2, <5>1
      <4>3. CASE k >= 2
        <5>1. k - 1 \in Nat /\ k - 1 >= 1 /\ (k - 1) + 1 = k
          BY <4>1, <4>3
        <5>2. k - 1 \in Manifests(y)
          BY <1>1, <5>1
        <5>3. k - 1 <= j
          BY <3>0, <3>1, <3>3, <4>1, <5>2
        <5> QED
          BY <2>1, <4>1, <4>3, <5>3
      <4> QED
        BY <4>1, <4>2, <4>3
    <3> QED
      BY <2>3, <3>2, <3>3 DEF Precedes
  <2> HIDE DEF w
  <2> QED
    BY <2>3, <2>4, <2>5, <2>6, <2>7, <2>8
<1> QED
  BY <1>1, <1>2, <1>3, <1>4, <1>5

LEMMA TakingKeepsNaming ==
    ASSUME NEW own \in Names, NEW new \in Names, NEW n \in Names,
           NEW f \in [Slot -> Nat], NEW q \in Seq(Msg), NEW y \in Seq(Msg),
           NEW sent \in SUBSET Datagram,
           Took(q, y, own, new), Naming(own, n, f, q, sent)
    PROVE  Naming(new, n, f, y, sent)
<1>1. NamesAreOne(new, n, y)
  <2>1. ASSUME NEW j \in Positions(y) PROVE OneName(NamesAt(new, y, j))
    <3>1. PICK w \in Positions(q) : NamesAt(new, y, j) = NamesAt(own, q, w)
      BY TakingShifts
    <3> QED
      BY <3>1 DEF Naming, NamesAreOne
  <2> QED
    BY <2>1 DEF Naming, NamesAreOne
<1>2. NamesSettle(new, n, f, y)
  <2> SUFFICES ASSUME NEW j \in Positions(y), NEW s \in Slot,
                      NamesAt(new, y, j)[s] # NoEntity
               PROVE  \/ Stands(n, y, j, s, NamesAt(new, y, j)[s])
                      \/ Goes(n, f, y, j, s, NamesAt(new, y, j)[s])
    BY DEF NamesSettle
  <2>1. PICK w \in Positions(q) :
          /\ NamesAt(new, y, j) = NamesAt(own, q, w)
          /\ \A i \in Nat : i + 1 \in Manifests(q) /\ i + 1 > w => i \in Manifests(y) /\ i > j
          /\ \A i \in Manifests(y) : i > j => i + 1 > w
    BY TakingShifts
  <2>2. /\ \A i : i \in Manifests(y) <=> i \in Nat /\ i >= 1 /\ i + 1 \in Manifests(q)
        /\ \A i \in Manifests(y) : y[i] = q[i + 1]
    BY TakingShifts
  <2> DEFINE e == NamesAt(new, y, j)[s]
  <2>3. Stands(n, q, w, s, e) \/ Goes(n, f, q, w, s, e)
    BY <2>1 DEF Naming, NamesSettle
  <2> HIDE DEF e
  <2>4. CASE Stands(n, q, w, s, e)
    <3>1. Stands(n, y, j, s, e)
      BY <2>1, <2>2, <2>4 DEF Stands
    <3> QED
      BY <3>1 DEF e
  <2>5. CASE Goes(n, f, q, w, s, e)
    <3>1. PICK i \in Manifests(q) : i > w /\ q[i].at <= f[s] /\ e \notin Named(q[i].names)
      BY <2>5 DEF Goes
    <3>2. i \in Nat /\ i - 1 \in Nat /\ (i - 1) + 1 = i
      BY DEF Manifests
    <3>3. i - 1 \in Manifests(y) /\ i - 1 > j
      BY <2>1, <3>1, <3>2
    <3>4. y[i - 1] = q[i]
      BY <2>2, <3>2, <3>3
    <3>5. Goes(n, f, y, j, s, e)
      BY <2>5, <3>1, <3>3, <3>4 DEF Goes
    <3> QED
      BY <3>5 DEF e
  <2> QED
    BY <2>3, <2>4, <2>5
<1> QED
  BY <1>1, <1>2 DEF Naming

LEMMA TakingKeepsTables ==
    ASSUME NEW own, NEW new, NEW p, NEW q \in Seq(Msg), NEW y,
           Took(q, y, own, new), TablesRight(p, own, q)
    PROVE  TablesRight(p, new, y)
<1> SUFFICES ASSUME p.inflight # NoTable, NEW i \in 1..Len(y),
                    y[i].kind = "table", y[i].gen = p.generation
             PROVE  /\ y[i].stated = SlotsOf(p.inflight.pairs, Entity)
                    /\ \A j \in Nat : Precedes(y, j, i) =>
                         \A s \in y[i].stated :
                           NamesAt(new, y, j)[s] \in {NoEntity, p.inflight.pairs[s]}
  BY DEF TablesRight
<1>1. i + 1 \in 1..Len(q) /\ y[i] = q[i + 1]
  BY TakingShifts
<1>2. /\ y[i].stated = SlotsOf(p.inflight.pairs, Entity)
      /\ \A w \in Nat : Precedes(q, w, i + 1) =>
           \A s \in y[i].stated :
             NamesAt(own, q, w)[s] \in {NoEntity, p.inflight.pairs[s]}
  BY <1>1 DEF TablesRight
<1>3. ASSUME NEW j \in Nat, Precedes(y, j, i), NEW s \in y[i].stated
      PROVE  NamesAt(new, y, j)[s] \in {NoEntity, p.inflight.pairs[s]}
  <2>1. j \in Positions(y)
    BY <1>3 DEF Precedes
  <2>2. PICK w \in Positions(q) :
          /\ NamesAt(new, y, j) = NamesAt(own, q, w)
          /\ Precedes(q, w, i + 1)
    BY <1>3, <2>1, TakingShifts
  <2>3. w \in Nat
    BY DEF Positions, Manifests
  <2> QED
    BY <1>2, <1>3, <2>2, <2>3
<1> QED
  BY <1>2, <1>3

\* A manifest on its way stays on its way, unless it is the one taken.
LEMMA TakingKeepsDropping ==
    ASSUME NEW own, NEW new, NEW q \in Seq(Msg), NEW y, Took(q, y, own, new),
           NEW e, Dropping(q, e), q[1].kind = "table" \/ e \in Named(new)
    PROVE  Dropping(y, e)
<1>1. PICK i \in Manifests(q) : e \notin Named(q[i].names)
  BY DEF Dropping
<1>2. i \in Nat /\ i >= 1 /\ q[i].kind = "manifest"
  BY DEF Manifests
<1>3. i # 1
  BY <1>1, <1>2 DEF Took
<1>4. i - 1 \in Nat /\ i - 1 >= 1 /\ (i - 1) + 1 = i
  BY <1>2, <1>3
<1>5. i - 1 \in Manifests(y)
  BY <1>4, TakingShifts
<1>6. y[i - 1] = q[i]
  BY <1>4, <1>5, TakingShifts
<1> QED
  BY <1>1, <1>5, <1>6 DEF Dropping

\* The client adopts a manifest: what the server counts on keeps its slot.
LEMMA ManifestFollows ==
    ASSUME NEW p \in PeerState, NEW c \in ClientState, NEW k \in ClientState,
           NEW n \in Names, NEW f \in [Slot -> Nat], NEW q \in Seq(Msg), NEW y \in Seq(Msg),
           NEW sent \in SUBSET Datagram,
           q[1].kind = "manifest", k.slots = q[1].names, Took(q, y, c.slots, k.slots),
           k.mirror = c.mirror \cap Named(k.slots), k.mirrorGen = c.mirrorGen,
           k.wantInterest = c.wantInterest, k.newest = c.newest,
           Bound(c), PendingAgrees(p),
           Naming(c.slots, n, f, q, sent), Follows(p, c, n, q, sent)
    PROVE  Follows(p, k, n, y, sent)
<1>0. /\ p.set \subseteq Entity /\ p.enteredSent \subseteq Entity
      /\ p.leftSent \subseteq Entity /\ NoEntity \notin Entity
      /\ c.slots \in Names /\ k.slots \in Names
  BY NamingAssumption DEF PeerState, ClientState
<1>1. /\ 1 \in Manifests(q) /\ 1 \in Positions(q) /\ 0 \in Positions(q)
      /\ NamesAt(c.slots, q, 1) = k.slots
      /\ NamesAt(c.slots, q, 0) = c.slots
  BY DEF Took, Manifests, Positions, NamesAt
<1>2. OneName(k.slots) /\ OneName(c.slots)
  BY <1>1 DEF Naming, NamesAreOne
<1>3. \* a slot both ends agree on stays agreed on
      ASSUME NEW s \in Slot, c.slots[s] = n[s], n[s] # NoEntity
      PROVE  k.slots[s] = n[s]
  <2>1. Stands(n, q, 0, s, n[s]) \/ Goes(n, f, q, 0, s, n[s])
    BY <1>1, <1>3 DEF Naming, NamesSettle
  <2>2. Stands(n, q, 0, s, n[s])
    BY <1>3, <2>1 DEF Goes
  <2> QED
    BY <1>1, <2>2 DEF Stands
<1>4. \A e : e # NoEntity /\ Rooted(c, n, e) => Rooted(k, n, e)
  <2> SUFFICES ASSUME NEW e, e # NoEntity, Rooted(c, n, e) PROVE Rooted(k, n, e)
    OBVIOUS
  <2>1. PICK s \in Slot : n[s] = e /\ c.slots[s] = e
    BY DEF Rooted
  <2>2. k.slots[s] = e
    BY <1>3, <2>1
  <2>3. e \in Named(k.slots)
    BY <2>2 DEF Named, IdsOf
  <2> QED
    BY <2>1, <2>2, <2>3 DEF Rooted
<1>5. \A e : e \in k.mirror /\ Dropping(q, e) => Dropping(y, e)
  BY TakingKeepsDropping
<1>6. AckFollows(p, k) /\ NewsIsRight(p, k, n, sent)
  BY DEF Follows, AckFollows, NewsIsRight
<1>7. PrefixIsRight(p, k, n, sent)
  <2> SUFFICES ASSUME InPrefix(p), NEW d \in sent, d.tick >= p.deltaTick,
                      NEW s \in Slot, n[s] \in p.leftSent \cap k.mirror, k.slots[s] = n[s]
               PROVE  s \in d.left
    BY DEF Follows, PrefixIsRight, PrefixFrame
  <2> DEFINE e == n[s]
  <2>1. e # NoEntity /\ e \in c.mirror
    BY <1>0
  <2>2. PICK t \in Slot : c.slots[t] = e
    BY <2>1 DEF Bound, Named, IdsOf
  <2>3. Stands(n, q, 0, t, e) \/ Goes(n, f, q, 0, t, e)
    BY <1>1, <2>1, <2>2 DEF Naming, NamesSettle
  <2>4. Stands(n, q, 1, s, e) \/ Goes(n, f, q, 1, s, e)
    BY <1>1, <2>1 DEF Naming, NamesSettle
  <2>5. Stands(n, q, 1, s, e)
    BY <2>1, <2>4 DEF Goes
  <2>6. \A i \in Manifests(q) : e \in Named(q[i].names)
    <3>1. \A i \in Manifests(q) : q[i].names[s] = e
      <4>1. \A i \in Manifests(q) : i > 1 \/ i = 1
        BY DEF Manifests
      <4> QED
        BY <2>5, <4>1 DEF Stands
    <3> QED
      BY <2>1, <3>1 DEF Named, IdsOf
  <2>7. Stands(n, q, 0, t, e)
    BY <2>3, <2>6 DEF Goes
  <2>8. k.slots[t] = e
    BY <1>1, <2>7 DEF Stands
  <2>9. t = s
    BY <1>2, <2>1, <2>8 DEF OneName
  <2> QED
    BY <2>1, <2>2, <2>9 DEF Follows, PrefixIsRight, PrefixFrame
<1>8. Current(p, k) => Current(p, c)
  BY DEF Current
<1>9. MirrorFollows(p, k, n, y)
  BY <1>0, <1>4, <1>5, <1>8 DEF Follows, MirrorFollows
<1>10. Delivered(p, k, n, y)
  BY <1>0, <1>4, <1>5, <1>8 DEF Follows, Delivered
<1>11. TablesRight(p, k.slots, y)
  BY TakingKeepsTables DEF Follows
<1> QED
  BY <1>6, <1>7, <1>9, <1>10, <1>11 DEF Follows

\* A table the client ignores, loses or cannot resolve promises nothing.
LEMMA IgnoredTableFollows ==
    ASSUME NEW p \in PeerState, NEW c \in ClientState, NEW k \in ClientState,
           NEW n \in Names, NEW q \in Seq(Msg), NEW y \in Seq(Msg),
           NEW sent \in SUBSET Datagram,
           q[1].kind = "table", k.slots = c.slots, Took(q, y, c.slots, k.slots),
           k.newest = c.newest,
           \/ k.mirror = c.mirror /\ k.mirrorGen = c.mirrorGen
              /\ k.wantInterest = c.wantInterest
           \/ k.mirror = c.mirror /\ k.wantInterest
           \/ ~InPrefix(p) /\ ~Current(p, k),
           Follows(p, c, n, q, sent)
    PROVE  Follows(p, k, n, y, sent)
<1>1. AckFollows(p, k) /\ NewsIsRight(p, k, n, sent)
  BY DEF Follows, AckFollows, NewsIsRight
<1>2. PrefixIsRight(p, k, n, sent)
  BY DEF Follows, PrefixIsRight, PrefixFrame
<1>3. \A e : Dropping(q, e) => Dropping(y, e)
  BY TakingKeepsDropping
<1>4. Current(p, k) => Current(p, c) /\ k.mirror = c.mirror
  BY DEF Current
<1>5. MirrorFollows(p, k, n, y)
  BY <1>3, <1>4 DEF Follows, MirrorFollows, Rooted
<1>6. Delivered(p, k, n, y)
  BY <1>3, <1>4 DEF Follows, Delivered, Rooted
<1>7. TablesRight(p, k.slots, y)
  BY TakingKeepsTables DEF Follows
<1> QED
  BY <1>1, <1>2, <1>5, <1>6, <1>7 DEF Follows

\* The client adopts the newest whole set, and the mirror is what it states.
LEMMA AdoptedFollows ==
    ASSUME NEW p \in PeerState, NEW c \in ClientState, NEW k \in ClientState,
           NEW n \in Names, NEW q \in Seq(Msg), NEW y \in Seq(Msg),
           NEW sent \in SUBSET Datagram,
           q[1].kind = "table", q[1].gen = p.generation, q[1].stated \subseteq Slot,
           k.slots = c.slots, Took(q, y, c.slots, k.slots),
           k.newest = c.newest, k.mirrorGen = p.generation,
           p.inflight # NoTable, ~InPrefix(p),
           ~k.wantInterest => /\ Resolves(c, q[1].stated)
                              /\ k.mirror = IdsOf(c.slots, q[1].stated),
           Follows(p, c, n, q, sent)
    PROVE  Follows(p, k, n, y, sent)
<1> DEFINE pairs == p.inflight.pairs
<1>0. pairs \in Names /\ NoEntity \notin Entity /\ p.set \subseteq Entity
  BY NamingAssumption DEF PeerState, Table
<1>1. AckFollows(p, k) /\ NewsIsRight(p, k, n, sent) /\ PrefixIsRight(p, k, n, sent)
      /\ Delivered(p, k, n, y)
  BY DEF Follows, AckFollows, NewsIsRight, PrefixIsRight, Delivered
<1>2. TablesRight(p, k.slots, y)
  BY TakingKeepsTables DEF Follows
<1>3. 1 \in 1..Len(q) /\ 0 \in Nat /\ Precedes(q, 0, 1) /\ NamesAt(c.slots, q, 0) = c.slots
  BY DEF Took, Precedes, Positions, Manifests, NamesAt
<1>4. /\ q[1].stated = SlotsOf(pairs, Entity)
      /\ \A s \in q[1].stated : c.slots[s] \in {NoEntity, pairs[s]}
  BY <1>3 DEF Follows, TablesRight
<1>5. MirrorFollows(p, k, n, y)
  <2> SUFFICES ASSUME ~k.wantInterest
               PROVE  /\ \A e \in p.set \ p.enters : Rooted(k, n, e)
                      /\ \A e \in k.mirror : e \in p.set \cup p.leaves \/ Dropping(y, e)
    BY DEF MirrorFollows, Current
  <2>1. \A s \in q[1].stated : s \in Slot /\ c.slots[s] = pairs[s]
    BY <1>4 DEF Resolves
  <2>2. /\ \A e \in p.set \ p.enters : \E s \in Slot : n[s] = e /\ pairs[s] = e
        /\ IdsOf(pairs, Slot) \subseteq p.set \cup p.leaves
    BY DEF Follows, Stated
  <2>3. ASSUME NEW e \in p.set \ p.enters PROVE Rooted(k, n, e)
    <3>1. PICK s \in Slot : n[s] = e /\ pairs[s] = e
      BY <2>2
    <3>2. s \in q[1].stated
      BY <1>0, <1>4, <3>1 DEF SlotsOf
    <3>3. c.slots[s] = e /\ e # NoEntity
      BY <1>0, <2>1, <3>1, <3>2
    <3>4. e \in k.mirror
      BY <3>2, <3>3 DEF IdsOf
    <3> QED
      BY <3>1, <3>3, <3>4 DEF Rooted
  <2>4. ASSUME NEW e \in k.mirror PROVE e \in p.set \cup p.leaves
    <3>1. PICK s \in q[1].stated : c.slots[s] = e /\ e # NoEntity
      BY DEF IdsOf
    <3>2. e \in IdsOf(pairs, Slot)
      BY <2>1, <3>1 DEF IdsOf
    <3> QED
      BY <2>2, <3>2
  <2> QED
    BY <2>3, <2>4
<1> QED
  BY <1>1, <1>2, <1>5 DEF Follows
-----------------------------------------------------------------------------
(* The steps.                                                              *)

\* What a step finds.
LEMMA Finds ==
    ASSUME InductiveInv, AgreementInv
    PROVE  /\ peer \in PeerState /\ client \in ClientState
           /\ slots \in Names /\ freed \in [Slot -> Nat]
           /\ reliable \in Seq(Msg) /\ down \in SUBSET Datagram /\ up \in SUBSET Input
           /\ registered \in SUBSET Entity /\ tick \in Nat
           /\ PendingAgrees(peer) /\ Bound(client)
           /\ peer.acked <= client.mirrorGen /\ client.mirrorGen <= peer.generation
           /\ peer.acked \in Nat /\ client.mirrorGen \in Nat /\ peer.generation \in Nat
           /\ peer.acked <= peer.generation
           /\ peer.newestAck \in Nat /\ client.newest \in Nat
           /\ peer.newestAck <= tick /\ client.newest <= tick
           /\ \A d \in down : d.tick \in Nat /\ d.tick <= tick
           /\ \A m \in up : m.ack \in Nat /\ m.ack <= client.newest
           /\ Naming(client.slots, slots, freed, reliable, down)
           /\ PeerRules(peer)
           /\ Follows(peer, client, slots, reliable, down)
<1>1. /\ TypeOK /\ PendingAgrees(peer) /\ Bound(client)
      /\ peer.acked <= client.mirrorGen /\ client.mirrorGen <= peer.generation
  BY InvUnfolds
<1>2. /\ peer.acked \in Nat /\ client.mirrorGen \in Nat /\ peer.generation \in Nat
      /\ peer.newestAck \in Nat /\ client.newest \in Nat
  BY <1>1 DEF TypeOK, PeerState, ClientState
<1>3. /\ \A d \in down : d.tick \in Nat
      /\ \A m \in up : m.ack \in Nat
  BY <1>1 DEF TypeOK, Datagram, Input
<1> QED
  BY <1>1, <1>2, <1>3 DEF AgreementInv, Clocks, Lane, TypeOK, Msg

LEMMA InitAgreement == Init => AgreementInv
<1> SUFFICES ASSUME Init PROVE AgreementInv
  OBVIOUS
<1>1. /\ ~Tracked(peer) /\ peer.inflight = NoTable /\ peer.deltaTick = NoTick
      /\ peer.generation = 0 /\ ~peer.seeded
      /\ peer.leftSent = {} /\ peer.enteredSent = {} /\ peer.set = {}
      /\ peer.newestAck = 0
  BY DEF Init, FreshPeer, Tracked
<1>2. /\ slots = Unnamed /\ client.slots = Unnamed /\ client.newest = 0
      /\ reliable = <<>> /\ down = {} /\ up = {} /\ tick = 0
  BY DEF Init, FreshClient
<1>3. Manifests(<<>>) = {} /\ Positions(<<>>) = {0}
  BY DEF Manifests, Positions
<1>4. Naming(Unnamed, Unnamed, freed, <<>>, {})
  BY <1>3 DEF Naming, NamesSettle, NamesAreOne, FramesNamed, FramesSplit, NamesAt,
              OneName, Unnamed
<1>5. PeerRules(peer)
  BY <1>1 DEF PeerRules
<1>6. Follows(peer, client, slots, reliable, down)
  BY <1>1, <1>2 DEF Follows, FramesAcked, AckFollows, InPrefix, MembersNamed,
       NewsIsRight, PrefixIsRight, MirrorFollows, Current, Delivered, Stated, TablesRight
<1> QED
  BY <1>1, <1>2, <1>4, <1>5, <1>6 DEF AgreementInv, Clocks, Lane

\* Only the server's record changes, and it promises no more.
LEMMA ShrinkingKeepsAgreement ==
    ASSUME InductiveInv, AgreementInv, peer' \in PeerState,
           Shrinks(peer, peer'), PeerRules(peer'),
           UNCHANGED <<tick, slots, freed, client, down, reliable, up>>
    PROVE  AgreementInv'
<1>1. Follows(peer', client, slots, reliable, down)
  BY Finds, ShrinkingFollows
<1>2. peer'.newestAck = peer.newestAck
  BY DEF Shrinks
<1> QED
  BY <1>1, <1>2, Finds DEF AgreementInv, Clocks, Lane

LEMMA WorldKeepsAgreement ==
    ASSUME InductiveInv, AgreementInv, NEW e \in Entity,
           \/ Register(e) \/ Unregister(e) \/ Respawn(e)
           \/ Sweep(e) \/ Hide(e) \/ Unhide(e)
    PROVE  AgreementInv'
<1>1. /\ peer' \in {peer, LoseMember(peer, e)}
      /\ UNCHANGED <<tick, slots, freed, client, down, reliable, up>>
  BY DEF Register, Unregister, Respawn, Sweep, Hide, Unhide, world
<1>2. peer \in PeerState /\ PendingAgrees(peer) /\ PeerRules(peer)
  BY Finds
<1>3. LoseMember(peer, e) \in PeerState
  BY <1>2, LoseKeeps
<1>4. Moves(peer, peer) /\ Moves(peer, LoseMember(peer, e))
  BY <1>2, LoseMoves DEF Moves
<1>5. peer' \in PeerState /\ Moves(peer, peer')
  BY <1>1, <1>2, <1>3, <1>4
<1> QED
  BY <1>1, <1>2, <1>5, MovesKeeps, ShrinkingKeepsAgreement

\* The same record, but for a demand that stands or arises.
LEMMA DemandingFollows ==
    ASSUME NEW p \in PeerState, NEW r \in PeerState, NEW due \in BOOLEAN,
           r = [p EXCEPT !.fullDue = due], p.fullDue => due, PeerRules(p)
    PROVE  Shrinks(p, r) /\ PeerRules(r)
<1>1. /\ r.fullDue = due
      /\ r.generation = p.generation
      /\ r.acked = p.acked
      /\ r.seeded = p.seeded
      /\ r.deltaTick = p.deltaTick
      /\ r.newestAck = p.newestAck
      /\ r.inflight = p.inflight
      /\ r.set = p.set
      /\ r.leaves = p.leaves
      /\ r.enters = p.enters
      /\ r.leftSent = p.leftSent
      /\ r.enteredSent = p.enteredSent
  BY DEF PeerState
<1>2. Moves(p, r)
  <2>1. p.fullDue \in BOOLEAN
    BY DEF PeerState
  <2>2. p.inflight # NoTable => p.fullDue
    BY DEF PeerRules
  <2> QED
    BY <1>1, <2>1, <2>2 DEF Moves
<1> QED
  BY <1>2, MovesKeeps

LEMMA HandleClientInputKeepsAgreement ==
    ASSUME InductiveInv, AgreementInv, NEW m \in up, HandleClientInput(m)
    PROVE  AgreementInv'
<1> DEFINE heard == NoteInterestEcho(peer, m.echo)
           newest == IF m.ack > heard.newestAck THEN m.ack ELSE heard.newestAck
           due == heard.fullDue \/ m.wantInterest
           raised == [heard EXCEPT !.newestAck = newest]
           q == [raised EXCEPT !.fullDue = due]
<1>1. /\ m \in Input /\ m.echo \in Nat /\ m.ack \in Nat /\ m.wantInterest \in BOOLEAN
      /\ m.ack <= client.newest
  BY Finds DEF Input
<1>2. /\ heard \in PeerState
      /\ Shrinks(peer, heard) /\ PeerRules(heard)
      /\ heard.newestAck = peer.newestAck
  <2>1. heard \in PeerState
    BY <1>1, Finds, EchoKeeps
  <2>2. Shrinks(peer, heard) /\ PeerRules(heard)
    BY <1>1, Finds, EchoShrinks
  <2> QED
    BY <2>1, <2>2 DEF Shrinks
<1>3. peer' = q
  BY DEF HandleClientInput
<1> HIDE DEF heard
<1>4. Follows(heard, client, slots, reliable, down)
  BY <1>2, Finds, ShrinkingFollows
<1>5. newest \in Nat /\ newest <= tick /\ due \in BOOLEAN /\ (heard.fullDue => due)
  BY <1>1, <1>2, Finds DEF PeerState
<1>6. raised \in PeerState /\ raised.fullDue = heard.fullDue /\ raised.newestAck = newest
  BY <1>2, <1>5 DEF PeerState
<1>7. PeerRules(raised) /\ Follows(raised, client, slots, reliable, down)
  BY <1>1, <1>2, <1>4, <1>6, Finds, AckKeeps
<1> HIDE DEF raised, newest, due
<1>8. q \in PeerState /\ q.newestAck = newest
  BY <1>5, <1>6 DEF PeerState
<1>9. Shrinks(raised, q) /\ PeerRules(q)
  BY <1>5, <1>6, <1>7, <1>8, DemandingFollows
<1> HIDE DEF q
<1>10. Follows(q, client, slots, reliable, down)
  BY <1>6, <1>7, <1>8, <1>9, Finds, ShrinkingFollows
<1>11. /\ UNCHANGED <<tick, slots, freed, client, down, reliable>>
       /\ up' \subseteq up
  BY DEF HandleClientInput, world
<1> QED
  BY <1>3, <1>5, <1>8, <1>9, <1>10, <1>11, Finds DEF AgreementInv, Clocks, Lane
LEMMA RekeyKeepsAgreement ==
    ASSUME InductiveInv, AgreementInv, Rekey
    PROVE  AgreementInv'
<1> DEFINE q == [ForgetInterest(peer) EXCEPT !.manifest = FALSE]
<1>1. /\ peer' = q /\ client' = FreshClient(tick)
      /\ down' = {} /\ reliable' = <<>> /\ up' = {}
      /\ UNCHANGED <<tick, slots, freed>>
  BY DEF Rekey, world
<1>2. /\ q.generation = peer.generation
      /\ q.newestAck = peer.newestAck
      /\ q.deltaTick = peer.deltaTick
      /\ q.set = peer.set
      /\ q.enters = peer.enters
      /\ q.leftSent = peer.leftSent
      /\ q.enteredSent = peer.enteredSent
      /\ q.inflight = NoTable /\ q.fullDue /\ ~q.seeded
  BY Finds DEF ForgetInterest, OweWholeInterestSet, PeerState
<1> HIDE DEF q
<1>3. ~Tracked(q)
  BY <1>2 DEF Tracked
<1>4. PeerRules(q)
  BY <1>2, <1>3, Finds DEF PeerRules
<1>5. MembersNamed(q, slots)
  BY <1>2, Finds DEF Follows, MembersNamed
<1>6. Follows(q, client', slots, <<>>, {})
  BY <1>2, <1>3, <1>5 DEF Follows, FramesAcked, AckFollows, InPrefix, NewsIsRight,
       PrefixIsRight, MirrorFollows, Current, Delivered, Stated, TablesRight
<1>7. Manifests(<<>>) = {} /\ Positions(<<>>) = {0}
  BY DEF Manifests, Positions
<1>8. client'.slots = Unnamed /\ client'.newest = 0
  BY <1>1 DEF FreshClient
<1>9. Naming(Unnamed, slots, freed, <<>>, {})
  <2>1. OneName(slots)
    BY Finds DEF Naming, NamesAreOne
  <2> QED
    BY <1>7, <2>1 DEF Naming, NamesSettle, NamesAreOne, FramesNamed, FramesSplit, NamesAt,
                      OneName, Unnamed
<1> QED
  BY <1>1, <1>2, <1>4, <1>6, <1>8, <1>9, Finds DEF AgreementInv, Clocks, Lane

LEMMA HandleSnapshotKeepsAgreement ==
    ASSUME InductiveInv, AgreementInv, NEW d \in down, HandleSnapshot(d)
    PROVE  AgreementInv'
<1> DEFINE newest == IF d.tick > client.newest THEN d.tick ELSE client.newest
           seen == [client EXCEPT !.unacked = TRUE, !.newest = newest]
           news == d.carries /\ SectionIsNews(d, client)
<1>1. client \in ClientState /\ d \in Datagram /\ d.tick \in Nat /\ d.tick <= tick
      /\ client.newest \in Nat /\ client.wantInterest \in BOOLEAN
  BY Finds DEF ClientState
<1>2. newest \in Nat /\ client.newest <= newest /\ newest <= tick
      /\ newest \in {d.tick, client.newest}
      /\ (d.tick >= client.newest => newest = d.tick)
      /\ (d.tick < client.newest => newest = client.newest)
  BY <1>1, Finds
<1> HIDE DEF newest
<1>3. /\ seen \in ClientState
      /\ seen.newest = newest
      /\ seen.mirrorGen = client.mirrorGen
      /\ seen.mirror = client.mirror
      /\ seen.slots = client.slots
      /\ seen.wantInterest = client.wantInterest
      /\ seen.unacked /\ seen.echoed = client.echoed /\ seen.at = client.at
      /\ seen.hasManifest = client.hasManifest
  BY <1>1, <1>2 DEF ClientState
<1>4. /\ client' = IF news THEN ApplyInterestDelta(seen, d) ELSE seen
      /\ down' \subseteq down
      /\ UNCHANGED <<tick, slots, freed, peer, reliable, up>>
  BY DEF HandleSnapshot, world, newest
<1>5. news <=> d.carries /\ d.tick >= client.newest
  BY DEF SectionIsNews
<1> HIDE DEF seen, news
<1>6. client' \in ClientState
  BY HandleSnapshotKeepsInv, InvUnfolds DEF TypeOK
<1>7. /\ Follows(peer, client', slots, reliable, down)
      /\ client'.slots = client.slots /\ client'.newest = newest
  <2>1. CASE ~news
    <3>1. client' = seen
      BY <1>4, <2>1
    <3>2. newest = client.newest \/ (newest = d.tick /\ ~d.carries)
      BY <1>1, <1>2, <1>5, <2>1
    <3> QED
      BY <1>1, <1>2, <1>3, <3>1, <3>2, Finds, SeenFollows
  <2>2. CASE news /\ d.gen # client.mirrorGen
    <3>1. client' = [seen EXCEPT !.wantInterest = TRUE]
      BY <1>3, <1>4, <2>2 DEF ApplyInterestDelta
    <3>2. /\ client'.mirror = client.mirror /\ client'.slots = client.slots
          /\ client'.mirrorGen = client.mirrorGen /\ client'.newest = newest
          /\ client'.wantInterest
      BY <1>3, <3>1 DEF ClientState
    <3>3. newest = d.tick
      BY <1>2, <1>5, <2>2
    <3> QED
      BY <1>1, <1>2, <1>6, <3>2, <3>3, Finds, SeenFollows
  <2>3. CASE news /\ d.gen = client.mirrorGen
    <3> DEFINE ids == (seen.mirror \ IdsOf(seen.slots, d.left)) \cup IdsOf(seen.slots, d.entered)
               want == seen.wantInterest \/ ~Resolves(seen, d.entered)
    <3>1. client' = [seen EXCEPT !.mirror = ids, !.wantInterest = want]
      BY <1>3, <1>4, <2>3 DEF ApplyInterestDelta
    <3> HIDE DEF ids, want
    <3>2. /\ client'.mirror = ids /\ client'.slots = client.slots
          /\ client'.mirrorGen = client.mirrorGen /\ client'.newest = newest
          /\ client'.wantInterest = want
      BY <1>3, <3>1 DEF ClientState
    <3>3. ids = (client.mirror \ IdsOf(client.slots, d.left)) \cup IdsOf(client.slots, d.entered)
      BY <1>3 DEF ids
    <3>4. ~want => ~client.wantInterest /\ Resolves(client, d.entered)
      BY <1>3 DEF want, Resolves
    <3>5. newest = d.tick /\ d.carries /\ client.newest <= d.tick
      BY <1>1, <1>2, <1>5, <2>3
    <3> QED
      BY <1>1, <1>6, <2>3, <3>2, <3>3, <3>4, <3>5, Finds, AppliedFollows
  <2> QED
    BY <2>1, <2>2, <2>3
<1>8. /\ Naming(client'.slots, slots, freed, reliable, down')
      /\ Follows(peer, client', slots, reliable, down')
  BY <1>4, <1>7, Finds, FewerFrames
<1>9. \A m \in up : m.ack <= newest
  BY <1>1, <1>2, Finds
<1> QED
  BY <1>2, <1>4, <1>7, <1>8, <1>9, Finds DEF AgreementInv, Clocks, Lane

LEMMA ClientFlushKeepsAgreement ==
    ASSUME InductiveInv, AgreementInv, ClientFlush
    PROVE  AgreementInv'
<1> DEFINE input == [ack |-> client.newest, echo |-> client.mirrorGen,
                     wantInterest |-> client.wantInterest, at |-> tick]
<1>1. /\ up' \subseteq up \cup {input}
      /\ UNCHANGED <<tick, slots, freed, peer, down, reliable>>
  BY DEF ClientFlush, world
<1>2. /\ client'.mirror = client.mirror /\ client'.slots = client.slots
      /\ client'.mirrorGen = client.mirrorGen /\ client'.newest = client.newest
      /\ client'.wantInterest = client.wantInterest
  BY Finds DEF ClientFlush, ClientState
<1>3. input.ack = client.newest
  OBVIOUS
<1> HIDE DEF input
<1>4. Follows(peer, client', slots, reliable, down)
  BY <1>2, Finds DEF Follows, FramesAcked, AckFollows, NewsIsRight, PrefixIsRight,
       PrefixFrame, MirrorFollows, Rooted, Current, Delivered, TablesRight
<1> QED
  BY <1>1, <1>2, <1>3, <1>4, Finds DEF AgreementInv, Clocks, Lane
\* Taking the first message: a manifest binds, a table may be adopted.
LEMMA HandleReliableKeepsAgreement ==
    ASSUME InductiveInv, AgreementInv, HandleReliable
    PROVE  AgreementInv'
<1> DEFINE m == Head(reliable)
           y == Tail(reliable)
<1>1. /\ reliable # <<>> /\ reliable' = y
      /\ client' = IF m.kind = "table" THEN ReceiveTable(client, m)
                                       ELSE ReceiveManifest(client, m)
      /\ UNCHANGED <<tick, slots, freed, peer, down, up>>
  BY DEF HandleReliable, world
<1>2. /\ y \in Seq(Msg) /\ m = reliable[1] /\ m \in Msg
      /\ Len(reliable) \in Nat /\ Len(reliable) >= 1 /\ Len(y) = Len(reliable) - 1
      /\ \A i \in 1..Len(y) : y[i] = reliable[i + 1]
  BY <1>1, Finds, TailIsShift
<1>3. client' \in ClientState
  BY HandleReliableKeepsInv, InvUnfolds DEF TypeOK
<1>4. client.slots \in Names /\ client.mirrorGen \in Nat /\ client.wantInterest \in BOOLEAN
  BY Finds DEF ClientState
<1> HIDE DEF m, y
<1>5. CASE m.kind = "manifest"
  <2>1. m \in Manifest /\ m.names \in Names /\ m.kind # "table"
    BY <1>2, <1>5 DEF Msg, Manifest, InterestTable
  <2>2. /\ client'.slots = m.names
        /\ client'.mirror = client.mirror \cap Named(m.names)
        /\ client'.mirrorGen = client.mirrorGen /\ client'.newest = client.newest
        /\ client'.wantInterest = client.wantInterest
    BY <1>1, <2>1, Finds DEF ReceiveManifest, ClientState
  <2>3. Took(reliable, y, client.slots, client'.slots)
    BY <1>2, <1>5, <2>2 DEF Took
  <2>4. Follows(peer, client', slots, y, down)
    BY <1>2, <1>3, <1>5, <2>2, <2>3, Finds, ManifestFollows
  <2>5. Naming(client'.slots, slots, freed, y, down)
    BY <1>2, <1>4, <2>1, <2>2, <2>3, Finds, TakingKeepsNaming
  <2> QED
    BY <1>1, <2>2, <2>4, <2>5, Finds DEF AgreementInv, Clocks, Lane
<1>6. CASE m.kind = "table"
  <2>1. m \in InterestTable /\ m.gen \in Nat /\ m.stated \in SUBSET Slot
    BY <1>2, <1>6 DEF Msg, Manifest, InterestTable
  <2> DEFINE resolved == Resolves(client, m.stated)
             ids == IdsOf(client.slots, m.stated)
             mirror == IF resolved THEN ids ELSE client.mirror \cup ids
             want == ~resolved
             adopted == [client EXCEPT !.mirror = mirror, !.mirrorGen = m.gen,
                                       !.wantInterest = want]
             asked == [client EXCEPT !.wantInterest = TRUE]
  <2>2. \/ client' = client
        \/ client' = asked
        \/ client' = adopted /\ ~(m.gen <= client.mirrorGen)
    BY <1>1, <1>6 DEF ReceiveTable, AdoptInterestTable
  <2>3. want \in BOOLEAN /\ (want <=> ~resolved)
    BY DEF Resolves
  <2> HIDE DEF mirror, want, resolved
  <2>4. /\ asked.mirror = client.mirror /\ asked.slots = client.slots
        /\ asked.mirrorGen = client.mirrorGen /\ asked.newest = client.newest
        /\ asked.wantInterest
    BY Finds DEF ClientState
  <2>5. /\ adopted.mirror = mirror /\ adopted.slots = client.slots
        /\ adopted.mirrorGen = m.gen /\ adopted.newest = client.newest
        /\ adopted.wantInterest = want
    BY Finds DEF ClientState
  <2> HIDE DEF asked, adopted
  <2>6. client'.slots = client.slots /\ client'.newest = client.newest
    BY <2>2, <2>4, <2>5
  <2>7. Took(reliable, y, client.slots, client'.slots)
    BY <1>2, <1>6, <2>6 DEF Took
  <2>8. Follows(peer, client', slots, y, down)
    <3>1. CASE client' = client \/ client' = asked
      BY <1>2, <1>3, <1>6, <2>4, <2>6, <2>7, <3>1, Finds, IgnoredTableFollows
    <3>2. CASE client' = adopted /\ ~(m.gen <= client.mirrorGen)
      <4>1. m.gen <= peer.generation
        <5>1. TablesAtMost(reliable, peer.generation)
          BY InvUnfolds
        <5> QED
          BY <1>2, <1>6, <5>1 DEF TablesAtMost
      <4>2. peer.acked < peer.generation
        BY <2>1, <3>2, <4>1, Finds
      <4>3. ~InPrefix(peer)
        BY <4>2, Finds DEF PeerRules, InPrefix, Tracked
      <4>4. CASE m.gen = peer.generation /\ peer.inflight # NoTable
        <5>1. ~client'.wantInterest => /\ Resolves(client, reliable[1].stated)
                                       /\ client'.mirror = IdsOf(client.slots, reliable[1].stated)
          BY <1>2, <2>3, <2>5, <3>2 DEF mirror, resolved
        <5> QED
          BY <1>2, <1>3, <1>6, <2>1, <2>5, <2>6, <2>7, <3>2, <4>3, <4>4, <5>1, Finds,
             AdoptedFollows
      <4>5. CASE ~(m.gen = peer.generation /\ peer.inflight # NoTable)
        <5>1. ~Current(peer, client')
          BY <2>5, <3>2, <4>2, <4>5, Finds DEF Current, Tracked, PeerRules
        <5> QED
          BY <1>2, <1>3, <1>6, <2>6, <2>7, <4>3, <5>1, Finds, IgnoredTableFollows
      <4> QED
        BY <4>4, <4>5
    <3> QED
      BY <2>2, <3>1, <3>2
  <2>9. Naming(client'.slots, slots, freed, y, down)
    BY <1>2, <1>4, <2>6, <2>7, Finds, TakingKeepsNaming
  <2> QED
    BY <1>1, <2>6, <2>8, <2>9, Finds DEF AgreementInv, Clocks, Lane
<1> QED
  BY <1>2, <1>5, <1>6 DEF Msg, Manifest, InterestTable

LEMMA LossKeepsAgreement ==
    ASSUME InductiveInv, AgreementInv,
           \/ \E d \in down : LoseSnapshot(d)
           \/ \E m \in up : LoseInput(m)
           \/ LoseTable
    PROVE  AgreementInv'
<1>1. CASE LoseTable
  <2>1. /\ reliable # <<>> /\ Head(reliable).kind = "table" /\ reliable' = Tail(reliable)
        /\ UNCHANGED <<tick, slots, freed, peer, client, down, up>>
    BY <1>1 DEF LoseTable, world
  <2>2. /\ reliable' \in Seq(Msg) /\ reliable[1].kind = "table"
        /\ Len(reliable) \in Nat /\ Len(reliable) >= 1 /\ Len(reliable') = Len(reliable) - 1
        /\ \A i \in 1..Len(reliable') : reliable'[i] = reliable[i + 1]
    BY <2>1, Finds, TailIsShift
  <2>3. Took(reliable, reliable', client.slots, client.slots)
    BY <2>2 DEF Took
  <2>4. client.slots \in Names
    BY Finds DEF ClientState
  <2>5. Follows(peer, client, slots, reliable', down)
    BY <2>2, <2>3, Finds, IgnoredTableFollows
  <2>6. Naming(client.slots, slots, freed, reliable', down)
    BY <2>2, <2>3, <2>4, Finds, TakingKeepsNaming
  <2> QED
    BY <2>1, <2>5, <2>6, Finds DEF AgreementInv, Clocks, Lane
<1>2. CASE \/ \E d \in down : LoseSnapshot(d)
           \/ \E m \in up : LoseInput(m)
  <2>1. /\ down' \subseteq down /\ up' \subseteq up
        /\ UNCHANGED <<tick, slots, freed, peer, client, reliable>>
    BY <1>2 DEF LoseSnapshot, LoseInput, world
  <2>2. /\ Naming(client.slots, slots, freed, reliable, down')
        /\ Follows(peer, client, slots, reliable, down')
    BY <2>1, Finds, FewerFrames
  <2> QED
    BY <2>1, <2>2, Finds DEF AgreementInv, Clocks, Lane
<1> QED
  BY <1>1, <1>2
\* What a flush publishes is the table it leaves.
LEMMA FlushPublishes ==
    ASSUME NEW q \in Seq(Msg), NEW n \in Names, NEW now \in Nat, NEW owed \in BOOLEAN,
           owed \/ n = slots
    PROVE  LET m == [kind |-> "manifest", names |-> n, at |-> now]
               y == q \o (IF owed THEN <<m>> ELSE <<>>)
           IN  y \in Seq(Msg) /\ Publishes(q, y, slots, n, now)
<1> DEFINE m == [kind |-> "manifest", names |-> n, at |-> now]
<1>1. m \in Manifest /\ m.names = n /\ m.at = now
  BY DEF Manifest
<1>2. m \in Msg
  BY <1>1 DEF Msg
<1> HIDE DEF m
<1>3. CASE owed
  <2>1. q \o <<m>> \in Seq(Msg) /\ Ends(q, m, q \o <<m>>)
    BY <1>2, EndOfConcat
  <2> QED
    BY <1>1, <1>3, <2>1 DEF Publishes, m
<1>4. CASE ~owed
  <2>1. q \o <<>> = q
    BY ConcatEmptySeq
  <2> QED
    BY <1>4, <2>1 DEF Publishes
<1> QED
  BY <1>3, <1>4

\* The slots are renamed, the manifest follows and the filter has run.
LEMMA ReconcilingFollows ==
    ASSUME InductiveInv, AgreementInv, Timely, Lag < Quarantine,
           NEW names \in Names, names \in Reconciled(tick + 1),
           NEW members \in SUBSET registered, NEW y \in Seq(Msg),
           Publishes(reliable, y, slots, names, tick + 1)
    PROVE  LET p == UpdateInterest(peer, members)
               g == FreedAfter(slots, names, freed, tick + 1)
           IN  /\ p \in PeerState
               /\ SameGenerations(peer, p)
               /\ PendingAgrees(p) /\ PeerRules(p)
               /\ p.newestAck = peer.newestAck
               /\ g \in [Slot -> Nat]
               /\ TablesAtMost(y, p.generation)
               /\ Naming(client.slots, names, g, y, down)
               /\ Follows(p, client, names, y, down)
<1> DEFINE p == UpdateInterest(peer, members)
           g == FreedAfter(slots, names, freed, tick + 1)
<1>1. tick + 1 \in Nat \ {0} /\ tick + 1 \in Nat /\ Lag \in Nat
  BY Finds, ConstantsAssumption
<1>2. members \in SUBSET Entity /\ registered \in SUBSET Entity
  BY Finds
<1>3. p \in PeerState /\ SameGenerations(peer, p) /\ PendingAgrees(p)
  BY <1>2, Finds, UpdateKeeps
<1>4. Moves(peer, p) /\ p.set = members
  BY <1>2, Finds, UpdateMoves
<1>5. Shrinks(peer, p) /\ PeerRules(p)
  BY <1>3, <1>4, Finds, MovesKeeps
<1>6. Follows(p, client, slots, reliable, down)
  BY <1>3, <1>5, Finds, ShrinkingFollows
<1>7. p.newestAck = peer.newestAck
  BY <1>5 DEF Shrinks
<1> HIDE DEF p
<1>8. g \in [Slot -> Nat]
  BY <1>1, Finds DEF FreedAfter, NoTick
<1>9. Renames(slots, freed, names, g, registered, tick + 1)
  BY <1>1, <1>2, Finds, ReconciledRenames DEF Reconciled
<1> HIDE DEF g
<1>10. /\ \A i \in 1..Len(reliable) : tick + 1 <= reliable[i].at + Lag
       /\ \A d \in down : tick + 1 <= d.tick + Lag /\ d.tick < tick + 1
  <2>1. \A i \in 1..Len(reliable) : reliable[i].at \in Nat
    BY Finds DEF Msg, Manifest, InterestTable
  <2>2. tick \in Nat /\ \A d \in down : d.tick \in Nat /\ d.tick <= tick
    BY Finds
  <2>3. /\ \A i \in 1..Len(reliable) : tick < reliable[i].at + Lag
        /\ \A d \in down : tick < d.tick + Lag
    BY DEF Timely
  <2> QED
    BY <1>1, <2>1, <2>2, <2>3
<1>11. client.slots \in Names
  BY Finds DEF ClientState
<1>12. Naming(client.slots, names, g, y, down)
  BY <1>1, <1>8, <1>9, <1>10, <1>11, Finds, RenamingKeepsNaming
<1>13. Follows(p, client, names, y, down)
  BY <1>1, <1>2, <1>3, <1>4, <1>6, <1>9, <1>10, Finds, RenamingFollows
<1>14. TablesAtMost(y, p.generation)
  <2>1. TablesAtMost(reliable, peer.generation) /\ p.generation = peer.generation
    BY <1>3, InvUnfolds DEF SameGenerations
  <2>2. \A i \in 1..Len(y) : y[i].kind = "table" => i \in 1..Len(reliable) /\ y[i] = reliable[i]
    BY Finds, PublishingKeepsPlaces
  <2> QED
    BY <2>1, <2>2 DEF TablesAtMost
<1> QED
  BY <1>3, <1>5, <1>7, <1>8, <1>12, <1>13, <1>14 DEF p, g
\* An owed table is minted or repeated, and sent after the manifest.
LEMMA StateFollows ==
    ASSUME NEW p \in PeerState, NEW c \in ClientState, NEW n \in Names,
           NEW f \in [Slot -> Nat], NEW q \in Seq(Msg), NEW sent \in SUBSET Datagram,
           NEW now \in Nat,
           PendingAgrees(p), p.inflight.gen <= p.generation,
           p.acked <= p.generation, c.mirrorGen <= p.generation,
           TablesAtMost(q, p.generation), PeerRules(p),
           Naming(c.slots, n, f, q, sent), Follows(p, c, n, q, sent)
    PROVE  LET due == InterestTableDue(p, now)
               r == IF due THEN InterestTableToSend(p, n, now) ELSE p
               t == [kind |-> "table", gen |-> r.inflight.gen, at |-> now,
                     stated |-> SlotsOf(r.inflight.pairs, Entity)]
               y == q \o (IF due THEN <<t>> ELSE <<>>)
           IN  /\ r \in PeerState
               /\ PendingAgrees(r)
               /\ PeerRules(r)
               /\ r.newestAck = p.newestAck
               /\ y \in Seq(Msg)
               /\ Naming(c.slots, n, f, y, sent)
               /\ Follows(r, c, n, y, sent)
<1> DEFINE due == InterestTableDue(p, now)
           r == InterestTableToSend(p, n, now)
           stated == SlotsOf(r.inflight.pairs, Entity)
           t == [kind |-> "table", gen |-> r.inflight.gen, at |-> now,
                 stated |-> stated]
<1>1. c.slots \in Names
  BY DEF ClientState
<1>2. CASE ~due
  <2>1. q \o <<>> = q
    BY ConcatEmptySeq
  <2> QED
    BY <1>2, <2>1
<1>3. CASE due
  <2>1. p.fullDue
    BY <1>3 DEF InterestTableDue
  <2>2. /\ r \in PeerState /\ PeerRules(r) /\ Follows(r, c, n, q, sent)
        /\ Sendable(r, n) /\ r.newestAck = p.newestAck
    BY <2>1, ToSendFollows
  <2>3. PendingAgrees(r)
    BY TableToSendKeeps
  <2> HIDE DEF r
  <2>4. stated \in SUBSET Slot /\ r.inflight.gen \in Nat
    BY <2>2 DEF SlotsOf, PeerState, Table
  <2>5. t \in InterestTable /\ t.stated = SlotsOf(r.inflight.pairs, Entity)
    <3> HIDE DEF stated
    <3>1. t \in InterestTable /\ t.stated = stated
      BY <2>4 DEF InterestTable
    <3> QED
      BY <3>1 DEF stated
  <2> HIDE DEF t, stated
  <2>6. t \in Msg
    BY <2>5 DEF Msg
  <2>7. q \o <<t>> \in Seq(Msg)
    BY <2>6, OneMore
  <2>8. Naming(c.slots, n, f, q \o <<t>>, sent)
    BY <1>1, <2>5, TableAtEndKeepsNaming
  <2>9. Follows(r, c, n, q \o <<t>>, sent)
    BY <2>2, <2>5, SendingFollows
  <2> QED
    BY <1>3, <2>2, <2>3, <2>7, <2>8, <2>9 DEF t, stated, r
<1> QED
  BY <1>2, <1>3

\* What a flush starts its frames from: the peer p that agrees with the client c,
\* the peer after whose section is built, and the peer r once the frames are out.
Frames(p, after, r, n, section, more, now) ==
    /\ {p, after, r} \subseteq PeerState /\ n \in Names /\ section \in Sections(p, n)
    /\ more \in SUBSET Datagram /\ now \in Nat \ {0}
    /\ after = AfterSection(p, n, section, now)
    /\ Moves(after, r)
    /\ \A d \in more : FlushFrame(after, n, d, now)

Agrees(p, c, n, f, q, sent, now) ==
    /\ c \in ClientState /\ Bound(c) /\ PendingAgrees(p) /\ PeerRules(p)
    /\ f \in [Slot -> Nat] /\ q \in Seq(Msg) /\ sent \in SUBSET Datagram
    /\ Naming(c.slots, n, f, q, sent)
    /\ Follows(p, c, n, q, sent)
    /\ c.newest < now /\ p.newestAck < now
    /\ \A d \in sent : d.tick < now

\* The section is built and the frames of the flush go out.
LEMMA FramingFollows ==
    ASSUME NEW p, NEW after, NEW r, NEW c, NEW n, NEW f, NEW q, NEW sent, NEW more,
           NEW now, NEW section,
           Agrees(p, c, n, f, q, sent, now),
           Frames(p, after, r, n, section, more, now)
    PROVE  /\ PeerRules(r)
           /\ r.newestAck = p.newestAck
           /\ \A d \in more : d.tick = now
           /\ Naming(c.slots, n, f, q, sent \cup more)
           /\ Follows(r, c, n, q, sent \cup more)
<1> USE DEF Agrees, Frames
<1>1. now \in Nat /\ p \in PeerState /\ after \in PeerState /\ r \in PeerState
  OBVIOUS
<1>2. PendingAgrees(after)
  BY <1>1, AfterSectionKeeps
<1>3. PeerRules(after) /\ Follows(after, c, n, q, sent)
  BY <1>1, AfterSectionFollows
<1>4. after.newestAck = p.newestAck
  BY <1>1, SectionFields
<1>5. \A d \in more : d.tick = now
  BY DEF FlushFrame
<1>6. /\ Naming(c.slots, n, f, q, sent \cup more)
      /\ Follows(after, c, n, q, sent \cup more)
  BY <1>1, <1>2, <1>3, <1>4, FramesFollow
<1>7. Shrinks(after, r) /\ PeerRules(r)
  BY <1>1, <1>3, MovesKeeps
<1>8. sent \cup more \in SUBSET Datagram
  OBVIOUS
<1>9. Follows(r, c, n, q, sent \cup more)
  BY <1>1, <1>6, <1>7, <1>8, ShrinkingFollows
<1>10. r.newestAck = after.newestAck
  BY DEF Moves
<1> QED
  BY <1>4, <1>5, <1>6, <1>7, <1>9, <1>10

LEMMA ServerFlushKeepsAgreement ==
    ASSUME InductiveInv, AgreementInv, Lag < Quarantine,
           NEW names \in Names, NEW members \in SUBSET (registered \ hidden),
           NEW filled \in 0..1, ServerFlush(1, names, members, filled)
    PROVE  AgreementInv'
<1> DEFINE now == tick + 1
           filtered == UpdateInterest(peer, members)
           due == InterestTableDue(filtered, now)
           tabled == IF due THEN InterestTableToSend(filtered, names, now)
                            ELSE filtered
           base == SectionBase(tabled, now)
           manifest == [kind |-> "manifest", names |-> names, at |-> now]
           table == [kind |-> "table", gen |-> tabled.inflight.gen, at |-> now,
                     stated |-> SlotsOf(tabled.inflight.pairs, Entity)]
           owed == ManifestOwed(names)
           y == reliable \o (IF owed THEN <<manifest>> ELSE <<>>)
           z == y \o (IF due THEN <<table>> ELSE <<>>)
           g == FreedAfter(slots, names, freed, now)
           shut == tabled.acked # tabled.generation
<1>1. PICK section \in Sections(base, names) :
        /\ peer' = [AfterSection(base, names, section, now) EXCEPT
                      !.manifest = @ \/ owed]
        /\ down' = down \cup Datagrams(base, names, section, filled, shut, now)
  BY DEF ServerFlush
<1>2. /\ Timely /\ tick' = now /\ names \in Reconciled(now)
      /\ slots' = names /\ freed' = g /\ reliable' = z
      /\ UNCHANGED <<client, up>>
  BY DEF ServerFlush
<1>3. /\ now \in Nat \ {0} /\ now \in Nat /\ owed \in BOOLEAN /\ (owed \/ names = slots)
      /\ members \in SUBSET registered
  BY Finds DEF ManifestOwed
<1>4. y \in Seq(Msg) /\ Publishes(reliable, y, slots, names, now)
  BY <1>3, Finds, FlushPublishes
<1> HIDE DEF y, owed
<1>5. /\ filtered \in PeerState
      /\ SameGenerations(peer, filtered)
      /\ PendingAgrees(filtered) /\ PeerRules(filtered)
      /\ filtered.newestAck = peer.newestAck
      /\ g \in [Slot -> Nat]
      /\ TablesAtMost(y, filtered.generation)
      /\ Naming(client.slots, names, g, y, down)
      /\ Follows(filtered, client, names, y, down)
  BY <1>2, <1>3, <1>4, ReconcilingFollows
<1> HIDE DEF filtered, g
<1>6. /\ filtered.inflight.gen <= filtered.generation
      /\ filtered.acked <= filtered.generation
      /\ client.mirrorGen <= filtered.generation
  BY <1>5, Finds, InvUnfolds, NoTableType DEF SameGenerations
<1>7. /\ tabled \in PeerState /\ PendingAgrees(tabled) /\ PeerRules(tabled)
      /\ tabled.newestAck = filtered.newestAck
      /\ z \in Seq(Msg)
      /\ Naming(client.slots, names, g, z, down)
      /\ Follows(tabled, client, names, z, down)
  BY <1>3, <1>4, <1>5, <1>6, Finds, StateFollows
<1>8. /\ client.newest < now /\ tabled.newestAck < now
      /\ \A d \in down : d.tick < now
  BY <1>5, <1>7, Finds
<1> HIDE DEF tabled, z, due
<1>9. /\ base \in PeerState /\ PendingAgrees(base) /\ PeerRules(base)
      /\ base.newestAck = tabled.newestAck
      /\ Follows(base, client, names, z, down)
  <2>1. FramesSplit(down)
    BY Finds DEF Naming
  <2> QED
    BY <1>3, <1>7, <2>1, Finds, SectionBaseKeeps, SectionBaseFollows
<1> HIDE DEF base
<1> DEFINE after == AfterSection(base, names, section, now)
           holds == after.manifest \/ owed
           more == Datagrams(base, names, section, filled, shut, now)
<1>10. after \in PeerState /\ Moves(after, peer') /\ peer' \in PeerState
  <2>1. after \in PeerState
    BY <1>1, <1>3, <1>9, AfterSectionKeeps
  <2>2. peer' = [after EXCEPT !.manifest = holds]
    BY <1>1
  <2>3. holds \in BOOLEAN
    BY <1>3, <2>1 DEF PeerState
  <2> HIDE DEF after, holds
  <2> QED
    BY <2>1, <2>2, <2>3 DEF PeerState, Moves
<1>11. /\ more \in SUBSET Datagram
       /\ \A d \in more : FlushFrame(after, names, d, now)
  BY <1>1, <1>3, <1>9, FlushSendsFrames
<1>12. down' = down \cup more
  BY <1>1
<1>13. after = AfterSection(base, names, section, now)
  OBVIOUS
<1> HIDE DEF more, after, now
<1>14. /\ PeerRules(peer')
       /\ peer'.newestAck = base.newestAck
       /\ \A d \in more : d.tick = now
       /\ Naming(client.slots, names, g, z, down \cup more)
       /\ Follows(peer', client, names, z, down \cup more)
  <2> HIDE DEF manifest, table, shut, holds
  <2>1. client \in ClientState /\ Bound(client) /\ down \in SUBSET Datagram
    BY Finds
  <2>2. base.newestAck < now
    BY <1>8, <1>9
  <2>3. Agrees(base, client, names, g, z, down, now)
    BY <1>5, <1>7, <1>8, <1>9, <2>1, <2>2 DEF Agrees
  <2>4. Frames(base, after, peer', names, section, more, now)
    BY <1>3, <1>9, <1>10, <1>11, <1>13 DEF Frames
  <2> QED
    BY <2>3, <2>4, FramingFollows
<1>15. /\ peer'.newestAck <= now /\ client.newest <= now
       /\ \A d \in down \cup more : d.tick <= now
  BY <1>3, <1>5, <1>7, <1>9, <1>14, Finds DEF now
<1> QED
  BY <1>2, <1>12, <1>14, <1>15, Finds DEF AgreementInv, Clocks, Lane

-----------------------------------------------------------------------------

LEMMA StepKeepsAgreement ==
    ASSUME MaxPasses = 1, Lag < Quarantine, InductiveInv, AgreementInv, [Next]_vars
    PROVE  AgreementInv'
<1>1. CASE Flush
  <2>1. PICK passes \in 1..MaxPasses, names \in Names,
             members \in SUBSET (registered \ hidden) :
               \E filled \in 0..passes : ServerFlush(passes, names, members, filled)
    BY <1>1 DEF Flush
  <2>2. passes = 1
    OBVIOUS
  <2> QED
    BY <2>1, <2>2, ServerFlushKeepsAgreement
<1>2. CASE \E e \in Entity : \/ Register(e) \/ Unregister(e) \/ Respawn(e)
                              \/ Sweep(e) \/ Hide(e) \/ Unhide(e)
  BY <1>2, WorldKeepsAgreement
<1>3. CASE \E m \in up : HandleClientInput(m)
  BY <1>3, HandleClientInputKeepsAgreement
<1>4. CASE Rekey
  BY <1>4, RekeyKeepsAgreement
<1>5. CASE \E d \in down : HandleSnapshot(d)
  BY <1>5, HandleSnapshotKeepsAgreement
<1>6. CASE HandleReliable
  BY <1>6, HandleReliableKeepsAgreement
<1>7. CASE ClientFlush
  BY <1>7, ClientFlushKeepsAgreement
<1>8. CASE \/ \E d \in down : LoseSnapshot(d)
           \/ \E m \in up : LoseInput(m)
           \/ LoseTable
  BY <1>8, LossKeepsAgreement
<1>9. CASE UNCHANGED vars
  BY <1>9 DEF vars, AgreementInv, Clocks
<1> QED
  BY <1>1, <1>2, <1>3, <1>4, <1>5, <1>6, <1>7, <1>8, <1>9 DEF Next

(* As long as a flush is one datagram and no message outlives the          *)
(* quarantine of a slot it mentions, whatever is lost, reordered or        *)
(* restarted, what the server's pending halves, its prefix in flight and   *)
(* its whole set in flight say of the client's mirror is true.             *)
THEOREM AgreementInvariance ==
    ASSUME MaxPasses = 1, Lag < Quarantine
    PROVE  Spec => []AgreementInv
<1>1. Init => AgreementInv
  BY InitAgreement
<1>2. InductiveInv /\ AgreementInv /\ [Next]_vars => AgreementInv'
  BY StepKeepsAgreement
<1> QED
  BY <1>1, <1>2, InductiveInvariance, PTL DEF Spec

(* Under the same hypotheses, two ends that have both fallen silent agree: *)
(* with nothing in flight, nothing queued and nobody asking, the client's  *)
(* mirror is the set the server is sending it, so no disagreement is ever  *)
(* one that nobody will repair.                                            *)
THEOREM SilentEndsAgree ==
    ASSUME MaxPasses = 1, Lag < Quarantine
    PROVE  Spec => []NoSilentDivergence
<1>1. InductiveInv /\ AgreementInv => NoSilentDivergence
  BY SilenceIsAgreement DEF NoSilentDivergence
<1> QED
  BY <1>1, InductiveInvariance, AgreementInvariance, PTL

=============================================================================
