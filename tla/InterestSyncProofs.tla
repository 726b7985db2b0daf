-------------------------- MODULE InterestSyncProofs --------------------------
(***************************************************************************)
(* Proofs about the interest lane, for any entities, slots, windows, batch *)
(* sizes and any number of datagrams per flush.                            *)
(*                                                                         *)
(* The argument is about one number.  A generation is minted by the        *)
(* server, carried by a table, adopted by the client, carried back by an   *)
(* echo and only then believed; InductiveInv says each of these copies is  *)
(* at most the one before it.  Every operation on PeerState is covered by  *)
(* one lemma that says which of these numbers it may move.                 *)
(***************************************************************************)
EXTENDS InterestSync, TLAPS, SequenceTheorems

\* The copies of a generation, each bounded by the one it was taken from.
GenerationOrder ==
    /\ AckedIsHeld
    /\ SectionsAreNotEarly
    /\ peer.inflight.gen <= peer.generation
    /\ \A m \in up : m.echo <= client.mirrorGen
    /\ \A i \in 1..Len(reliable) :
         reliable[i].kind = "table" => reliable[i].gen <= peer.generation

InductiveInv ==
    /\ TypeOK
    /\ GenerationOrder
    /\ PendingAgreesWithSet
    /\ MirrorIsBound

\* What most operations on the peer's state leave alone.
SameGenerations(p, q) ==
    /\ q.generation = p.generation
    /\ q.acked = p.acked
    /\ q.inflight.gen \in {p.inflight.gen, 0}

\* PendingAgreesWithSet, of a peer record.
PendingAgrees(p) ==
    /\ p.leaves \cap p.set = {}
    /\ p.enters \subseteq p.set
    /\ p.leftSent \subseteq p.leaves
    /\ p.enteredSent \subseteq p.enters

-----------------------------------------------------------------------------
(* What each operation on PeerState preserves.                             *)

LEMMA NoTableType == NoTable \in Table /\ NoTable.gen = 0
  BY DEF NoTable, Table, Names, Unnamed

\* Owing a whole set discards the copy in flight and moves no generation.
LEMMA OweKeeps ==
    ASSUME NEW p \in PeerState
    PROVE  /\ OweWholeInterestSet(p) \in PeerState
           /\ SameGenerations(p, OweWholeInterestSet(p))
           /\ PendingAgrees(p) => PendingAgrees(OweWholeInterestSet(p))
           /\ OweWholeInterestSet(p).set = p.set
           /\ OweWholeInterestSet(p).leaves = p.leaves
           /\ OweWholeInterestSet(p).enters = p.enters
           /\ OweWholeInterestSet(p).leftSent = p.leftSent
           /\ OweWholeInterestSet(p).enteredSent = p.enteredSent
  BY NoTableType DEF OweWholeInterestSet, PeerState, SameGenerations, NoTick,
                     PendingAgrees

LEMMA OverflowKeeps ==
    ASSUME NEW p \in PeerState, NEW pushed, NEW half
    PROVE  /\ OweIfOverflowed(p, pushed, half) \in PeerState
           /\ SameGenerations(p, OweIfOverflowed(p, pushed, half))
           /\ OweIfOverflowed(p, pushed, half).set = p.set
           /\ OweIfOverflowed(p, pushed, half).leaves = p.leaves
           /\ OweIfOverflowed(p, pushed, half).enters = p.enters
           /\ OweIfOverflowed(p, pushed, half).leftSent = p.leftSent
           /\ OweIfOverflowed(p, pushed, half).enteredSent = p.enteredSent
  BY OweKeeps DEF OweIfOverflowed, SameGenerations

LEMMA LeaveKeeps ==
    ASSUME NEW p \in PeerState, NEW ids \in SUBSET Entity
    PROVE  LET q == NoteInterestLeave(p, ids)
           IN  /\ q \in PeerState
               /\ SameGenerations(p, q)
               /\ q.set = p.set
               /\ q.leaves = p.leaves \cup ids
               /\ q.enters = p.enters \ ids
               /\ q.leftSent = p.leftSent
               /\ q.enteredSent = p.enteredSent \ ids
<1> DEFINE q == [p EXCEPT !.enters = @ \ ids,
                          !.enteredSent = @ \ ids,
                          !.leaves = @ \cup ids]
<1>1. /\ q \in PeerState
      /\ SameGenerations(p, q)
      /\ q.set = p.set
      /\ q.leaves = p.leaves \cup ids
      /\ q.enters = p.enters \ ids
      /\ q.leftSent = p.leftSent
      /\ q.enteredSent = p.enteredSent \ ids
  BY DEF PeerState, SameGenerations
<1>2. NoteInterestLeave(p, ids) = OweIfOverflowed(q, ids, q.leaves)
  BY DEF NoteInterestLeave
<1> HIDE DEF q
<1> QED
  BY <1>1, <1>2, OverflowKeeps DEF SameGenerations

LEMMA EnterKeeps ==
    ASSUME NEW p \in PeerState, NEW ids \in SUBSET Entity
    PROVE  LET q == NoteInterestEnter(p, ids)
           IN  /\ q \in PeerState
               /\ SameGenerations(p, q)
               /\ q.set = p.set
               /\ q.leaves = p.leaves \ ids
               /\ q.enters = p.enters \cup ids
               /\ q.leftSent = p.leftSent \ ids
               /\ q.enteredSent = p.enteredSent
<1> DEFINE q == [p EXCEPT !.leaves = @ \ ids,
                          !.leftSent = @ \ ids,
                          !.enters = @ \cup ids]
<1>1. /\ q \in PeerState
      /\ SameGenerations(p, q)
      /\ q.set = p.set
      /\ q.leaves = p.leaves \ ids
      /\ q.enters = p.enters \cup ids
      /\ q.leftSent = p.leftSent \ ids
      /\ q.enteredSent = p.enteredSent
  BY DEF PeerState, SameGenerations
<1>2. NoteInterestEnter(p, ids) = OweIfOverflowed(q, ids, q.enters)
  BY DEF NoteInterestEnter
<1> HIDE DEF q
<1> QED
  BY <1>1, <1>2, OverflowKeeps DEF SameGenerations

\* Dropping a member queues its leave and takes it out of the set at once.
LEMMA LoseKeeps ==
    ASSUME NEW p \in PeerState, NEW e \in Entity, PendingAgrees(p)
    PROVE  /\ LoseMember(p, e) \in PeerState
           /\ SameGenerations(p, LoseMember(p, e))
           /\ PendingAgrees(LoseMember(p, e))
<1>1. CASE e \notin p.set
  BY <1>1 DEF LoseMember, SameGenerations
<1>2. CASE e \in p.set
  <2> DEFINE q == NoteInterestLeave(p, {e})
             r == [q EXCEPT !.set = @ \ {e}]
  <2>1. LoseMember(p, e) = r
    BY <1>2 DEF LoseMember
  <2>2. /\ q \in PeerState
        /\ SameGenerations(p, q)
        /\ q.set = p.set
        /\ q.leaves = p.leaves \cup {e}
        /\ q.enters = p.enters \ {e}
        /\ q.leftSent = p.leftSent
        /\ q.enteredSent = p.enteredSent \ {e}
    BY LeaveKeeps
  <2> HIDE DEF q
  <2>3. r \in PeerState /\ SameGenerations(p, r)
    BY <2>2 DEF PeerState, SameGenerations
  <2>4. /\ r.set = p.set \ {e}
        /\ r.leaves = p.leaves \cup {e}
        /\ r.enters = p.enters \ {e}
        /\ r.leftSent = p.leftSent
        /\ r.enteredSent = p.enteredSent \ {e}
    BY <2>2 DEF PeerState
  <2> HIDE DEF r
  <2>5. PendingAgrees(r)
    BY <2>4 DEF PendingAgrees
  <2> QED
    BY <2>1, <2>3, <2>5
<1> QED
  BY <1>1, <1>2

\* A filter pass queues exactly the difference it makes.
LEMMA UpdateKeeps ==
    ASSUME NEW p \in PeerState, NEW members \in SUBSET Entity, PendingAgrees(p)
    PROVE  /\ UpdateInterest(p, members) \in PeerState
           /\ SameGenerations(p, UpdateInterest(p, members))
           /\ PendingAgrees(UpdateInterest(p, members))
<1> DEFINE left == NoteInterestLeave(p, p.set \ members)
           both == NoteInterestEnter(left, members \ p.set)
           done == [both EXCEPT !.set = members]
<1>0. p.set \in SUBSET Entity
  BY DEF PeerState
<1>1. /\ left \in PeerState
      /\ SameGenerations(p, left)
      /\ left.leaves = p.leaves \cup (p.set \ members)
      /\ left.enters = p.enters \ (p.set \ members)
      /\ left.leftSent = p.leftSent
      /\ left.enteredSent = p.enteredSent \ (p.set \ members)
  <2>1. p.set \ members \in SUBSET Entity
    BY <1>0
  <2> QED
    BY <2>1, LeaveKeeps
<1> HIDE DEF left
<1>2. /\ both \in PeerState
      /\ SameGenerations(left, both)
      /\ both.leaves = left.leaves \ (members \ p.set)
      /\ both.enters = left.enters \cup (members \ p.set)
      /\ both.leftSent = left.leftSent \ (members \ p.set)
      /\ both.enteredSent = left.enteredSent
  <2>1. members \ p.set \in SUBSET Entity
    OBVIOUS
  <2> QED
    BY <1>1, <2>1, EnterKeeps
<1> HIDE DEF both
<1>3. done \in PeerState /\ SameGenerations(p, done)
  BY <1>1, <1>2 DEF PeerState, SameGenerations
<1>4. /\ done.set = members
      /\ done.leaves = both.leaves
      /\ done.enters = both.enters
      /\ done.leftSent = both.leftSent
      /\ done.enteredSent = both.enteredSent
  BY <1>2 DEF PeerState
<1>5. UpdateInterest(p, members) = done
  BY DEF UpdateInterest, left, both
<1> HIDE DEF done
<1>6. PendingAgrees(done)
  BY <1>1, <1>2, <1>4 DEF PendingAgrees
<1> QED
  BY <1>3, <1>5, <1>6

\* Retiring a prefix removes from each half what the prefix held.
LEMMA RetireKeeps ==
    ASSUME NEW p \in PeerState, NEW now \in Nat, PendingAgrees(p)
    PROVE  /\ RetireInterestDelta(p, now) \in PeerState
           /\ SameGenerations(p, RetireInterestDelta(p, now))
           /\ PendingAgrees(RetireInterestDelta(p, now))
<1> DEFINE acked == p.newestAck >= p.deltaTick
           given == IF acked THEN p ELSE OweWholeInterestSet(p)
           done == [given EXCEPT !.leaves = @ \ p.leftSent,
                                 !.enters = @ \ p.enteredSent,
                                 !.leftSent = {},
                                 !.enteredSent = {},
                                 !.deltaTick = NoTick,
                                 !.seeded = TRUE]
<1>1. RetireInterestDelta(p, now) \in {p, done}
  BY DEF RetireInterestDelta
<1>2. /\ given \in PeerState
      /\ SameGenerations(p, given)
      /\ given.set = p.set
      /\ given.leaves = p.leaves
      /\ given.enters = p.enters
  BY OweKeeps DEF SameGenerations
<1> HIDE DEF given
<1>3. done \in PeerState /\ SameGenerations(p, done)
  BY <1>2 DEF PeerState, SameGenerations, NoTick
<1>4. /\ done.set = p.set
      /\ done.leaves = p.leaves \ p.leftSent
      /\ done.enters = p.enters \ p.enteredSent
      /\ done.leftSent = {}
      /\ done.enteredSent = {}
  BY <1>2 DEF PeerState
<1> HIDE DEF done
<1>5. PendingAgrees(done)
  BY <1>4 DEF PendingAgrees
<1>6. SameGenerations(p, p)
  BY DEF SameGenerations
<1> QED
  BY <1>1, <1>3, <1>5, <1>6

\* A table sent is at most the newest generation minted, and sending one moves
\* the minted generation only upwards.
LEMMA TableToSendKeeps ==
    ASSUME NEW p \in PeerState, NEW names \in Names, NEW now \in Nat,
           PendingAgrees(p), p.inflight.gen <= p.generation
    PROVE  LET q == InterestTableToSend(p, names, now)
           IN  /\ q \in PeerState
               /\ PendingAgrees(q)
               /\ q.acked = p.acked
               /\ p.generation <= q.generation
               /\ q.inflight.gen <= q.generation
<1> DEFINE minted == StateWholeInterestSet(p, names)
           chosen == IF Reusable(p, names) THEN p ELSE minted
           pairs == [s \in Slot |-> IF names[s] \in p.set THEN names[s]
                                                          ELSE NoEntity]
           table == [gen |-> p.generation + 1, pairs |-> pairs]
<1>1. pairs \in Names
  BY DEF Names
<1>2. p.generation \in Nat
  BY DEF PeerState
<1> HIDE DEF pairs
<1>3. table \in Table
  BY <1>1, <1>2 DEF Table
<1>4. table.gen = p.generation + 1
  OBVIOUS
<1> HIDE DEF table
<1> DEFINE still == p.enters \ Named(names)
           next == p.generation + 1
           built == [p EXCEPT !.generation = next,
                              !.inflight = table,
                              !.leaves = {},
                              !.enters = still,
                              !.leftSent = {},
                              !.enteredSent = {},
                              !.deltaTick = 0,
                              !.seeded = TRUE]
<1>41. minted = built
  BY DEF StateWholeInterestSet, table, pairs, NoTick
<1>42. still \in SUBSET Entity /\ next \in Nat
  BY <1>2 DEF PeerState
<1> HIDE DEF minted, still, next
<1>43. /\ built \in PeerState
      /\ built.acked = p.acked
      /\ built.generation = next
      /\ built.inflight = table
      /\ built.set = p.set
      /\ built.leaves = {}
      /\ built.enters = still
      /\ built.leftSent = {}
      /\ built.enteredSent = {}
  BY <1>3, <1>42 DEF PeerState
<1> HIDE DEF built
<1>5. /\ minted \in PeerState
      /\ minted.acked = p.acked
      /\ minted.generation = p.generation + 1
      /\ minted.inflight = table
      /\ minted.set = p.set
      /\ minted.leaves = {}
      /\ minted.enters = p.enters \ Named(names)
      /\ minted.leftSent = {}
      /\ minted.enteredSent = {}
  BY <1>41, <1>43 DEF still, next
<1>6. PendingAgrees(minted)
  BY <1>5 DEF PendingAgrees
<1>7. /\ chosen \in PeerState
      /\ PendingAgrees(chosen)
      /\ chosen.acked = p.acked
      /\ p.generation <= chosen.generation
      /\ chosen.inflight.gen <= chosen.generation
  BY <1>2, <1>4, <1>5, <1>6
<1>8. InterestTableToSend(p, names, now) = [chosen EXCEPT !.tableTick = now]
  BY DEF InterestTableToSend, minted
<1> HIDE DEF chosen
<1> DEFINE q == [chosen EXCEPT !.tableTick = now]
<1>9. /\ q \in PeerState
      /\ q.set = chosen.set
      /\ q.leaves = chosen.leaves
      /\ q.enters = chosen.enters
      /\ q.leftSent = chosen.leftSent
      /\ q.enteredSent = chosen.enteredSent
      /\ q.acked = chosen.acked
      /\ q.generation = chosen.generation
      /\ q.inflight = chosen.inflight
  BY <1>7 DEF PeerState
<1> HIDE DEF q
<1>10. PendingAgrees(q)
  BY <1>7, <1>9 DEF PendingAgrees
<1> QED
  BY <1>7, <1>8, <1>9, <1>10 DEF q

LEMMA SectionBaseKeeps ==
    ASSUME NEW p \in PeerState, NEW now \in Nat, PendingAgrees(p)
    PROVE  /\ SectionBase(p, now) \in PeerState
           /\ SameGenerations(p, SectionBase(p, now))
           /\ PendingAgrees(SectionBase(p, now))
<1> DEFINE q == RetireInterestDelta(p, now)
<1>1. q \in PeerState /\ SameGenerations(p, q) /\ PendingAgrees(q)
  BY RetireKeeps
<1>2. SectionBase(p, now) \in {q, OweWholeInterestSet(q)}
  BY DEF SectionBase
<1> HIDE DEF q
<1> QED
  BY <1>1, <1>2, OweKeeps DEF SameGenerations

\* A section names only entries of the pending halves.
LEMMA SectionIsPending ==
    ASSUME NEW p \in PeerState, NEW names \in Names, PendingAgrees(p),
           NEW section \in Sections(p, names), GateOpen(p)
    PROVE  /\ section.left \subseteq p.leaves
           /\ section.entered \subseteq p.enters
           /\ p.deltaTick = NoTick => section.left \subseteq Named(names)
<1>1. CASE p.deltaTick # NoTick
  BY <1>1 DEF Sections, PendingAgrees
<1>2. CASE p.deltaTick = NoTick
  <2>1. section \in FreshSections(p, names)
    BY <1>2 DEF Sections
  <2>2. /\ section.left \subseteq p.leaves \cap Named(names)
        /\ section.entered \subseteq p.enters \cap Named(names)
    BY <2>1 DEF FreshSections, AtMost
  <2> QED
    BY <2>2
<1> QED
  BY <1>1, <1>2

LEMMA AfterSectionKeeps ==
    ASSUME NEW p \in PeerState, NEW names \in Names, NEW now \in Nat,
           PendingAgrees(p), NEW section \in Sections(p, names)
    PROVE  LET q == AfterSection(p, names, section, now)
           IN  /\ q \in PeerState
               /\ PendingAgrees(q)
               /\ q.acked = p.acked
               /\ q.generation = p.generation
               /\ q.inflight = p.inflight
<1>1. CASE ~GateOpen(p) \/ p.deltaTick # NoTick
  BY <1>1 DEF AfterSection
<1>2. CASE GateOpen(p) /\ p.deltaTick = NoTick
  <2> DEFINE stamp == IF Carries(p, section) THEN now ELSE NoTick
             q == [p EXCEPT !.leaves = @ \cap Named(names),
                            !.leftSent = section.left,
                            !.enteredSent = section.entered,
                            !.deltaTick = stamp]
  <2>1. AfterSection(p, names, section, now) = q
    BY <1>2 DEF AfterSection
  <2>2. /\ section.left \subseteq p.leaves \cap Named(names)
        /\ section.entered \subseteq p.enters
    BY <1>2, SectionIsPending
  <2>3. stamp \in Nat
    BY DEF NoTick
  <2> HIDE DEF stamp
  <2>4. p.leaves \subseteq Entity /\ p.enters \subseteq Entity
    BY DEF PeerState
  <2>5. /\ section.left \in SUBSET Entity
        /\ section.entered \in SUBSET Entity
    BY <2>2, <2>4
  <2>6. /\ q \in PeerState
        /\ q.set = p.set
        /\ q.leaves = p.leaves \cap Named(names)
        /\ q.enters = p.enters
        /\ q.leftSent = section.left
        /\ q.enteredSent = section.entered
        /\ q.acked = p.acked
        /\ q.generation = p.generation
        /\ q.inflight = p.inflight
    BY <2>3, <2>5 DEF PeerState
  <2> HIDE DEF q
  <2>7. PendingAgrees(q)
    BY <2>2, <2>6 DEF PendingAgrees
  <2> QED
    BY <2>1, <2>6, <2>7
<1> QED
  BY <1>1, <1>2

\* An echo is believed only up to what it says and what was minted.
LEMMA EchoKeeps ==
    ASSUME NEW p \in PeerState, NEW echo \in Nat
    PROVE  LET q == NoteInterestEcho(p, echo)
           IN  /\ q \in PeerState
               /\ q.generation = p.generation
               /\ q.acked = p.acked \/ q.acked <= echo
               /\ q.inflight.gen \in {p.inflight.gen, 0}
               /\ PendingAgrees(p) => PendingAgrees(q)
<1> DEFINE heard == IF echo < p.generation THEN echo ELSE p.generation
           acked == IF heard > p.acked THEN heard ELSE p.acked
           settled == p.inflight # NoTable /\ p.inflight.gen = acked
           due == p.fullDue /\ ~settled
           inflight == IF settled THEN NoTable ELSE p.inflight
           q == [p EXCEPT !.acked = acked, !.fullDue = due,
                          !.inflight = inflight]
<1>1. NoteInterestEcho(p, echo) = q
  BY DEF NoteInterestEcho
<1>2. p.generation \in Nat /\ p.acked \in Nat /\ p.inflight \in Table
      /\ p.fullDue \in BOOLEAN
  BY DEF PeerState
<1>3. acked \in Nat /\ (acked = p.acked \/ acked <= echo)
  BY <1>2
<1>4. inflight \in Table /\ inflight.gen \in {p.inflight.gen, 0}
  BY <1>2, NoTableType
<1>5. due \in BOOLEAN
  BY <1>2
<1> HIDE DEF acked, inflight, due
<1>6. /\ q \in PeerState
      /\ q.generation = p.generation
      /\ q.acked = acked
      /\ q.inflight = inflight
      /\ q.set = p.set
      /\ q.leaves = p.leaves
      /\ q.enters = p.enters
      /\ q.leftSent = p.leftSent
      /\ q.enteredSent = p.enteredSent
  BY <1>3, <1>4, <1>5 DEF PeerState
<1> HIDE DEF q
<1>7. PendingAgrees(p) => PendingAgrees(q)
  BY <1>6 DEF PendingAgrees
<1> QED
  BY <1>1, <1>3, <1>4, <1>6, <1>7

LEMMA ForgetKeeps ==
    ASSUME NEW p \in PeerState
    PROVE  LET q == ForgetInterest(p)
           IN  /\ q \in PeerState
               /\ q.generation = p.generation
               /\ q.acked = 0
               /\ q.inflight.gen \in {p.inflight.gen, 0}
               /\ PendingAgrees(p) => PendingAgrees(q)
<1> DEFINE r == [p EXCEPT !.seeded = FALSE, !.acked = 0]
<1>1. /\ r \in PeerState
      /\ r.generation = p.generation
      /\ r.acked = 0
      /\ r.inflight = p.inflight
      /\ PendingAgrees(p) => PendingAgrees(r)
  BY DEF PeerState, PendingAgrees
<1>2. ForgetInterest(p) = OweWholeInterestSet(r)
  BY DEF ForgetInterest
<1> HIDE DEF r
<1> QED
  BY <1>1, <1>2, OweKeeps DEF SameGenerations

-----------------------------------------------------------------------------
(* What each operation on the client's record preserves.                   *)

Bound(c) == c.mirror \subseteq Named(c.slots)

LEMMA IdsAreEntities ==
    ASSUME NEW names \in Names, NEW S \in SUBSET Slot
    PROVE  /\ IdsOf(names, S) \subseteq Entity
           /\ IdsOf(names, S) \subseteq Named(names)
  BY DEF IdsOf, Named, Names

\* A section changes the mirror, never the generation it stands at.
LEMMA ApplyDeltaKeeps ==
    ASSUME NEW c \in ClientState, NEW d \in Datagram, Bound(c)
    PROVE  LET q == ApplyInterestDelta(c, d)
           IN  /\ q \in ClientState
               /\ q.mirrorGen = c.mirrorGen
               /\ Bound(q)
<1> DEFINE gone == IdsOf(c.slots, d.left)
           come == IdsOf(c.slots, d.entered)
           want == c.wantInterest \/ ~Resolves(c, d.entered)
           mirror == (c.mirror \ gone) \cup come
           applied == [c EXCEPT !.mirror = mirror, !.wantInterest = want]
           asked == [c EXCEPT !.wantInterest = TRUE]
<1>1. ApplyInterestDelta(c, d) \in {applied, asked}
  BY DEF ApplyInterestDelta
<1>2. c.slots \in Names /\ d.left \in SUBSET Slot /\ d.entered \in SUBSET Slot
      /\ c.mirror \in SUBSET Entity
  BY DEF ClientState, Datagram
<1>3. come \subseteq Entity /\ come \subseteq Named(c.slots)
  BY <1>2, IdsAreEntities
<1>4. mirror \in SUBSET Entity /\ mirror \subseteq Named(c.slots)
  BY <1>2, <1>3 DEF Bound
<1>5. want \in BOOLEAN
  BY DEF Resolves, ClientState
<1> HIDE DEF mirror, want
<1>6. /\ applied \in ClientState
      /\ applied.mirrorGen = c.mirrorGen
      /\ applied.mirror = mirror
      /\ applied.slots = c.slots
  BY <1>4, <1>5 DEF ClientState
<1>7. /\ asked \in ClientState
      /\ asked.mirrorGen = c.mirrorGen
      /\ asked.mirror = c.mirror
      /\ asked.slots = c.slots
  BY DEF ClientState
<1> HIDE DEF applied, asked
<1> QED
  BY <1>1, <1>4, <1>6, <1>7 DEF Bound

\* A table moves the mirror's generation forwards, to its own and no further.
LEMMA ReceiveTableKeeps ==
    ASSUME NEW c \in ClientState, NEW t \in InterestTable, Bound(c)
    PROVE  LET q == ReceiveTable(c, t)
           IN  /\ q \in ClientState
               /\ q.mirrorGen \in {c.mirrorGen, t.gen}
               /\ c.mirrorGen <= q.mirrorGen
               /\ Bound(q)
<1> DEFINE resolved == Resolves(c, t.stated)
           ids == IdsOf(c.slots, t.stated)
           mirror == IF resolved THEN ids ELSE c.mirror \cup ids
           want == ~resolved
           adopted == [c EXCEPT !.mirror = mirror, !.mirrorGen = t.gen,
                                !.wantInterest = want]
           asked == [c EXCEPT !.wantInterest = TRUE]
<1>1. \/ ReceiveTable(c, t) \in {c, asked}
      \/ ReceiveTable(c, t) = adopted /\ ~(t.gen <= c.mirrorGen)
  BY DEF ReceiveTable, AdoptInterestTable
<1>2. c.slots \in Names /\ t.stated \in SUBSET Slot /\ t.gen \in Nat
      /\ c.mirror \in SUBSET Entity /\ c.mirrorGen \in Nat
  BY DEF ClientState, InterestTable
<1>3. ids \subseteq Entity /\ ids \subseteq Named(c.slots)
  BY <1>2, IdsAreEntities
<1>4. mirror \in SUBSET Entity /\ mirror \subseteq Named(c.slots)
  BY <1>2, <1>3 DEF Bound
<1>5. want \in BOOLEAN
  BY DEF Resolves
<1> HIDE DEF mirror, want
<1>6. /\ adopted \in ClientState
      /\ adopted.mirrorGen = t.gen
      /\ adopted.mirror = mirror
      /\ adopted.slots = c.slots
  BY <1>2, <1>4, <1>5 DEF ClientState
<1>7. /\ asked \in ClientState
      /\ asked.mirrorGen = c.mirrorGen
      /\ asked.mirror = c.mirror
      /\ asked.slots = c.slots
  BY DEF ClientState
<1> HIDE DEF adopted, asked
<1> QED
  BY <1>1, <1>2, <1>4, <1>6, <1>7 DEF Bound

LEMMA ReceiveManifestKeeps ==
    ASSUME NEW c \in ClientState, NEW m \in Manifest
    PROVE  LET q == ReceiveManifest(c, m)
           IN  /\ q \in ClientState
               /\ q.mirrorGen = c.mirrorGen
               /\ Bound(q)
<1> DEFINE mirror == c.mirror \cap Named(m.names)
           q == [c EXCEPT !.hasManifest = TRUE, !.slots = m.names,
                          !.mirror = mirror]
<1>1. ReceiveManifest(c, m) = q
  BY DEF ReceiveManifest
<1>2. mirror \in SUBSET Entity /\ mirror \subseteq Named(m.names)
  BY DEF ClientState
<1>3. m.names \in Names
  BY DEF Manifest
<1> HIDE DEF mirror
<1>4. /\ q \in ClientState
      /\ q.mirrorGen = c.mirrorGen
      /\ q.mirror = mirror
      /\ q.slots = m.names
  BY <1>2, <1>3 DEF ClientState
<1> HIDE DEF q
<1> QED
  BY <1>1, <1>2, <1>4 DEF Bound

-----------------------------------------------------------------------------
(* The channel of manifests and tables.                                    *)

\* No table in the sequence is at a generation above g.
TablesAtMost(s, g) ==
    \A i \in 1..Len(s) : s[i].kind = "table" => s[i].gen <= g

LEMMA TailAtMost ==
    ASSUME NEW s \in Seq(Manifest \cup InterestTable), s # <<>>, NEW g,
           TablesAtMost(s, g)
    PROVE  /\ Tail(s) \in Seq(Manifest \cup InterestTable)
           /\ TablesAtMost(Tail(s), g)
           /\ Head(s) \in Manifest \cup InterestTable
           /\ Head(s).kind = "table" => Head(s).gen <= g
  BY HeadTailProperties DEF TablesAtMost

LEMMA OneAtMost ==
    ASSUME NEW m \in Manifest \cup InterestTable, NEW g \in Nat,
           m.kind = "table" => m.gen <= g
    PROVE  /\ <<>> \in Seq(Manifest \cup InterestTable)
           /\ <<m>> \in Seq(Manifest \cup InterestTable)
           /\ TablesAtMost(<<>>, g)
           /\ TablesAtMost(<<m>>, g)
<1>1. /\ <<>> \in Seq(Manifest \cup InterestTable)
      /\ <<m>> \in Seq(Manifest \cup InterestTable)
  OBVIOUS
<1>2. Len(<<m>>) = 1 /\ <<m>>[1] = m /\ Len(<<>>) = 0
  OBVIOUS
<1> QED
  BY <1>1, <1>2 DEF TablesAtMost

LEMMA AppendAtMost ==
    ASSUME NEW s \in Seq(Manifest \cup InterestTable), NEW g \in Nat,
           NEW h \in Nat, TablesAtMost(s, g), g <= h,
           NEW t \in Seq(Manifest \cup InterestTable), TablesAtMost(t, h)
    PROVE  /\ s \o t \in Seq(Manifest \cup InterestTable)
           /\ TablesAtMost(s \o t, h)
<1> DEFINE Msg == Manifest \cup InterestTable
<1>1. /\ s \o t \in Seq(Msg)
      /\ Len(s \o t) = Len(s) + Len(t)
      /\ \A i \in 1..Len(s) + Len(t) :
           (s \o t)[i] = IF i <= Len(s) THEN s[i] ELSE t[i - Len(s)]
  BY ConcatProperties
<1>2. SUFFICES ASSUME NEW i \in 1..Len(s \o t), (s \o t)[i].kind = "table"
               PROVE  (s \o t)[i].gen <= h
  BY <1>1 DEF TablesAtMost
<1>3. CASE i <= Len(s)
  <2>1. i \in 1..Len(s) /\ (s \o t)[i] = s[i]
    BY <1>1, <1>3
  <2>2. s[i].gen <= g
    BY <1>2, <2>1 DEF TablesAtMost
  <2>3. s[i] \in Msg /\ s[i].kind = "table"
    BY <1>2, <2>1
  <2>4. s[i].gen \in Nat
    BY <2>3 DEF Manifest, InterestTable
  <2> QED
    BY <2>1, <2>2, <2>4
<1>4. CASE ~(i <= Len(s))
  <2>1. i - Len(s) \in 1..Len(t) /\ (s \o t)[i] = t[i - Len(s)]
    BY <1>1, <1>4
  <2> QED
    BY <1>2, <2>1 DEF TablesAtMost
<1> QED
  BY <1>3, <1>4

-----------------------------------------------------------------------------
(* Each action preserves the invariant.                                    *)

\* The invariant, in terms of the records the lemmas above are about.
LEMMA InvUnfolds ==
    /\ InductiveInv <=>
         /\ TypeOK
         /\ peer.acked <= client.mirrorGen
         /\ client.mirrorGen <= peer.generation
         /\ \A d \in down : d.carries => d.gen <= client.mirrorGen
         /\ peer.inflight.gen <= peer.generation
         /\ \A m \in up : m.echo <= client.mirrorGen
         /\ TablesAtMost(reliable, peer.generation)
         /\ PendingAgrees(peer)
         /\ Bound(client)
    /\ InductiveInv' <=>
         /\ TypeOK'
         /\ peer'.acked <= client'.mirrorGen
         /\ client'.mirrorGen <= peer'.generation
         /\ \A d \in down' : d.carries => d.gen <= client'.mirrorGen
         /\ peer'.inflight.gen <= peer'.generation
         /\ \A m \in up' : m.echo <= client'.mirrorGen
         /\ TablesAtMost(reliable', peer'.generation)
         /\ PendingAgrees(peer')
         /\ Bound(client')
  BY DEF InductiveInv, GenerationOrder, AckedIsHeld, SectionsAreNotEarly,
         PendingAgreesWithSet, MirrorIsBound, TablesAtMost, PendingAgrees, Bound

LEMMA InitInv == Init => InductiveInv
<1> SUFFICES ASSUME Init PROVE InductiveInv
  OBVIOUS
<1>1. Unnamed \in Names /\ [s \in Slot |-> NoTick] \in [Slot -> Nat]
  BY DEF Unnamed, Names, NoTick
<1>2. /\ FreshPeer \in PeerState
      /\ FreshPeer.acked = 0 /\ FreshPeer.generation = 0
      /\ FreshPeer.inflight.gen = 0
      /\ PendingAgrees(FreshPeer)
  BY NoTableType DEF FreshPeer, PeerState, NoTick, PendingAgrees
<1>3. /\ FreshClient(0) \in ClientState
      /\ FreshClient(0).mirrorGen = 0
      /\ Bound(FreshClient(0))
  BY <1>1 DEF FreshClient, ClientState, Bound
<1>4. TypeOK
  BY <1>1, <1>2, <1>3 DEF Init, TypeOK
<1>5. TablesAtMost(<<>>, 0)
  BY DEF TablesAtMost
<1> QED
  BY <1>2, <1>3, <1>4, <1>5, InvUnfolds DEF Init

\* An action that changes only the world and drops a member of the set.
LEMMA LosingAMemberKeepsInv ==
    ASSUME InductiveInv, NEW e \in Entity, peer' \in {peer, LoseMember(peer, e)},
           registered' \in SUBSET Entity, hidden' \in SUBSET Entity, churn' \in Nat,
           UNCHANGED <<tick, slots, freed, client, down, reliable, up, losses>>
    PROVE  InductiveInv'
<1>1. peer \in PeerState /\ PendingAgrees(peer)
  BY InvUnfolds DEF TypeOK
<1>2. /\ peer' \in PeerState
      /\ SameGenerations(peer, peer')
      /\ PendingAgrees(peer')
  <2>1. SameGenerations(peer, peer)
    BY DEF SameGenerations
  <2> QED
    BY <1>1, <2>1, LoseKeeps
<1>3. TypeOK'
  BY <1>2, InvUnfolds DEF TypeOK
<1>4. peer.generation \in Nat /\ peer'.inflight.gen <= peer'.generation
  BY <1>1, <1>2, InvUnfolds DEF PeerState, SameGenerations
<1> QED
  BY <1>2, <1>3, <1>4, InvUnfolds DEF SameGenerations

LEMMA WorldKeepsInv ==
    ASSUME InductiveInv, NEW e \in Entity,
           \/ Register(e) \/ Unregister(e) \/ Respawn(e)
           \/ Sweep(e) \/ Hide(e) \/ Unhide(e)
    PROVE  InductiveInv'
<1>1. registered \in SUBSET Entity /\ hidden \in SUBSET Entity /\ churn \in Nat
  BY InvUnfolds DEF TypeOK
<1>2. /\ peer' \in {peer, LoseMember(peer, e)}
      /\ registered' \in SUBSET Entity
      /\ hidden' \in SUBSET Entity
      /\ churn' \in Nat
      /\ UNCHANGED <<tick, slots, freed, client, down, reliable, up, losses>>
  BY <1>1 DEF Register, Unregister, Respawn, Sweep, Hide, Unhide, world
<1> QED
  BY <1>2, LosingAMemberKeepsInv

LEMMA HandleClientInputKeepsInv ==
    ASSUME InductiveInv, NEW m \in up, HandleClientInput(m)
    PROVE  InductiveInv'
<1> DEFINE heard == NoteInterestEcho(peer, m.echo)
           newest == IF m.ack > heard.newestAck THEN m.ack ELSE heard.newestAck
           due == heard.fullDue \/ m.wantInterest
           q == [heard EXCEPT !.newestAck = newest, !.fullDue = due]
<1>1. /\ peer \in PeerState /\ client \in ClientState /\ PendingAgrees(peer)
      /\ m \in Input
  BY InvUnfolds DEF TypeOK
<1>2. m.echo \in Nat /\ m.ack \in Nat /\ m.wantInterest \in BOOLEAN
      /\ m.echo <= client.mirrorGen
  BY <1>1, InvUnfolds DEF Input
<1>3. /\ heard \in PeerState
      /\ heard.generation = peer.generation
      /\ heard.acked = peer.acked \/ heard.acked <= m.echo
      /\ heard.inflight.gen \in {peer.inflight.gen, 0}
      /\ PendingAgrees(heard)
  BY <1>1, <1>2, EchoKeeps
<1> HIDE DEF heard
<1>4. newest \in Nat /\ due \in BOOLEAN
  BY <1>2, <1>3 DEF PeerState
<1> HIDE DEF newest, due
<1>5. /\ q \in PeerState
      /\ q.generation = heard.generation
      /\ q.acked = heard.acked
      /\ q.inflight = heard.inflight
      /\ q.set = heard.set
      /\ q.leaves = heard.leaves
      /\ q.enters = heard.enters
      /\ q.leftSent = heard.leftSent
      /\ q.enteredSent = heard.enteredSent
  BY <1>3, <1>4 DEF PeerState
<1>6. peer' = q
  BY DEF HandleClientInput, heard, newest, due
<1> HIDE DEF q
<1>7. PendingAgrees(peer')
  BY <1>3, <1>5, <1>6 DEF PendingAgrees
<1>8. /\ up' \subseteq up
      /\ UNCHANGED <<tick, registered, slots, freed, hidden, client, down,
                     reliable, churn, losses>>
  BY DEF HandleClientInput, world
<1>9. TypeOK'
  BY <1>5, <1>6, <1>8, InvUnfolds DEF TypeOK
<1>10. client.mirrorGen \in Nat /\ peer.generation \in Nat
       /\ peer.acked \in Nat /\ q.acked \in Nat
  BY <1>1, <1>5 DEF PeerState, ClientState
<1>11. q.acked <= client.mirrorGen
  BY <1>2, <1>3, <1>5, <1>10, InvUnfolds
<1>12. q.inflight.gen <= q.generation
  BY <1>3, <1>5, <1>10, InvUnfolds
<1> QED
  BY <1>3, <1>5, <1>6, <1>7, <1>8, <1>9, <1>11, <1>12, InvUnfolds

LEMMA RekeyKeepsInv ==
    ASSUME InductiveInv, Rekey
    PROVE  InductiveInv'
<1> DEFINE forgot == ForgetInterest(peer)
           q == [forgot EXCEPT !.manifest = FALSE]
<1>1. peer \in PeerState /\ PendingAgrees(peer) /\ tick \in Nat /\ churn \in Nat
  BY InvUnfolds DEF TypeOK
<1>2. /\ forgot \in PeerState
      /\ forgot.generation = peer.generation
      /\ forgot.acked = 0
      /\ forgot.inflight.gen \in {peer.inflight.gen, 0}
      /\ PendingAgrees(forgot)
  BY <1>1, ForgetKeeps
<1> HIDE DEF forgot
<1>3. /\ q \in PeerState
      /\ q.generation = forgot.generation
      /\ q.acked = forgot.acked
      /\ q.inflight = forgot.inflight
      /\ q.set = forgot.set
      /\ q.leaves = forgot.leaves
      /\ q.enters = forgot.enters
      /\ q.leftSent = forgot.leftSent
      /\ q.enteredSent = forgot.enteredSent
  BY <1>2 DEF PeerState
<1> HIDE DEF q
<1>4. PendingAgrees(q)
  BY <1>2, <1>3 DEF PendingAgrees
<1>5. /\ FreshClient(tick) \in ClientState
      /\ FreshClient(tick).mirrorGen = 0
      /\ Bound(FreshClient(tick))
  BY <1>1 DEF FreshClient, ClientState, Bound, Unnamed, Names
<1>6. /\ peer' = q
      /\ client' = FreshClient(tick)
      /\ down' = {} /\ reliable' = <<>> /\ up' = {}
      /\ churn' \in Nat
      /\ UNCHANGED <<tick, registered, slots, freed, hidden, losses>>
  BY <1>1 DEF Rekey, world, q, forgot
<1>7. TypeOK'
  BY <1>3, <1>5, <1>6, InvUnfolds DEF TypeOK
<1>8. TablesAtMost(<<>>, q.generation)
  BY DEF TablesAtMost
<1>9. peer.generation \in Nat /\ q.inflight.gen <= q.generation
  BY <1>1, <1>2, <1>3, InvUnfolds DEF PeerState
<1> QED
  BY <1>2, <1>3, <1>4, <1>5, <1>6, <1>7, <1>8, <1>9, InvUnfolds

LEMMA HandleSnapshotKeepsInv ==
    ASSUME InductiveInv, NEW d \in down, HandleSnapshot(d)
    PROVE  InductiveInv'
<1> DEFINE newest == IF d.tick > client.newest THEN d.tick ELSE client.newest
           seen == [client EXCEPT !.unacked = TRUE, !.newest = newest]
<1>1. client \in ClientState /\ d \in Datagram /\ Bound(client)
  BY InvUnfolds DEF TypeOK
<1>2. newest \in Nat
  BY <1>1 DEF ClientState, Datagram
<1> HIDE DEF newest
<1>3. /\ seen \in ClientState
      /\ seen.mirrorGen = client.mirrorGen
      /\ seen.mirror = client.mirror
      /\ seen.slots = client.slots
  BY <1>1, <1>2 DEF ClientState
<1>4. /\ client' \in {seen, ApplyInterestDelta(seen, d)}
      /\ down' \subseteq down
      /\ UNCHANGED <<tick, registered, slots, freed, hidden, peer, reliable, up,
                     churn, losses>>
  BY DEF HandleSnapshot, world, newest
<1> HIDE DEF seen
<1>5. Bound(seen)
  BY <1>1, <1>3 DEF Bound
<1>6. client' \in ClientState /\ client'.mirrorGen = client.mirrorGen /\ Bound(client')
  BY <1>1, <1>3, <1>4, <1>5, ApplyDeltaKeeps
<1>7. TypeOK'
  BY <1>4, <1>6, InvUnfolds DEF TypeOK
<1> QED
  BY <1>4, <1>6, <1>7, InvUnfolds

LEMMA HandleReliableKeepsInv ==
    ASSUME InductiveInv, HandleReliable
    PROVE  InductiveInv'
<1> DEFINE m == Head(reliable)
<1>1. /\ reliable \in Seq(Manifest \cup InterestTable)
      /\ TablesAtMost(reliable, peer.generation)
      /\ client \in ClientState /\ Bound(client) /\ peer \in PeerState
      /\ reliable # <<>>
  BY InvUnfolds DEF TypeOK, HandleReliable
<1>2. /\ Tail(reliable) \in Seq(Manifest \cup InterestTable)
      /\ TablesAtMost(Tail(reliable), peer.generation)
      /\ m \in Manifest \cup InterestTable
      /\ m.kind = "table" => m.gen <= peer.generation
  BY <1>1, TailAtMost
<1>3. /\ reliable' = Tail(reliable)
      /\ client' = IF m.kind = "table" THEN ReceiveTable(client, m)
                                       ELSE ReceiveManifest(client, m)
      /\ UNCHANGED <<tick, registered, slots, freed, hidden, peer, down, up, churn,
                     losses>>
  BY DEF HandleReliable, world
<1> HIDE DEF m
<1>4. /\ client' \in ClientState
      /\ Bound(client')
      /\ client.mirrorGen <= client'.mirrorGen
      /\ client'.mirrorGen <= peer.generation
  <2>1. CASE m.kind = "table"
    <3>1. m \in InterestTable
      BY <1>2, <2>1 DEF Manifest
    <3> QED
      BY <1>1, <1>2, <1>3, <2>1, <3>1, ReceiveTableKeeps, InvUnfolds
  <2>2. CASE m.kind # "table"
    <3>1. m \in Manifest
      BY <1>2, <2>2 DEF InterestTable
    <3>2. client.mirrorGen \in Nat
      BY <1>1 DEF ClientState
    <3> QED
      BY <1>1, <1>3, <2>2, <3>1, <3>2, ReceiveManifestKeeps, InvUnfolds
  <2> QED
    BY <2>1, <2>2
<1>5. TypeOK'
  BY <1>2, <1>3, <1>4, InvUnfolds DEF TypeOK
<1>6. client.mirrorGen \in Nat /\ client'.mirrorGen \in Nat /\ peer.acked \in Nat
  BY <1>1, <1>4 DEF ClientState, PeerState
<1>7. \A d \in down : d.carries => d.gen <= client'.mirrorGen
  <2>1. \A d \in down : d.gen \in Nat
    BY InvUnfolds DEF TypeOK, Datagram
  <2> QED
    BY <1>4, <1>6, <2>1, InvUnfolds
<1>8. \A i \in up : i.echo <= client'.mirrorGen
  <2>1. \A i \in up : i.echo \in Nat
    BY InvUnfolds DEF TypeOK, Input
  <2> QED
    BY <1>4, <1>6, <2>1, InvUnfolds
<1>9. peer.acked <= client'.mirrorGen
  BY <1>4, <1>6, InvUnfolds
<1> QED
  BY <1>2, <1>3, <1>4, <1>5, <1>7, <1>8, <1>9, InvUnfolds

LEMMA ClientFlushKeepsInv ==
    ASSUME InductiveInv, ClientFlush
    PROVE  InductiveInv'
<1> DEFINE owed == \/ Drives
                   \/ client.unacked
                   \/ client.mirrorGen # client.echoed
                   \/ client.wantInterest
           input == [ack |-> client.newest, echo |-> client.mirrorGen,
                     wantInterest |-> client.wantInterest, at |-> tick]
           unacked == client.unacked /\ ~owed
           echoed == IF owed THEN client.mirrorGen ELSE client.echoed
           q == [client EXCEPT !.at = tick, !.unacked = unacked, !.echoed = echoed]
<1>1. client \in ClientState /\ tick \in Nat /\ Bound(client)
  BY InvUnfolds DEF TypeOK
<1>2. input \in Input /\ input.echo = client.mirrorGen
  BY <1>1 DEF ClientState, Input
<1>3. /\ client' = q
      /\ up' = IF owed THEN up \cup {input} ELSE up
      /\ UNCHANGED <<tick, registered, slots, freed, hidden, peer, down, reliable,
                     churn, losses>>
  BY DEF ClientFlush, world
<1>4. unacked \in BOOLEAN /\ echoed \in Nat
  BY <1>1 DEF ClientState
<1> HIDE DEF unacked, echoed, owed, input
<1>5. /\ q \in ClientState
      /\ q.mirrorGen = client.mirrorGen
      /\ q.mirror = client.mirror
      /\ q.slots = client.slots
  BY <1>1, <1>4 DEF ClientState
<1> HIDE DEF q
<1>6. TypeOK'
  BY <1>2, <1>3, <1>5, InvUnfolds DEF TypeOK
<1>7. client.mirrorGen \in Nat
  BY <1>1 DEF ClientState
<1>8. \A m \in up' : m.echo <= client'.mirrorGen
  BY <1>2, <1>3, <1>5, <1>7, InvUnfolds
<1> QED
  BY <1>3, <1>5, <1>6, <1>8, InvUnfolds DEF Bound

LEMMA LossKeepsInv ==
    ASSUME InductiveInv,
           \/ \E d \in down : LoseSnapshot(d)
           \/ \E m \in up : LoseInput(m)
           \/ LoseTable
    PROVE  InductiveInv'
<1>1. losses \in Nat
  BY InvUnfolds DEF TypeOK
<1>2. CASE LoseTable
  <2>1. /\ reliable' = Tail(reliable) /\ reliable # <<>> /\ losses' \in Nat
        /\ UNCHANGED <<tick, registered, slots, freed, hidden, peer, client, down,
                       up, churn>>
    BY <1>1, <1>2 DEF LoseTable, world
  <2>2. /\ reliable' \in Seq(Manifest \cup InterestTable)
        /\ TablesAtMost(reliable', peer.generation)
    BY <2>1, TailAtMost, InvUnfolds DEF TypeOK
  <2>3. TypeOK'
    BY <2>1, <2>2, InvUnfolds DEF TypeOK
  <2> QED
    BY <2>1, <2>2, <2>3, InvUnfolds
<1>3. CASE \/ \E d \in down : LoseSnapshot(d)
           \/ \E m \in up : LoseInput(m)
  <2>1. /\ down' \subseteq down /\ up' \subseteq up /\ losses' \in Nat
        /\ UNCHANGED <<tick, registered, slots, freed, hidden, peer, client,
                       reliable, churn>>
    BY <1>1, <1>3 DEF LoseSnapshot, LoseInput, world
  <2>2. TypeOK'
    BY <2>1, InvUnfolds DEF TypeOK
  <2> QED
    BY <2>1, <2>2, InvUnfolds
<1> QED
  BY <1>2, <1>3

\* Every datagram of a flush is well formed, and one that carries a section
\* carries it at the generation the gate was open on.
LEMMA DatagramsKeep ==
    ASSUME NEW p \in PeerState, NEW names \in Names, NEW section,
           NEW filled \in Nat, NEW gateShut, NEW now \in Nat
    PROVE  \A d \in Datagrams(p, names, section, filled, gateShut, now) :
             /\ d \in Datagram
             /\ d.carries => d.gen = p.acked
<1> DEFINE carries == Carries(p, section)
           gen == IF carries THEN p.generation ELSE 0
           left == SlotsOf(names, section.left)
           entered == SlotsOf(names, section.entered)
           first == [tick |-> now, pass |-> 0, carries |-> carries, gen |-> gen,
                     left |-> left, entered |-> entered]
           later(i) == [tick |-> now, pass |-> i, carries |-> FALSE, gen |-> 0,
                        left |-> {}, entered |-> {}]
<1>1. \A d \in Datagrams(p, names, section, filled, gateShut, now) :
        d = first \/ \E i \in 1..filled - 1 : d = later(i)
  BY DEF Datagrams
<1>2. gen \in Nat /\ carries \in BOOLEAN
  BY DEF PeerState, Carries, GateOpen
<1>3. carries => gen = p.acked
  BY DEF Carries, GateOpen
<1>4. left \in SUBSET Slot /\ entered \in SUBSET Slot
  BY DEF SlotsOf
<1> HIDE DEF carries, gen, left, entered
<1>5. first \in Datagram /\ (first.carries => first.gen = p.acked)
  BY <1>2, <1>3, <1>4 DEF Datagram
<1>6. ASSUME NEW i \in 1..filled - 1
      PROVE  later(i) \in Datagram /\ ~later(i).carries
  BY DEF Datagram
<1> QED
  BY <1>1, <1>5, <1>6

LEMMA ServerFlushKeepsInv ==
    ASSUME InductiveInv, NEW passes \in 1..MaxPasses, NEW names \in Names,
           NEW members \in SUBSET (registered \ hidden), NEW filled \in 0..passes,
           ServerFlush(passes, names, members, filled)
    PROVE  InductiveInv'
<1> DEFINE now == tick + passes
           filtered == UpdateInterest(peer, members)
           due == InterestTableDue(filtered, now)
           sent == InterestTableToSend(filtered, names, now)
           tabled == IF due THEN sent ELSE filtered
           base == SectionBase(tabled, now)
           manifest == [kind |-> "manifest", names |-> names, at |-> now]
           stated == SlotsOf(tabled.inflight.pairs, Entity)
           table == [kind |-> "table", gen |-> tabled.inflight.gen, at |-> now,
                     stated |-> stated]
           owed == ManifestOwed(names)
           first == IF owed THEN <<manifest>> ELSE <<>>
           second == IF due THEN <<table>> ELSE <<>>
           shut == tabled.acked # tabled.generation
<1>1. /\ peer \in PeerState /\ client \in ClientState /\ PendingAgrees(peer)
      /\ tick \in Nat /\ churn \in Nat /\ freed \in [Slot -> Nat]
      /\ registered \in SUBSET Entity
      /\ reliable \in Seq(Manifest \cup InterestTable)
      /\ TablesAtMost(reliable, peer.generation)
  BY InvUnfolds DEF TypeOK
<1>2. MaxPasses \in Nat
  BY ConstantsAssumption
<1>3. passes \in Nat /\ now \in Nat /\ filled \in Nat /\ members \in SUBSET Entity
  BY <1>1, <1>2
<1>4. PICK section \in Sections(base, names) :
        /\ peer' = [AfterSection(base, names, section, now) EXCEPT
                      !.manifest = @ \/ owed]
        /\ down' = down \cup Datagrams(base, names, section, filled, shut, now)
  BY DEF ServerFlush
<1>5. /\ tick' = now
      /\ slots' = names
      /\ freed' = FreedAfter(slots, names, freed, now)
      /\ reliable' = reliable \o first \o second
      /\ churn' \in Nat
      /\ UNCHANGED <<registered, hidden, client, up, losses>>
  BY <1>1 DEF ServerFlush
<1> HIDE DEF now, owed
<1>6. /\ filtered \in PeerState
      /\ SameGenerations(peer, filtered)
      /\ PendingAgrees(filtered)
  BY <1>1, <1>3, UpdateKeeps
<1>7. peer.generation \in Nat /\ peer.acked \in Nat
  BY <1>1 DEF PeerState
<1>8. filtered.inflight.gen <= filtered.generation
  BY <1>6, <1>7, InvUnfolds DEF SameGenerations
<1> HIDE DEF filtered
<1>9. /\ tabled \in PeerState
      /\ PendingAgrees(tabled)
      /\ tabled.acked = peer.acked
      /\ peer.generation <= tabled.generation
      /\ tabled.inflight.gen <= tabled.generation
  <2>1. /\ sent \in PeerState
        /\ PendingAgrees(sent)
        /\ sent.acked = filtered.acked
        /\ filtered.generation <= sent.generation
        /\ sent.inflight.gen <= sent.generation
    BY <1>3, <1>6, <1>8, TableToSendKeeps
  <2> HIDE DEF sent, due
  <2> QED
    BY <1>6, <1>7, <1>8, <2>1 DEF SameGenerations
<1> HIDE DEF tabled, due
<1>10. /\ base \in PeerState
       /\ SameGenerations(tabled, base)
       /\ PendingAgrees(base)
  BY <1>3, <1>9, SectionBaseKeeps
<1>11. base.generation \in Nat /\ base.acked = peer.acked
       /\ peer.generation <= base.generation
       /\ base.inflight.gen <= base.generation
       /\ tabled.inflight.gen <= base.generation
       /\ tabled.inflight.gen \in Nat
  BY <1>7, <1>9, <1>10 DEF SameGenerations, PeerState, Table
<1> HIDE DEF base
<1> DEFINE after == AfterSection(base, names, section, now)
           q == [after EXCEPT !.manifest = @ \/ owed]
<1>12. /\ after \in PeerState
       /\ PendingAgrees(after)
       /\ after.acked = base.acked
       /\ after.generation = base.generation
       /\ after.inflight = base.inflight
  BY <1>3, <1>4, <1>10, AfterSectionKeeps
<1>13. owed \in BOOLEAN
  BY DEF owed, ManifestOwed
<1>14. peer' = q
  BY <1>4
<1> HIDE DEF after
<1>15. /\ q \in PeerState
       /\ q.generation = after.generation
       /\ q.acked = after.acked
       /\ q.inflight = after.inflight
       /\ q.set = after.set
       /\ q.leaves = after.leaves
       /\ q.enters = after.enters
       /\ q.leftSent = after.leftSent
       /\ q.enteredSent = after.enteredSent
  BY <1>12, <1>13 DEF PeerState
<1> HIDE DEF q
<1>16. PendingAgrees(q)
  BY <1>12, <1>15 DEF PendingAgrees
<1>17. \A d \in down' : d \in Datagram /\ (d.carries => d.gen <= client.mirrorGen)
  <2>1. \A d \in down : d \in Datagram /\ (d.carries => d.gen <= client.mirrorGen)
    BY InvUnfolds DEF TypeOK
  <2>2. \A d \in Datagrams(base, names, section, filled, shut, now) :
          d \in Datagram /\ (d.carries => d.gen = base.acked)
    BY <1>3, <1>10, DatagramsKeep
  <2>3. base.acked <= client.mirrorGen
    BY <1>11, InvUnfolds
  <2> QED
    BY <1>4, <2>1, <2>2, <2>3
<1>18. /\ reliable' \in Seq(Manifest \cup InterestTable)
       /\ TablesAtMost(reliable', base.generation)
  <2>1. manifest \in Manifest /\ manifest.kind = "manifest"
    BY <1>3 DEF Manifest
  <2>2. table \in InterestTable /\ table.gen <= base.generation
    <3>1. stated \in SUBSET Slot
      BY DEF SlotsOf
    <3> HIDE DEF stated
    <3> QED
      BY <1>3, <1>11, <3>1 DEF InterestTable
  <2> HIDE DEF manifest, table
  <2>3. first \in Seq(Manifest \cup InterestTable) /\ TablesAtMost(first, peer.generation)
    <3>1. manifest \in Manifest \cup InterestTable /\ manifest.kind # "table"
      BY <2>1
    <3> QED
      BY <1>7, <3>1, OneAtMost
  <2>4. second \in Seq(Manifest \cup InterestTable) /\ TablesAtMost(second, base.generation)
    <3>1. table \in Manifest \cup InterestTable
      BY <2>2
    <3> QED
      BY <1>11, <2>2, <3>1, OneAtMost
  <2> HIDE DEF first, second
  <2>5. /\ reliable \o first \in Seq(Manifest \cup InterestTable)
        /\ TablesAtMost(reliable \o first, peer.generation)
    <3>1. peer.generation <= peer.generation
      BY <1>7
    <3> QED
      BY <1>1, <1>7, <2>3, <3>1, AppendAtMost
  <2>6. /\ (reliable \o first) \o second \in Seq(Manifest \cup InterestTable)
        /\ TablesAtMost((reliable \o first) \o second, base.generation)
    BY <1>7, <1>11, <2>4, <2>5, AppendAtMost
  <2> QED
    BY <1>5, <2>6
<1>19. freed' \in [Slot -> Nat]
  BY <1>1, <1>3, <1>5 DEF FreedAfter, NoTick
<1>20. TypeOK'
  BY <1>3, <1>5, <1>14, <1>15, <1>17, <1>18, <1>19, InvUnfolds DEF TypeOK
<1>21. client.mirrorGen \in Nat /\ client.mirrorGen <= base.generation
  BY <1>1, <1>7, <1>11, InvUnfolds DEF ClientState
<1> QED
  BY <1>5, <1>11, <1>12, <1>14, <1>15, <1>16, <1>17, <1>18, <1>20, <1>21, InvUnfolds

-----------------------------------------------------------------------------

LEMMA StepKeepsInv == InductiveInv /\ [Next]_vars => InductiveInv'
<1> SUFFICES ASSUME InductiveInv, [Next]_vars PROVE InductiveInv'
  OBVIOUS
<1>1. CASE Flush
  BY <1>1, ServerFlushKeepsInv DEF Flush
<1>2. CASE \E e \in Entity : \/ Register(e) \/ Unregister(e) \/ Respawn(e)
                              \/ Sweep(e) \/ Hide(e) \/ Unhide(e)
  BY <1>2, WorldKeepsInv
<1>3. CASE \E m \in up : HandleClientInput(m)
  BY <1>3, HandleClientInputKeepsInv
<1>4. CASE Rekey
  BY <1>4, RekeyKeepsInv
<1>5. CASE \E d \in down : HandleSnapshot(d)
  BY <1>5, HandleSnapshotKeepsInv
<1>6. CASE HandleReliable
  BY <1>6, HandleReliableKeepsInv
<1>7. CASE ClientFlush
  BY <1>7, ClientFlushKeepsInv
<1>8. CASE \/ \E d \in down : LoseSnapshot(d)
           \/ \E m \in up : LoseInput(m)
           \/ LoseTable
  BY <1>8, LossKeepsInv
<1>9. CASE UNCHANGED vars
  BY <1>9, InvUnfolds DEF vars, TypeOK
<1> QED
  BY <1>1, <1>2, <1>3, <1>4, <1>5, <1>6, <1>7, <1>8, <1>9 DEF Next

(* Every reachable state satisfies the strengthened invariant.             *)
THEOREM InductiveInvariance == Spec => []InductiveInv
  BY InitInv, StepKeepsInv, PTL DEF Spec

(* The protocol state of both ends stays well formed, whatever is lost.    *)
THEOREM TypeCorrectness == Spec => []TypeOK
<1>1. InductiveInv => TypeOK
  BY DEF InductiveInv
<1> QED
  BY <1>1, InductiveInvariance, PTL

(* What each end believes of the other is true, whatever is lost,          *)
(* reordered or restarted and however many datagrams a flush has: the gate *)
(* opens on no generation the client does not hold, no section was built   *)
(* on a set the client has yet to adopt, what is queued agrees with the    *)
(* set, and the mirror never outlives the manifest that named its entries. *)
THEOREM LaneSoundness == Spec => []LaneIsSound
<1>1. InductiveInv => LaneIsSound
  BY DEF InductiveInv, GenerationOrder, LaneIsSound
<1> QED
  BY <1>1, InductiveInvariance, PTL
=============================================================================
