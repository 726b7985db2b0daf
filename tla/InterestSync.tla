----------------------------- MODULE InterestSync -----------------------------
(***************************************************************************)
(* The interest lane of one connection: how a server tells a client which  *)
(* entities it is being sent, and how the two ends repair a disagreement.  *)
(*                                                                         *)
(* The server holds an interest set per peer (PeerState::interest).  Every *)
(* change is queued on one of two pending halves and ridden out as a       *)
(* trailing section of an UNRELIABLE snapshot frame; a prefix in flight is *)
(* re-sent on every frame until an ack reaches its stamp.  Whenever that   *)
(* cannot be trusted the server owes a whole set: an InterestTable on the  *)
(* RELIABLE channel, at a fresh generation, which shuts the section gate   *)
(* until the client echoes that generation.  The client keeps a mirror.    *)
(*                                                                         *)
(* Abstractions.                                                           *)
(*  - A frame names an entity by its wire slot, and the client resolves a  *)
(*    slot through the manifest it holds.  Which free slot an entity gets  *)
(*    is left open; module SlotTable has the order.                        *)
(*  - The manifest is a whole table on the ordered channel and is not      *)
(*    lost; a delta applied in order yields the same table.                *)
(*  - A pending half is the set of its entries; the prefix in flight is    *)
(*    the subset leftSent / enteredSent.  PendingQueue has the vector and  *)
(*    its prefix length, and shows that they implement such sets.          *)
(*  - The interest filter is an environment that may choose any subset of  *)
(*    the registered entities that are not vetoed.                         *)
(*  - A frame is delivered at most once: the replay window refuses copies. *)
(*  - Entity blocks matter only in that a frame carrying one is sent.      *)
(***************************************************************************)
EXTENDS SlotNaming, Sequences

CONSTANTS
    RetryTicks,   \* INTEREST_DELTA_RETRY_TICKS
    PerFrame,     \* INTEREST_DELTA_PER_FRAME
    PendingMax,   \* INTEREST_DELTA_PENDING_MAX
    MaxPasses,    \* ticks one process frame may advance: its datagrams
    Drives,       \* does the client drive a body (send input every frame)?
    Lag,          \* bound: a message or a client frame is at most this late
    MaxTick,      \* bound on the server's tick
    MaxChurn,     \* bound on changes of the world and on client restarts
    MaxLoss,      \* bound on lost datagrams
    QuietTick     \* bound: nothing changes or is lost from this tick on

ASSUME ConstantsAssumption ==
    /\ IsFiniteSet(Entity)
    /\ RetryTicks \in Nat \ {0}
    /\ PerFrame \in Nat \ {0}
    /\ PendingMax \in Nat
    /\ MaxPasses \in Nat \ {0}
    /\ Drives \in BOOLEAN
    /\ Lag \in Nat \ {0}
    /\ MaxTick \in Nat
    /\ MaxChurn \in Nat
    /\ MaxLoss \in Nat
    /\ QuietTick \in Nat

NoTable == [gen |-> 0, pairs |-> Unnamed]    \* no whole set in flight

VARIABLES
    tick,         \* the server's tick
    registered,   \* entities in the server's registries
    slots,        \* the server's slot table, as published
    freed,        \* the tick each slot was last freed at, NoTick if never
    hidden,       \* entities vetoed for this peer
    peer,         \* the interest fields of the server's PeerState
    client,       \* the client's mirror, its manifest and what it owes
    down,         \* snapshot datagrams in flight
    reliable,     \* manifests and interest tables in flight, in order
    up,           \* client input datagrams in flight
    churn,        \* changes made so far
    losses        \* datagrams lost so far

vars == <<tick, registered, slots, freed, hidden, peer, client, down,
          reliable, up, churn, losses>>

world == <<registered, slots, freed, hidden>>

Table == [gen : Nat, pairs : Names]

PeerState ==
    [ set         : SUBSET Entity,   \* interest
      leaves      : SUBSET Entity,   \* interest_pending.leaves
      enters      : SUBSET Entity,   \* interest_pending.enters
      leftSent    : SUBSET Entity,   \* the leaves of the prefix in flight
      enteredSent : SUBSET Entity,   \* the enters of the prefix in flight
      deltaTick   : Nat,             \* interest_delta_tick
      seeded      : BOOLEAN,         \* interest_seeded
      generation  : Nat,             \* interest_generation
      acked       : Nat,             \* interest_generation_acked
      tableTick   : Nat,             \* interest_table_tick
      inflight    : Table,           \* interest_table_inflight
      fullDue     : BOOLEAN,         \* interest_full_due
      newestAck   : Nat,             \* newest_ack
      manifest    : BOOLEAN ]        \* holds the published manifest

ClientState ==
    [ mirror       : SUBSET Entity,  \* interest_mirror
      mirrorGen    : Nat,            \* interest_mirror_generation
      echoed       : Nat,            \* interest_generation_echoed
      wantInterest : BOOLEAN,        \* want_interest
      newest       : Nat,            \* newest_snapshot_tick
      unacked      : BOOLEAN,        \* snapshot_unacked
      hasManifest  : BOOLEAN,        \* manifest_generation # 0
      slots        : Names,          \* what its manifest names
      at           : Nat ]           \* the tick of its last network flush

Datagram == [tick : Nat, pass : Nat, carries : BOOLEAN, gen : Nat,
             left : SUBSET Slot, entered : SUBSET Slot]

Manifest == [kind : {"manifest"}, names : Names, at : Nat]

InterestTable == [kind : {"table"}, gen : Nat, stated : SUBSET Slot, at : Nat]

Input == [ack : Nat, echo : Nat, wantInterest : BOOLEAN, at : Nat]

(* One type invariant: every piece of protocol state stays well formed.    *)
TypeOK ==
    /\ tick \in Nat
    /\ registered \subseteq Entity
    /\ slots \in Names
    /\ freed \in [Slot -> Nat]
    /\ hidden \subseteq Entity
    /\ peer \in PeerState
    /\ client \in ClientState
    /\ down \subseteq Datagram
    /\ reliable \in Seq(Manifest \cup InterestTable)
    /\ up \subseteq Input
    /\ churn \in Nat
    /\ losses \in Nat

FreshPeer ==
    [set |-> {}, leaves |-> {}, enters |-> {}, leftSent |-> {},
     enteredSent |-> {}, deltaTick |-> NoTick, seeded |-> FALSE,
     generation |-> 0, acked |-> 0, tableTick |-> NoTick,
     inflight |-> NoTable, fullDue |-> FALSE, newestAck |-> 0,
     manifest |-> FALSE]

FreshClient(now) ==
    [mirror |-> {}, mirrorGen |-> 0, echoed |-> 0, wantInterest |-> FALSE,
     newest |-> 0, unacked |-> FALSE, hasManifest |-> FALSE,
     slots |-> Unnamed, at |-> now]

\* A connection whose handshake has just completed.
Init ==
    /\ tick = 0
    /\ registered = Entity
    /\ slots = Unnamed
    /\ freed = [s \in Slot |-> NoTick]
    /\ hidden = {}
    /\ peer = FreshPeer
    /\ client = FreshClient(0)
    /\ down = {}
    /\ reliable = <<>>
    /\ up = {}
    /\ churn = 0
    /\ losses = 0

MayChurn == churn < MaxChurn /\ tick < QuietTick

MayLose == losses < MaxLoss /\ tick < QuietTick

-----------------------------------------------------------------------------
(* PeerState's own rules, as functions of the record.                      *)

\* A whole set is owed.  The copy in flight predates the cause and goes; the
\* retry stamp is cleared only for a demand arising where none stood.
OweWholeInterestSet(p) ==
    [p EXCEPT !.tableTick = IF p.fullDue THEN @ ELSE NoTick,
              !.fullDue = TRUE,
              !.inflight = NoTable]

\* push_pending answers "overflowed" when a half already held its maximum.
OweIfOverflowed(p, pushed, half) ==
    IF pushed # {} /\ Cardinality(half) > PendingMax
    THEN OweWholeInterestSet(p) ELSE p

NoteInterestLeave(p, ids) ==
    LET q == [p EXCEPT !.enters = @ \ ids,
                       !.enteredSent = @ \ ids,
                       !.leaves = @ \cup ids]
    IN  OweIfOverflowed(q, ids, q.leaves)

\* Mutant: the entity's pending leave is not taken back.
NoteInterestEnterKeepingLeave(p, ids) ==
    LET q == [p EXCEPT !.enters = @ \cup ids]
    IN  OweIfOverflowed(q, ids, q.enters)

NoteInterestEnter(p, ids) ==
    LET q == [p EXCEPT !.leaves = @ \ ids,
                       !.leftSent = @ \ ids,
                       !.enters = @ \cup ids]
    IN  OweIfOverflowed(q, ids, q.enters)

\* A peer stops holding an entity it held: forget_entity, set_entity_hidden.
LoseMember(p, e) ==
    IF e \in p.set
    THEN [NoteInterestLeave(p, {e}) EXCEPT !.set = @ \ {e}]
    ELSE p

\* The filter's verdict for one flush: update_interest.
UpdateInterest(p, members) ==
    LET left == NoteInterestLeave(p, p.set \ members)
        both == NoteInterestEnter(left, members \ p.set)
    IN  [both EXCEPT !.set = members]

\* An echo raises the acknowledged generation, never past what was minted,
\* and settles the demand only if it names the set in flight.
NoteInterestEcho(p, echo) ==
    LET heard == IF echo < p.generation THEN echo ELSE p.generation
        acked == IF heard > p.acked THEN heard ELSE p.acked
        settled == p.inflight # NoTable /\ p.inflight.gen = acked
    IN  [p EXCEPT !.acked = acked,
                  !.fullDue = @ /\ ~settled,
                  !.inflight = IF settled THEN NoTable ELSE @]

\* Mutant: the acknowledged generation survives the rekey.
ForgetInterestKeepingAck(p) ==
    OweWholeInterestSet([p EXCEPT !.seeded = FALSE])

\* A rekey: the client's mirror is gone, so nothing it acknowledged stands.
ForgetInterest(p) ==
    OweWholeInterestSet([p EXCEPT !.seeded = FALSE, !.acked = 0])

\* Mutant: an off-by-one in the test of the ack against the stamp.
RetireInterestDeltaEarly(p, now) ==
    IF p.deltaTick = NoTick \/ p.newestAck + 1 < p.deltaTick THEN p
    ELSE [p EXCEPT !.leaves = @ \ p.leftSent,
                   !.enters = @ \ p.enteredSent,
                   !.leftSent = {},
                   !.enteredSent = {},
                   !.deltaTick = NoTick,
                   !.seeded = TRUE]

\* The prefix in flight is retired by an ack that reaches its stamp, or given
\* up after the retry window, which owes a whole set.
RetireInterestDelta(p, now) ==
    LET acked == p.newestAck >= p.deltaTick
        given == IF acked THEN p ELSE OweWholeInterestSet(p)
    IN  IF \/ p.deltaTick = NoTick
           \/ ~acked /\ now < p.deltaTick + RetryTicks
        THEN p
        ELSE [given EXCEPT !.leaves = @ \ p.leftSent,
                           !.enters = @ \ p.enteredSent,
                           !.leftSent = {},
                           !.enteredSent = {},
                           !.deltaTick = NoTick,
                           !.seeded = TRUE]

\* Mutant: the table is sent once and never again.
InterestTableDueOnce(p, now) == p.fullDue /\ p.tableTick = NoTick

InterestTableDue(p, now) ==
    /\ p.fullDue
    /\ p.tableTick = NoTick \/ now >= p.tableTick + RetryTicks

\* Mutant: a table on the reliable channel is taken as delivered.
StateWholeInterestSetTrusting(p, names) ==
    [p EXCEPT !.generation = @ + 1,
              !.acked = p.generation + 1,
              !.inflight = [gen |-> p.generation + 1,
                            pairs |-> [s \in Slot |-> IF names[s] \in p.set
                                                      THEN names[s]
                                                      ELSE NoEntity]],
              !.leaves = {},
              !.enters = @ \ Named(names),
              !.leftSent = {},
              !.enteredSent = {},
              !.deltaTick = NoTick,
              !.seeded = TRUE]

\* Stating the whole set supersedes every leave and each enter it names; a
\* member with no slot yet is omitted and its enter still held.
StateWholeInterestSet(p, names) ==
    [p EXCEPT !.generation = @ + 1,
              !.inflight = [gen |-> p.generation + 1,
                            pairs |-> [s \in Slot |-> IF names[s] \in p.set
                                                      THEN names[s]
                                                      ELSE NoEntity]],
              !.leaves = {},
              !.enters = @ \ Named(names),
              !.leftSent = {},
              !.enteredSent = {},
              !.deltaTick = NoTick,
              !.seeded = TRUE]

\* The set in flight is re-sent as it was unless a slot it states has since
\* been reissued; otherwise a fresh one is minted.
Reusable(p, names) ==
    /\ p.inflight # NoTable
    /\ \A s \in Slot : p.inflight.pairs[s] # NoEntity
                        => names[s] \in {NoEntity, p.inflight.pairs[s]}

InterestTableToSend(p, names, now) ==
    [(IF Reusable(p, names) THEN p ELSE StateWholeInterestSet(p, names))
        EXCEPT !.tableTick = now]

\* The head of build_interest_section: retire, and owe a set to a peer that
\* was never seeded.
SectionBase(p, now) ==
    LET q == RetireInterestDelta(p, now)
    IN  IF ~q.seeded /\ ~q.fullDue THEN OweWholeInterestSet(q) ELSE q

GateOpen(p) == p.seeded /\ p.acked = p.generation

AtMost(S, n) == {T \in SUBSET S : Cardinality(T) <= n}

\* A first section takes up to PerFrame leaves and enters; the enters stop at
\* the first one with no slot.
FreshSections(p, names) ==
    LET leaves == p.leaves \cap Named(names)
        enters == p.enters \cap Named(names)
    IN  {[left |-> L, entered |-> E] :
            L \in {T \in AtMost(leaves, PerFrame) :
                      Cardinality(T) = PerFrame \/ T = leaves},
            E \in {T \in AtMost(enters, PerFrame) :
                      p.enters = enters
                        => Cardinality(T) = PerFrame \/ T = enters}}

\* The sections one flush may build from p, which SectionBase prepared.
Sections(p, names) ==
    IF ~GateOpen(p) THEN {[left |-> {}, entered |-> {}]}
    ELSE IF p.deltaTick # NoTick
    THEN {[left |-> p.leftSent, entered |-> p.enteredSent]}
    ELSE FreshSections(p, names)

\* Does the frame carry the section?  A re-send always does.
Carries(p, section) ==
    /\ GateOpen(p)
    /\ p.deltaTick # NoTick \/ section.left \cup section.entered # {}

\* What building and carrying the section leaves in the peer's state.
AfterSection(p, names, section, now) ==
    IF ~GateOpen(p) \/ p.deltaTick # NoTick THEN p
    ELSE [p EXCEPT !.leaves = @ \cap Named(names),
                   !.leftSent = section.left,
                   !.enteredSent = section.entered,
                   !.deltaTick = IF Carries(p, section) THEN now ELSE NoTick]

-----------------------------------------------------------------------------
(* The server.                                                             *)

\* drain_pending, a registration: the slot table and the manifest follow at
\* the next flush.
Register(e) ==
    /\ MayChurn
    /\ e \notin registered
    /\ registered' = registered \cup {e}
    /\ churn' = churn + 1
    /\ UNCHANGED <<tick, slots, freed, hidden, peer, client, down, reliable, up, losses>>

\* drain_pending, an unregistration: forget_entity for the peer.
Unregister(e) ==
    /\ MayChurn
    /\ e \in registered
    /\ registered' = registered \ {e}
    /\ peer' = LoseMember(peer, e)
    /\ churn' = churn + 1
    /\ UNCHANGED <<tick, slots, freed, hidden, client, down, reliable, up, losses>>

\* The same op when a replacement body registered under the id first: the id
\* stays, what was believed about the departed body goes.
Respawn(e) ==
    /\ MayChurn
    /\ e \in registered
    /\ peer' = LoseMember(peer, e)
    /\ churn' = churn + 1
    /\ UNCHANGED <<tick, world, client, down, reliable, up, losses>>

\* The sweep that closes drain_pending drops a freed body in silence; the next
\* filter pass finds it gone.
Sweep(e) ==
    /\ MayChurn
    /\ e \in registered
    /\ registered' = registered \ {e}
    /\ churn' = churn + 1
    /\ UNCHANGED <<tick, slots, freed, hidden, peer, client, down, reliable, up, losses>>

\* set_entity_hidden(id, true)
Hide(e) ==
    /\ MayChurn
    /\ e \in registered \ hidden
    /\ hidden' = hidden \cup {e}
    /\ peer' = LoseMember(peer, e)
    /\ churn' = churn + 1
    /\ UNCHANGED <<tick, registered, slots, freed, client, down, reliable, up, losses>>

\* set_entity_hidden(id, false): the filter decides whether it comes back.
Unhide(e) ==
    /\ MayChurn
    /\ e \in hidden
    /\ hidden' = hidden \ {e}
    /\ churn' = churn + 1
    /\ UNCHANGED <<tick, registered, slots, freed, peer, client, down, reliable, up, losses>>

\* reconcile_slots
Reconciled(now) == Renamings(slots, freed, registered, now)

\* send_manifest_if_dirty: the peer is owed the table when it changed or when
\* the peer is believed to hold none.  A session that never named anything
\* has published nothing.
ManifestOwed(names) ==
    \/ names # slots
    \/ ~peer.manifest /\ (names # Unnamed \/ \E s \in Slot : freed[s] # NoTick)

\* The datagrams of one flush, all at one tick.  The first goes out when it
\* carries a block, the section, or when the gate is shut; a later one only
\* with blocks of its own.  `filled` is how many of them carry blocks.
Datagrams(p, names, section, filled, gateShut, now) ==
    LET carries == Carries(p, section)
        first == [tick |-> now, pass |-> 0, carries |-> carries,
                  gen |-> IF carries THEN p.generation ELSE 0,
                  left |-> SlotsOf(names, section.left),
                  entered |-> SlotsOf(names, section.entered)]
        later(i) == [tick |-> now, pass |-> i, carries |-> FALSE, gen |-> 0,
                     left |-> {}, entered |-> {}]
    IN  (IF filled > 0 \/ carries \/ gateShut THEN {first} ELSE {})
        \cup {later(i) : i \in 1..filled - 1}

\* Nothing in flight, and no client frame, is more than Lag ticks late.
Timely ==
    /\ \A d \in down : tick < d.tick + Lag
    /\ \A m \in up : tick < m.at + Lag
    /\ \A i \in 1..Len(reliable) : tick < reliable[i].at + Lag
    /\ tick < client.at + Lag

\* One process frame of the server: flush_network.  It advanced `passes`
\* ticks; reconcile the slots, publish the manifest, run the filter, send an
\* owed table, build the section, send the datagrams.
ServerFlush(passes, names, members, filled) ==
    LET now == tick + passes
        chosen == members # peer.set \cap registered   \* not forced by a departure
        filtered == UpdateInterest(peer, members)
        due == InterestTableDue(filtered, now)
        tabled == IF due THEN InterestTableToSend(filtered, names, now)
                         ELSE filtered
        base == SectionBase(tabled, now)
        manifest == [kind |-> "manifest", names |-> names, at |-> now]
        table == [kind |-> "table", gen |-> tabled.inflight.gen, at |-> now,
                  stated |-> SlotsOf(tabled.inflight.pairs, Entity)]
    IN  /\ now <= MaxTick
        /\ Timely
        /\ chosen => MayChurn
        /\ filled <= Cardinality(members \cap Named(names))
        /\ tick' = now
        /\ names \in Reconciled(now)
        /\ slots' = names
        /\ freed' = FreedAfter(slots, names, freed, now)
        /\ reliable' = reliable
                         \o (IF ManifestOwed(names) THEN <<manifest>> ELSE <<>>)
                         \o (IF due THEN <<table>> ELSE <<>>)
        /\ \E section \in Sections(base, names) :
             /\ peer' = [AfterSection(base, names, section, now) EXCEPT
                            !.manifest = @ \/ ManifestOwed(names)]
             /\ down' = down \cup Datagrams(base, names, section, filled,
                                            tabled.acked # tabled.generation, now)
        /\ churn' = IF chosen THEN churn + 1 ELSE churn
        /\ UNCHANGED <<registered, hidden, client, up, losses>>

\* handle_client_input: the echo, then the ack, then the client's demand.
HandleClientInput(m) ==
    LET heard == NoteInterestEcho(peer, m.echo)
    IN  /\ m \in up
        /\ up' = up \ {m}
        /\ peer' = [heard EXCEPT
                       !.newestAck = IF m.ack > @ THEN m.ack ELSE @,
                       !.fullDue = @ \/ m.wantInterest]
        /\ UNCHANGED <<tick, world, client, down, reliable, churn, losses>>

\* handle_hello with a new key on a live connection: the client stopped and
\* started its session.  Everything sealed under the old key is refused.
Rekey ==
    /\ MayChurn
    /\ peer' = [ForgetInterest(peer) EXCEPT !.manifest = FALSE]
    /\ client' = FreshClient(tick)
    /\ down' = {}
    /\ reliable' = <<>>
    /\ up' = {}
    /\ churn' = churn + 1
    /\ UNCHANGED <<tick, world, losses>>

-----------------------------------------------------------------------------
(* The client.                                                             *)

\* Every slot named is one the client's manifest names.
Resolves(c, stated) == \A s \in stated : c.slots[s] # NoEntity

\* apply_interest_delta: a section applies only to the set it was built on; an
\* enter whose slot the manifest does not name asks for the whole set.
ApplyInterestDelta(c, d) ==
    IF d.gen # c.mirrorGen THEN [c EXCEPT !.wantInterest = TRUE]
    ELSE [c EXCEPT !.mirror = (@ \ IdsOf(c.slots, d.left))
                                \cup IdsOf(c.slots, d.entered),
                   !.wantInterest = @ \/ ~Resolves(c, d.entered)]

\* Mutant: a section is applied from an overtaken frame too.
SectionIsAlwaysNews(d, c) == TRUE

\* section_is_news
SectionIsNews(d, c) == d.tick >= c.newest

\* handle_snapshot: every frame is acknowledged; its section is applied only
\* from the newest frame seen.
HandleSnapshot(d) ==
    LET seen == [client EXCEPT !.unacked = TRUE,
                               !.newest = IF d.tick > @ THEN d.tick ELSE @]
    IN  /\ d \in down
        /\ down' = down \ {d}
        /\ client' = IF d.carries /\ SectionIsNews(d, client)
                     THEN ApplyInterestDelta(seen, d) ELSE seen
        /\ UNCHANGED <<tick, world, peer, reliable, up, churn, losses>>

\* adopt_interest_table: a table the manifest resolves replaces the mirror;
\* one it does not is merged, and the whole set asked for again.
AdoptInterestTable(c, t) ==
    LET resolved == Resolves(c, t.stated)
    IN  [c EXCEPT !.mirror = IF resolved THEN IdsOf(c.slots, t.stated)
                             ELSE @ \cup IdsOf(c.slots, t.stated),
                  !.mirrorGen = t.gen,
                  !.wantInterest = ~resolved]

\* The InterestTable arm: only a newer generation is news, and only a client
\* that holds a manifest can resolve one.
ReceiveTable(c, t) ==
    IF t.gen <= c.mirrorGen THEN c
    ELSE IF ~c.hasManifest THEN [c EXCEPT !.wantInterest = TRUE]
    ELSE AdoptInterestTable(c, t)

\* Mutant: the mirror keeps what the manifest no longer names.
ReceiveManifestKeepingMirror(c, m) ==
    [c EXCEPT !.hasManifest = TRUE, !.slots = m.names]

\* adopt_manifest_*: rebind, and retire what the table no longer names.
ReceiveManifest(c, m) ==
    [c EXCEPT !.hasManifest = TRUE,
              !.slots = m.names,
              !.mirror = @ \cap Named(m.names)]

HandleReliable ==
    LET m == Head(reliable)
    IN  /\ reliable # <<>>
        /\ reliable' = Tail(reliable)
        /\ client' = IF m.kind = "table" THEN ReceiveTable(client, m)
                                         ELSE ReceiveManifest(client, m)
        /\ UNCHANGED <<tick, world, peer, down, up, churn, losses>>

\* send_client_input: once per ticking frame, if anything is owed.
ClientFlush ==
    LET owed == \/ Drives
                \/ client.unacked
                \/ client.mirrorGen # client.echoed
                \/ client.wantInterest
        input == [ack |-> client.newest, echo |-> client.mirrorGen,
                  wantInterest |-> client.wantInterest, at |-> tick]
    IN  /\ client.at < tick
        /\ client' = [client EXCEPT
                        !.at = tick,
                        !.unacked = @ /\ ~owed,
                        !.echoed = IF owed THEN client.mirrorGen ELSE @]
        /\ up' = IF owed THEN up \cup {input} ELSE up
        /\ UNCHANGED <<tick, world, peer, down, reliable, churn, losses>>

-----------------------------------------------------------------------------
(* The network.  A reliable table can be lost too: a retransmit that lands *)
(* outside the replay window is refused and never retried.                 *)

LoseSnapshot(d) ==
    /\ MayLose
    /\ d \in down
    /\ down' = down \ {d}
    /\ losses' = losses + 1
    /\ UNCHANGED <<tick, world, peer, client, reliable, up, churn>>

LoseInput(m) ==
    /\ MayLose
    /\ m \in up
    /\ up' = up \ {m}
    /\ losses' = losses + 1
    /\ UNCHANGED <<tick, world, peer, client, down, reliable, churn>>

LoseTable ==
    /\ MayLose
    /\ reliable # <<>>
    /\ Head(reliable).kind = "table"
    /\ reliable' = Tail(reliable)
    /\ losses' = losses + 1
    /\ UNCHANGED <<tick, world, peer, client, down, up, churn>>

-----------------------------------------------------------------------------

Flush ==
    \E passes \in 1..MaxPasses, names \in Names,
       members \in SUBSET (registered \ hidden) :
      \E filled \in 0..passes : ServerFlush(passes, names, members, filled)

Next ==
    \/ Flush
    \/ \E e \in Entity : \/ Register(e) \/ Unregister(e) \/ Respawn(e)
                         \/ Sweep(e) \/ Hide(e) \/ Unhide(e)
    \/ \E m \in up : HandleClientInput(m)
    \/ Rekey
    \/ \E d \in down : HandleSnapshot(d)
    \/ HandleReliable
    \/ ClientFlush
    \/ \E d \in down : LoseSnapshot(d)
    \/ \E m \in up : LoseInput(m)
    \/ LoseTable

Spec == Init /\ [][Next]_vars

\* The engine calls both ends' frames for ever and the transport delivers what
\* it does not lose; nothing forces the world or the network to misbehave.
Fairness ==
    /\ WF_vars(Flush)
    /\ WF_vars(\E m \in up : HandleClientInput(m))
    /\ WF_vars(\E d \in down : HandleSnapshot(d))
    /\ WF_vars(HandleReliable)
    /\ WF_vars(ClientFlush)

FairSpec == Spec /\ Fairness

-----------------------------------------------------------------------------
(* Properties.                                                             *)

\* Nothing in flight, nothing owed by either end.
Quiescent ==
    /\ down = {} /\ up = {} /\ reliable = <<>>
    /\ peer.seeded /\ GateOpen(peer) /\ ~peer.fullDue
    /\ peer.leaves = {} /\ peer.enters = {} /\ peer.deltaTick = NoTick
    /\ ~client.wantInterest /\ client.echoed = client.mirrorGen

(* Two ends that have both fallen silent agree: if nothing is in flight,   *)
(* nothing is pending and neither end is asking, the client's mirror is    *)
(* the server's interest set.  The failure this excludes is a permanent    *)
(* disagreement nobody will ever repair.                                   *)
NoSilentDivergence == Quiescent => client.mirror = peer.set

(* The section gate never opens on a generation the client does not hold:  *)
(* what the server believes acknowledged is at most what the client has    *)
(* adopted, which is at most what the server minted.                       *)
AckedIsHeld ==
    /\ peer.acked <= client.mirrorGen
    /\ client.mirrorGen <= peer.generation

(* A section never reaches a client from the future: every section in      *)
(* flight was built on a generation the client had adopted when it left.   *)
SectionsAreNotEarly ==
    \A d \in down : d.carries => d.gen <= client.mirrorGen

(* The two pending halves never name one entity twice: an entity cannot be *)
(* both leaving and entering, a leaving one is outside the set and an      *)
(* entering one inside it.                                                 *)
PendingAgreesWithSet ==
    /\ peer.leaves \cap peer.set = {}
    /\ peer.enters \subseteq peer.set
    /\ peer.leftSent \subseteq peer.leaves
    /\ peer.enteredSent \subseteq peer.enters

(* The mirror never names an entity the client's own manifest cannot       *)
(* resolve.                                                                *)
MirrorIsBound == client.mirror \subseteq Named(client.slots)

(* What the two ends of the lane believe of each other is true, whatever   *)
(* is lost or reordered: what the server takes for acknowledged is held,   *)
(* no section runs ahead of the client, what is pending agrees with the    *)
(* set, and the mirror names what the client's manifest resolves.          *)
LaneIsSound ==
    /\ AckedIsHeld
    /\ SectionsAreNotEarly
    /\ PendingAgreesWithSet
    /\ MirrorIsBound

(* Once the world and the link settle, the mirror becomes and stays the    *)
(* server's set.                                                           *)
Converges == <>[](client.mirror = peer.set)

=============================================================================
