------------------------------- MODULE StateLane -------------------------------
(***************************************************************************)
(* The state lane of one connection: rows captured by the server, sent as  *)
(* full blocks or as deltas against a tick the client has acknowledged,    *)
(* and withheld when a delta would state no change.                        *)
(*                                                                         *)
(* An acknowledgment names a TICK, and a tick may have gone out in several *)
(* datagrams; it says a datagram ARRIVED, not that its blocks were read.   *)
(* The module follows what the server may conclude from one: the sent log, *)
(* the promoted bases, which of them are proven, the NACK and the          *)
(* keyframes that repair what the rest gets wrong.                         *)
(*                                                                         *)
(* Abstractions.  A row gives each channel a value and a block the changed *)
(* channels only.  Slots are taken as named (ManifestSync).  The send      *)
(* order and the byte budget are a choice of which datagram carries which  *)
(* entity; a frame that advanced k ticks may spend k datagrams on one      *)
(* tick.  Acks carry their proof.  Datagrams are lost and reordered, never *)
(* forged.                                                                 *)
(***************************************************************************)
EXTENDS Naturals, FiniteSets

CONSTANTS
    Entity,       \* entity ids, naturals: keyframes are phased by id
    Channel,      \* the properties of a row
    Value,        \* what a property holds
    NoRow,        \* no row
    Tier,         \* ticks between sends of an entity's band; 1 is untiered
    Interval,     \* FULL_STATE_INTERVAL
    Span,         \* base_span, and the depth of the client's ring
    AckWindow,    \* bits of ack_bits
    LogDepth,     \* SENT_LOG_DEPTH
    Strides,      \* ticks one frame of the server may advance
    Selective,    \* may the byte budget defer an entity?
    Lag,          \* bound: a datagram in flight is at most this late
    MaxTick,      \* bound on the server's tick
    MaxChurn,     \* bound on changes of the world and of the membership
    MaxLoss,      \* bound on lost datagrams
    QuietTick     \* bound: nothing changes or is lost from this tick on

ASSUME LaneAssumption ==
    /\ Entity \subseteq Nat
    /\ NoRow \notin [Channel -> Value]
    /\ Tier \in [Entity -> Nat \ {0}]
    /\ Interval \in Nat \ {0}
    /\ Span \in Nat /\ Span >= 2
    /\ AckWindow \in Nat /\ LogDepth \in Nat \ {0}
    /\ Strides \subseteq Nat \ {0}
    /\ Selective \in BOOLEAN
    /\ Lag \in Nat \ {0} /\ MaxTick \in Nat /\ MaxChurn \in Nat
    /\ MaxLoss \in Nat /\ QuietTick \in Nat

VARIABLES
    tick,        \* the server's tick
    value,       \* what each entity's properties hold now
    rows,        \* the row captured for each entity at each tick so far
    since,       \* the tick after which the entity's present node captures
    members,     \* the connection's interest set
    peer,        \* the server's record of the connection
    client,      \* the client's nodes, rows and ack window
    down, up,    \* snapshot and input datagrams in flight
    churn, losses     \* spent against their bounds

vars == <<tick, value, rows, since, members, peer, client, down, up, churn, losses>>

world == <<tick, value, rows, since, members>>

Row == [Channel -> Value]

NoTick == 0      \* no row is captured, and no frame is sent, at tick 0

LoggedFrame == [tick : Nat, ents : SUBSET Entity, split : BOOLEAN]

PeerState ==
    [ lastFull  : [Entity -> Nat],     \* last_full
      wantFull  : BOOLEAN,             \* want_full
      log       : SUBSET LoggedFrame,  \* sent_log, one frame a tick
      base      : [Entity -> Nat],     \* acked_base, NoTick for none
      unproven  : SUBSET Entity,       \* base_unproven
      newestAck : Nat ]                \* newest_ack

Held == [tick : Nat, row : Row]

ClientState ==
    [ known    : SUBSET Entity,            \* entities whose node has spawned
      held     : [Entity -> SUBSET Held],  \* the rings of decoded rows
      latest   : [Entity -> Nat],          \* latest_tick
      heard    : [Entity -> SUBSET Nat],   \* history: ticks whose block arrived
      decoded  : [Entity -> SUBSET Nat],   \* history: those its node decoded
      newest   : Nat,                      \* newest_snapshot_tick
      bits     : SUBSET Nat,               \* snapshot_ack_bits, as ticks
      unacked  : BOOLEAN,                  \* snapshot_unacked
      wantFull : BOOLEAN,                  \* want_full
      at       : Nat ]                     \* the tick of its last network flush

\* `set` gives the channels the mask names their values.
IsBlock(b) ==
    /\ b.base \in Nat
    /\ DOMAIN b.set \subseteq Channel
    /\ \A c \in DOMAIN b.set : b.set[c] \in Value
    /\ b.base = NoTick => DOMAIN b.set = Channel

IsSnapshot(d) ==
    /\ d.tick \in 1..tick
    /\ DOMAIN d.blocks \subseteq Entity
    /\ \A e \in DOMAIN d.blocks : IsBlock(d.blocks[e])

Input == [at : Nat, ack : Nat, bits : SUBSET Nat, nack : BOOLEAN]

(* The peer record, the client and every datagram are well formed, and the *)
(* sent log stays within its depth.                                        *)
TypeOK ==
    /\ tick \in Nat
    /\ value \in [Entity -> Row]
    /\ rows \in [Entity -> [1..tick -> Row \cup {NoRow}]]
    /\ since \in [Entity -> Nat]
    /\ members \subseteq Entity
    /\ peer \in PeerState
    /\ IsFiniteSet(peer.log) /\ Cardinality(peer.log) <= LogDepth
    /\ client \in ClientState
    /\ \A d \in down : IsSnapshot(d)
    /\ up \subseteq Input
    /\ churn \in Nat /\ losses \in Nat

FreshPeer ==
    [lastFull |-> [e \in Entity |-> NoTick], wantFull |-> TRUE, log |-> {},
     base |-> [e \in Entity |-> NoTick], unproven |-> {}, newestAck |-> 0]

FreshClient(nodes, now) ==
    [known |-> nodes, held |-> [e \in Entity |-> {}],
     latest |-> [e \in Entity |-> NoTick], heard |-> [e \in Entity |-> {}],
     decoded |-> [e \in Entity |-> {}],
     newest |-> NoTick, bits |-> {}, unacked |-> FALSE, wantFull |-> FALSE,
     at |-> now]

Init ==
    /\ tick = 0
    /\ \E v \in Value : value = [e \in Entity |-> [c \in Channel |-> v]]
    /\ rows = [e \in Entity |-> [t \in 1..0 |-> NoRow]]
    /\ since = [e \in Entity |-> NoTick]
    /\ members = Entity
    /\ peer = FreshPeer
    /\ client = FreshClient({}, 0)
    /\ down = {} /\ up = {}
    /\ churn = 0 /\ losses = 0

MayChurn == churn < MaxChurn /\ tick < QuietTick

-----------------------------------------------------------------------------
(* What the server concludes from an acknowledgment.                       *)

\* forget_entity, and the same four removals at every interest leave
ForgetEntity(p, e) ==
    [p EXCEPT !.lastFull[e] = NoTick, !.base[e] = NoTick, !.unproven = @ \ {e}]

\* note_nack
NoteNack(p) ==
    [p EXCEPT !.wantFull = TRUE, !.base = [e \in Entity |-> NoTick], !.unproven = {}]

\* The log keeps its newest LogDepth frames.
TrimLog(log) ==
    IF Cardinality(log) > LogDepth THEN {f \in log : \E g \in log : g.tick < f.tick}
                                   ELSE log

\* Mutant: a tick that went out in several datagrams is not told apart.
NoteSentFrameWhole(p, now, datagrams) ==
    IF datagrams = {} THEN p
    ELSE [p EXCEPT !.log = TrimLog(@ \cup {[tick |-> now, ents |-> UNION datagrams,
                                            split |-> FALSE]})]

\* note_sent_frame, for all the datagrams of one frame: one entry per tick,
\* marked split when more than one went out.
NoteSentFrame(p, now, datagrams) ==
    IF datagrams = {} THEN p
    ELSE [p EXCEPT !.log = TrimLog(@ \cup {[tick |-> now, ents |-> UNION datagrams,
                                            split |-> Cardinality(datagrams) > 1]})]

Confirmed(f, ack, bits) ==
    f.tick = ack \/ (f.tick \in bits /\ f.tick + AckWindow >= ack)

\* The confirmed frames that carried e, and the newest of them.
Promoting(log, ack, bits, e) == {f \in log : Confirmed(f, ack, bits) /\ e \in f.ents}

NewestFrame(frames) == CHOOSE f \in frames : \A g \in frames : g.tick <= f.tick

\* consume_ack: confirmed frames leave the log and promote what they carried;
\* the newest promotion decides the base, and whether it is proven.
ConsumeAck(p, ack, bits) ==
    LET newest == IF ack > p.newestAck THEN ack ELSE p.newestAck
        last(e) == NewestFrame(Promoting(p.log, ack, bits, e))
        promoted == {e \in Entity : /\ Promoting(p.log, ack, bits, e) # {}
                                    /\ last(e).tick >= p.base[e]}
    IN  IF ack = 0 THEN p
        ELSE [p EXCEPT !.newestAck = newest,
                       !.log = {f \in @ : /\ ~Confirmed(f, ack, bits)
                                          /\ f.tick + AckWindow >= newest},
                       !.base = [e \in Entity |-> IF e \in promoted THEN last(e).tick
                                                                    ELSE @[e]],
                       !.unproven = (@ \ promoted)
                                       \cup {e \in promoted : last(e).split}]

-----------------------------------------------------------------------------
(* What the server sends.                                                  *)

SendPhase(id, now, interval) == now % interval = id % interval

\* Mutant: the keyframe is forgotten.
FullBlockDueNever(p, e, now) == p.wantFull \/ p.lastFull[e] = NoTick

\* full_block_due
FullBlockDue(p, e, now) ==
    \/ p.wantFull
    \/ p.lastFull[e] = NoTick
    \/ SendPhase(e, now, Interval) /\ now >= p.lastFull[e] + Interval

\* delta_reference, and the row the encoder must still find in its own ring
Reference(p, e, now) ==
    IF /\ ~FullBlockDue(p, e, now)
       /\ p.base[e] # NoTick
       /\ now < p.base[e] + Span
       /\ p.base[e] > since[e]
    THEN p.base[e] ELSE NoTick

\* encode_state_block
EncodedBlock(p, e, now) ==
    LET ref == Reference(p, e, now)
        mask == {c \in Channel : ref # NoTick => rows[e][ref][c] # value[e][c]}
    IN  [base |-> ref, set |-> [c \in mask |-> value[e][c]]]

\* block_is_un_written
BlockIsUnWritten(p, e, block) ==
    /\ block.base # NoTick
    /\ DOMAIN block.set = {}
    /\ e \notin p.unproven

\* Nothing in flight, and no client frame, is more than Lag ticks late.
Timely(now) ==
    /\ \A d \in down : now <= d.tick + Lag
    /\ \A m \in up : now <= m.at + Lag
    /\ now <= client.at + Lag

\* capture_state_lane, then assemble_peer: `deal` says which of the frame's
\* datagrams has room for an entity, 0 for none of them.
ServerFlush(k, deal) ==
    LET now == tick + k
        block(e) == EncodedBlock(peer, e, now)
        offered == {e \in members : SendPhase(e, now, Tier[e]) /\ deal[e] # 0}
        written == {e \in offered : ~BlockIsUnWritten(peer, e, block(e))}
        carried(i) == {e \in written : deal[e] = i}
        datagrams == {carried(i) : i \in 1..k} \ {{}}
        full == {e \in written : block(e).base = NoTick}
    IN  /\ now <= MaxTick
        /\ Timely(now)
        /\ tick' = now
        /\ rows' = [e \in Entity |-> [t \in 1..now |-> IF t <= tick THEN rows[e][t]
                                                       ELSE IF t = now THEN value[e]
                                                       ELSE NoRow]]
        /\ down' = down \cup {[tick |-> now, blocks |-> [e \in S |-> block(e)]] :
                                 S \in datagrams}
        /\ peer' = [NoteSentFrame(peer, now, datagrams)
                      EXCEPT !.wantFull = @ /\ datagrams = {},
                             !.lastFull = [e \in Entity |-> IF e \in full THEN now
                                                                          ELSE @[e]]]
        /\ UNCHANGED <<value, since, members, client, up, churn, losses>>

-----------------------------------------------------------------------------
(* The world and the session around the lane.                              *)

Change(e, c, v) ==
    /\ MayChurn
    /\ value[e][c] # v
    /\ value' = [value EXCEPT ![e][c] = v]
    /\ churn' = churn + 1
    /\ UNCHANGED <<tick, rows, since, members, peer, client, down, up, losses>>

\* update_interest or a veto takes the entity out of the set.
Leave(e) ==
    /\ MayChurn
    /\ e \in members
    /\ members' = members \ {e}
    /\ peer' = ForgetEntity(peer, e)
    /\ churn' = churn + 1
    /\ UNCHANGED <<tick, value, rows, since, client, down, up, losses>>

Enter(e) ==
    /\ tick < QuietTick
    /\ e \notin members
    /\ members' = members \cup {e}
    /\ UNCHANGED <<tick, value, rows, since, peer, client, down, up, churn, losses>>

\* The server's node is freed and another takes its id: its ring is empty.
Respawn(e) ==
    /\ MayChurn
    /\ peer' = ForgetEntity(peer, e)
    /\ since' = [since EXCEPT ![e] = tick]
    /\ churn' = churn + 1
    /\ UNCHANGED <<tick, value, rows, members, client, down, up, losses>>

\* The client's node spawns, with an empty ring.
Spawn(e) ==
    /\ tick < QuietTick
    /\ e \notin client.known
    /\ client' = [client EXCEPT !.known = @ \cup {e}]
    /\ UNCHANGED <<world, peer, down, up, churn, losses>>

\* The client's node is freed, its ring with it.
Despawn(e) ==
    /\ MayChurn
    /\ e \in client.known
    /\ client' = [client EXCEPT !.known = @ \ {e}, !.held[e] = {}, !.latest[e] = NoTick,
                             !.decoded[e] = {}]
    /\ churn' = churn + 1
    /\ UNCHANGED <<world, peer, down, up, losses>>

\* handle_hello with a new key: what the client held is gone; the log is kept.
\* Datagrams sealed under the old key are refused.
Rekey ==
    /\ MayChurn
    /\ peer' = [NoteNack(peer) EXCEPT !.lastFull = [e \in Entity |-> NoTick]]
    /\ client' = FreshClient(client.known, tick)
    /\ down' = {} /\ up' = {}
    /\ churn' = churn + 1
    /\ UNCHANGED <<world, losses>>

\* handle_hello with the key in force: a retry, which asks for full rows.
RetryHello ==
    /\ MayChurn
    /\ peer' = [peer EXCEPT !.wantFull = TRUE]
    /\ churn' = churn + 1
    /\ UNCHANGED <<world, client, down, up, losses>>

\* maybe_hard_resync: the client drops its rows and its ack window, and asks.
HardResync ==
    /\ MayChurn
    /\ client' = [client EXCEPT !.held = [e \in Entity |-> {}],
                                !.latest = [e \in Entity |-> NoTick],
                                !.decoded = [e \in Entity |-> {}],
                                !.newest = NoTick, !.bits = {}, !.wantFull = TRUE]
    /\ churn' = churn + 1
    /\ UNCHANGED <<world, peer, down, up, losses>>

-----------------------------------------------------------------------------
(* The client.                                                             *)

\* ColumnarHistory::write_row: a direct-mapped ring that refuses the past.
WriteRow(ring, latest, t, v) ==
    IF t + Span <= latest THEN ring
    ELSE {r \in ring : r.tick % Span # t % Span} \cup {[tick |-> t, row |-> v]}

\* apply_masked_wire
ApplyMasked(set, row) == [c \in Channel |-> IF c \in DOMAIN set THEN set[c] ELSE row[c]]

\* Mutant: a delta is laid over the newest row at or before its base.
DecodeClosest(ring, b) ==
    LET before == {r \in ring : r.tick <= b.base}
        base == CHOOSE r \in before : \A q \in before : q.tick <= r.tick
    IN  IF b.base = NoTick THEN b.set
        ELSE IF before = {} THEN NoRow
        ELSE ApplyMasked(b.set, base.row)

\* decode_state_block_into: NoRow when the base is not held.
Decode(ring, b) ==
    LET bases == {r \in ring : r.tick = b.base}
    IN  IF b.base = NoTick THEN b.set
        ELSE IF bases = {} THEN NoRow
        ELSE ApplyMasked(b.set, (CHOOSE r \in bases : TRUE).row)

\* Mutant: a block too old to apply is not kept as a base.
ApplyStateBlockNewest(c, e, t, b) ==
    LET v == Decode(c.held[e], b)
    IN  [held |-> IF v = NoRow \/ t <= c.latest[e] THEN c.held[e]
                  ELSE WriteRow(c.held[e], c.latest[e], t, v),
         latest |-> IF v = NoRow \/ t <= c.latest[e] THEN c.latest[e] ELSE t]

\* apply_state_block on the state lane: every decoded row is kept as a base,
\* a newer one is also what the entity shows.
ApplyStateBlock(c, e, t, b) ==
    LET v == Decode(c.held[e], b)
    IN  [held |-> IF v = NoRow THEN c.held[e]
                  ELSE WriteRow(c.held[e], c.latest[e], t, v),
         latest |-> IF v = NoRow \/ t <= c.latest[e] THEN c.latest[e] ELSE t]

\* Slide the ack window over a frame that arrived.
SlideAck(c, t) ==
    LET ahead == t > c.newest
        seen == IF ~ahead THEN c.bits \cup {t}
                ELSE IF c.newest = NoTick \/ t >= c.newest + AckWindow THEN {}
                ELSE c.bits \cup {c.newest}
        newest == IF ahead THEN t ELSE c.newest
    IN  [c EXCEPT !.newest = newest,
                  !.bits = {s \in seen : s < newest /\ s + AckWindow >= newest},
                  !.unacked = TRUE]

\* handle_snapshot: the window slides before a block is read; the block of an
\* entity with no node is skipped, one whose base is missing raises the NACK.
HandleSnapshot(d) ==
    LET slid == SlideAck(client, d.tick)
        read == DOMAIN d.blocks \cap client.known
        after(e) == ApplyStateBlock(client, e, d.tick, d.blocks[e])
        broken == {e \in read : Decode(client.held[e], d.blocks[e]) = NoRow}
    IN  /\ d \in down
        /\ down' = down \ {d}
        /\ client' = [slid EXCEPT
             !.held = [e \in Entity |-> IF e \in read THEN after(e).held ELSE @[e]],
             !.latest = [e \in Entity |-> IF e \in read THEN after(e).latest ELSE @[e]],
             !.heard = [e \in Entity |-> IF e \in DOMAIN d.blocks THEN @[e] \cup {d.tick}
                                                                 ELSE @[e]],
             !.decoded = [e \in Entity |-> IF e \in read \ broken THEN @[e] \cup {d.tick}
                                                                ELSE @[e]],
             !.wantFull = @ \/ broken # {}]
        /\ UNCHANGED <<world, peer, up, churn, losses>>

\* send_client_input on a client that drives no body.
ClientFlush ==
    /\ client.at < tick
    /\ client' = [client EXCEPT !.at = tick, !.unacked = FALSE, !.wantFull = FALSE]
    /\ up' = IF client.unacked \/ client.wantFull
             THEN up \cup {[at |-> tick, ack |-> client.newest, bits |-> client.bits,
                            nack |-> client.wantFull]}
             ELSE up
    /\ UNCHANGED <<world, peer, down, churn, losses>>

\* The ack is consumed first, the NACK taken last.
TakeInput(p, m) ==
    LET q == ConsumeAck(p, m.ack, m.bits) IN IF m.nack THEN NoteNack(q) ELSE q

\* handle_client_input, as far as the lane goes.
HandleClientInput(m) ==
    /\ m \in up
    /\ up' = up \ {m}
    /\ peer' = TakeInput(peer, m)
    /\ UNCHANGED <<world, client, down, churn, losses>>

-----------------------------------------------------------------------------
(* The network.                                                            *)

LoseSnapshot(d) ==
    /\ losses < MaxLoss /\ tick < QuietTick
    /\ d \in down
    /\ down' = down \ {d}
    /\ losses' = losses + 1
    /\ UNCHANGED <<world, peer, client, up, churn>>

LoseInput(m) ==
    /\ losses < MaxLoss /\ tick < QuietTick
    /\ m \in up
    /\ up' = up \ {m}
    /\ losses' = losses + 1
    /\ UNCHANGED <<world, peer, client, down, churn>>

-----------------------------------------------------------------------------

Flush ==
    \E k \in Strides : \E deal \in [Entity -> 0..k] :
       /\ ~Selective => deal = [e \in Entity |-> 1]
       /\ ServerFlush(k, deal)

Next ==
    \/ Flush
    \/ \E e \in Entity, c \in Channel, v \in Value : Change(e, c, v)
    \/ \E e \in Entity : Leave(e) \/ Enter(e) \/ Respawn(e) \/ Spawn(e) \/ Despawn(e)
    \/ Rekey \/ RetryHello \/ HardResync
    \/ \E d \in down : HandleSnapshot(d)
    \/ ClientFlush
    \/ \E m \in up : HandleClientInput(m)
    \/ \E d \in down : LoseSnapshot(d)
    \/ \E m \in up : LoseInput(m)

Spec == Init /\ [][Next]_vars

Fairness ==
    /\ WF_vars(Flush)
    /\ WF_vars(\E d \in down : HandleSnapshot(d))
    /\ WF_vars(ClientFlush)
    /\ WF_vars(\E m \in up : HandleClientInput(m))

FairSpec == Spec /\ Fairness

-----------------------------------------------------------------------------

\* A row the client decoded stays a base it can answer for until its ring has
\* moved past it, rows that came too late to be shown included.
DecodedIsKept ==
    \A e \in Entity : \A t \in client.decoded[e] :
      t + Span > client.latest[e] => \E r \in client.held[e] : r.tick = t

(* A client never invents a row: whatever was lost, reordered, refused or  *)
(* respawned, each row it decoded for a tick is the one the server         *)
(* captured at that tick, deltas included, and it keeps that row for as    *)
(* long as its ring can.                                                   *)
RowsAreTrue ==
    /\ \A e \in Entity : \A r \in client.held[e] : r.row = rows[e][r.tick]
    /\ DecodedIsKept

(* A base counted as proven rests on a datagram that carried the entity    *)
(* and reached the client, not on a sibling of the same tick.              *)
ProvenBaseArrived ==
    \A e \in Entity :
      peer.base[e] # NoTick /\ e \notin peer.unproven => peer.base[e] \in client.heard[e]

(* An entity in the set takes its keyframe: the last full block is never   *)
(* two intervals old while the budget reaches every entity.                *)
KeyframesComeDue ==
    \A e \in members :
      peer.lastFull[e] # NoTick => tick < peer.lastFull[e] + 2 * Interval

(* Once the world and the link settle, every entity the client has a node  *)
(* for shows what the server holds.                                        *)
Converges ==
    <>[](\A e \in members \cap client.known :
           \E r \in client.held[e] : r.tick = client.latest[e] /\ r.row = value[e])

=============================================================================
