----------------------------- MODULE ManifestSync -----------------------------
(***************************************************************************)
(* The manifest lane of one connection: how a client learns which entity a *)
(* wire slot names.                                                        *)
(*                                                                         *)
(* The server publishes its table of rows at a generation and sends a peer *)
(* only what changed, on the RELIABLE channel; the peer it believes behind *)
(* gets the whole table.  Blocks name their entity by slot on UNRELIABLE   *)
(* frames that may overtake the manifest.  A client that cannot apply a    *)
(* delta forgets its generation, keeps its stale table and asks once, on   *)
(* an unreliable input frame; a slot it cannot name for a whole retry      *)
(* window makes it ask too.                                                *)
(*                                                                         *)
(* Abstractions.  A row is its id and its owner, which stands for all the  *)
(* fields that can change under a slot that stays bound.  The server's     *)
(* table is SlotNaming's view of it; the client's is SlotTable.  A frame's *)
(* blocks are the names they were written under.  Reliable frames arrive   *)
(* in order, or never: a retransmit behind the replay window is refused.   *)
(***************************************************************************)
EXTENDS SlotTable

CONSTANTS
    Owner,        \* values of the rest of a row
    RetryTicks,   \* INTEREST_DELTA_RETRY_TICKS
    UnboundMax,   \* UNBOUND_SLOTS_MAX
    Selective,    \* may a frame leave some entities' blocks out?
    Lag,          \* bound: a frame in flight is at most this late
    MaxTick,      \* bound on the server's tick
    MaxChurn,     \* bound on changes of the world and on client restarts
    MaxLoss,      \* bound on lost unreliable frames
    MaxRefused,   \* bound on manifests refused by the replay window
    QuietTick     \* bound: nothing changes or is lost from this tick on

ASSUME ManifestAssumption ==
    /\ RetryTicks \in Nat \ {0}
    /\ UnboundMax \in Nat \ {0}
    /\ Selective \in BOOLEAN
    /\ Lag \in Nat \ {0}
    /\ MaxTick \in Nat /\ MaxChurn \in Nat /\ MaxLoss \in Nat
    /\ MaxRefused \in Nat /\ QuietTick \in Nat

VARIABLES
    tick,         \* the server's tick
    registered,   \* entities in the server's registries
    owner,        \* who drives each entity
    names,        \* the server's slot table
    freed,        \* when each unnamed slot was freed
    dirty,        \* manifest_dirty
    history,      \* the table published at each generation so far
    peerGen,      \* PeerState::manifest_generation
    client,       \* the client's table, rows, generation and asks
    down,         \* snapshot frames in flight
    reliable,     \* manifests in flight, in order
    up,           \* input frames that ask for the manifest, in flight
    churn, losses, refused     \* spent against their bounds

vars == <<tick, registered, owner, names, freed, dirty, history, peerGen, client,
          down, reliable, up, churn, losses, refused>>

world == <<tick, registered, owner, names, freed>>

spent == <<churn, losses, refused>>

Rows == UNION {[S -> [id : Entity, owner : Owner]] : S \in SUBSET Slot}

NoRows == [s \in {} |-> 0]

ClientState ==
    [ table : Tables,          \* slots
      rows  : Rows,            \* manifest_published
      gen   : Nat,             \* manifest_generation
      want  : BOOLEAN,         \* want_manifest
      since : [Slot -> Nat],   \* unbound: first seen unnameable, NoTick if not
      at    : Nat ]            \* the tick of its last network flush

Full == [kind : {"full"}, gen : Nat, rows : Rows, at : Nat]

Delta == [kind : {"delta"}, base : Nat, gen : Nat, removed : SUBSET Slot,
          added : Rows, at : Nat]

Snapshot == [tick : Nat, blocks : Names]

Ask == [at : Nat]

(* One type invariant: the two ends' tables and every frame are well       *)
(* formed.                                                                 *)
TypeOK ==
    /\ tick \in Nat
    /\ registered \subseteq Entity
    /\ owner \in [Entity -> Owner]
    /\ names \in Names
    /\ freed \in [Slot -> Nat]
    /\ dirty \in BOOLEAN
    /\ history \in Seq(Rows)
    /\ peerGen \in Nat
    /\ client \in ClientState
    /\ down \subseteq Snapshot
    /\ reliable \in Seq(Full \cup Delta)
    /\ up \subseteq Ask
    /\ churn \in Nat /\ losses \in Nat /\ refused \in Nat

generation == Len(history)     \* manifest_generation; 0 is the empty table

Published(g) == IF g = 0 THEN NoRows ELSE history[g]

FreshClient(now) ==
    [table |-> EmptyTable, rows |-> NoRows, gen |-> 0, want |-> FALSE,
     since |-> [s \in Slot |-> NoTick], at |-> now]

Init ==
    /\ tick = 0
    /\ registered \in SUBSET Entity
    /\ owner \in [Entity -> Owner]
    /\ names = Unnamed
    /\ freed = [s \in Slot |-> NoTick]
    /\ dirty = TRUE
    /\ history = <<>>
    /\ peerGen = 0
    /\ client = FreshClient(0)
    /\ down = {}
    /\ reliable = <<>>
    /\ up = {}
    /\ churn = 0 /\ losses = 0 /\ refused = 0

MayChurn == churn < MaxChurn /\ tick < QuietTick

-----------------------------------------------------------------------------
(* The server.                                                             *)

\* drain_pending, a registration
Register(e) ==
    /\ MayChurn
    /\ e \notin registered
    /\ registered' = registered \cup {e}
    /\ dirty' = TRUE
    /\ churn' = churn + 1
    /\ UNCHANGED <<tick, owner, names, freed, history, peerGen, client, down,
                   reliable, up, losses, refused>>

\* drain_pending, an unregistration or a sweep: the table follows at the flush.
Unregister(e) ==
    /\ MayChurn
    /\ e \in registered
    /\ registered' = registered \ {e}
    /\ churn' = churn + 1
    /\ UNCHANGED <<tick, owner, names, freed, dirty, history, peerGen, client, down,
                   reliable, up, losses, refused>>

\* announce_seats: a seat changed hands.
ChangeOwner(e, o) ==
    /\ MayChurn
    /\ owner[e] # o
    /\ owner' = [owner EXCEPT ![e] = o]
    /\ dirty' = TRUE
    /\ churn' = churn + 1
    /\ UNCHANGED <<tick, registered, names, freed, history, peerGen, client, down,
                   reliable, up, losses, refused>>

\* The rows the table and the registries give now.
RowsOf(n) == [s \in {t \in Slot : n[t] # NoEntity} |-> [id |-> n[s], owner |-> owner[n[s]]]]

\* diff_manifest
DiffManifest(was, is) ==
    [removed |-> DOMAIN was \ DOMAIN is,
     added |-> [s \in {t \in DOMAIN is : t \in DOMAIN was => was[t] # is[t]} |-> is[s]]]

\* manifest_owed
ManifestOwed(held, base, current) ==
    IF held = current THEN "nothing"
    ELSE IF current # base /\ held = base THEN "delta"
    ELSE "full"

\* Nothing in flight, and no client frame, is more than Lag ticks late.
Timely ==
    /\ \A d \in down : tick < d.tick + Lag
    /\ \A m \in up : tick < m.at + Lag
    /\ \A i \in 1..Len(reliable) : tick < reliable[i].at + Lag
    /\ tick < client.at + Lag

\* flush_network on the server: reconcile the slots, publish what changed to
\* the peer that can apply it, send a frame of blocks.
ServerFlush(n, blocks) ==
    LET now == tick + 1
        publish == dirty \/ n # names
        base == generation
        was == Published(base)
        is == RowsOf(n)
        diff == DiffManifest(was, is)
        current == IF publish /\ was # is THEN base + 1 ELSE base
        owed == IF publish THEN ManifestOwed(peerGen, base, current) ELSE "nothing"
    IN  /\ now <= MaxTick
        /\ Timely
        /\ tick' = now
        /\ n \in Renamings(names, freed, registered, now)
        /\ names' = n
        /\ freed' = FreedAfter(names, n, freed, now)
        /\ dirty' = FALSE
        /\ history' = IF current # base THEN Append(history, is) ELSE history
        /\ reliable' =
             CASE owed = "nothing" -> reliable
               [] owed = "delta" -> Append(reliable,
                    [kind |-> "delta", base |-> base, gen |-> current,
                     removed |-> diff.removed, added |-> diff.added, at |-> now])
               [] owed = "full" -> Append(reliable,
                    [kind |-> "full", gen |-> current, rows |-> is, at |-> now])
        /\ peerGen' = IF owed = "nothing" THEN peerGen ELSE current
        /\ down' = down \cup {[tick |-> now,
                               blocks |-> [s \in Slot |-> IF s \in blocks THEN n[s]
                                                          ELSE NoEntity]]}
        /\ UNCHANGED <<registered, owner, client, up, spent>>

\* Mutant: nothing raises the flush that would answer the ask.
HandleClientInputQuietly(m) ==
    /\ m \in up
    /\ up' = up \ {m}
    /\ peerGen' = 0
    /\ UNCHANGED <<world, dirty, history, client, down, reliable, spent>>

\* handle_client_input with FLAG_WANT_MANIFEST
HandleClientInput(m) ==
    /\ m \in up
    /\ up' = up \ {m}
    /\ peerGen' = 0
    /\ dirty' = TRUE
    /\ UNCHANGED <<world, history, client, down, reliable, spent>>

\* Mutant: the peer is still believed to hold the table it held.
RekeyKeepingGeneration ==
    /\ MayChurn
    /\ dirty' = TRUE
    /\ client' = FreshClient(tick)
    /\ down' = {}
    /\ reliable' = <<>>
    /\ up' = {}
    /\ churn' = churn + 1
    /\ UNCHANGED <<world, history, peerGen, losses, refused>>

\* handle_hello with a new key on a live connection.
Rekey ==
    /\ MayChurn
    /\ peerGen' = 0
    /\ dirty' = TRUE
    /\ client' = FreshClient(tick)
    /\ down' = {}
    /\ reliable' = <<>>
    /\ up' = {}
    /\ churn' = churn + 1
    /\ UNCHANGED <<world, history, losses, refused>>

-----------------------------------------------------------------------------
(* The client.                                                             *)

\* Mutant: the ask is made once, at the end of the first window.
UnboundOnce(c, s, now) ==
    LET first == IF c.since[s] = NoTick THEN now ELSE c.since[s]
    IN  [c EXCEPT !.since[s] = first, !.want = @ \/ now = first + RetryTicks]

\* UnboundSlots::unnamed: start the slot's clock, or ask once it has run for a
\* whole retry window; at the cap the oldest entry makes room.
Unbound(c, s, now) ==
    LET watched == {t \in Slot : c.since[t] # NoTick}
        full == Cardinality(watched) >= UnboundMax /\ s \notin watched
        oldest == CHOOSE t \in watched : \A u \in watched :
                    c.since[t] < c.since[u] \/ (c.since[t] = c.since[u] /\ t <= u)
        kept == IF full THEN [c.since EXCEPT ![oldest] = NoTick] ELSE c.since
        first == IF kept[s] = NoTick THEN now ELSE kept[s]
        due == now >= first + RetryTicks
    IN  [c EXCEPT !.since = [kept EXCEPT ![s] = IF due THEN now ELSE first],
                  !.want = @ \/ due]

\* handle_snapshot, as far as the names of its blocks go; blocks of equal
\* score are written in ascending order of id.
HandleSnapshot(d) ==
    LET slotOf(e) == CHOOSE s \in Slot : d.blocks[s] = e
        read(e, c) == LET s == slotOf(e)
                      IN  IF IdOf(c.table, s) # NoEntity THEN [c EXCEPT !.since[s] = NoTick]
                          ELSE Unbound(c, s, d.tick)
    IN  /\ d \in down
        /\ down' = down \ {d}
        /\ client' = FoldAscending(read, client, IdsOf(d.blocks, Slot))
        /\ UNCHANGED <<world, dirty, history, peerGen, reliable, up, spent>>

BindRows(t, rows) ==
    FoldAscending(LAMBDA s, u : Bind(u, s, rows[s].id), t, DOMAIN rows)

\* adopt_manifest_full: clear and rebuild.
AdoptFull(c, m) ==
    [c EXCEPT !.table = BindRows(EmptyTable, m.rows),
              !.rows = m.rows,
              !.gen = m.gen,
              !.since = [s \in Slot |-> NoTick]]

UnbindRows(t, slots) == FoldAscending(LAMBDA s, u : Unbind(u, s), t, slots)

\* Mutant: the delta's removals are not applied to the slot table.
AdoptDeltaAdding(c, m) ==
    [c EXCEPT !.table = BindRows(@, m.added),
              !.rows = [s \in (DOMAIN c.rows \ m.removed) \cup DOMAIN m.added |->
                          IF s \in DOMAIN m.added THEN m.added[s] ELSE c.rows[s]],
              !.gen = m.gen,
              !.since = [s \in Slot |-> NoTick]]

\* adopt_manifest_delta: unbind what is retired, bind what is stated.
AdoptDelta(c, m) ==
    [c EXCEPT !.table = BindRows(UnbindRows(@, m.removed), m.added),
              !.rows = [s \in (DOMAIN c.rows \ m.removed) \cup DOMAIN m.added |->
                          IF s \in DOMAIN m.added THEN m.added[s] ELSE c.rows[s]],
              !.gen = m.gen,
              !.since = [s \in Slot |-> NoTick]]

\* refuse_manifest: the stale table is kept, the generation is not.
RefuseManifest(c) == [c EXCEPT !.gen = 0, !.want = TRUE]

\* Mutant: a delta is applied whatever it was computed against.
ReceiveManifestUnchecked(c, m) ==
    IF m.kind = "full" THEN AdoptFull(c, m) ELSE AdoptDelta(c, m)

\* The EntityManifest and EntityManifestDelta arms.
ReceiveManifest(c, m) ==
    IF m.kind = "full" THEN (IF m.gen >= c.gen THEN AdoptFull(c, m) ELSE c)
    ELSE IF m.base = c.gen THEN AdoptDelta(c, m)
    ELSE RefuseManifest(c)

HandleReliable ==
    /\ reliable # <<>>
    /\ reliable' = Tail(reliable)
    /\ client' = ReceiveManifest(client, Head(reliable))
    /\ UNCHANGED <<world, dirty, history, peerGen, down, up, spent>>

\* send_client_input: the ask rides one frame and is cleared.
ClientFlush ==
    /\ client.at < tick
    /\ client' = [client EXCEPT !.at = tick, !.want = FALSE]
    /\ up' = IF client.want THEN up \cup {[at |-> tick]} ELSE up
    /\ UNCHANGED <<world, dirty, history, peerGen, down, reliable, spent>>

-----------------------------------------------------------------------------
(* The network.                                                            *)

LoseSnapshot(d) ==
    /\ losses < MaxLoss /\ tick < QuietTick
    /\ d \in down
    /\ down' = down \ {d}
    /\ losses' = losses + 1
    /\ UNCHANGED <<world, dirty, history, peerGen, client, reliable, up, churn, refused>>

LoseInput(m) ==
    /\ losses < MaxLoss /\ tick < QuietTick
    /\ m \in up
    /\ up' = up \ {m}
    /\ losses' = losses + 1
    /\ UNCHANGED <<world, dirty, history, peerGen, client, down, reliable, churn, refused>>

\* A retransmit that lands behind the replay window is never delivered.
RefuseReplay ==
    /\ refused < MaxRefused /\ tick < QuietTick
    /\ reliable # <<>>
    /\ reliable' = Tail(reliable)
    /\ refused' = refused + 1
    /\ UNCHANGED <<world, dirty, history, peerGen, client, down, up, churn, losses>>

-----------------------------------------------------------------------------

Flush ==
    \E n \in Names : \E blocks \in SUBSET SlotsOf(n, Entity) :
       /\ ~Selective => blocks = SlotsOf(n, Entity)
       /\ ServerFlush(n, blocks)

Next ==
    \/ Flush
    \/ \E e \in Entity : Register(e) \/ Unregister(e)
    \/ \E e \in Entity, o \in Owner : ChangeOwner(e, o)
    \/ \E m \in up : HandleClientInput(m)
    \/ Rekey
    \/ \E d \in down : HandleSnapshot(d)
    \/ HandleReliable
    \/ ClientFlush
    \/ \E d \in down : LoseSnapshot(d)
    \/ \E m \in up : LoseInput(m)
    \/ RefuseReplay

Spec == Init /\ [][Next]_vars

Fairness ==
    /\ WF_vars(Flush)
    /\ WF_vars(\E m \in up : HandleClientInput(m))
    /\ WF_vars(\E d \in down : HandleSnapshot(d))
    /\ WF_vars(HandleReliable)
    /\ WF_vars(ClientFlush)

FairSpec == Spec /\ Fairness

-----------------------------------------------------------------------------

(* A block is never applied to the wrong entity: whatever frame is in      *)
(* flight, the slot a block was written under names that same entity to    *)
(* the client, or nothing yet.  This is what the reuse quarantine is for;  *)
(* it stops short of a client whose replay window refused a removal.       *)
NoAliasing ==
    refused = 0 =>
      \A d \in down : \A s \in Slot :
        d.blocks[s] # NoEntity => IdOf(client.table, s) \in {NoEntity, d.blocks[s]}

(* A generation means one table: a client that claims to hold generation g *)
(* holds exactly the rows the server published at g, however many frames   *)
(* were lost on the way there.                                             *)
HeldIsPublished == client.gen # 0 => client.rows = Published(client.gen)

(* The client's slot table says what its rows say, in both directions,     *)
(* though one is patched by bind and unbind and the other rebuilt.         *)
TableFollowsRows ==
    /\ Agrees(client.table)
    /\ NamesOf(client.table) =
         [s \in Slot |-> IF s \in DOMAIN client.rows THEN client.rows[s].id ELSE NoEntity]

(* Once the world and the link settle, every slot the server writes blocks *)
(* under names something to the client, though a manifest was refused and  *)
(* an ask for another was lost; the client holds the published rows and    *)
(* says so, if its replay window refused none of them; and one that forgot *)
(* its generation has been answered, if no frame was lost.                 *)
Repairs ==
    <>[](/\ \A s \in Slot : names[s] # NoEntity => IdOf(client.table, s) # NoEntity
         /\ refused = 0 => client.rows = Published(generation) /\ client.gen = generation
         /\ losses = 0 => client.gen # 0 \/ client.rows = NoRows)

=============================================================================
