# A TLA+ model of orbitnet

orbitnet is rollback netcode for Godot 4: a server-authoritative session in which a native node
(`OrbitNet`, Rust) runs a fixed-rate tick loop, replicates entities to clients over an unreliable
channel, repairs what is lost over a reliable one, and keeps each player's identity across
reconnects. This directory models the protocol core of `native/crates/orbitnet-core` and
`native/crates/orbitnet-godot`, checks it with TLC on small instances and proves the most important
invariants with TLAPS for every instance. `orbit_net.rs` below is
`src/native/crates/orbitnet-godot/src/orbit_net.rs`.

Running it: `tlc -config X.cfg M` for the runs and `tlapm M.tla` for the proof modules;
`PROJECT.json` lists both, with the source lines every definition stands for.

## 1. The system

One process is the server (or host), the others are clients; each client has one connection. All
traffic is frames in sealed datagrams, over a channel that loses and reorders (UNRELIABLE) or one
that delivers in order (RELIABLE). A frame accepted by the transport may still be refused by the
receiver's replay window, so RELIABLE means "in order, or never". Code runs on the engine's main
thread; what interleaves is the two ends, the frames in flight, and the game's callbacks, which are
queued (`drain_pending`, `pending_seat_releases`) rather than run in place.

| Component | State | Operations | Interacts with | What is hard | What makes it correct |
|---|---|---|---|---|---|
| Slot table (`slots.rs`, `reconcile_slots`) | slot to id, id to slot, freed slots with the tick they were freed | alloc, release, reconcile; bind and unbind on a client | names every entity on the wire | reuse of a name while old frames are in flight; the ceiling of 65,536 | both directions agree; no reuse inside the quarantine; a refused entity is named in the end |
| Entity manifest (`send_manifest_if_dirty`, `adopt_manifest_*`) | published rows and generation; what each peer is believed to hold; the client's rows | publish, full or delta, refuse, ask for the whole | rides RELIABLE; blocks and sections resolve through it | a refused frame breaks a delta chain; the ask is unreliable | a generation means one table; no block reaches a stranger; the table is repaired |
| Interest lane (`PeerState`, `build_interest_section`, `interest_table_to_send`, `apply_interest_delta`) | per connection: the set, two pending halves, stamp, generations; on the client: a mirror | enter, leave, hide, forget, echo, retire, owe and state a whole set | sections ride snapshots, tables ride RELIABLE, acks come with input | two channels race; a give-up is not a delivery; acks name ticks | two silent ends agree; disagreement is repaired |
| State lane (`assemble_peer`, `consume_ack`, `sync.rs`, `columnar.rs`) | sent log, acknowledged bases, last keyframes; the client's ring of rows | encode full or delta, ack, NACK, keyframe, decode | ack fields ride client input | a base the client does not hold; reordered acks; respawn under the same id | decoded rows are true; bases only advance; the value shown converges |
| Sealed lane (`auth.rs`) | key, next sequence number, replay window | seal, open, rekey | every frame | the edge of the window; the end of the counter; a rekey | dispatched at most once; no nonce twice; nothing fresh refused |
| Join and resume (`handle_hello`, `seat_hello`, `ResumeTable`) | nonce halves, keys, identities, tokens, held windows | hello, challenge, confirm, welcome, retry, restart, drop, expire | seats the key, forgets the lanes' state on a rekey | retries, ghosts, reused ids, stale challenges | one holder; takeover by token only; one key on both ends; joins complete |
| Seats (`seats.rs`, `announce_seats`, `drain_seat_releases`, `expire_held_sessions`) | roster, queued releases, held windows; the client's roster rebuilt from the manifest | assign, drop, queue and drain a release, expire, announce | manifest rows, drops, resumes | transport ids are reused; the drain runs frames after the drop; announcements are a difference of two rosters | a live player keeps its body; what is announced adds up to the roster |
| Rollback (`history.rs`, `freshness.rs`, `columnar.rs`, `sync.rs`, `run_rollback`) | input and state rings, the freshness ledger, dirty windows, the displayed row | capture, send and integrate input, predict, plan, restore, replay, correct, orphan, reset | input and snapshots of both ends | rows late, reordered and redundant; the meeting of three bounds; direct-mapped rings | a replay equals a run that had every row in time; each tick's side effects happen once |
| Time (`tick.rs`, `clock.rs`, `pacing.rs`, the step functions) | accumulator, clock samples, offset, lead and its bias | advance, slew, stretch, hard resync, ping, input margin | everything keyed by tick | two controllers on one quantity; resync under kept figures; stalls | samples speak of the timeline in force; resyncs end and no backlog stays |
| Area of interest (`interest.rs`, `update_interest`, `seat_observers_into`) | per seat a hysteretic set, per connection their union, vetoes, overrides, the path in use | observe, filter by grid or by scan, union, veto, announce | feeds the interest and state lanes | cell borders, radii, caps, seats that come and go | both paths agree; what is carried was admitted; a player's own bodies always are |
| Send order (`priority.rs`, `assemble_peer`) | staleness and band per entity, a byte budget per datagram | score, order, admit, defer, carry oversize | reads the set, feeds the state lane | a block no datagram fits; weights against waiting | nobody starves |
| Input budget (`admit_input_blocks`, `ReceiveBudget`) | the sender's rotor, the server's per-tick counts | rotate, cap, charge, abandon | client input | the two ends count in different units | every body is driven |
| Assembly threads (`AssemblyPool`, `assemble_frames`) | a pool of workers, chunks, tallies, a count of live workers | build, split, assemble, fold, drop | one job per peer of a flush | threads outlive the library; uneven splits | the split changes nothing; no thread runs after unload |
| Wire codec (`codec.rs`) | a reader over one datagram | encode, decode, skip, truncate | every frame | blocks of unknown length of meaning, cut datagrams | every block is read whole, skipped whole, or ends the frame |
| Quantisation and binding (`quant.rs`, `protocol.rs`, `binding.rs`, `sync.rs`) | schemas, bulk hooks, the row being captured | resolve, canonicalise, capture, write back, apply | rows of both lanes, the game's nodes | near ties in a quaternion; a freed node or a failing hook half way | what is received is what the sender stored; rows land whole |

The cipher, interpolation, crash capture, the GDScript facade, demos, harness, benchmarks and build
tools are outside the model; section 7 says why.

## 2. The modules

| Module | Models | State and actions |
|---|---|---|
| `SlotNaming` | what the table promises the lanes: names, frees and the legal renamings of a reconcile | operators |
| `NamingSpec` | that promise as a specification | abstract |
| `SlotTable` | `slots.rs` itself, as functions of a table record | operators; recursion as folds |
| `SlotAlloc` | the table over a session: `Register`, `Unregister`, `Sweep`, `ReconcileSlots` | implements `NamingSpec` |
| `ManifestSync` | the manifest lane. `ServerFlush` is `send_manifest_if_dirty` with the frame's blocks, `ReceiveManifest` both adoptions and the refusal, `HandleSnapshot` the watch on unnameable slots, `ClientFlush` the ask | uses `SlotTable` on the client, `SlotNaming` on the server |
| `InterestSync` | the interest lane of one connection. `UpdateInterest`, `Hide`, `Unregister`, `Respawn`, `Sweep` change the set; `ServerFlush` is the per-peer part of a flush (retire, table, section, datagrams); `HandleSnapshot`, `ReceiveTable`, `ReceiveManifest`, `ClientFlush`, `HandleClientInput`, `Rekey` | composes with `SlotNaming` |
| `PendingHalves`, `PendingQueue` | the two pending halves as sets, and as the code's vectors with counts of the entries in flight | `PendingQueue` implements `PendingHalves` |
| `StateLane` | the delta lane: `ServerFlush` (capture and `assemble_peer`), `HandleSnapshot`, `ClientFlush`, `HandleClientInput`, and what disturbs it: `Leave`, `Enter`, `Spawn`, `Despawn`, `Respawn`, `Rekey`, `RetryHello`, `HardResync` | |
| `SealedLane` | one direction of a sealed session: `Seal`, `Open`, `SeatSender`, `SeatReceiver` | |
| `Session` | join, keys and resume, one action per handler on either side | |
| `SeatRelease` | seats and their release. `Connect` (with its claim on a held identity) and `Disconnect` move connections and held windows under reused ids; `TickFrame` and `IdleFrame` are the server's frame with and without a tick (drain, scan, announce, publish, expire); `AssignSeat`, `ReleaseSeatOf` and `SetSeatReleasePolicy` are the game's verbs; `ReadSeats` is the client's rebuild | |
| `TickRings`, `Rollback` | `TickRings`: ring, ledger and dirty window as operators. `Rollback`: one body on the server and a client, with the frame loop of each (capture, live ticks, plan, restore, replay, record), input frames with redundancy, snapshots, disconnection, resets and the client's input delay | |
| `TickLoop` | the pace of a client against its server, coupled or decoupled from physics: frames of healthy and stalled length, pings and pongs, input margins, tears of the server's timeline | integer units, `Unit` to a tick |
| `InterestFilter` | `update_interest` with the observer rules, the filter of each seat by either path, unions, caps, vetoes, events; edits of the game between passes | integer plane |
| `SendRota` | one peer's send order and admission, `AssemblePeer` per flush | |
| `InputRota` | the client's block rota and the server's budget, one action per frame of either end | |
| `AssemblyPool` | the assembly threads; rayon is external and modelled by what `assemble_frames` uses of it | |
| `WireCodec` | every frame as fields with widths; the receiver's loop one block per step, over datagrams cut at any byte | scaled digits |
| `Quantizer`, `Binding` | `Quantizer`: half floats, smallest-three and the schema rules as operators over exact small grids. `Binding`: capture, canonicalise, restore, display and apply, by walk or by staged bulk hook | |
| `InterestSyncProofs`, `InterestAgreementProofs`, `StateLaneProofs`, `RollbackProofs`, `TickLoopProofs` | theorems about the module each is named for (the first two: `InterestSync`; the third also `Binding` and `Quantizer`) | |
| `ConnectionProofs` | theorems about `SealedLane`, `Session` and `AssemblyPool` | |
| `NamingProofs` | theorems about `SlotTable`, `SlotAlloc`, `PendingQueue` and `ManifestSync`, composed as in `MCNaming` | |
| `WorldProofs` | theorems about `SeatRelease`, and about the world that `MCWorld` puts together from the rollback, the seats and the filter | |
| `MC...` | instances: constant sets, symmetry, sessions already under way, and the parts of a run (section 3) | |

Each module's opening comment lists its abstractions. The ones that matter across modules:

* A key is the values it is derived from and a tag verifies when the keys are equal; the cipher,
  the exchange and the tags are assumed to do what they are for. The refusal of low-order exchange
  keys is left out with them.
* A lane does not model what feeds it: to `InterestSync` and `StateLane` the area-of-interest
  filter, the send order and the byte budget are free choices (any subset may be selected and, where
  `Selective` is TRUE, any block deferred), and `InterestFilter` and `SendRota` model those choices.
  `SeatRelease` takes the grants of `Session` as free, and `Rollback` the timing of `TickLoop`.
* Payloads are model values; a row is a value per channel, a manifest row an id and one other field.
* Wall time is modelled in `TickLoop` only. Elsewhere timers become nondeterministic and tick windows
  keep their arithmetic with smaller constants.
* Floating point is integer arithmetic: exact squares in `InterestFilter` and `Quantizer`, units of
  a fraction of a tick in `TickLoop`. Rounding errors of the hardware are not modelled; the rounding
  the code does on purpose (quantisers, cells, the slew) is.
* `Lag` bounds how late a frame may be, in ticks, as the quarantine of the code assumes; it is
  smaller than the scaled quarantine, as a 256-tick quarantine is against real delays.
* In `StateLane`, `want_full` is cleared by frames that carry blocks; the code also clears it on a
  frame that carries an interest section only.
* In `Session`, a server that stops, and a client of another protocol major, are left out, and
  signals to the game are not kept.

## 3. The runs

Several runs check components that share no state. Such a run has a variable `part`, chosen in the
initial state and never changed: a behaviour runs the part it names and leaves the others in one
fixed first state, so the state space is the sum of the parts' and not their product, and every
property is checked on the part it speaks of exactly as on a run of its own. Fairness is stated per
part, guarded by `part`.

| Run | Instance | Checks |
|---|---|---|
| `interest` | 2 entities, 2 slots, lag 2, 4 ticks, 2 changes, 1 loss, one entry per section and per half; from the join and from a session under way; symmetry over entities and slots (2.9 M states) | `NoSilentDivergence`, `LaneIsSound` |
| `interest_converges` | 1 entity, changes and losses until tick 3, then 6 quiet ticks (449 k) | `Converges` |
| `naming` | manifest: 2 entities, 2 slots, 2 owners, 2 changes, a lost frame, a refused manifest, 3 busy and 6 quiet ticks. Slots: 3 entities for 2 slots, so the ceiling is met. Queue: 4 entities, cap 2, hard cap 3, 2 entries per section (191 k) | `NamesAreTrue`, `Repairs`, `ImplementsNaming`, `EventuallyNamed`, `ImplementsHalves` |
| `state` | order: 1 entity, 2 channels of 2 values, ring of 3 ticks, lag 2. Split: a second entity, two ticks and up to two datagrams per frame; the lane's properties speak of the first entity. Binding: four schemas with a property of each quantiser and one that asks for what its kind cannot carry, with and without bulk hooks, freed nodes, resized hook arrays and drifted values over 2 ticks. Codec: one frame of each type, cut anywhere, against receivers that lack slots, bases or the schema (1.8 M) | `RowsAreTrue`, `ProvenBaseArrived`, `ReceivedIsStored`, `RowsLandWhole`, `FramesAreReadExactly` |
| `state_converges` | lane: 1 entity, keyframe interval 2, changes and losses before tick 3, quiet to tick 5. Pace: 2 units to a tick, windows of 2 samples, one stall or tear, each longer than the panic bound or shorter (1.4 M) | `SamplesAreCurrent`, `Converges`, `Settles` |
| `connection` | session: a client of one identity over two connection ids, 3 starts, every pin, every policy and an unknown one, grace on and off. Sealing: window 3, a counter of 8 values, two keys. Send order: 3 entities, one larger than a datagram. Input: 5 bodies, one larger than a frame, 2 faults, 1 hand-over. Threads: up to 7 peers, 3 hardware threads, 2 flushes (652 k) | `OneHolder`, `NothingOutlives`, `KeysAgree`, `TakenByToken`, `RecordTokenIsKept`, `JoinConverges`, `AtMostOnce`, `NonceOnce`, `NoFalseRefusal`, `NobodyStarves`, `TailIsDriven`, `SplitIsInvisible`, `UnloadedAfterTheLast` |
| `world` | rollback: 6 ticks of one body with 2 poses and 2 inputs, ring of 5, horizon 2, redundancy 3, two ticks per frame, input delay 0 or 1, one reset. Seats: 2 ids, 2 identities, 3 connections, 2 bodies, 2 assignments, every policy and mode. Filter: 2 connections, 2 bodies and a channel, 2 seats, 3 worlds, radius and cap on and off, 2 edits (1.9 M) | `ReplayIsExact`, `InputsKeepTheirTick`, `FreshOnce`, `OrphanIsHeld`, `SnapshotIsTheBase`, `AnnouncementsAddUp`, `ReleaseSparesTheLiving`, `ReleaseIsAnnouncedAtOnce`, `FilterPathsAgree`, `JoinsThroughTheFilter`, `OwnBodiesAreCarried` |
| `interest_split` | as `interest` with two datagrams per frame | `NoSilentDivergence` is violated |
| `state_stride` | two ticks per frame, no change and no loss | `KeyframesComeDue` is violated |
| `seat_grace` | 1 body, 2 connections, release on expiry | `GraceIsKept` is violated |
| `seat_band` | as the filter part of `world`, without a cap | `SeatKeepsItsBand` is violated |
| `input_paired` | a server that finds two input frames each time, no fault | `TailIsDriven` is violated |

`LaneIsSound`, `NamesAreTrue` and `AnnouncementsAddUp` are conjunctions of named parts, each with its
own comment in the module that defines it.

Why the bounds are enough: each is the least at which the cases the properties are about occur, and
each property has mutants of the code, listed in `PROJECT.json`, that its run detects. Caps are set
to be reached: one entry per half makes the second change overflow, a window of 3 with 8 sequence
numbers lets datagrams fall behind it, two slots for three entities meets the ceiling, three starts
let a client be rekeyed on a live connection and return on another while its ghost remains, six ticks
over a ring of five wrap it, two bodies stand for two hundred where the path selector counts. The
bounds of `NobodyStarves` (10 flushes) and `TailIsDriven` (12) are the least that hold for their
instances: what they exclude is starvation, which exceeds any bound. The session part has one client,
whose own stale connections are its rivals; the theorems of `ConnectionProofs` cover any number of
clients. A run that counts ticks really stops at its last tick, hence `CHECK_DEADLOCK FALSE`.

Fairness. The tick loop keeps flushing and a client keeps sending input, so `Flush` and
`ClientFlush` are weakly fair; the transport delivers what is neither lost nor refused, so the
receive actions are; losses, changes, drops, leaves and the end of a grace window are never fair.
In `Session` the retry timer is fair until the welcome lands, and the server's mode is set in the
end. In `TickLoop` frames keep coming and a pong in flight arrives. In `SlotAlloc` the reconcile runs
each tick. `interest_converges`, `naming` and `state_converges` bound changes and losses by `QuietTick`
(faults by `MaxFaults`) and leave enough quiet ticks for a retry window and a repair.

## 4. What is proved

All of the following hold for every value of the constants allowed by each module's `ASSUME`. Each
safety theorem rests on an inductive invariant of its module, checked with TLC before it was proved.

**InterestSyncProofs.** `LaneIsSound` has four parts. `AckedIsHeld` and `SectionsAreNotEarly` are the safety of the gate that lets
transitions ride unreliably: the server believes acknowledged only what the client has adopted. They
are not inductive alone, because a generation is copied around: minted by the server, in a table in
flight, adopted by the client, echoed on input, taken by the server. `GenerationOrder` orders all
the copies; with `TypeOK`, `PendingAgreesWithSet` and `MirrorIsBound` it is inductive. A rekey is
the interesting case: the client's mirror generation falls to zero, and the acknowledged one with it
(`forget_interest`), while older echoes may still be in flight.

**InterestAgreementProofs.** `NoSilentDivergence`: when nothing is pending, in flight, owed or asked
for, the client's mirror is the server's set. The invariant, `AgreementInv`, says it by generations of
promises: a member the mirror lacks waits in a half, rides a section in flight that the client will
adopt, or is in a whole set on its way; a member the mirror has beyond the set likewise waits, rides
or is about to be unbound; and an ack names a tick whose section has been read. Two hypotheses. One
datagram per frame (`MaxPasses = 1`): with two the property is false, and run `interest_split` shows
how. And `Lag < Quarantine`, the assumption `slots.rs:52` makes of its 256 ticks: a slot must not
be given to another entity while a section that names the old one is in flight. The theorem is about
`Spec`, from the join; the run also starts from a session under way.

**ConnectionProofs**, the sealed lane. `AtMostOnce` needs that the window remembers what was dispatched:
`WindowIsExact` says that a set bit is a dispatched datagram and that a clear bit inside the window
is not, and that nothing beyond the newest has been, all for the key in force; `FutureIsEmpty` says
that a key not yet seated has dispatched and sealed nothing, that a number the counter has not
reached is unsealed, and that zero never is. The same two give `NoFalseRefusal`. `NonceOnce` follows from the counter's stop at zero rather than from its width.

**ConnectionProofs**, the sessions. `OneHolder` and `NothingOutlives` for any clients, connections and identities;
`TakenByToken` as an action property: no live connection loses its identity and no window is spent
unless the claimant quoted the token on record. It needs `TokensAreOnRecord`: `resume_grant` lets a
claim through when there is no token on record, so it has to be shown that a seated or held identity
always has one; that in turn rests on the token being minted with the seat and copied into the
record by the drop. `RecordTokenIsKept` follows from the same invariant and from closed windows being
empty. `KeysAgree` needs an invariant of its own, `KeyInv`: hellos reach the server in the order their
halves were drawn and one acceptor half is drawn for each, so once the server has answered the
client's newest half nothing older is behind it, and every welcome of that half on its way is sealed
under the key the row has; a retry can only seat that key again.

**ConnectionProofs**, the assembly threads. `SplitIsInvisible` and `UnloadedAfterTheLast` from `PoolInv`,
for any number of peers, threads and flushes. While a scope is open a chunk that has peers left is the
caller's to run, waits, or is in a worker's hands, and what it has done and has to do is the chunk
that was cut; the chunks laid end to end are the peers. The count in the exit handlers is the
number of workers that have not reported, and a worker reports on its own thread.

**StateLaneProofs.** `RowsAreTrue` and `ProvenBaseArrived`, for any ring span, log depth, keyframe
interval and losses. What makes the first inductive is that a row is captured once: whatever the
server's log, the bases, the blocks in flight and the client's ring name by tick agrees with the
capture of that tick (`Truth`), so laying a delta over its base cannot go wrong. That the base is still
there (`DecodedIsKept`, its second half) is arithmetic of a direct-mapped ring: two ticks in one slot are a span apart.
The second needs the acks to be true (`AcksAreTrue`, of the client and of every input frame in
flight), and that a datagram of a tick that was not split carries all the tick carried.

**StateLaneProofs**, the rows. `RowsLandWhole` from `LandInv`: between the staging of a hook call and its
run the call carries the newest row, and a body nothing is staged for has that row already. What the
hooks write rests on the restored indices being listed without omission (`InOrderLists`: the rank of an
index is an injection into as many places, so every place is taken). `ReceivedIsStored` from `StoreInv`:
what the buffers hold is a value of the game or a settled one, and a row is settled from its recording
to the next tick wherever the node is still there; a reused buffer, a freed node and a drifted type are
where it could fail. That a capture settles is trivial for an unquantised value and proved for halves
(`HalfRoundTrip`, with the powers of two as the recursive function `Pow2`, whose existence and laws are
proved first). For orientations it is the hypothesis `OrientationsSettle` of the theorem; it is true at
the widths of the `state` run, and `ReceivedIsStored` there tries every sample.

**RollbackProofs.** The four invariants `ReplayIsExact`, `InputsKeepTheirTick`, `FreshOnce` and
`OrphanIsHeld`, from one inductive invariant, `RollbackInv`, and the action property `SnapshotIsTheBase`.
None of the four is inductive. Exactness survives a write only if the row written does not evict one a
tick still to run depends on, so no row of a ring may be a lap ahead (`ServerRingsAreNear`,
`ClientRingsAreNear`), which is where `Horizon + Batch < Cap` and the caps on future rows are used;
freshness needs the ledger's marks to be exactly the reads there were (`LedgerCounts`) and an unread
tick inside the horizon to be marked (`NothingIsMissed`); an orphaned body needs every row its
player still has in flight to be past the ticks that ran without it (`ClientIsPastHeld`). The proof
goes up from the rings: one write, one look-up, one tick, a replay as a run of ticks, a frame's
batch, a block of rows, a snapshot; each level is summarised by an operator, and the actions are
proved from the summaries. `SnapshotIsTheBase` is proved for `resim_force` zero, as shipped: a forced
window reaches back over the row, and the property is then false.

**TickLoopProofs.** `SamplesAreCurrent` from `PaceInv`. Most of the invariant is that every figure is an
integer and every window within its cap, since the offset is a sum over samples and the corrections
divide. The rest is what a frame of the client can do to a stored sample: leave both clocks alone,
move the clock and every sample by as much, empty the window, or slew, which moves the clock alone
and is why the property excuses the samples older than a slew. Rates, caps, frame lengths, round trips
and faults are arbitrary.

**NamingProofs**, the pending queues. `ImplementsHalves`: the vectors of `push_pending`, `drop_pending`
and `retire_interest_delta`, each with a count of the entries in flight, implement the sets
`InterestSync` reasons with. Its heart is that taking one entry out of a vector without repetitions
takes that entry, and no other, out of every prefix, so the count still means the entries that rode.

**NamingProofs**, the slot table. `ImplementsNaming`: `reconcile_slots` makes one legal renaming of
`NamingSpec`, although it is a loop of releases followed by a loop of allocations. The invariant
`SlotsInv` says that the two directions agree, that the free list holds every vacant slot once with
the tick it was freed, oldest first, and that a registry not marked dirty has every entity named; the
loops are folds over a set of ids in ascending order, and what they compute is proved by
well-founded induction on the set's members, with the loop's invariant as a set of pairs.

**NamingProofs**, the manifest lane. `NamesAreTrue` for any slots, entities, owners and losses, from two
invariants. `LaneInv` holds whatever is lost or refused: a manifest in flight says what was
published, or what changed since its base; the client's rows are the rows of some generation,
of the one it claims if it claims one; and its table is what adoption would build from nothing,
though it was patched by `bind` and `unbind`. That gives `HeldIsPublished` and `TableFollowsRows`. `OrderInv`
holds while no manifest was refused: each manifest in flight will be read at the generation it was
written for, and every table the client is yet to hold, like the names in every frame in flight,
names what the server named a moment ago (`Since`): the same still, or a slot that is cooling. Two
such tables cannot contradict each other, which is `NoAliasing`. `Lag < Quarantine` is used once, in
`SinceKeeps`, to show that no slot leaves quarantine under a frame that names it.

**WorldProofs**, the interest filter. `PathsAgree`: the grid path of `update_interest` gives every connection the
set the linear scan gives, for any rows, radii, worlds and cell size, from every state and not only
from reached ones. The heart of it is that a row within a radius of a viewpoint has its cell in the
rectangle the query visits, so what the grid leaves out the scan would not have admitted.
`EventsAddUp`, `JoinsThroughTheFilter` and `OwnBodiesAreCarried` follow with `FilterInv`, which says that
a seat holds nothing its connection does not and admits nothing it refuses.

**WorldProofs**, the seats and the composition. `RostersAgree`, from `SeatInv`, in which connection generations are
distinct (transport ids are not) and the client's roster is the replay of the announcements on its
stream; `ReleaseSparesTheLiving` and `ReleaseIsAnnouncedAtOnce` as action properties. Then
`WorldIsItsParts`: a behaviour of `MCWorld` is a behaviour of each of its parts, so what is proved of a
part holds of the world; with the above it gives `AnnouncementsAddUp` and `FilterPathsAgree`.

**Only model-checked.** All liveness (`Converges`, `Settles`, `Repairs`, `EventuallyNamed`,
`JoinConverges`): fairness is out of the prover's reach. The send order (`NobodyStarves`) and the input
budget (`TailIsDriven`) promise a number of flushes that is the least for their instance, and no
formula for it in the constants is known. The codec (`FramesAreReadExactly`) is recursion over the
fields of a frame, which needs induction over data. That eight rounds settle
an orientation (`OrientationsSettle`) is a fact about the grid its widths give: the walk of the pack
stops after seven members whether or not it came back, and no argument bounds it for every width.
These are checked on their instances and not proved.

## 5. Where the code and its comments part

Five disagreements are kept as runs.

* **An ack of a sibling retires an undelivered section** (`interest_split`). A tick's frame can be
  several datagrams, and one of them carries the section. Acks name ticks, so when the carrier is
  lost and a sibling arrives, `retire_interest_delta` drops the prefix as delivered and owes no
  whole set. The mirror stays wrong until a later repair for another reason. With one datagram per
  frame the property holds.
* **A keyframe phase that is never met** (`state_stride`). A server that runs two ticks per rendered
  frame flushes on every second tick; `full_block_due` asks for equality of phases modulo the
  interval, so entities of the other parity never take a keyframe.
* **A window closes on another player's body** (`seat_grace`). A drops and is held; B is given A's
  transport id, then a body, and drops too. When A's window closes `expire_held_sessions` releases
  every body of that id, B's included, though B may still return to it. `seats.rs:200` says a player
  "who reconnects inside the window finds the body where they left it". What holds is
  `ReleaseSparesTheLiving`: a connected player loses nothing.
* **A seat inherits another's hysteresis** (`seat_band`). `seat_observers_into` leaves out a seat whose
  body has no centre, so the seats after it move down an index, and the index is what keys a seat's
  members. The seat loses what it held between the enter and the leave radius, or carries what it never
  admitted. `interest.rs:1400` says "**Seats are positional**".
* **Paired input frames share a budget** (`input_paired`). `ReceiveBudget` counts per server tick and
  a server that runs two ticks a frame reads two input frames at one tick; the client's rota steps per
  frame. Some bodies are then never driven, though `auth.rs:1066` says the tail "rides the next tick
  rather than being truncated at the same index for ever". With one frame per tick, and through
  losses and hand-overs, `TailIsDriven` holds.

Others were met while modelling and are described here without a run of their own. Each needs the
conditions given.

* A manifest ask is cleared as it is written to an unreliable frame (`orbit_net.rs:6155`). If that
  frame is lost, the client stays without a generation until the next publish or until a block
  arrives under a name it lacks; the comment at 7341 says a lost NACK "costs one tick rather than
  the session". `Repairs` states what does hold.
* If the replay window refuses the manifest delta that removed a binding, and nothing else is
  published, the stale binding outlives the quarantine and names the slot's next entity until that
  entity's own row arrives; `NoAliasing` is stated for sessions in which none was refused.
* With more unnameable slots than `UNBOUND_SLOTS_MAX`, each evicts another's watch and restarts its
  clock (`orbit_net.rs:9806`); in the small instance, two slots and one watch never ask.
* `acked_base` is described as a row "the peer provably holds" (`orbit_net.rs:906`). An ack proves
  that a datagram arrived, not that its block could be decoded; the NACK in the same packet, taken
  after the ack, is what repairs it.
* With rate tiering on (it ships off) and two ticks per frame, an entity of the mid band whose phase
  falls on the skipped ticks is not sent at all.
* A confirmation retried by a connection that has since been superseded can arrive after the player's
  return, quotes the right token, and takes the identity back to the ghost; docs/api.md:144 says the
  stripped connection "holds nothing". Under `ONLY_IF_DROPPED` a retried confirmation after the
  ghost's drop seats the identity on a connection that was announced as anonymous, and no second
  `peer_joined` follows.
* A row keeps the token it was first given (`orbit_net.rs:7668`). A client that restarts under another
  identity on a live connection, or a superseded connection that takes its identity back after it
  lapsed and was minted anew, therefore puts its old token in the place of the one on record;
  docs/protocol.md:1076 says a granted resume carries the token forward. `RecordTokenIsKept` allows
  exactly that, and only to a claim that quoted the token on record.
* Rollback. A row for a far enough future tick can evict the row an extrapolated tick was simulated
  from, so `ReplayIsExact` speaks of ticks whose source row no row that may yet land can evict
  (`Sourced`): on the server a row `INPUT_FUTURE_HORIZON_TICKS` ahead, on the client its own capture,
  stamped as far ahead as the input delay. A row older
  than the input horizon is stored and never starts a replay. A corrected row for the newest tick
  already integrated is dropped as stale until the frontier advances. With two ticks a frame at the
  edge of the ring, the floor in `DirtyWindow::take` can skip a re-base. `resim_force` above zero
  replays over authoritative rows.
* Time. `clock.rs:16` says every stored sample is moved by a correction; the coupled slew moves none,
  and `SamplesAreCurrent` excuses the samples older than one. With a panic bound of a few ticks (tick
  rates below 8 Hz) the hard resync and the lead's bias chase each other and `Settles` fails. A seek
  back by less than the seek horizon leaves the newest-input figure where it was.
* Seats. Under HOLD a newcomer who is given a dead player's transport id drives that player's body;
  `seats.rs` says the body "keeps an owner who no longer plays".
* Send order. `NobodyStarves` holds for a bounded number of edits: entities that keep re-entering the
  set score as never sent and can keep the others out. With rate tiering on and two ticks a frame the
  bands of the other parity are not sent (tiering is not modelled).
* Assembly threads. If the pool's build fails part way, the threads already spawned are not joined by
  anyone.
* Codec. A hello cut inside its 16-byte nonce lets the next field read nonce bytes, contrary to the
  decoder's doc (`codec.rs:828`); the hello is refused later, and the model cuts hellos between fields.
  A block whose payload is shorter than its mask asks for ends the whole frame, not that block.
* Rows. A property whose node is freed before the first capture leaves an uncanonicalised zero in the
  row; `capture_row`'s "zeros" are the bytes of the last tick, the buffer being reused. `f32_to_f16_bits`
  flushes values just below the smallest subnormal to zero where round-to-nearest would keep them. A
  zero basis canonicalises to a half turn about z.

## 6. The plan

Done: every native component with protocol state has a module, a run and mutants; the theorems of
section 4. Every safety property of a passing run is a theorem but the three named at the end of that
section (`NobodyStarves`, `TailIsDriven`, `FramesAreReadExactly`). What is left:

1. `OrientationsSettle` for every width, which needs the length of the walk bounded.
2. A bound on waiting in the constants of `SendRota` and `InputRota`, for which `NobodyStarves` and
   `TailIsDriven` could be proved.

Compositions worth a module of their own: `SeatRelease` over `Session`'s grants, and `StateLane` fed by
`SendRota`'s order instead of a free choice.

## 7. Not modelled

* **The cryptography**: X25519, the hash and the cipher are arithmetic a model checker cannot reach; a
  key is the values it is derived from.
* **Interpolation** (`interp.rs`): presentation-time smoothing in floating point that feeds nothing back.
* **Crash capture** (`crash.rs`): signal handlers and report files, no protocol state.
* **The GDScript facade and transports**: the facade forwards to the native node; commands, lag
  compensation and the Steam lobby are scripts over an engine and a platform service.
* **Rate tiers** of the send order (off as shipped), the statistics and debug output of `orbit_net.rs`,
  the editor-side validation of synchronizers, and a server that stops and starts again.
* **Demos, harness, benchmarks and build tools.**
