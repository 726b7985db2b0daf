------------------------------ MODULE Rollback ------------------------------
(***************************************************************************)
(* Rollback and resimulation of one body between the server and one client *)
(* (sync.rs, and the frame loop and receive paths of orbit_net.rs).        *)
(*                                                                         *)
(* Both ends run the same code over their own rings.  The server owns the  *)
(* body's state.  A session plays one of two casts:                        *)
(*   - the client owns the body's input ("owner"): it authors rows, predicts*)
(*     with them and sends them redundantly; the server resimulates when a *)
(*     row lands late and broadcasts its newest authoritative tick;        *)
(*   - the server owns the input too ("host"): the client only displays the*)
(*     rows it receives, or, with the remote_resim lever on, predicts the  *)
(*     body forward without input and re-bases on each row.                *)
(*                                                                         *)
(* Abstractions.  A pose and an input row are members of small sets and    *)
(* game code is the constant operator Step; a state row that is delta coded,*)
(* acknowledged and budgeted is StateLane's subject, here it is a decoded  *)
(* row or a loss.  Datagrams may be lost, delayed and reordered.  The clock*)
(* is the environment: how far the client's tick may lead or trail is      *)
(* bounded by LeadLow and LeadHigh.                                        *)
(***************************************************************************)
EXTENDS TickRings, Sequences, SequencesExt

CONSTANTS
    Poses,          \* body states
    Inputs,         \* input rows
    Neutral,        \* the all-zero input row
    Step(_, _),     \* game code: the pose after one tick of a pose and an input
    FirstPose,      \* the pose the scene starts with
    Horizon,        \* RESIM_INPUT_HORIZON_TICKS
    Future,         \* INPUT_FUTURE_HORIZON_TICKS
    Redundancy,     \* INPUT_REDUNDANCY
    Delays,         \* values the game gives input_delay
    ResimForce,     \* resim_force
    Batch,          \* max_ticks_per_frame
    LeadLow,        \* how far the client's tick may trail (negative) ...
    LeadHigh,       \* ... or lead the server's
    MaxTick,        \* bound: ticks a run simulates
    Quiet,          \* bound: the server tick from which nothing is lost or changes
    InFlightUp,     \* bound: input datagrams in flight
    InFlightDown,   \* bound: snapshots in flight
    MaxResets       \* bound: hard resyncs and rejoins

ASSUME StepAssumption ==
    /\ Neutral \in Inputs
    /\ FirstPose \in Poses
    /\ \A p \in Poses, i \in Inputs : Step(p, i) \in Poses

\* A row may start a replay only if every tick it reaches is still in the ring.
ASSUME WindowAssumption ==
    /\ Horizon \in Nat /\ Future \in Nat /\ Batch \in Nat \ {0}
    /\ Horizon + Batch < Cap
    /\ Future < Cap
    /\ Redundancy \in Nat \ {0} /\ ResimForce \in Nat
    /\ Delays \subseteq Nat /\ Delays # {} /\ IsFiniteSet(Delays)

ASSUME BoundAssumption ==
    /\ LeadLow \in Int /\ LeadHigh \in Nat
    /\ MaxTick \in Nat /\ MaxResets \in Nat

VARIABLES
    srv,        \* the server's synchronizer and tick counter
    cli,        \* the client's
    up,         \* input datagrams in flight
    down,       \* snapshot rows in flight
    live,       \* the input owner is connected
    cast,       \* who drives the body: "owner" or "host"
    exempt,     \* the client only displays the body (remote_resim off)
    delay,      \* the client's input_delay
    resets,     \* resyncs, rejoins and delay changes so far
    shots,      \* history: shots[t], the inputs tick t read fresh with on the server
    held,       \* history: the ticks the server ran with nobody driving
    authored,   \* history: authored[t], the inputs the body's driver captured for t
    heard       \* history: the row of the client's newest integrated snapshot

history == <<shots, held, authored, heard>>

vars == <<srv, cli, up, down, live, cast, exempt, delay, resets, history>>

Ticks == 0 .. MaxTick + LeadHigh + Max(Delays)

\* Runtime state of an OrbitRollbackSynchronizer after reset_session, on a peer
\* whose accumulator is at `tick` and whose nodes hold `pose` and `input`.
ResetSession(tick, pose, input) ==
    [tick    |-> tick,         \* the accumulator's tick
     states  |-> EmptyRing,    \* state_history
     inputs  |-> EmptyRing,    \* input_history
     ledger  |-> EmptyRing,
     dirty   |-> NoTick,       \* the planner's window for this body
     authSim |-> 0,            \* latest_auth_sim_tick
     latest  |-> NoTick,       \* latest_state_tick
     pending |-> {},           \* the row of pending_display, if any
     pose    |-> pose,         \* what the body's nodes hold
     node    |-> input]        \* what the input node holds

Init ==
    /\ cast \in {"owner", "host"}
    /\ srv = ResetSession(0, FirstPose, Neutral)
    /\ \E lead \in LeadLow .. LeadHigh :
          /\ lead >= 0
          /\ cli = ResetSession(lead, FirstPose, Neutral)
    /\ up = {} /\ down = {}
    /\ live = TRUE
    /\ exempt = (cast = "host")
    /\ delay = Min(Delays)
    /\ resets = 0
    /\ shots = [t \in Ticks |-> <<>>]
    /\ held = {}
    /\ authored = [t \in Ticks |-> {}]
    /\ heard = FirstPose

----------------------------------------------------------------------------
(* Simulating: restore, begin_sim, _rollback_tick, record                  *)

\* restore_tick, input half: a tick without a row of its own takes the closest
\* one before it and is only extrapolated; with none, the node keeps its value.
InputAt(end, t) ==
    LET from == ClosestTick(end.inputs, t)
    IN  IF from = NoTick THEN end.node ELSE end.inputs[from]

RestoreTick(end, t) ==
    LET from == ClosestTick(end.inputs, t)
    IN  [end EXCEPT
           !.pose = IF t \in DOMAIN end.states THEN end.states[t] ELSE @,
           !.node = InputAt(end, t),
           !.ledger = IF from \in {NoTick, t} THEN @
                      ELSE SetConfidence(@, t, Extrapolated)]

\* record_tick: the pose after tick t is row t + 1, and on the state's owner an
\* authoritative tick moves the frontier that is broadcast.
RecordTick(end, t, ownsState) ==
    LET certain == ownsState /\ Confidence(end.ledger, t) = Authoritative
    IN  [end EXCEPT
           !.states = WriteRow(@, t + 1, end.pose),
           !.authSim = IF certain THEN Max({@, t + 1}) ELSE @,
           !.latest = IF certain THEN Max({@, t + 1}) ELSE @]

SimulateTick(end, t, ownsState) ==
    LET ready == RestoreTick(end, t)
        begun == [ready EXCEPT !.ledger = BeginSim(@, t)]
        moved == [begun EXCEPT !.pose = Step(@, begun.node)]
    IN  RecordTick(moved, t, ownsState)

\* The end after it simulated from .. to - 1 in order, as a function of `to`.
Simulated(end, from, to, ownsState) ==
    LET run[t \in from .. to] ==
            IF t = from THEN end ELSE SimulateTick(run[t - 1], t - 1, ownsState)
    IN  run

\* run_rollback: force a window if asked to, consume the planner's, replay it.
\* The answer is every intermediate end, the last being the end after the frame.
RunRollback(end, current, ownsState, simulates) ==
    LET forced == IF ResimForce > 0 /\ simulates
                  THEN MarkDirty(end.dirty, Max({0, current - ResimForce}))
                  ELSE end.dirty
        from == TakeFrom(forced, current)
        taken == [end EXCEPT !.dirty = NoTick, !.tick = current]
    IN  IF from = NoTick
        THEN [t \in {current} |-> taken]
        ELSE Simulated(taken, from, current, ownsState)

----------------------------------------------------------------------------
(* The tick batch of a frame                                               *)

\* apply_pending_rows: the newest buffered display row lands at the boundary.
ApplyPending(end) ==
    IF end.pending = {} THEN end
    ELSE [end EXCEPT !.pose = CHOOSE row \in end.pending : TRUE, !.pending = {}]

\* capture_local_input: an authored row is stamped `delay` ticks ahead.
CaptureInput(end, stamp, input) ==
    LET written == [end EXCEPT !.inputs = WriteRow(@, stamp, input),
                               !.ledger = SetConfidence(@, stamp, Authoritative),
                               !.node = input]
    IN  IF stamp \in DOMAIN end.inputs /\ end.inputs[stamp] = input
        THEN [end EXCEPT !.node = input]
        ELSE written

\* Mutant: the orphan's frontier moves, but its last intent is carried on.
MarkOrphanedKeepsIntent(end, t) ==
    [end EXCEPT !.ledger = SetConfidence(@, t, Authoritative)]

\* mark_orphaned_authoritative: nobody drives the body, so its tick runs on the
\* neutral row and is the server's own.
MarkOrphaned(end, t) ==
    [end EXCEPT !.inputs = WriteRow(@, t, Neutral),
                !.ledger = SetConfidence(@, t, Authoritative)]

\* capture_inputs and mark_forward_ticks for one tick of the batch.
PrepareTick(end, t, ahead, authors, orphaned, simulates, input) ==
    LET captured == IF authors THEN CaptureInput(end, t + ahead, input) ELSE end
        decided == IF orphaned THEN MarkOrphaned(captured, t) ELSE captured
    IN  IF simulates THEN [decided EXCEPT !.dirty = MarkDirty(@, t)] ELSE decided

\* One frame up to its rollback pass: `batch` gives each tick's authored input.
PrepareBatch(end, batch, ahead, authors, orphaned, simulates) ==
    LET run[k \in 0 .. Len(batch)] ==
            IF k = 0 THEN ApplyPending(end)
            ELSE PrepareTick(run[k - 1], end.tick + k - 1, ahead, authors,
                             orphaned, simulates, batch[k])
    IN  run[Len(batch)]

\* The history of what the body's driver captured over a batch from tick `first`.
Capture(first, batch) ==
    [t \in Ticks |-> authored[t] \cup
        {batch[k] : k \in {j \in DOMAIN batch : first + j - 1 = t}}]

\* What a frame may author: anything until the quiet tail, one row after it.
Batches(end) ==
    UNION {[1 .. n -> IF end.tick < Quiet THEN Inputs ELSE {Neutral}] : n \in 1 .. Batch}

----------------------------------------------------------------------------
(* Server                                                                  *)

\* block_source: the newest authoritative tick, or the frame's before there is one.
BlockTick(end) == IF end.authSim > 0 THEN end.authSim ELSE end.tick

\* A block is encoded only while its row is resident.
BlocksOf(end) ==
    IF BlockTick(end) \in DOMAIN end.states
    THEN {[tick |-> BlockTick(end), row |-> end.states[BlockTick(end)]]}
    ELSE {}

ServerAuthors == cast = "host"
Orphaned == cast = "owner" /\ ~live

\* run_frame on the server, one batch of ticks and its send.
ServerFrame ==
    \E batch \in Batches(srv) :
        LET ready == PrepareBatch(srv, batch, 0, ServerAuthors, Orphaned, TRUE)
            current == srv.tick + Len(batch)
            run == RunRollback(ready, current, TRUE, TRUE)
            done == run[current]
            fresh == {t \in DOMAIN run \ {current} : IsFresh(RestoreTick(run[t], t).ledger, t)}
        IN  /\ current <= MaxTick
            /\ live => cli.tick - current >= LeadLow
            /\ ~ServerAuthors => batch = [k \in DOMAIN batch |-> Neutral]
            /\ Cardinality(down) < InFlightDown
            /\ srv' = done
            /\ down' = IF live THEN down \cup BlocksOf(done) ELSE down
            /\ shots' = [t \in Ticks |->
                           IF t \in fresh THEN Append(shots[t], InputAt(run[t], t))
                           ELSE shots[t]]
            /\ held' = IF Orphaned THEN held \cup (srv.tick .. current - 1) ELSE held
            /\ authored' = IF ServerAuthors THEN Capture(srv.tick, batch) ELSE authored
    /\ UNCHANGED <<cli, up, live, cast, exempt, delay, resets, heard>>

\* integrate_input_row: a stale or an identical row changes nothing.
Lands(end, t, row) ==
    /\ ~IsStale(end.inputs, t)
    /\ ~(t \in DOMAIN end.inputs /\ end.inputs[t] = row)

Land(end, t, row) ==
    [end EXCEPT !.inputs = WriteRow(@, t, row),
                !.ledger = SetConfidence(@, t, Authoritative)]

\* The rows of a block, newest first, and the oldest tick that landed.
IntegrateRows(end, newest, rows) ==
    LET run[k \in 0 .. Len(rows)] ==
            IF k = 0 THEN [end |-> end, oldest |-> NoTick]
            ELSE LET t == newest - (k - 1)
                 IN  IF t >= 0 /\ Lands(run[k - 1].end, t, rows[k])
                     THEN [end |-> Land(run[k - 1].end, t, rows[k]), oldest |-> t]
                     ELSE run[k - 1]
    IN  run[Len(rows)]

\* resim_input_from: the oldest landed row, no deeper than the horizon, and
\* nothing the forward simulation has yet to reach.
ResimInputFrom(novel, current) ==
    LET from == Max({novel, current - Horizon, 0})
    IN  IF novel = NoTick \/ from >= current THEN NoTick ELSE from

\* handle_client_input, the block loop for this body.  An unconnected sender's
\* datagram and a stamp past the future horizon are refused whole.
HandleClientInput ==
    \E d \in up :
        LET landed == IntegrateRows(srv, d.newest, d.rows)
            from == ResimInputFrom(landed.oldest, srv.tick)
        IN  /\ up' = up \ {d}
            /\ srv' = IF ~live \/ d.newest > srv.tick + Future THEN srv
                      ELSE [landed.end EXCEPT
                              !.dirty = IF from = NoTick THEN @ ELSE MarkDirty(@, from)]
    /\ UNCHANGED <<cli, down, live, cast, exempt, delay, resets, history>>

----------------------------------------------------------------------------
(* Client                                                                  *)

ClientAuthors == cast = "owner"
Predicts == ClientAuthors \/ ~exempt

\* Mutant: the walk skips a hole instead of stopping at it.
SentRowsSkipHoles(ring) ==
    LET newest == LatestTick(ring)
        resident == {t \in DOMAIN ring : t > newest - Cap}
        sorted == SortSeq(SetToSeq(resident), LAMBDA a, b : a > b)
        run == Min({Redundancy, Len(sorted)})
    IN  IF newest = NoTick THEN {}
        ELSE {[newest |-> newest, rows |-> [k \in 1 .. run |-> ring[sorted[k]]]]}

\* newest_input_rows: contiguous, descending from the newest; a hole ends it.
SentRows(ring) ==
    LET newest == LatestTick(ring)
        run == CHOOSE n \in 1 .. Redundancy :
                 /\ \A k \in 0 .. n - 1 : newest - k \in DOMAIN ring
                 /\ n = Redundancy \/ newest - n \notin DOMAIN ring
    IN  IF newest = NoTick THEN {}
        ELSE {[newest |-> newest, rows |-> [k \in 1 .. run |-> ring[newest - (k - 1)]]]}

\* run_frame on the client, one batch of ticks and its input datagram.
ClientFrame ==
    \E batch \in Batches(cli) :
        LET ready == PrepareBatch(cli, batch, delay, ClientAuthors, FALSE, Predicts)
            current == cli.tick + Len(batch)
        IN  /\ live
            /\ current <= MaxTick + LeadHigh
            /\ current - srv.tick <= LeadHigh
            /\ ~ClientAuthors => batch = [k \in DOMAIN batch |-> Neutral]
            /\ Cardinality(up) < InFlightUp
            /\ cli' = RunRollback(ready, current, FALSE, ClientAuthors)[current]
            /\ up' = IF ClientAuthors THEN up \cup SentRows(cli'.inputs) ELSE up
            /\ authored' = IF ClientAuthors THEN Capture(cli.tick + delay, batch) ELSE authored
    /\ UNCHANGED <<srv, down, live, cast, exempt, delay, resets, shots, held, heard>>

\* Mutant: a remotely predicted body takes the display path and never re-bases.
IntegrateRowDisplaysRemote(end, t, row, predicts) ==
    LET kept == [end EXCEPT !.latest = t, !.states = WriteRow(@, t, row)]
    IN  IF end.latest # NoTick /\ t <= end.latest THEN end ELSE kept

\* integrate_authoritative_row: superseded rows are dropped; a displayed body
\* buffers the row; a predicted one compares it with its own and replays.
IntegrateRow(end, t, row, predicts) ==
    LET seen == [end EXCEPT !.latest = t]
        kept == [seen EXCEPT !.states = WriteRow(@, t, row)]
        mispredicted == ~(t \in DOMAIN end.states /\ end.states[t] = row)
    IN  IF end.latest # NoTick /\ t <= end.latest THEN end
        ELSE IF ~predicts
             THEN [kept EXCEPT !.pending = {row}]
             ELSE IF IsStale(end.states, t) THEN seen
             ELSE IF mispredicted /\ t < end.tick
                  THEN [kept EXCEPT !.dirty = MarkDirty(@, t)]
                  ELSE kept

\* handle_snapshot, the block of this body.
HandleSnapshot ==
    \E d \in down :
        /\ down' = down \ {d}
        /\ cli' = IntegrateRow(cli, d.tick, d.row, Predicts)
        /\ heard' = IF cli'.latest = d.tick /\ cli.latest # d.tick THEN d.row ELSE heard
    /\ UNCHANGED <<srv, up, live, cast, exempt, delay, resets, shots, held, authored>>

\* set_remote_resim: the lever over bodies this client neither owns nor drives.
SetRemoteResim ==
    /\ cast = "host" /\ srv.tick < Quiet
    /\ exempt' = ~exempt
    /\ UNCHANGED <<srv, cli, up, down, live, cast, delay, resets, history>>

\* The game changes input_delay; rows already stamped stay where they are.
SetInputDelay ==
    /\ ClientAuthors /\ live /\ resets < MaxResets
    /\ delay' \in Delays \ {delay}
    /\ resets' = resets + 1
    /\ UNCHANGED <<srv, cli, up, down, live, cast, exempt, history>>

----------------------------------------------------------------------------
(* Faults                                                                  *)

\* The client's tick lands where its clock controller wants it.
SeekTarget(lead) == srv.tick + lead

\* maybe_hard_resync: the tick is reseeked, every tick-keyed ring cleared.
HardResync ==
    /\ resets < MaxResets /\ live
    /\ \E lead \in 1 .. LeadHigh :
          cli' = ResetSession(SeekTarget(lead), cli.pose, cli.node)
    /\ resets' = resets + 1
    /\ UNCHANGED <<srv, up, down, live, cast, exempt, delay, history>>

\* The owner's connection drops; what it had in flight is never handled.
Leave ==
    /\ cast = "owner" /\ live /\ resets < MaxResets /\ srv.tick < Quiet
    /\ live' = FALSE
    /\ up' = {} /\ down' = {}
    /\ cli' = ResetSession(0, FirstPose, Neutral)
    /\ UNCHANGED <<srv, cast, exempt, delay, resets, history>>

\* The player returns in a fresh process and drives the same body.
Return ==
    /\ ~live
    /\ \E lead \in 1 .. LeadHigh :
          cli' = ResetSession(SeekTarget(lead), FirstPose, Neutral)
    /\ live' = TRUE
    /\ resets' = resets + 1
    /\ UNCHANGED <<srv, up, down, cast, exempt, delay, history>>

\* The transport drops a datagram.
Lose ==
    /\ srv.tick < Quiet
    /\ \/ \E d \in up : up' = up \ {d} /\ UNCHANGED down
       \/ \E d \in down : down' = down \ {d} /\ UNCHANGED up
    /\ UNCHANGED <<srv, cli, live, cast, exempt, delay, resets, history>>

Next ==
    \/ ServerFrame \/ HandleClientInput
    \/ ClientFrame \/ HandleSnapshot
    \/ SetRemoteResim \/ SetInputDelay
    \/ HardResync \/ Leave \/ Return \/ Lose

Spec == Init /\ [][Next]_vars

----------------------------------------------------------------------------
(* Properties                                                              *)

\* The row tick t resolves to is one that no row `ahead` of the tick can evict.
Sourced(end, t, ahead) == ClosestTick(end.inputs, t) > end.tick + ahead - Cap

\* Row t + 1 is what game code makes of row t and the input t resolves to.
Exact(end, t) ==
    {t, t + 1} \subseteq DOMAIN end.states /\ ClosestTick(end.inputs, t) # NoTick
        => end.states[t + 1] = Step(end.states[t], InputAt(end, t))

\* Ticks before the window still waiting to be replayed.
Settled(end, t) == t < end.tick /\ (end.dirty = NoTick \/ t < end.dirty)

\* However input rows and snapshots interleave with frames, what a peer holds is
\* what simulating its current history would give: on the server over the whole
\* input horizon, on the client from its newest authoritative row on.
ReplayIsExact ==
    /\ \A t \in Max({0, srv.tick - Horizon}) .. srv.tick - 1 :
          Settled(srv, t) /\ Sourced(srv, t, Future) => Exact(srv, t)
    /\ \A t \in Max({0, cli.latest}) .. cli.tick - 1 :
          Predicts /\ Settled(cli, t) /\ Sourced(cli, t, Max(Delays)) => Exact(cli, t)

\* Every input row the server simulates is one the body's driver captured for
\* that very tick (or the neutral row of an orphaned one): a block names only its
\* newest tick, so one skipped row would hand every later one to the wrong tick.
InputsKeepTheirTick ==
    \A t \in DOMAIN srv.inputs :
        srv.inputs[t] \in authored[t] \cup {Neutral : u \in held \cap {t}}

\* A tick reads fresh at most once on the server, however often it is replayed,
\* and a row that landed within the horizon is never missed.
FreshOnce ==
    /\ \A t \in Ticks : Len(shots[t]) <= 1
    /\ \A t \in Max({0, srv.tick - Horizon}) .. srv.tick - 1 :
          Confidence(srv.ledger, t) = Authoritative /\ Settled(srv, t)
              => Len(shots[t]) = 1

\* While nobody drives the body it runs on no intent, even where rows its player
\* sent ahead had landed, and the server broadcasts its own newest tick rather
\* than the last one a row backed.
OrphanIsHeld ==
    /\ \A t \in held :
          /\ t \in DOMAIN srv.inputs => srv.inputs[t] = Neutral
          /\ \A k \in DOMAIN shots[t] : shots[t][k] = Neutral
    /\ Orphaned /\ srv.tick - 1 \in held => BlockTick(srv) = srv.tick

\* A snapshot that contradicts the client's prediction becomes its base: the next
\* frame replays from that row and leaves it as the server sent it.
SnapshotIsTheBase ==
    [][(/\ cli'.tick > cli.tick /\ resets' = resets
        /\ Predicts /\ cli.dirty = cli.latest /\ cli.latest # NoTick)
          => (cli.latest \in DOMAIN cli'.states
                => cli'.states[cli.latest] = heard)]_vars

=============================================================================
