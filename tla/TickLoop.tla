------------------------------ MODULE TickLoop ------------------------------
(***************************************************************************)
(* The pace of one client against its server: the tick accumulator         *)
(* (tick.rs), the clock window and its corrections (clock.rs), the coupled *)
(* slew and the adaptive input lead (pacing.rs), and the parts of          *)
(* orbit_net.rs that drive them: the two step functions, the hard resync,  *)
(* the ping timer and the input margin the server reports.                 *)
(*                                                                         *)
(* Time is counted in units, Unit of them to a tick.  Nothing here depends *)
(* on absolute time, so the state keeps differences: `off` is the server's *)
(* timeline minus the client's, and `held` the server's newest input tick  *)
(* from this client minus the server's timeline.  The server's timeline    *)
(* runs with the wall except where it discards (ServerTear).               *)
(*                                                                         *)
(* Abstractions.  Floating point is integer arithmetic; the sample a pong  *)
(* brings is off by an error of at most half its round trip; the reseek's  *)
(* floor at tick zero and a physics rate that differs from the net rate    *)
(* are left out.                                                           *)
(***************************************************************************)
EXTENDS Integers, Sequences, FiniteSets, FiniteSetsExt

CONSTANTS
    Unit,           \* units per tick: dt
    FrameCap,       \* max_ticks_per_frame
    CatchUp,        \* CATCHUP_TICKS_PER_FRAME
    MaxBacklog,     \* MAX_RETAINED_BACKLOG_SECONDS, in units
    Panic,          \* HARD_RESYNC_SECONDS, in units
    StretchWindow,  \* STRETCH_CORRECTION_WINDOW_SECONDS, in units
    MaxStretch,     \* the stretch bound: a frame is moved by at most delta \div MaxStretch
    ClockCap,       \* samples of the clock window
    LeadCap,        \* samples of the lead window
    InitialLead,    \* INITIAL_LEAD_TICKS
    BiasLow, BiasHigh,  \* lead_bias_ticks is clamped to -BiasLow .. BiasHigh
    SlewCooldown,   \* frames between two slews
    SeekHorizon,    \* INPUT_TICK_SEEK_HORIZON
    PingInterval,   \* PING_INTERVAL, in units
    Deltas,         \* wall lengths of a healthy frame
    Hitches,        \* wall lengths of a stalled frame
    Trips,          \* round trips of a pong
    Latency,        \* how long an input frame travels
    Tears,          \* what a server stall discards of its timeline
    Modes,          \* subset of {"coupled", "decoupled"}
    MaxFaults       \* bound: hitches, tears, losses, reorderings, mode changes

ASSUME PaceAssumption ==
    /\ Unit \in Nat \ {0} /\ FrameCap \in Nat \ {0} /\ CatchUp \in Nat
    /\ MaxBacklog \in Nat /\ Panic \in Nat /\ StretchWindow \in Nat \ {0}
    /\ MaxStretch \in Nat \ {0} /\ ClockCap \in Nat \ {0} /\ LeadCap \in Nat \ {0}
    /\ InitialLead \in Nat /\ BiasLow \in Nat /\ BiasHigh \in Nat
    /\ SlewCooldown \in Nat /\ SeekHorizon \in Nat /\ PingInterval \in Nat
    /\ Deltas \subseteq Nat /\ Hitches \subseteq Nat /\ Trips \subseteq Nat
    /\ Latency \in Nat /\ Tears \subseteq Nat /\ MaxFaults \in Nat
    /\ Modes \subseteq {"coupled", "decoupled"} /\ Modes # {}

VARIABLES
    cli,        \* the client's pacing state
    ping,       \* ping_timer
    pongs,      \* pongs in flight
    held,       \* the server's newest_input_tick, relative
    mode,       \* sync_to_physics
    resynced,   \* the last frame reseeked
    beat,       \* flips with every frame
    slewed,     \* history: the window holds samples older than a slew
    faults      \* disturbances so far

paceVars == <<cli, ping, pongs, held, mode, resynced, beat, slewed, faults>>

\* The -1 of a connection that has sent no input, and the bound below which an
\* older figure behaves the same.
LongPast == -2 * SeekHorizon * Unit

Clamp(x, low, high) == Max({low, Min({x, high})})
Abs(x) == IF x < 0 THEN -x ELSE x

----------------------------------------------------------------------------
(* Sample windows                                                          *)

EmptyWindow == [rows |-> <<>>, next |-> 0]

\* push_sample and LeadTracker::push: fill, then overwrite in place from the start.
Push(window, cap, row) ==
    [rows |-> IF Len(window.rows) < cap THEN Append(window.rows, row)
              ELSE [window.rows EXCEPT ![window.next + 1] = row],
     next |-> (window.next + 1) % cap]

\* The samples offset() averages: the lower half by round trip, ties by slot.
Trusted(rows) ==
    LET Before(j, i) == \/ rows[j].trip < rows[i].trip
                        \/ rows[j].trip = rows[i].trip /\ j < i
    IN  {i \in DOMAIN rows :
            Cardinality({j \in DOMAIN rows : Before(j, i)}) < (Len(rows) + 1) \div 2}

\* ClockEstimator::offset, and 0 when nobody has looked.
Offset(clock) ==
    IF clock.rows = <<>> THEN 0
    ELSE MapThenSumSet(LAMBDA i : clock.rows[i].offset, Trusted(clock.rows))
            \div Cardinality(Trusted(clock.rows))

\* Mutant: the stretch's own effect is left out of the window.
ApplyLocalCorrectionNot(clock, moved) == clock

\* apply_local_correction: every stored offset moves by what the caller moved.
ApplyLocalCorrection(clock, moved) ==
    LET Moved(row) == [row EXCEPT !.offset = row.offset - moved]
    IN  [clock EXCEPT !.rows = [i \in DOMAIN clock.rows |-> Moved(clock.rows[i])]]

\* suggest_adjustment: a full window's worst margin against target and target + 2.
Suggest(lead) ==
    LET worst == Min({lead.rows[i] : i \in DOMAIN lead.rows})
    IN  IF Len(lead.rows) < LeadCap THEN 0
        ELSE IF worst < 1 THEN 1
        ELSE IF worst > 3 THEN -1
        ELSE 0

----------------------------------------------------------------------------
(* Accumulator                                                             *)

CeilDiv(x, y) == -((-x) \div y)

\* Mutant: a frame runs what it brought and never draws on the backlog.
AdvanceFreshOnly(acc, fed) ==
    LET full == acc + fed
        ticks == Min({full \div Unit, FrameCap, fed \div Unit})
        rest == full - ticks * Unit
        lost == IF rest > MaxBacklog THEN rest - Min({rest, Unit}) ELSE 0
    IN  [acc |-> rest - lost, ticks |-> ticks, lost |-> lost]

\* TickAccumulator::advance: run what the frame brought plus a paced share of the
\* backlog, keep the rest, and discard only past the retention bound.
Advance(acc, fed) ==
    LET full == acc + fed
        ticks == Min({full \div Unit, FrameCap, CeilDiv(fed, Unit) + CatchUp})
        rest == full - ticks * Unit
        lost == IF rest > MaxBacklog THEN rest - Min({rest, Unit}) ELSE 0
    IN  IF full < Unit THEN [acc |-> full, ticks |-> 0, lost |-> 0]
        ELSE [acc |-> rest - lost, ticks |-> ticks, lost |-> lost]

\* charge_window: close on the first frame at or past the length, drop the overshoot.
ChargeWindow(timer, seconds, window) ==
    IF timer + seconds >= window THEN [timer |-> 0, closed |-> TRUE]
    ELSE [timer |-> timer + seconds, closed |-> FALSE]

----------------------------------------------------------------------------
(* Corrections                                                             *)

\* The error the controller drives to zero.
Residual(c) == Offset(c.clock) + c.bias * Unit

\* needs_hard_resync_with_lead: never on the absence of a measurement.
NeedsHardResync(c) == c.clock.rows # <<>> /\ Abs(Residual(c)) > Panic

\* maybe_hard_resync: reseek to the server's tick plus the lead, rounded down to
\* a tick, and forget every window that measured the old timeline.
MaybeHardResync(c) ==
    LET offset == Offset(c.clock)
        lead == InitialLead + Max({c.bias, 0})
        target == lead * Unit + offset - ((c.acc + offset) % Unit)
    IN  IF NeedsHardResync(c)
        THEN [c EXCEPT !.off = @ - target, !.acc = 0, !.cool = 0,
                       !.clock = EmptyWindow, !.lead = EmptyWindow]
        ELSE c

\* update_lead_bias: a suggestion moves the clamped bias and empties its window.
UpdateLeadBias(c) ==
    LET step == Suggest(c.lead)
    IN  IF step = 0 THEN c
        ELSE [c EXCEPT !.bias = Clamp(@ + step, -BiasLow, BiasHigh), !.lead = EmptyWindow]

\* stretch_with: what a frame of `delta` is moved by to close the residual.
Stretch(c, delta) ==
    Clamp((Residual(c) * delta) \div StretchWindow,
          -(delta \div (MaxStretch + 1)), delta \div MaxStretch)

\* step_decoupled, to the ticks it hands run_frame.
StepDecoupled(c, delta) ==
    LET ready == UpdateLeadBias(MaybeHardResync(c))
        moved == Stretch(ready, delta)
        step == Advance(ready.acc, delta + moved)
    IN  [ready EXCEPT !.off = @ - moved + step.lost,
                      !.acc = step.acc,
                      !.clock = IF step.lost > 0 THEN EmptyWindow
                                ELSE ApplyLocalCorrection(@, moved)]

\* Slew threshold: three quarters of a tick.
Slews(c) == c.cool = 0 /\ 4 * Abs(Residual(c)) > 3 * Unit

\* step_coupled: one tick per physics frame, or none or two when the slew fires.
StepCoupled(c, wall) ==
    LET ready == UpdateLeadBias(MaybeHardResync(c))
        ticks == IF ~Slews(ready) THEN 1 ELSE IF Residual(ready) > 0 THEN 2 ELSE 0
        step == Advance(ready.acc, ticks * Unit)
    IN  [ready EXCEPT !.off = @ + wall - ticks * Unit + step.lost,
                      !.acc = step.acc,
                      !.cool = IF Slews(ready) THEN SlewCooldown ELSE Max({@ - 1, 0})]

\* physics_process or process, whichever drives the loop in this mode.
Stepped(wall) ==
    IF mode = "coupled" THEN StepCoupled(cli, wall) ELSE StepDecoupled(cli, wall)

----------------------------------------------------------------------------
(* Actions                                                                 *)

\* integrate_welcome: a joining client starts InitialLead ahead of a server tick
\* that aged on the way.
PaceInit ==
    /\ \E age \in {0, Latency} :
          cli = [off |-> age - InitialLead * Unit, acc |-> 0, bias |-> 0, cool |-> 0,
                 clock |-> EmptyWindow, lead |-> EmptyWindow]
    /\ ping = 0 /\ pongs = 0
    /\ held = LongPast
    /\ mode \in Modes
    /\ resynced = FALSE
    /\ beat = 0 /\ slewed = FALSE
    /\ faults = 0

\* One frame of `wall` units: the step, then run_net_upkeep's ping.  A pong is
\* back, or lost, before the next ping leaves.
RunFrame(wall) ==
    LET window == ChargeWindow(ping, wall, PingInterval)
    IN  /\ cli' = Stepped(wall)
        /\ resynced' = NeedsHardResync(cli)
        /\ beat' = 1 - beat
        /\ slewed' = /\ cli'.clock.rows # <<>>
                     /\ slewed \/ (mode = "coupled" /\ cli'.off # cli.off)
        /\ ping' = window.timer
        /\ window.closed => pongs = 0
        /\ pongs' = IF window.closed THEN 1 ELSE pongs
        /\ held' = Max({held - wall, LongPast})

Frame == /\ \E delta \in Deltas : RunFrame(delta)
         /\ UNCHANGED <<mode, faults>>

\* A render hitch: the decoupled loop is fed the whole of it, the physics loop
\* runs one nominal step.
Hitch == /\ faults < MaxFaults /\ faults' = faults + 1
         /\ \E delta \in Hitches : RunFrame(delta)
         /\ UNCHANGED mode

\* integrate_pong: the sample is taken on arrival, wrong by the link's asymmetry.
IntegratePong ==
    /\ pongs > 0 /\ pongs' = pongs - 1
    /\ \E trip \in Trips : \E err \in -(trip \div 2) .. trip \div 2 :
          /\ faults < MaxFaults \/ err = 0
          /\ cli' = [cli EXCEPT !.clock =
                       Push(@, ClockCap, [trip |-> trip, offset |-> cli.off + err, err |-> err])]
    /\ UNCHANGED <<ping, held, mode, resynced, beat, slewed, faults>>

\* note_input_tick: a seek moves the figure back, a reordered frame does not.
NoteInputTick(now, arriving) ==
    IF arriving < now - SeekHorizon * Unit THEN arriving
    ELSE Max({now, arriving})

\* handle_client_input's margin, and the snapshot that carries it back into the
\* lead window.  A reordered frame is `late` ticks older than the newest.
InputArrives(late) ==
    LET sent == -cli.off - cli.acc - late * Unit
    IN  /\ held' = NoteInputTick(held, sent - Latency)
        /\ cli' = [cli EXCEPT !.lead = Push(@, LeadCap, CeilDiv(held', Unit))]
        /\ UNCHANGED <<ping, pongs, mode, resynced, beat, slewed>>

HandleInputTick == InputArrives(0) /\ UNCHANGED faults

ReorderedInput ==
    /\ faults < MaxFaults /\ faults' = faults + 1
    /\ InputArrives(1)

\* The server stalls past its own retention bound: its timeline falls back, and
\* every sample taken before it is wrong by that much until it ages out.
ServerTear ==
    /\ faults < MaxFaults /\ faults' = faults + 1
    /\ \E tear \in Tears :
          LET Torn(row) == [row EXCEPT !.err = row.err + tear]
          IN  cli' = [cli EXCEPT
                        !.off = cli.off - tear,
                        !.clock.rows = [i \in DOMAIN cli.clock.rows |-> Torn(cli.clock.rows[i])]]
    /\ UNCHANGED <<ping, pongs, held, mode, resynced, beat, slewed>>

LosePong ==
    /\ faults < MaxFaults /\ faults' = faults + 1
    /\ pongs > 0 /\ pongs' = pongs - 1
    /\ UNCHANGED <<cli, ping, held, mode, resynced, beat, slewed>>

\* The game flips sync_to_physics at runtime.
SetSyncToPhysics ==
    /\ faults < MaxFaults /\ faults' = faults + 1
    /\ mode' \in Modes \ {mode}
    /\ UNCHANGED <<cli, ping, pongs, held, resynced, beat, slewed>>

PaceNext ==
    \/ Frame \/ Hitch \/ IntegratePong \/ HandleInputTick \/ ReorderedInput
    \/ ServerTear \/ LosePong \/ SetSyncToPhysics

\* Frames keep coming, and a pong in flight arrives.
PaceSpec ==
    /\ PaceInit /\ [][PaceNext]_paceVars
    /\ WF_beat(beat' = 1 - beat)
    /\ WF_pongs(pongs > 0 /\ pongs' = pongs - 1)

----------------------------------------------------------------------------
(* Properties                                                              *)

\* Every stored sample describes the clocks as they stand now: whatever the
\* stretch did to the client's timeline since the pong arrived is in it, and a
\* discard or a reseek leaves no sample behind.  Slews are the exception.
SamplesAreCurrent ==
    ~slewed => \A i \in DOMAIN cli.clock.rows :
                  cli.clock.rows[i].offset = cli.off + cli.clock.rows[i].err

\* Once the disturbances stop, a reseek does not bring about the next one and
\* the backlog a hitch left has been run.
Settles == <>[](~resynced /\ cli.acc < Unit)
=============================================================================
