----------------------------- MODULE InputRota ------------------------------
(***************************************************************************)
(* The input lane of one connection that drives several bodies: the        *)
(* client's block rota (admit_input_blocks under send_client_input) and    *)
(* the server's per-tick receive budget (ReceiveBudget under               *)
(* handle_client_input).                                                   *)
(*                                                                         *)
(* A body is the index its block sorts at (the registry is ordered by id). *)
(* `mine` is what the client owns by its own tree and `granted` what the   *)
(* server's authority check answers; a handover reaches the two at         *)
(* different times.  A frame is the sequence of bodies it carries.  The    *)
(* server's tick index only matters to the budget as "another tick", so    *)
(* the budget keeps whether it has been opened this tick.                  *)
(***************************************************************************)
EXTENDS Integers, FiniteSets, FiniteSetsExt, Sequences, SequencesExt

CONSTANTS Bodies,      \* block positions, ordered as integers
          Length,      \* encoded bytes of each body's block
          Payload,     \* MAX_FRAME_PAYLOAD
          BlockCap,    \* MAX_INPUT_BLOCKS_PER_TICK
          ForeignCap,  \* MAX_FOREIGN_INPUT_BLOCKS_PER_TICK
          Stride,      \* client frames a server frame ordinarily finds waiting
          MaxWire,     \* bound on input frames in flight
          MaxFaults,   \* bound on losses and on server frames off the stride
          MaxMoves,    \* bound on handovers
          QuietBound   \* what TailIsDriven allows, in client flushes

ASSUME InputAssumption ==
    /\ Bodies \subseteq Int /\ IsFiniteSet(Bodies)
    /\ Length \in [Bodies -> Nat \ {0}]
    /\ {Payload, BlockCap, ForeignCap, Stride, QuietBound} \subseteq Nat \ {0}
    /\ {MaxWire, MaxFaults, MaxMoves} \subseteq Nat

VARIABLES mine,     \* the bodies whose input this client owns
          granted,  \* the bodies the server says it owns
          rotor,    \* input_rotor
          wire,     \* input frames in flight
          budget,   \* the server's ReceiveBudget for this connection
          silent,   \* client flushes since the server last resolved the body's block
          faults,
          moves

inputVars == <<mine, granted, rotor, wire, budget, silent, faults, moves>>

-----------------------------------------------------------------------------
\* The walk of admit_input_blocks: positions are 0-based, as the rotor is.
Offered(blocks, start) ==
    [step \in 1 .. Len(blocks) |-> (start + step - 1) % Len(blocks)]

\* Mutant: the rotor parks on the first refusal, whatever its size.
ParksOnAny(length) == TRUE

\* Only a block that could ride an empty frame may hold the front of the rota.
ParksOn(length) == length <= Payload

\* One step of the walk: [out, payload, refused].
Offer(blocks, taken, index) ==
    LET length == Length[blocks[index + 1]]
    IN  IF Len(taken.out) < BlockCap /\ taken.payload + length <= Payload
        THEN [taken EXCEPT !.out = Append(@, index), !.payload = @ + length]
        ELSE IF taken.refused = -1 /\ ParksOn(length)
             THEN [taken EXCEPT !.refused = index]
             ELSE taken

\* admit_input_blocks: which blocks ride, ascending, and the next rotor.
AdmitInputBlocks(blocks, at) ==
    IF blocks = << >> THEN [carried |-> << >>, rotor |-> 0]
    ELSE LET start == at % Len(blocks)
             taken == FoldLeft(LAMBDA t, index : Offer(blocks, t, index),
                               [out |-> << >>, payload |-> 0, refused |-> -1],
                               Offered(blocks, start))
         IN  [carried |-> SetToSortSeq(Range(taken.out), <),
              rotor   |-> IF taken.refused = -1 THEN start ELSE taken.refused]

-----------------------------------------------------------------------------
NewBudget == [opened |-> FALSE, blocks |-> 0, foreign |-> 0]

\* Mutant: the budget is opened once and never pointed at a new tick.
OpenBudgetOnce(b) == IF b.opened THEN b ELSE [b EXCEPT !.opened = TRUE]

\* ReceiveBudget::open: the first frame of a tick starts from nothing.
OpenBudget(b) == IF b.opened THEN b ELSE [opened |-> TRUE, blocks |-> 0, foreign |-> 0]

\* The block loop: `left` blocks of the frame, from the budget `b`, with the
\* bodies resolved so far.  It ends on a spent budget or on one foreign block
\* too many, and the rest of the frame is abandoned.
Resolve(frame, opened) ==
    LET Block[i \in Nat, b \in [opened : BOOLEAN, blocks : Nat, foreign : Nat], got \in SUBSET Bodies] ==
          IF i > Len(frame) \/ b.blocks >= BlockCap THEN [budget |-> b, got |-> got]
          ELSE LET admitted == [b EXCEPT !.blocks = @ + 1]
                   noted    == [admitted EXCEPT !.foreign = @ + 1]
               IN  IF frame[i] \in granted THEN Block[i + 1, admitted, got \cup {frame[i]}]
                   ELSE IF noted.foreign <= ForeignCap THEN Block[i + 1, noted, got]
                   ELSE [budget |-> noted, got |-> got]
    IN  Block[1, opened, {}]

\* The frames a server frame finds, handled one by one against one budget.
ResolveAll(frames) ==
    FoldLeft(LAMBDA acc, frame :
                LET r == Resolve(frame, OpenBudget(acc.budget))
                IN  [budget |-> r.budget, got |-> acc.got \cup r.got],
             [budget |-> budget, got |-> {}], frames)

-----------------------------------------------------------------------------
InputInit ==
    /\ mine = Bodies
    /\ granted = Bodies
    /\ rotor = 0
    /\ wire = << >>
    /\ budget = NewBudget
    /\ silent = [b \in Bodies |-> 0]
    /\ faults = 0
    /\ moves = 0

\* send_client_input: one frame per client frame that ticks.
SendClientInput ==
    LET blocks == SetToSortSeq(mine, <)
        walk   == AdmitInputBlocks(blocks, rotor)
    IN  /\ Len(wire) < MaxWire
        /\ mine # {}
        /\ rotor' = walk.rotor
        /\ wire' = Append(wire, [i \in DOMAIN walk.carried |-> blocks[walk.carried[i] + 1]])
        /\ silent' = [b \in Bodies |-> IF b \in mine \cap granted /\ silent[b] <= QuietBound
                                       THEN silent[b] + 1 ELSE silent[b]]
        /\ UNCHANGED <<mine, granted, budget, faults, moves>>

\* One server frame polls what has arrived and then moves to another tick.
ServerFrame(n) ==
    LET all == ResolveAll(SubSeq(wire, 1, n))
    IN  /\ n <= Len(wire)
        /\ n # Stride => faults < MaxFaults
        /\ faults' = IF n # Stride THEN faults + 1 ELSE faults
        /\ wire' = SubSeq(wire, n + 1, Len(wire))
        /\ budget' = [all.budget EXCEPT !.opened = FALSE]
        /\ silent' = [b \in Bodies |-> IF b \in all.got THEN 0 ELSE silent[b]]
        /\ UNCHANGED <<mine, granted, rotor, moves>>

LoseInput ==
    /\ wire # << >>
    /\ faults < MaxFaults
    /\ wire' = Tail(wire)
    /\ faults' = faults + 1
    /\ UNCHANGED <<mine, granted, rotor, budget, silent, moves>>

\* A handover: the server moves a body's authority, the client learns of it later.
MoveAuthority(b) ==
    /\ moves < MaxMoves
    /\ granted' = IF b \in granted THEN granted \ {b} ELSE granted \cup {b}
    /\ silent' = [silent EXCEPT ![b] = 0]
    /\ moves' = moves + 1
    /\ UNCHANGED <<mine, rotor, wire, budget, faults>>

LearnAuthority ==
    /\ mine # granted
    /\ mine' = granted
    /\ UNCHANGED <<granted, rotor, wire, budget, silent, faults, moves>>

InputNext ==
    \/ SendClientInput
    \/ \E n \in 0 .. MaxWire : ServerFrame(n)
    \/ LoseInput
    \/ \E b \in Bodies : MoveAuthority(b)
    \/ LearnAuthority

InputSpec == InputInit /\ [][InputNext]_inputVars

-----------------------------------------------------------------------------
\* auth.rs on the block cap: the client rotates what it refuses "so the tail
\* rides the next tick rather than being truncated at the same index for
\* ever".  A body both ends agree on, whose block fits a frame, is resolved by
\* the server within QuietBound client flushes, through losses, handovers and
\* blocks too wide to ride.
TailIsDriven ==
    \A b \in mine \cap granted : Length[b] <= Payload => silent[b] <= QuietBound
=============================================================================
