------------------------------ MODULE SendRota ------------------------------
(***************************************************************************)
(* The server's send rota for one peer: priority.rs and the admit loop of  *)
(* assemble_peer.  A flush orders the peer's surviving set by staleness     *)
(* times weight and spends the byte budget down that order, one datagram   *)
(* per tick the frame advanced, with one cursor that never moves back.     *)
(*                                                                         *)
(* An entity id stands for a row of the peer's set; an entity that is not  *)
(* in `members` has left the peer's interest.  last_sent is kept as an age *)
(* in ticks (NeverSent when the map has no entry).  A block's size is a    *)
(* fixed figure of its entity.  Which state-lane deltas are empty, which   *)
(* ids still wait for a slot and how large the interest section is are     *)
(* inputs of the flush.  Weights are in units of WEIGHT_ONE.               *)
(***************************************************************************)
EXTENDS Integers, FiniteSets, FiniteSetsExt, Sequences, SequencesExt

CONSTANTS Ids,          \* entity ids, ordered as integers
          Size,         \* encoded bytes of an entity's block
          StateLane,    \* the ids on the state lane
          Owned,        \* the ids whose input this peer drives
          Declared,     \* the `priority` export of each entity
          PriorityMax,  \* PRIORITY_MAX
          WeightOwned,  \* WEIGHT_OWNED
          Budget,       \* effective_send_budget
          Sections,     \* possible lengths of the interest section's reserve
          MaxPasses,    \* the accumulator's max_ticks_per_frame
          AgeCap,       \* bound on a quiet row's staleness, in ticks
          MaxEdits,     \* bound on band changes and re-entries
          StarveBound   \* what NobodyStarves allows

\* NEVER_SENT_STALENESS, above every age a bounded run can reach.
NeverSent == 100000

ASSUME RotaAssumption ==
    /\ Ids \subseteq Int /\ IsFiniteSet(Ids)
    /\ StateLane \subseteq Ids /\ Owned \subseteq Ids
    /\ Size \in [Ids -> Nat \ {0}] /\ Declared \in [Ids -> Nat]
    /\ Budget \in Nat \ {0} /\ MaxPasses \in Nat \ {0}
    /\ Sections \subseteq 0 .. Budget - 1
    /\ AgeCap \in Nat /\ AgeCap < NeverSent

VARIABLES members,  \* the ids that survived the interest pass
          band,     \* each id's distance band
          age,      \* ticks since last_sent, or NeverSent
          waited,   \* consecutive flushes the id had a block to send and did not
          rotaEdits

rotaVars == <<members, band, age, waited, rotaEdits>>

Near == "near"
Mid == "mid"
Far == "far"

BandWeight(b) == CASE b = Near -> 4 [] b = Mid -> 2 [] b = Far -> 1

\* band_for_row: no radius, no distance; no anchor, the far band.
BandOf(culling, anchored, third) ==
    CASE ~culling              -> Near
      [] culling /\ ~anchored  -> Far
      [] OTHER                 -> third

WeightFor(b, declared, owned) ==
    LET weight == BandWeight(b) * Max({1, Min({declared, PriorityMax})})
    IN  IF owned THEN Max({weight, WeightOwned}) ELSE weight

\* Mutant: the weight is added to the staleness instead of multiplied.
ScoreAdds(id) == age[id] + 256 * WeightFor(band[id], Declared[id], id \in Owned)

Score(id) == age[id] * WeightFor(band[id], Declared[id], id \in Owned)

\* priority::cmp: descending score, ties by ascending id.
SortsBefore(a, b) == Score(a) > Score(b) \/ (Score(a) = Score(b) /\ a < b)

SendOrder == SetToSortSeq(members, SortsBefore)

Body(sent) == MapThenSumSet(LAMBDA id : Size[id], sent)

BlockAdmission(unWritten, fits, frameIsEmpty) ==
    CASE unWritten                             -> "UnWrite"
      [] ~unWritten /\ fits                    -> "Admit"
      [] ~unWritten /\ ~fits /\ frameIsEmpty   -> "Oversize"
      [] ~unWritten /\ ~fits /\ ~frameIsEmpty  -> "Defer"

\* Mutant: an oversized block leaves the cursor standing.
AdmissionAdvancesCursorNotOversize(admission) ==
    admission \notin {"Defer", "Oversize"}

AdmissionAdvancesCursor(admission) == admission # "Defer"

SendPassIsDue(pass, passes, rotaLeft) == pass < passes /\ (pass = 0 \/ rotaLeft > 0)

\* block_is_un_written: a state-lane delta with an empty mask.  A row this peer
\* was never sent goes out in full.
IsUnWritten(id, quiet) == id \in quiet \cap StateLane /\ age[id] # NeverSent

\* One datagram: walk the order from `start`, admitting against `budget`.
FillDatagram(order, start, budget, held, quiet) ==
    LET Walk[i \in Nat, sent \in SUBSET Ids] ==
          IF i > Len(order) \/ Body(sent) >= budget THEN [sent |-> sent, next |-> i]
          ELSE IF order[i] \in held THEN Walk[i + 1, sent]
          ELSE LET id   == order[i]
                   what == BlockAdmission(IsUnWritten(id, quiet),
                                          Body(sent) + Size[id] <= budget, sent = {})
                   next == IF AdmissionAdvancesCursor(what) THEN i + 1 ELSE i
               IN  CASE what = "UnWrite"  -> Walk[next, sent]
                     [] what = "Admit"    -> Walk[next, sent \cup {id}]
                     [] what = "Oversize" -> [sent |-> sent \cup {id}, next |-> next]
                     [] what = "Defer"    -> [sent |-> sent, next |-> next]
    IN  Walk[start, {}]

\* Every datagram of the frame, the reserve off the first one's budget.
Datagrams(order, passes, reserve, held, quiet) ==
    LET Passes[pass \in Nat, next \in Nat] ==
          IF ~SendPassIsDue(pass, passes, Len(order) + 1 - next) THEN << >>
          ELSE LET d == FillDatagram(order, next,
                            IF pass = 0 THEN Budget - reserve ELSE Budget, held, quiet)
               IN  <<d.sent>> \o Passes[pass + 1, d.next]
    IN  Passes[0, 1]

RotaInit ==
    /\ members = Ids
    /\ band \in [Ids -> {Near, Far}]
    /\ age = [id \in Ids |-> NeverSent]
    /\ waited = [id \in Ids |-> 0]
    /\ rotaEdits = 0

\* The ids with a block to send: named, and not un-written.
Wanting(held, quiet) == {id \in members \ held : ~IsUnWritten(id, quiet)}

\* What a flush is given: the ticks the frame advanced, the interest section's
\* reserve, the ids no slot names yet, the rows unchanged since their base.
Offers == [passes : 1 .. MaxPasses, reserve : Sections,
           held : {{}, {Min(Ids)}}, quiet : SUBSET StateLane]

FrameOf(o) == Datagrams(SendOrder, o.passes, o.reserve, o.held, o.quiet)

\* assemble_peer and the stamps it leaves.
AssemblePeer(o) ==
    LET sent == UNION Range(FrameOf(o))
    IN  /\ age' = [id \in Ids |->
                     IF id \in sent THEN o.passes
                     ELSE IF age[id] = NeverSent THEN NeverSent
                     ELSE Min({age[id] + o.passes, AgeCap})]
        /\ waited' = [id \in Ids |->
                        IF id \in Wanting(o.held, o.quiet) \ sent THEN waited[id] + 1 ELSE 0]
        /\ UNCHANGED <<members, band, rotaEdits>>

Flush == \E o \in Offers : AssemblePeer(o)

\* An entity changes band as it or the viewer moves.
Approach(id, third) ==
    /\ rotaEdits < MaxEdits
    /\ BandOf(TRUE, TRUE, third) # band[id]
    /\ band' = [band EXCEPT ![id] = BandOf(TRUE, TRUE, third)]
    /\ rotaEdits' = rotaEdits + 1
    /\ UNCHANGED <<members, age, waited>>

\* Relevancy transitions; a leave drops last_sent, so a re-entry sorts first.
LeaveInterest(id) ==
    /\ rotaEdits < MaxEdits
    /\ id \in members
    /\ members' = members \ {id}
    /\ age' = [age EXCEPT ![id] = NeverSent]
    /\ waited' = [waited EXCEPT ![id] = 0]
    /\ rotaEdits' = rotaEdits + 1
    /\ UNCHANGED <<band>>

EnterInterest(id) ==
    /\ id \notin members
    /\ members' = members \cup {id}
    /\ UNCHANGED <<band, age, waited, rotaEdits>>

RotaNext ==
    \/ Flush
    \/ \E id \in Ids, third \in {Near, Mid, Far} : Approach(id, third)
    \/ \E id \in Ids : LeaveInterest(id)
    \/ \E id \in Ids : EnterInterest(id)

RotaSpec == RotaInit /\ [][RotaNext]_rotaVars

-----------------------------------------------------------------------------
\* priority.rs promises that starvation is impossible by construction: an
\* entity with something to send and a slot to send it under is passed over
\* at most StarveBound flushes running, however the others are weighted, move
\* between bands, oversize a datagram or re-enter ahead of it.
NobodyStarves == \A id \in Ids : waited[id] <= StarveBound

=============================================================================
