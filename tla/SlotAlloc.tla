------------------------------- MODULE SlotAlloc -------------------------------
(***************************************************************************)
(* The server's slot table over a session: bodies register, unregister and *)
(* are swept up dead, and every flush reconciles the table with whoever is *)
(* registered.  Shown to implement NamingSpec.                             *)
(***************************************************************************)
EXTENDS SlotTable

CONSTANTS
    MaxTick,      \* bound on the tick
    MaxChurn,     \* bound on registrations, unregistrations and sweeps
    QuietTick     \* bound: nothing comes or goes from this tick on

\* The bounds are numbers; a model that instances this module asserts it.
AllocAssumption == MaxTick \in Nat /\ MaxChurn \in Nat /\ QuietTick \in Nat

VARIABLES
    tick,         \* the tick of the last flush
    registered,   \* the ids of both registries
    table,        \* slots
    dirty,        \* slots_dirty
    churn         \* changes made so far

vars == <<tick, registered, table, dirty, churn>>

Init ==
    /\ tick = 0
    /\ registered \in SUBSET Entity
    /\ table = EmptyTable
    /\ dirty = TRUE
    /\ churn = 0

MayChurn == churn < MaxChurn /\ tick < QuietTick

Register(e) ==
    /\ MayChurn
    /\ e \notin registered
    /\ registered' = registered \cup {e}
    /\ dirty' = TRUE
    /\ churn' = churn + 1
    /\ UNCHANGED <<tick, table>>

Unregister(e) ==
    /\ MayChurn
    /\ e \in registered
    /\ registered' = registered \ {e}
    /\ dirty' = TRUE
    /\ churn' = churn + 1
    /\ UNCHANGED <<tick, table>>

\* The sweep that closes drain_pending raises no flag.
Sweep(e) ==
    /\ MayChurn
    /\ e \in registered
    /\ registered' = registered \ {e}
    /\ churn' = churn + 1
    /\ UNCHANGED <<tick, table, dirty>>

ReconcileOwed == dirty \/ Cardinality(NamedIds(table)) # Cardinality(registered)

\* Mutant: an entity refused a slot is not tried again.
StillOwedNever(t) == FALSE

\* reconcile_slots runs again next tick while any entity is without a slot.
StillOwed(t) == registered \ NamedIds(t) # {}

ReconcileSlots ==
    LET next == Reconcile(table, registered, tick + 1)
    IN  /\ tick < MaxTick
        /\ tick' = tick + 1
        /\ IF ReconcileOwed THEN table' = next /\ dirty' = StillOwed(next)
                            ELSE UNCHANGED <<table, dirty>>
        /\ UNCHANGED <<registered, churn>>

Next ==
    \/ \E e \in Entity : Register(e) \/ Unregister(e) \/ Sweep(e)
    \/ ReconcileSlots

Spec == Init /\ [][Next]_vars

\* A flush runs every tick for as long as the session does.
FairSpec == Spec /\ WF_vars(ReconcileSlots)

-----------------------------------------------------------------------------

(* The table stays well formed within its fixed width.                     *)
TypeOK ==
    /\ tick \in Nat
    /\ registered \subseteq Entity
    /\ table \in Tables
    /\ Len(table.ids) <= MaxSlots
    /\ dirty \in BOOLEAN
    /\ churn \in Nat

(* slot_of and id_of never disagree, and the free list holds each vacant   *)
(* slot exactly once in the order they were freed: the quarantine check    *)
(* looks only at its front.                                                *)
TableIsSound == Agrees(table) /\ FreeListIsExact(table)

(* What the lanes built on the table rely on: an entity keeps its slot for *)
(* as long as it is registered, no slot names another entity before its    *)
(* quarantine is over, and none is withheld while one is open.             *)
Naming == INSTANCE NamingSpec WITH now <- tick, names <- NamesOf(table),
                                   freed <- FreedOf(table)

ImplementsNaming == Naming!Spec

(* An entity refused while every slot cooled is named in the end: once     *)
(* nothing comes or goes, exactly the registered entities are named, or    *)
(* every slot there is names one of them.                                  *)
EventuallyNamed ==
    <>[](/\ NamedIds(table) \subseteq registered
         /\ \/ NamedIds(table) = registered
            \/ Cardinality(NamedIds(table)) = MaxSlots)

=============================================================================
