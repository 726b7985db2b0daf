------------------------------ MODULE SlotNaming ------------------------------
(***************************************************************************)
(* What the server's slot table promises: which wire slot may name which   *)
(* entity after a reconciliation.  It is the view the lanes built on the   *)
(* table need (InterestSync, ManifestSync); module SlotTable is the table  *)
(* itself and is shown to implement it (SlotAlloc).                        *)
(***************************************************************************)
EXTENDS Naturals, FiniteSets

CONSTANTS
    Entity,       \* entity ids
    Slot,         \* wire slots
    NoEntity,     \* a slot that names nothing
    Quarantine    \* SLOT_QUARANTINE_TICKS

ASSUME NamingAssumption ==
    /\ NoEntity \notin Entity
    /\ Quarantine \in Nat \ {0}

NoTick == 0       \* Option<u64>::None: no flush is at tick 0

Names == [Slot -> Entity \cup {NoEntity}]     \* what each slot names

Unnamed == [s \in Slot |-> NoEntity]

\* id_of, over a set of slots
IdsOf(names, S) == {names[s] : s \in S} \ {NoEntity}

\* slot_of, over a set of ids
SlotsOf(names, ids) == {s \in Slot : names[s] \in ids}

Named(names) == IdsOf(names, Slot)

\* No entity goes by two names.
OneName(names) == \A s, t \in Slot : names[s] = names[t] /\ names[s] # NoEntity => s = t

\* Mutant: a freed slot is given out at once.
OpenAtOnce(names, freed, now) == {s \in Slot : names[s] = NoEntity}

\* A slot that may be given out at `now`: never minted, or out of quarantine.
Open(names, freed, now) ==
    {s \in Slot : /\ names[s] = NoEntity
                  /\ freed[s] = NoTick \/ now >= freed[s] + Quarantine}

\* The tables a reconciliation may leave: an entity that is gone gives its slot
\* up, a registered one keeps its own, a new one takes an open slot and is held
\* back unnamed only while there is none.
Renamings(names, freed, registered, now) ==
    LET open == Open(names, freed, now)
        fresh == registered \ Named(names)
    IN  {n \in [Slot -> Entity \cup {NoEntity}] :
           /\ \A s \in Slot : names[s] \in registered => n[s] = names[s]
           /\ \A s \in Slot : names[s] \notin registered =>
                 n[s] = NoEntity \/ (s \in open /\ n[s] \in fresh)
           /\ OneName(n)
           /\ registered \subseteq Named(n) \/ \A s \in open : n[s] # NoEntity}

\* When each unnamed slot was freed, once `names` became `n` at `now`.
FreedAfter(names, n, freed, now) ==
    [s \in Slot |-> CASE n[s] # NoEntity -> NoTick
                      [] n[s] = NoEntity /\ names[s] # NoEntity -> now
                      [] OTHER -> freed[s]]

=============================================================================
