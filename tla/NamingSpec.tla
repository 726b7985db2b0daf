------------------------------ MODULE NamingSpec ------------------------------
(***************************************************************************)
(* The naming promise as a specification: entities come and go, and once a *)
(* tick the names follow them by Renamings.                                *)
(***************************************************************************)
EXTENDS SlotNaming

VARIABLES
    now,          \* the tick of the last reconciliation
    registered,   \* the entities to be named
    names,        \* what each slot names
    freed         \* when each unnamed slot was freed

Init ==
    /\ now = 0
    /\ registered \subseteq Entity
    /\ names = Unnamed
    /\ freed = [s \in Slot |-> NoTick]

Come ==
    /\ \E S \in SUBSET Entity : registered' = S
    /\ UNCHANGED <<now, names, freed>>

Rename ==
    /\ now' = now + 1
    /\ names' \in Renamings(names, freed, registered, now')
    /\ freed' = FreedAfter(names, names', freed, now')
    /\ UNCHANGED registered

Spec == Init /\ [][Come \/ Rename]_<<now, registered, names, freed>>

=============================================================================
