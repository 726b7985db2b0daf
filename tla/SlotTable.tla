------------------------------- MODULE SlotTable -------------------------------
(***************************************************************************)
(* The table behind the wire names: slot to id, id to slot, and the list   *)
(* of freed slots, oldest first.  One type with two roles: the server      *)
(* allocates and releases, a client binds and unbinds what the manifest    *)
(* says.  Operators only, as functions of the table record; wire slot n is *)
(* slot n + 1 here.                                                        *)
(***************************************************************************)
EXTENDS SlotNaming, Sequences, FiniteSetsExt

CONSTANT MaxSlots     \* MAX_SLOTS

ASSUME TableAssumption ==
    /\ MaxSlots \in Nat
    /\ Slot = 1..MaxSlots
    /\ Entity \subseteq Nat \ {0}
    /\ NoEntity = 0

Tables ==
    [ ids   : Seq(Nat),                           \* slot to id, 0 vacant
      slots : UNION {[S -> Slot] : S \in SUBSET Entity},   \* id to slot
      free  : Seq([slot : Slot, at : Nat]) ]      \* freed slots, oldest first

EmptyTable == [ids |-> <<>>, slots |-> [e \in {} |-> 0], free |-> <<>>]

NamedIds(t) == DOMAIN t.slots

IdOf(t, s) == IF s \in DOMAIN t.ids THEN t.ids[s] ELSE NoEntity

\* What a table says, as SlotNaming sees it.
NamesOf(t) == [s \in Slot |-> IdOf(t, s)]

FreedOf(t) ==
    [s \in Slot |-> LET frees == {i \in DOMAIN t.free : t.free[i].slot = s}
                    IN  IF frees = {} THEN NoTick
                        ELSE t.free[CHOOSE i \in frees : TRUE].at]

\* A loop over a set of numbers in ascending order.
FoldAscending(op(_, _), base, S) ==
    MapThenFoldSet(op, base, LAMBDA x : x, LAMBDA T : Max(T), S)

-----------------------------------------------------------------------------

\* Write a binding both ways, growing the vector to reach the slot.
BindAt(t, s, id) ==
    [t EXCEPT !.ids = [i \in 1..(IF s > Len(t.ids) THEN s ELSE Len(t.ids)) |->
                          IF i = s THEN id ELSE IdOf(t, i)],
              !.slots = [e \in DOMAIN t.slots \cup {id} |->
                          IF e = id THEN s ELSE t.slots[e]]]

Vacate(t, s) == [t EXCEPT !.ids = [i \in DOMAIN t.ids |-> IF i = s THEN NoEntity
                                                          ELSE t.ids[i]]]

Forget(t, id) == [t EXCEPT !.slots = [e \in DOMAIN t.slots \ {id} |-> t.slots[e]]]

Expired(t, now) == t.free # <<>> /\ now >= Head(t.free).at + Quarantine

\* Mutant: the reuse window is not looked at.
AllocAtOnce(t, id, now) ==
    IF id \in NamedIds(t) THEN t
    ELSE IF t.free # <<>>
    THEN BindAt([t EXCEPT !.free = Tail(@)], Head(t.free).slot, id)
    ELSE IF Len(t.ids) < MaxSlots THEN BindAt(t, Len(t.ids) + 1, id)
    ELSE t

\* Mutant: a reissued slot stays on the free list.
AllocKeepingFree(t, id, now) ==
    IF id \in NamedIds(t) THEN t
    ELSE IF Expired(t, now) THEN BindAt(t, Head(t.free).slot, id)
    ELSE IF Len(t.ids) < MaxSlots THEN BindAt(t, Len(t.ids) + 1, id)
    ELSE t

\* SERVER: name `id`, reusing the oldest freed slot once it has cooled, minting
\* otherwise; refused, the table is as it was.
Alloc(t, id, now) ==
    IF id \in NamedIds(t) THEN t
    ELSE IF Expired(t, now)
    THEN BindAt([t EXCEPT !.free = Tail(@)], Head(t.free).slot, id)
    ELSE IF Len(t.ids) < MaxSlots THEN BindAt(t, Len(t.ids) + 1, id)
    ELSE t

\* SERVER: give up `id`'s slot; its quarantine starts now.
Release(t, id, now) ==
    IF id \notin NamedIds(t) THEN t
    ELSE LET s == t.slots[id]
         IN  [Forget(Vacate(t, s), id) EXCEPT !.free = Append(@, [slot |-> s, at |-> now])]

\* SERVER: name exactly the registered entities; releases come first, and both
\* loops run in ascending order of id.
Reconcile(t, registered, now) ==
    LET released == FoldAscending(LAMBDA id, u : Release(u, id, now), t,
                                  NamedIds(t) \ registered)
    IN  FoldAscending(LAMBDA id, u : Alloc(u, id, now), released, registered)

\* CLIENT: bind, replacing any previous binding of either side.
Bind(t, s, id) ==
    LET freed == IF IdOf(t, s) # NoEntity THEN Forget(t, IdOf(t, s)) ELSE t
        moved == IF id \in NamedIds(freed) THEN Vacate(freed, freed.slots[id])
                                           ELSE freed
    IN  IF id = NoEntity THEN t ELSE BindAt(moved, s, id)

\* CLIENT: drop a slot's binding in both directions.
Unbind(t, s) ==
    IF IdOf(t, s) = NoEntity THEN t ELSE Forget(Vacate(t, s), IdOf(t, s))

-----------------------------------------------------------------------------

\* The two directions are inverse to each other.
Agrees(t) ==
    /\ \A e \in NamedIds(t) : IdOf(t, t.slots[e]) = e
    /\ \A s \in DOMAIN t.ids : t.ids[s] # NoEntity =>
         t.ids[s] \in NamedIds(t) /\ t.slots[t.ids[s]] = s

\* The free list holds each vacant slot ever minted, once, oldest first.
FreeListIsExact(t) ==
    /\ \A s \in DOMAIN t.ids :
         t.ids[s] = NoEntity <=> \E i \in DOMAIN t.free : t.free[i].slot = s
    /\ \A i, j \in DOMAIN t.free : i < j =>
         t.free[i].slot # t.free[j].slot /\ t.free[i].at <= t.free[j].at

=============================================================================
