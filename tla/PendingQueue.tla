------------------------------ MODULE PendingQueue ------------------------------
(***************************************************************************)
(* The two pending halves of a peer's interest delta as the code keeps     *)
(* them: vectors, each with a count of the entries at its FRONT that are   *)
(* in flight.  Removing an entry, evicting one and retiring a prefix all   *)
(* shift what those counts mean.  The module is shown to implement         *)
(* PendingHalves, the sets that InterestSync reasons with.                 *)
(***************************************************************************)
EXTENDS Naturals, FiniteSets, SequencesExt

CONSTANTS
    Entity,       \* entity ids
    PerFrame,     \* INTEREST_DELTA_PER_FRAME
    PendingMax,   \* INTEREST_DELTA_PENDING_MAX
    HardMax       \* INTEREST_DELTA_PENDING_HARD_MAX

\* The caps are positive and the hard one is the higher; a model that instances this module asserts it.
QueueAssumption ==
    /\ PerFrame \in Nat \ {0} /\ PendingMax \in Nat \ {0} /\ HardMax \in Nat
    /\ PendingMax <= HardMax

VARIABLES
    set,        \* the connection's interest set
    named,      \* entities the slot table can name
    left,       \* interest_pending.leaves and interest_delta_left_sent
    entered,    \* interest_pending.enters and interest_delta_entered_sent
    stamped,    \* interest_delta_tick is some
    owed        \* interest_full_due

vars == <<set, named, left, entered, stamped, owed>>

Half == [list : Seq(Entity), sent : Nat]

Empty == [list |-> <<>>, sent |-> 0]

(* Both halves are well formed and within the hard ceiling, and a count    *)
(* never runs past its vector or without a stamp.                          *)
TypeOK ==
    /\ set \subseteq Entity /\ named \subseteq Entity
    /\ \A h \in {left, entered} :
         /\ h \in Half
         /\ Len(h.list) <= HardMax
         /\ h.sent <= Len(h.list)
         /\ h.sent > 0 => stamped
    /\ stamped \in BOOLEAN /\ owed \in BOOLEAN

Init ==
    /\ set = {} /\ named = Entity
    /\ left = Empty /\ entered = Empty
    /\ stamped = FALSE /\ owed = FALSE

-----------------------------------------------------------------------------

\* Vec::retain
Retain(list, S) ==
    FoldLeft(LAMBDA kept, e : IF e \in S THEN Append(kept, e) ELSE kept, <<>>, list)

\* Mutant: the count shrinks wherever the entry stood.
DropPendingShrinking(h, e) ==
    IF e \notin Range(h.list) THEN h
    ELSE [list |-> Remove(h.list, e), sent |-> IF h.sent > 0 THEN h.sent - 1 ELSE 0]

\* Mutant: an entry in flight is left where it is.
DropPendingUnsent(h, e) ==
    [h EXCEPT !.list = SubSeq(@, 1, h.sent)
                         \o Retain(SubSeq(@, h.sent + 1, Len(@)), Entity \ {e})]

\* drop_pending
DropPending(h, e) ==
    IF e \notin Range(h.list) THEN h
    ELSE LET at == CHOOSE i \in DOMAIN h.list : h.list[i] = e
         IN  [list |-> RemoveAt(h.list, at),
              sent |-> IF at <= h.sent THEN h.sent - 1 ELSE h.sent]

\* push_pending, and whether it answers "overflowed"
Overflows(h) == Len(h.list) >= PendingMax

PushPending(h, e) ==
    LET kept == IF Len(h.list) >= HardMax
                THEN [list |-> Tail(h.list), sent |-> IF h.sent > 0 THEN h.sent - 1 ELSE 0]
                ELSE h
    IN  [kept EXCEPT !.list = Append(@, e)]

NoteInterestLeave(e) ==
    /\ e \in set
    /\ set' = set \ {e}
    /\ entered' = DropPending(entered, e)
    /\ left' = PushPending(left, e)
    /\ owed' = (owed \/ Overflows(left))
    /\ UNCHANGED <<named, stamped>>

NoteInterestEnter(e) ==
    /\ e \notin set
    /\ set' = set \cup {e}
    /\ left' = DropPending(left, e)
    /\ entered' = PushPending(entered, e)
    /\ owed' = (owed \/ Overflows(entered))
    /\ UNCHANGED <<named, stamped>>

\* The slot table names an entity, or no longer does.
Rename(e) ==
    /\ named' = IF e \in named THEN named \ {e} ELSE named \cup {e}
    /\ UNCHANGED <<set, left, entered, stamped, owed>>

\* retire_interest_delta: `acked`, or given up on.
RetireInterestDelta(acked) ==
    /\ stamped
    /\ left' = [list |-> SubSeq(left.list, left.sent + 1, Len(left.list)), sent |-> 0]
    /\ entered' = [list |-> SubSeq(entered.list, entered.sent + 1, Len(entered.list)),
                   sent |-> 0]
    /\ stamped' = FALSE
    /\ owed' = (owed \/ ~acked)
    /\ UNCHANGED <<set, named>>

AtMost(n, m) == IF n <= m THEN n ELSE m

\* The enters of a fresh section: the walk stops at the first with no slot.
EnterPrefix(list) ==
    LET reach == {n \in 0..AtMost(Len(list), PerFrame) :
                    \A i \in 1..n : list[i] \in named}
    IN  CHOOSE n \in reach : \A m \in reach : m <= n

\* build_interest_section with the gate open and nothing in flight; an empty
\* section is not sent.
BuildInterestSection ==
    LET kept == Retain(left.list, named)
        n == AtMost(Len(kept), PerFrame)
        m == EnterPrefix(entered.list)
    IN  /\ ~stamped
        /\ left' = [list |-> kept, sent |-> n]
        /\ entered' = [entered EXCEPT !.sent = m]
        /\ stamped' = (n + m > 0)
        /\ UNCHANGED <<set, named, owed>>

\* state_whole_interest_set, and the demand it answers settled or not.
StateWholeInterestSet(settled) ==
    /\ owed
    /\ left' = Empty
    /\ entered' = [list |-> Retain(entered.list, Entity \ (set \cap named)),
                   sent |-> 0]
    /\ stamped' = FALSE
    /\ owed' = ~settled
    /\ UNCHANGED <<set, named>>

Next ==
    \/ \E e \in Entity : NoteInterestLeave(e) \/ NoteInterestEnter(e) \/ Rename(e)
    \/ \E acked \in BOOLEAN : RetireInterestDelta(acked)
    \/ BuildInterestSection
    \/ \E settled \in BOOLEAN : StateWholeInterestSet(settled)

Spec == Init /\ [][Next]_vars

-----------------------------------------------------------------------------

Prefix(h) == {h.list[i] : i \in 1..h.sent}

Sets == INSTANCE PendingHalves WITH
    leaves <- Range(left.list), enters <- Range(entered.list),
    leftRode <- Prefix(left), enteredRode <- Prefix(entered)

(* The vectors and their counts implement the sets: whatever is removed,   *)
(* evicted or superseded while a prefix is in flight, the ack retires the  *)
(* entries that rode and no other.                                         *)
ImplementsHalves == Sets!Spec

(* An id waits at most once and in one half, and the half agrees with the  *)
(* set: what waits to enter is in it, what waits to leave is not.          *)
OneHalf ==
    /\ IsInjective(left.list) /\ IsInjective(entered.list)
    /\ Range(entered.list) \subseteq set
    /\ Range(left.list) \cap set = {}

=============================================================================
