----------------------------- MODULE PendingHalves -----------------------------
(***************************************************************************)
(* What the two pending halves of a peer's interest delta promise, as sets *)
(* of entity ids: the representation InterestSync uses.  An id is pending  *)
(* in one half at most; what an ack retires is what rode; and an id goes   *)
(* without having ridden only when a whole set is owed or states it.       *)
(***************************************************************************)
EXTENDS Naturals, FiniteSets

CONSTANT Entity

VARIABLES
    leaves, enters,          \* pending transitions
    leftRode, enteredRode,   \* the part of each that is in flight
    owed                     \* a whole set is owed

halves == <<leaves, enters, leftRode, enteredRode, owed>>

Init ==
    /\ leaves = {} /\ enters = {}
    /\ leftRode = {} /\ enteredRode = {}
    /\ owed = FALSE

\* A queue that is full may lose an entry, but never silently.
Evicted(lost) == Cardinality(lost) <= 1 /\ (lost # {} => owed')

NoteLeave(e) ==
   \E lost \in SUBSET leaves :
       /\ Evicted(lost)
       /\ leaves' = (leaves \ lost) \cup {e}
       /\ leftRode' = leftRode \ lost
       /\ enters' = enters \ {e}
       /\ enteredRode' = enteredRode \ {e}
       /\ owed => owed'

NoteEnter(e) ==
   \E lost \in SUBSET enters :
       /\ Evicted(lost)
       /\ enters' = (enters \ lost) \cup {e}
       /\ enteredRode' = enteredRode \ lost
       /\ leaves' = leaves \ {e}
       /\ leftRode' = leftRode \ {e}
       /\ owed => owed'

\* A section rides: what it states is in flight.  A leave the wire cannot name
\* is dropped, since the entity has unregistered.
Ride ==
    \E L \in SUBSET leaves, E \in SUBSET enters, gone \in SUBSET leaves :
       /\ leftRode \cup enteredRode = {}
       /\ L \cap gone = {}
       /\ leaves' = leaves \ gone /\ leftRode' = L
       /\ enters' = enters /\ enteredRode' = E
       /\ owed' = owed

\* An ack, or the end of patience: exactly what rode is retired, and giving up
\* owes a whole set.
Retire ==
    /\ leaves' = leaves \ leftRode /\ leftRode' = {}
    /\ enters' = enters \ enteredRode /\ enteredRode' = {}
    /\ owed => owed'

\* A whole set supersedes every leave and the enters it names.
StateWhole ==
    /\ owed
    /\ leaves' = {} /\ leftRode' = {}
    /\ enters' \subseteq enters /\ enteredRode' = {}
    /\ owed' \in BOOLEAN

Next ==
    \/ \E e \in Entity : NoteLeave(e) \/ NoteEnter(e)
    \/ Ride
    \/ Retire
    \/ StateWhole

Spec == Init /\ [][Next]_halves

=============================================================================
