------------------------------ MODULE MCNaming ------------------------------
(* The wire's names, part by part: the manifest lane of one connection, the *)
(* server's slot table under churn, and the two pending halves of a peer's  *)
(* interest delta.  The parts share no state; a behaviour runs the one      *)
(* `part` names and leaves the others in a first state of theirs.           *)
EXTENDS ManifestSync

CONSTANTS
    AllocEntity, AllocQuarantine, AllocMaxTick, AllocMaxChurn, AllocQuietTick,
    QueueEntity, PerFrame, PendingMax, HardMax

VARIABLES
    part,
    allocTick, allocRegistered, allocTable, allocDirty, allocChurn,
    set, named, left, entered, stamped, owed

allocVars == <<allocTick, allocRegistered, allocTable, allocDirty, allocChurn>>

queueVars == <<set, named, left, entered, stamped, owed>>

Slots == INSTANCE SlotAlloc WITH
    Entity <- AllocEntity, Quarantine <- AllocQuarantine,
    MaxTick <- AllocMaxTick, MaxChurn <- AllocMaxChurn, QuietTick <- AllocQuietTick,
    tick <- allocTick, registered <- allocRegistered, table <- allocTable,
    dirty <- allocDirty, churn <- allocChurn

Queue == INSTANCE PendingQueue WITH Entity <- QueueEntity

\* Each part's constants are what the module it runs asks of them.
ASSUME NamingBounds ==
    /\ AllocEntity \subseteq Nat \ {0} /\ IsFiniteSet(AllocEntity)
    /\ AllocQuarantine \in Nat \ {0}
    /\ Slots!AllocAssumption /\ Queue!QueueAssumption
    /\ 1 \in Entity /\ Owner # {}

MCEntity == {1, 2}

MCAllocEntity == {1, 2, 3}

MCSlot == 1..MaxSlots

\* A session under way: one entity named, published and held by the client.
Established ==
    /\ tick = 0
    /\ registered = {1}
    /\ owner = [e \in Entity |-> CHOOSE o \in Owner : TRUE]
    /\ names = [s \in Slot |-> IF s = 1 THEN 1 ELSE NoEntity]
    /\ freed = [s \in Slot |-> NoTick]
    /\ dirty = FALSE
    /\ history = <<RowsOf(names)>>
    /\ peerGen = 1
    /\ client = [FreshClient(0) EXCEPT !.table = BindRows(EmptyTable, history[1]),
                                       !.rows = history[1], !.gen = 1]
    /\ down = {}
    /\ reliable = <<>>
    /\ up = {}
    /\ churn = 0 /\ losses = 0 /\ refused = 0

MCInit ==
    /\ part \in {"manifest", "slots", "queue"}
    /\ Established /\ Slots!Init /\ Queue!Init
    /\ part # "slots" => allocRegistered = {}

MCNext ==
    /\ UNCHANGED part
    /\ \/ part = "manifest" /\ Next /\ UNCHANGED <<allocVars, queueVars>>
       \/ part = "slots" /\ Slots!Next /\ UNCHANGED <<vars, queueVars>>
       \/ part = "queue" /\ Queue!Next /\ UNCHANGED <<vars, allocVars>>

\* Each part's own fairness, for the behaviours that run it.
MCFairness ==
    /\ WF_vars(part = "manifest" /\ Flush)
    /\ WF_vars(part = "manifest" /\ \E m \in up : HandleClientInput(m))
    /\ WF_vars(part = "manifest" /\ \E d \in down : HandleSnapshot(d))
    /\ WF_vars(part = "manifest" /\ HandleReliable)
    /\ WF_vars(part = "manifest" /\ ClientFlush)
    /\ WF_allocVars(part = "slots" /\ Slots!ReconcileSlots)

MCSpec == MCInit /\ [][MCNext]_<<part, vars, allocVars, queueVars>> /\ MCFairness

-----------------------------------------------------------------------------

(* Whatever name an end uses means what the other end means by it: a slot  *)
(* that resolves on the client resolves to the server's entity, the rows a *)
(* client holds are rows the server published under that generation, the   *)
(* client's table follows those rows, the server's own table and its free  *)
(* list agree, and an entity waits in one pending half only.               *)
NamesAreTrue ==
    /\ NoAliasing
    /\ HeldIsPublished
    /\ TableFollowsRows
    /\ Slots!TableIsSound
    /\ Queue!OneHalf

(* SlotTable keeps the naming promise of NamingSpec: an entity keeps its   *)
(* slot while it is registered, and no slot is reused in quarantine.       *)
ImplementsNaming == Slots!ImplementsNaming

(* reconcile_slots names, in the end, every entity there is a slot for.    *)
EventuallyNamed == Slots!EventuallyNamed

(* The pending vectors and their in-flight counts implement the sets of    *)
(* PendingHalves: an ack retires what rode and nothing else.               *)
ImplementsHalves == Queue!ImplementsHalves
=============================================================================
