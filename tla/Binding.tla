------------------------------- MODULE Binding -------------------------------
(***************************************************************************)
(* Property binding (binding.rs, and the capture, restore and apply paths  *)
(* of sync.rs): one replicated body, from the values the game holds to the *)
(* row a peer records, to the wire, to the body of another peer.           *)
(*                                                                         *)
(* A lane is marshalled either property by property or through a bulk      *)
(* hook, a game method handed one array.  A hook call is staged while the  *)
(* synchroniser is bound and runs later, when it is not.  The game may     *)
(* free a node, resize a hook's array or put a value of another type into  *)
(* a property; every one of them falls back to the walk or is skipped.     *)
(*                                                                         *)
(* The lane is chosen with its schema: a lane of Input properties is       *)
(* captured by its owner and never written back, any other is a body's     *)
(* state.  The two reports of what could not be honoured are left out.     *)
(***************************************************************************)
EXTENDS Quantizer

CONSTANTS
    Declarations,    \* the declarations a body may carry
    Samples(_),      \* Samples(kind): the values the game may write
    Declared,        \* the sets of bulk hooks a body may declare
    MaxTicks,
    Drifted          \* a value of another type than the property's

\* A declaration is a list of entries, and a vector or a float of the game is
\* a list of floats.
ASSUME DeclarationsAssumption ==
    \A e \in Declarations :
        /\ e \in Seq([kind : STRING, role : STRING, asks : STRING, resolves : BOOLEAN])
        /\ \A n \in DOMAIN e :
              /\ Samples(e[n].kind) # {}
              /\ e[n].kind \in {"Vec3", "Vec2", "F32"} =>
                    Samples(e[n].kind) \subseteq Seq([neg : BOOLEAN, exp : Int, man : Nat])

VARIABLES
    schema,          \* state_schema or input_schema
    hooks,           \* the resolved BulkHooks, and whether each array is intact
    gone,            \* freed nodes: Root, or the index of a binding's target
    live,            \* what the game holds on the peer that records
    scratch,         \* scratch_state: reused, so what it held stays in it
    row,             \* the newest row of the history
    staged,          \* the HookCall waiting for every bind to be dropped, and its array
    remote,          \* what the game holds on the peer that receives
    pending,         \* pending_display
    simTick,
    phase

bindingVars ==
    <<schema, hooks, gone, live, scratch, row, staged, remote, pending, simTick, phase>>

EmptyRow == <<>>
NoCall == [hook |-> "none", values |-> <<>>]
Root == 0

IsInputLane == \A i \in DOMAIN schema : schema[i].role = "Input"

----------------------------------------------------------------------------
(* Resolution                                                              *)

\* The indices of S in ascending order: the k-th has k of them up to itself.
InOrder(S) ==
    [k \in 1..Cardinality(S) |-> CHOOSE i \in S : Cardinality({j \in S : j <= i}) = k]

\* An entry whose path or type does not resolve falls off the wire; one whose
\* annotation cannot be honoured stays on it, lossless.
ResolveEntries(entries) ==
    LET found == InOrder({i \in DOMAIN entries : entries[i].resolves})
    IN  [k \in DOMAIN found |-> PushQuantized(entries[found[k]])]

\* Indices the rollback loop writes back, in declaration order.
Restored(props) == InOrder({i \in DOMAIN props : IsRestored(props[i].role)})

\* Mutant: the apply hook marshals the restored subset, cosmetics left out.
HookSlotsApplyRestored(props) ==
    [restore |-> Restored(props), capture |-> [i \in DOMAIN props |-> i],
     apply |-> Restored(props)]

HookSlots(props) ==
    [restore |-> Restored(props), capture |-> [i \in DOMAIN props |-> i],
     apply |-> [i \in DOMAIN props |-> i]]

\* Hooks are resolved once; one with nothing to marshal is not resolved.
ResolveHooks(props, declared) ==
    [h \in {d \in declared : HookSlots(props)[d] # <<>>} |-> TRUE]

QuantizedCount(props) == Cardinality({i \in DOMAIN props : props[i].quant # "None"})

WritebackBulk == "apply" \in DOMAIN hooks /\ QuantizedCount(schema) >= 2

----------------------------------------------------------------------------
(* Rows                                                                    *)

\* A property whose node is freed, or whose value has another type than the
\* one it was resolved with, leaves its slice as the buffer had it.
CaptureFrom(values, usable, buffer) ==
    [i \in DOMAIN schema |->
        LET kept == IF i \in usable /\ values[i] # Drifted THEN values[i] ELSE buffer[i]
        IN  IF i \in usable THEN CanonicalizeValue(schema[i], kept) ELSE kept]

\* resize(stride, 0): what a buffer holds before anything is captured into it.
Zeroed(kind) ==
    CASE kind = "Quat" -> ZeroQuat
      [] kind = "Basis" -> {}
      [] kind = "Vec3" -> <<Zero(FALSE), Zero(FALSE), Zero(FALSE)>>
      [] kind = "Vec2" -> <<Zero(FALSE), Zero(FALSE)>>
      [] kind = "F32" -> <<Zero(FALSE)>>
      [] OTHER -> Zero(FALSE)

CaptureRow == CaptureFrom(live, DOMAIN schema \ gone, scratch)

CaptureRowFromHook == CaptureFrom(staged.values, DOMAIN schema, scratch)

ApplyTo(body, r, indices) ==
    [i \in DOMAIN schema |-> IF i \in indices \ gone THEN r[i] ELSE body[i]]

ApplyRow(body, r, restoredOnly) ==
    ApplyTo(body, r, {i \in DOMAIN schema : restoredOnly => IsRestored(schema[i].role)})

ApplyQuantizedRow(body, r) ==
    ApplyTo(body, r, {i \in DOMAIN schema : schema[i].quant # "None"})

Usable(h) == h \in DOMAIN hooks /\ hooks[h] /\ Root \notin gone

Marshalled(h, r) == [k \in DOMAIN HookSlots(schema)[h] |-> r[HookSlots(schema)[h][k]]]

StageFromRow(h, r) == staged' = [hook |-> h, values |-> Marshalled(h, r)]

\* The game's own marshalling method: it knows the order of the full list for
\* apply, of the restored list for restore, and goes by position.
GameOrder(h) == IF h = "restore" THEN Restored(schema) ELSE [i \in DOMAIN schema |-> i]

Invoked(h, values, body) ==
    [i \in DOMAIN schema |->
        LET at == {k \in DOMAIN values : GameOrder(h)[k] = i}
        IN  IF at = {} THEN body[i] ELSE values[CHOOSE k \in at : TRUE]]

----------------------------------------------------------------------------
(* The recording peer.  The game misuses its nodes at most once a tick.       *)

BindingInit ==
    /\ \E e \in Declarations : schema = ResolveEntries(e)
    /\ \E d \in Declared : hooks = ResolveHooks(schema, d)
    /\ live = [i \in DOMAIN schema |-> CHOOSE v \in Samples(schema[i].kind) : TRUE]
    /\ scratch = [i \in DOMAIN schema |-> Zeroed(schema[i].kind)]
    /\ remote = live
    /\ gone = {} /\ row = EmptyRow /\ staged = NoCall /\ pending = EmptyRow
    /\ simTick = 0 /\ phase = "idle"

RestoreTick ==
    /\ phase = "idle" /\ row # EmptyRow
    /\ phase' = "restoring"
    /\ IF Usable("restore")
       THEN StageFromRow("restore", row) /\ UNCHANGED live
       ELSE live' = ApplyRow(live, row, TRUE) /\ UNCHANGED staged
    /\ UNCHANGED <<schema, hooks, gone, scratch, row, remote, pending, simTick>>

\* _rollback_tick, and whatever else the game does to its own nodes.
Simulate ==
    /\ phase \in {"idle", "restored"} /\ simTick < MaxTicks
    /\ phase' = "simulated" /\ simTick' = simTick + 1
    /\ \E i \in DOMAIN schema : \E v \in Samples(schema[i].kind) :
          live' = [live EXCEPT ![i] = v]
    /\ UNCHANGED <<schema, hooks, gone, scratch, row, staged, remote, pending>>

GameDriftsAType ==
    /\ phase = "simulated" /\ phase' = "misused"
    /\ \E i \in DOMAIN schema : live' = [live EXCEPT ![i] = Drifted]
    /\ UNCHANGED <<schema, hooks, gone, scratch, row, staged, remote, pending, simTick>>

GameFreesANode ==
    /\ phase = "simulated" /\ phase' = "misused" /\ gone = {}
    /\ \/ \E i \in DOMAIN schema : gone' = {i}
       \/ gone' = {Root} \cup DOMAIN schema
    /\ UNCHANGED <<schema, hooks, live, scratch, row, staged, remote, pending, simTick>>

GameResizesAnArray ==
    /\ phase = "simulated" /\ phase' = "misused"
    /\ \E h \in DOMAIN hooks : hooks' = [hooks EXCEPT ![h] = FALSE]
    /\ UNCHANGED <<schema, gone, live, scratch, row, staged, remote, pending, simTick>>

StageCapture ==
    /\ phase \in {"simulated", "misused"}
    /\ phase' = "capturing"
    /\ staged' = IF "capture" \in DOMAIN hooks /\ Root \notin gone
                 THEN [NoCall EXCEPT !.hook = "capture"] ELSE NoCall
    /\ UNCHANGED <<schema, hooks, gone, live, scratch, row, remote, pending, simTick>>

RecordTick(armed) ==
    LET r == IF armed /\ hooks["capture"] THEN CaptureRowFromHook ELSE CaptureRow
    IN  /\ row' = r /\ scratch' = r
        /\ phase' = "recorded"
        /\ IF IsInputLane
           THEN UNCHANGED live /\ staged' = NoCall
           ELSE IF WritebackBulk /\ Usable("apply")
           THEN StageFromRow("apply", r) /\ UNCHANGED live
           ELSE live' = ApplyQuantizedRow(live, r) /\ staged' = NoCall
        /\ UNCHANGED <<schema, hooks, gone, remote, pending, simTick>>

\* run_hooks for the capture batch, then the capture that reads the array.
CaptureHooksRun ==
    /\ phase = "capturing" /\ staged # NoCall
    /\ phase' = "filled"
    /\ staged' = [staged EXCEPT !.values = live]
    /\ UNCHANGED <<schema, hooks, gone, live, scratch, row, remote, pending, simTick>>

Record ==
    \/ phase = "capturing" /\ staged = NoCall /\ RecordTick(FALSE)
    \/ phase = "filled" /\ RecordTick(TRUE)

\* run_hooks for the restore batch and for the write-back batch.
RunHooks ==
    /\ phase \in {"restoring", "recorded"}
    /\ phase' = IF phase = "restoring" THEN "restored" ELSE "landed"
    /\ live' = IF staged = NoCall THEN live ELSE Invoked(staged.hook, staged.values, live)
    /\ staged' = NoCall
    /\ UNCHANGED <<schema, hooks, gone, scratch, row, remote, pending, simTick>>

----------------------------------------------------------------------------
(* The receiving peer                                                      *)

\* A row of intent must be finite; a state row lands as it decodes.
Receive ==
    /\ phase = "landed"
    /\ LET decoded == DecodeRow(schema, EncodeRow(schema, row))
       IN  IF IsInputLane /\ ~RowIsFinite(schema, decoded)
           THEN phase' = "idle" /\ UNCHANGED pending
           ELSE phase' = "received" /\ pending' = decoded
    /\ UNCHANGED <<schema, hooks, gone, live, scratch, row, staged, remote, simTick>>

\* The receiver declares the same hooks; its nodes and arrays are its own, so
\* whether its hook can run is a choice.
ApplyPendingDisplay ==
    /\ phase = "received"
    /\ phase' = "applied"
    /\ \/ /\ "apply" \in DOMAIN hooks
          /\ remote' = Invoked("apply", Marshalled("apply", pending), remote)
       \/ remote' = pending
    /\ UNCHANGED <<schema, hooks, gone, live, scratch, row, staged, pending, simTick>>

NextTick ==
    /\ phase = "applied"
    /\ phase' = "idle" /\ pending' = EmptyRow
    /\ UNCHANGED <<schema, hooks, gone, live, scratch, row, staged, remote, simTick>>

BindingNext ==
    \/ RestoreTick \/ Simulate \/ GameDriftsAType \/ GameFreesANode
    \/ GameResizesAnArray \/ StageCapture \/ CaptureHooksRun \/ Record
    \/ RunHooks \/ Receive \/ ApplyPendingDisplay \/ NextTick

BindingSpec == BindingInit /\ [][BindingNext]_bindingVars

----------------------------------------------------------------------------
(* Properties                                                              *)

(* What a peer reconstructs from the wire is, value for value, the row the *)
(* sender stored, so the same bytes go out again: the rule that keeps      *)
(* masks, mispredict compares and replays exact (canonicalize_value).      *)
ReceivedIsStored ==
    pending # EmptyRow => \A i \in DOMAIN schema \ gone : pending[i] = row[i]

(* A row lands whole, by hook or by walk.  Once a body's write-back has    *)
(* run, restoring the row it just recorded would change nothing the game   *)
(* still holds, so the forward pass and a replay start from one value; and *)
(* a receiver's body shows every property of the row, cosmetics included.  *)
RowsLandWhole ==
    /\ phase \in {"landed", "restored"} /\ ~(IsInputLane /\ phase = "landed") =>
           \A i \in DOMAIN schema \ gone :
               IsRestored(schema[i].role) /\ live[i] # Drifted => live[i] = row[i]
    /\ phase = "applied" => remote = pending
=============================================================================
