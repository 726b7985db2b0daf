----------------------------- MODULE TickRings -----------------------------
(***************************************************************************)
(* The tick-addressed storage of the rollback core: the history ring       *)
(* (columnar.rs, history.rs), the freshness ledger and the memo ring       *)
(* (freshness.rs), and the dirty window that plans a replay (history.rs).  *)
(*                                                                         *)
(* Every ring is direct-mapped: tick t lives in slot t % Cap and carries   *)
(* its tick.  A ring is therefore a partial function from the resident     *)
(* ticks to their rows, with no two resident ticks in one slot.  The code  *)
(* also keeps a `latest` field; it is the largest resident tick, because a *)
(* write that would evict it from below is refused as stale and a write    *)
(* that evicts it from above becomes the new latest.                       *)
(***************************************************************************)
EXTENDS Integers, FiniteSets, FiniteSetsExt

\* Ticks a history ring and the ledger hold: history_limit, floored at two.
CONSTANT Cap

ASSUME CapAssumption == Cap \in Nat /\ Cap >= 2

\* An Option<u64> that is None.
NoTick == -1

EmptyRing == [t \in {} |-> 0]

----------------------------------------------------------------------------
(* History ring                                                            *)

Slot(t) == t % Cap

LatestTick(ring) == IF DOMAIN ring = {} THEN NoTick ELSE Max(DOMAIN ring)

\* A write that far behind the newest row would land in a newer row's slot.
IsStale(ring, t) == DOMAIN ring # {} /\ t + Cap <= LatestTick(ring)

\* What a write to t leaves of the other ticks: all but the one in its slot.
Survivors(ring, t) == {u \in DOMAIN ring : Slot(u) # Slot(t)}

WriteRow(ring, t, row) ==
    IF IsStale(ring, t)
    THEN ring
    ELSE [u \in Survivors(ring, t) \cup {t} |-> IF u = t THEN row ELSE ring[u]]

\* The resident ticks a backwards probe from t can meet: one lap of the ring.
AtOrBefore(ring, t) == {u \in DOMAIN ring : t - Cap < u /\ u <= t}

ClosestTick(ring, t) ==
    IF AtOrBefore(ring, t) = {} THEN NoTick ELSE Max(AtOrBefore(ring, t))

----------------------------------------------------------------------------
(* Freshness ledger                                                        *)

Predicted == 0
Extrapolated == 1
Authoritative == 2

Confidence(ledger, t) ==
    IF t \in DOMAIN ledger THEN ledger[t].confidence ELSE Predicted

\* Confidence only rises; a slot that holds a newer tick refuses an older one,
\* and a tick that takes a slot over starts with its freshness unconsumed.
SetConfidence(ledger, t, c) ==
    IF \E u \in DOMAIN ledger : Slot(u) = Slot(t) /\ u > t
    THEN ledger
    ELSE [u \in Survivors(ledger, t) \cup {t} |->
            IF u # t THEN ledger[u]
            ELSE IF t \in DOMAIN ledger
                 THEN [ledger[t] EXCEPT !.confidence = Max({@, c})]
                 ELSE [confidence |-> c, consumed |-> FALSE]]

\* The is_fresh answer of a simulation pass over t.
IsFresh(ledger, t) ==
    /\ Confidence(ledger, t) = Authoritative
    /\ ~ledger[t].consumed

\* Mutant: every pass consumes, the visitation mark the ledger replaced.
BeginSimVisits(ledger, t) ==
    IF t \in DOMAIN ledger THEN [ledger EXCEPT ![t].consumed = TRUE] ELSE ledger

\* Only a pass that reads fresh consumes.
BeginSim(ledger, t) ==
    IF IsFresh(ledger, t) THEN [ledger EXCEPT ![t].consumed = TRUE] ELSE ledger

----------------------------------------------------------------------------
(* Dirty window and resimulation plan                                      *)

\* DirtyWindow::mark: the window only deepens.
MarkDirty(dirty, t) == IF dirty = NoTick \/ t < dirty THEN t ELSE dirty

\* Mutant: the replay starts one tick early and records over the row it rests on.
TakeFromEarly(dirty, current) ==
    LET from == Max({dirty - 1, current - Cap, 0})
    IN  IF dirty = NoTick \/ from >= current THEN NoTick ELSE from

\* DirtyWindow::take: the first tick of the replay up to `current`, floored at
\* what the ring still holds; NoTick when there is nothing to replay.
TakeFrom(dirty, current) ==
    LET from == Max({dirty, current - Cap, 0})
    IN  IF dirty = NoTick \/ from >= current THEN NoTick ELSE from
============================================================================
