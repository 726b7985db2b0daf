---------------------------- MODULE MCInterestSync ----------------------------
(* TLC instances of InterestSync.                                          *)
EXTENDS InterestSync, TLC

Symmetry == Permutations(Slot) \cup Permutations(Entity)

\* A connection some time after its join: every entity named and resolved, one
\* whole set stated and echoed, nothing in flight.  The tick is counted from
\* here, so the session's own ticks before it are all "long ago".
Established ==
    /\ tick = 0
    /\ registered = Entity
    /\ slots \in {n \in Names : Named(n) = Entity /\ OneName(n)}
    /\ freed = [s \in Slot |-> NoTick]
    /\ hidden = {}
    /\ \E members \in SUBSET Entity :
         /\ peer = [FreshPeer EXCEPT !.set = members, !.seeded = TRUE,
                                     !.generation = 1, !.acked = 1,
                                     !.manifest = TRUE]
         /\ client = [FreshClient(0) EXCEPT !.mirror = members, !.mirrorGen = 1,
                                            !.echoed = 1, !.hasManifest = TRUE,
                                            !.slots = slots]
    /\ down = {}
    /\ reliable = <<>>
    /\ up = {}
    /\ churn = 0
    /\ losses = 0

\* From the join, or from a session under way.
EitherSpec == (Init \/ Established) /\ [][Next]_vars

EstablishedSpec == Established /\ [][Next]_vars

EstablishedFairSpec == EstablishedSpec /\ Fairness

=============================================================================
