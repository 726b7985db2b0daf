--------------------------- MODULE InterestFilter ---------------------------
(***************************************************************************)
(* The area-of-interest filter: which entities one connection's datagram   *)
(* carries (orbitnet-core interest.rs, and update_interest with the        *)
(* observer rules of orbitnet-godot orbit_net.rs).                         *)
(*                                                                         *)
(* Every pass gathers one row per registered entity, resolves each         *)
(* connection's viewpoints, picks the flat or the grid path for the whole  *)
(* session, filters every seat's hysteretic set and unions them.           *)
(*                                                                         *)
(* Abstractions: coordinates are integers and a position with a NaN or an  *)
(* infinity in it is the value NotFinite; a distance is its integer        *)
(* square, and the exit factor 1.25 is the exact ratio 5/4 (16 d <= 25     *)
(* r^2). One modelled body stands for Crowd bodies, each in a cell of its  *)
(* own, where bodies or cells are counted against a query's rectangle.     *)
(***************************************************************************)
EXTENDS Integers, FiniteSets, Sequences, FiniteSetsExt

CONSTANTS
    RollbackIds, \* ids of rollback entities: they have an owner and a seat
    Channels,    \* ids of state entities: the owner is always 0
    Viewers,     \* connections, positive numbers
    SeatIndices, \* seat labels
    Points,      \* the finite positions <<x, y, z>>
    Worlds,      \* membership ids; 0 is MEMBERSHIP_GLOBAL
    Radii,       \* values of the aoi_radius knob
    Caps,        \* values of the aoi_max_entities knob
    Crowd,       \* bodies one modelled body counts for
    GridEnterSpans, GridLeaveSpans, GridMaxOverrides,
    Layouts,     \* the rows a session may start its first pass with
    MaxEdits     \* bound: changes the game makes to the session

Ids == RollbackIds \cup Channels
Global == 0
NoAnchor == <<>>
NotFinite == <<"not finite">>
Inferred == [kind |-> "inferred"]

\* A registered entity's row, and what a session may have registered.
Row == [owner : Viewers \cup {0}, seat : SeatIndices \cup {0},
        anchor : Points \cup {NoAnchor, NotFinite}, world : Worlds \cup {Global}]

IsLayout(layout) == layout \in [DOMAIN layout -> Row] /\ DOMAIN layout \subseteq Ids

ASSUME FilterAssumption ==
    /\ Ids \subseteq Nat /\ RollbackIds \cap Channels = {}
    /\ Viewers \subseteq Nat \ {0}
    /\ SeatIndices \subseteq Nat /\ IsFiniteSet(SeatIndices)
    /\ Points \subseteq Int \X Int \X Int
    /\ Worlds \subseteq Nat /\ Radii \subseteq Nat /\ Caps \subseteq Nat
    /\ Max(Radii) \in Radii /\ Max(Caps) \in Caps
    /\ \A layout \in Layouts : IsLayout(layout)
    /\ {Crowd, GridEnterSpans, GridLeaveSpans, GridMaxOverrides} \subseteq Nat
    /\ GridLeaveSpans <= GridEnterSpans

VARIABLES
    rows,      \* registered entities: [owner, seat, anchor, world]
    conns,     \* ConnectionInterest per peer: [seats, members, hidden]
    decl,      \* PeerState.anchor, anchor_membership and anchor_last
    closed,    \* the session's unanchored policy is CLOSED
    peerClosed,\* PeerState.unanchored_closed: {} or the policy in a singleton
    knobs,     \* aoi_radius and aoi_max_entities
    path,      \* PathSelector.path
    ran,       \* OrbitNet.interest_ran
    report,    \* PeerState.anchor_report: the labels the last pass ran
    warned,    \* OrbitNet.anchor_conflicts
    told,      \* ghost: what the enter and leave events of a peer add up to
    edits      \* ghost: edits made

filterVars == <<rows, conns, decl, closed, peerClosed, knobs, path, ran, report,
          warned, told, edits>>

---------------------------------------------------------------------------
(* One seat's filter: PeerInterest. *)

Finite(p) == p \in Points

DistSq(p, q) == LET d(i) == (p[i] - q[i]) * (p[i] - q[i]) IN d(1) + d(2) + d(3)

\* aoi_config: a quarter of the radius, one metre at least, is the cell.
AoiConfig == [enter |-> knobs.radius, cap |-> knobs.cap,
              cell |-> Max({knobs.radius \div 4, 1})]

MembershipMatches(observer, candidate) ==
    observer = Global \/ candidate = Global \/ observer = candidate

\* Members reach to the exit radius, newcomers to the enter radius.
Reaches(cfg, set, id, dist) ==
    IF id \in DOMAIN set.members THEN 16 * dist <= 25 * cfg.enter * cfg.enter
                                 ELSE dist <= cfg.enter * cfg.enter

Unculled(id) == [id |-> id, free |-> TRUE, dist |-> 0]

Measured(id, dist) == [id |-> id, free |-> FALSE, dist |-> dist]

\* The verdict on one candidate, as the set of entries it adds (at most one).
Classify(cfg, set, seat, c) ==
    IF c.id \in set.hidden \/ ~MembershipMatches(seat.world, c.world) THEN {}
    ELSE IF c.always \/ ~Finite(c.pos) \/ ~Finite(seat.center)
         THEN {Unculled(c.id)}
         ELSE LET dist == DistSq(c.pos, seat.center)
              IN  IF Reaches(cfg, set, c.id, dist) THEN {Measured(c.id, dist)}
                                                   ELSE {}

\* The cap's order: nearest first, members before newcomers, lower id first.
Before(set, a, b) ==
    LET held(e) == e.id \in DOMAIN set.members
    IN  \/ a.dist < b.dist
        \/ a.dist = b.dist /\ held(a) /\ ~held(b)
        \/ a.dist = b.dist /\ held(a) = held(b) /\ a.id < b.id

ApplyCap(cfg, set, kept) ==
    LET cullable == {e \in kept : ~e.free}
    IN  IF cfg.cap = 0 THEN kept
        ELSE {e \in kept :
                \/ e.free
                \/ Cardinality({o \in cullable : Before(set, o, e)}) < cfg.cap}

Commit(set, kept) ==
    [set EXCEPT !.members = [id \in {e.id : e \in kept} |->
                                (CHOOSE e \in kept : e.id = id).dist]]

UpdateLinear(cfg, set, seat, candidates) ==
    Commit(set, ApplyCap(cfg, set,
                         UNION {Classify(cfg, set, seat, c) : c \in candidates}))

---------------------------------------------------------------------------
(* The same filter through the spatial index: InterestGrid. *)

Binnable(c) == ~c.always /\ Finite(c.pos)

Rebuild(cfg, candidates) ==
    [binned |-> {[id |-> c.id, pos |-> c.pos, world |-> c.world,
                  cell |-> <<c.pos[1] \div cfg.cell, c.pos[3] \div cfg.cell>>] :
                    c \in {c \in candidates : Binnable(c)}},
     uncullable |-> {c \in candidates : ~Binnable(c)}]

UncullableFor(grid, world) ==
    {c.id : c \in {c \in grid.uncullable : MembershipMatches(world, c.world)}}

VisibleTo(grid, world) ==
    {b.id : b \in {b \in grid.binned : MembershipMatches(world, b.world)}}
        \cup UncullableFor(grid, world)

\* Mutant: the cell scan is rounded to the centre's cell plus the radius.
CellsAroundRounded(cfg, v) ==
    LET reach == (5 * cfg.enter) \div (4 * cfg.cell)
    IN  (v \div cfg.cell) .. (v \div cfg.cell) + reach

\* The cells the exit radius overlaps along one axis.
CellsAround(cfg, v) ==
    LET edge(r) == (4 * v + 5 * r) \div (4 * cfg.cell)
    IN  edge(-cfg.enter) .. edge(cfg.enter)

\* One world's hits: its rectangle of cells, or all its buckets when the
\* rectangle holds more cells than the world occupies.
QueryWithin(cfg, grid, world, center) ==
    LET xs == CellsAround(cfg, center[1])
        zs == CellsAround(cfg, center[3])
        within(b) == 16 * DistSq(b.pos, center) <= 25 * cfg.enter * cfg.enter
        in(w) == {b \in grid.binned : b.world = w}
        scanned(w) ==
            IF Cardinality(xs) * Cardinality(zs)
                    > Crowd * Cardinality({b.cell : b \in in(w)})
            THEN in(w) ELSE {b \in in(w) : b.cell[1] \in xs /\ b.cell[2] \in zs}
        matching == {w \in {b.world : b \in grid.binned} :
                        MembershipMatches(world, w)}
    IN  {b \in UNION {scanned(w) : w \in matching} : within(b)}

UpdateGrid(cfg, set, seat, grid, also) ==
    LET shown(id) == id \notin set.hidden /\ \A c \in also : c.id # id
        hits == IF Finite(seat.center)
                THEN {b \in QueryWithin(cfg, grid, seat.world, seat.center) :
                        Reaches(cfg, set, b.id, DistSq(b.pos, seat.center))}
                ELSE {}
        free == IF Finite(seat.center) THEN UncullableFor(grid, seat.world)
                                       ELSE VisibleTo(grid, seat.world)
        kept == {Measured(b.id, DistSq(b.pos, seat.center)) :
                    b \in {b \in hits : shown(b.id)}}
                \cup {Unculled(id) : id \in {id \in free : shown(id)}}
                \cup UNION {Classify(cfg, set, seat, c) : c \in also}
    IN  Commit(set, ApplyCap(cfg, set, kept))

---------------------------------------------------------------------------
(* Which path the session runs: InterestOccupancy and PathSelector. *)

CellsAcross(metres, cell) == metres \div cell + 1

\* The widest world (then the fuller one, then the lower id) decides.
Measure(candidates) ==
    LET in(w) == {c \in candidates : Binnable(c) /\ c.world = w}
        side(w, i) == LET at == {c.pos[i] : c \in in(w)} IN Max(at) - Min(at)
        longer(w) == Max({side(w, 1), side(w, 3)})
        count(w) == Cardinality(in(w))
        worlds == {c.world : c \in {c \in candidates : Binnable(c)}}
        widest == CHOOSE w \in worlds : \A v \in worlds \ {w} :
                    \/ longer(v) < longer(w)
                    \/ longer(v) = longer(w) /\ count(v) < count(w)
                    \/ longer(v) = longer(w) /\ count(v) = count(w) /\ w < v
    IN  IF worlds = {} THEN [side |-> 0, anchored |-> 0]
        ELSE [side |-> longer(widest), anchored |-> Crowd * count(widest)]

OccupiedCells(cfg, occupancy) ==
    LET across == CellsAcross(occupancy.side, cfg.cell)
    IN  Min({across * across, occupancy.anchored})

SpanCells(cfg) ==
    LET across == CellsAcross((5 * cfg.enter) \div 2, cfg.cell)
    IN  across * across

Select(cfg, occupancy, overrides) ==
    LET span == SpanCells(cfg)
        occupied == OccupiedCells(cfg, occupancy)
    IN  IF cfg.enter = 0 \/ overrides > GridMaxOverrides THEN "linear"
        ELSE IF occupied >= GridEnterSpans * span THEN "grid"
        ELSE IF occupied < GridLeaveSpans * span THEN "linear"
        ELSE path

---------------------------------------------------------------------------
(* One connection: its viewpoints, its rows, its union. *)

Owned(peer) == {id \in DOMAIN rows : rows[id].owner = peer}

\* collect_observers: the lowest-id anchored body of a seat speaks for it.
Anchored(peer, seat) ==
    {id \in Owned(peer) : rows[id].seat = seat /\ rows[id].anchor # NoAnchor}

Observed(peer, seat) == rows[Min(Anchored(peer, seat))]

\* The seat's anchored bodies disagree about the world.
Conflicts == {s \in Viewers \X SeatIndices :
                \E a, b \in Anchored(s[1], s[2]) : rows[a].world # rows[b].world}

\* No radius, or no position, and the seat culls nothing by distance.
SeatObserver(cfg, pos, world) ==
    [center |-> IF cfg.enter > 0 /\ pos # NoAnchor THEN pos ELSE NotFinite,
     world |-> world]

Tracked(peer) ==
    LET d == decl[peer]
    IN  IF d.anchor.kind = "entity" /\ d.anchor.id \in DOMAIN rows
        THEN rows[d.anchor.id].anchor ELSE NoAnchor

\* resolve_observer for a declared connection.
Declared(peer) ==
    LET d == decl[peer]
    IN  IF d.anchor.kind = "fixed" THEN d.anchor.pos
        ELSE IF Tracked(peer) # NoAnchor THEN Tracked(peer) ELSE d.last

ClosedWhenUnanchored(peer) == IF peerClosed[peer] = {} THEN closed
                              ELSE TRUE \in peerClosed[peer]

\* The seat labels that resolved a centre, in the order the filter runs them.
ResolvedSeats(peer) ==
    LET labels == {s \in SeatIndices : Anchored(peer, s) # {}}
    IN  [i \in 1 .. Cardinality(labels) |->
            CHOOSE s \in labels : Cardinality({t \in labels : t < s}) = i - 1]

\* Mutant: a closed session blanks a player whose body has not spawned a row.
SeatObserversUnprotected(cfg, peer) ==
    IF decl[peer].anchor # Inferred
    THEN <<[label |-> {}, at |-> SeatObserver(cfg, Declared(peer), decl[peer].world)]>>
    ELSE IF ResolvedSeats(peer) # <<>>
    THEN [i \in DOMAIN ResolvedSeats(peer) |->
            LET s == ResolvedSeats(peer)[i]
            IN  [label |-> {s},
                 at |-> SeatObserver(cfg, Observed(peer, s).anchor,
                                     Observed(peer, s).world)]]
    ELSE IF ClosedWhenUnanchored(peer) THEN <<>>
    ELSE <<[label |-> {}, at |-> SeatObserver(cfg, NoAnchor, Global)]>>

\* seat_observers_into: one viewpoint per resolved seat, one for a declared
\* connection or one that fails open, none for a closed one that drives nothing.
SeatObservers(cfg, peer) ==
    IF decl[peer].anchor # Inferred
    THEN <<[label |-> {}, at |-> SeatObserver(cfg, Declared(peer), decl[peer].world)]>>
    ELSE IF ResolvedSeats(peer) # <<>>
    THEN [i \in DOMAIN ResolvedSeats(peer) |->
            LET s == ResolvedSeats(peer)[i]
            IN  [label |-> {s},
                 at |-> SeatObserver(cfg, Observed(peer, s).anchor,
                                     Observed(peer, s).world)]]
    ELSE IF ClosedWhenUnanchored(peer) /\ Owned(peer) = {} THEN <<>>
    ELSE <<[label |-> {}, at |-> SeatObserver(cfg, NoAnchor, Global)]>>

\* How a row is offered to the peers that do not drive it.
CandidateForRow(id) ==
    [id |-> id, pos |-> rows[id].anchor, world |-> rows[id].world,
     always |-> rows[id].anchor = NoAnchor]

\* How it is offered to the peer that does: always, in every world.
CandidateForOwnRow(id) ==
    [id |-> id, pos |-> NoAnchor, world |-> Global, always |-> TRUE]

EmptySet(hidden) == [members |-> <<>>, hidden |-> hidden]

\* Mutant: a seat that appears does not inherit the connection's vetoes.
FitSeatsBare(conn, count) ==
    [i \in 1 .. count |-> IF i <= Len(conn.seats) THEN conn.seats[i]
                          ELSE EmptySet({})]

FitSeats(conn, count) ==
    [i \in 1 .. count |-> IF i <= Len(conn.seats) THEN conn.seats[i]
                          ELSE EmptySet(conn.hidden)]

\* The union, at the nearest seat's distance.
CommitUnion(conn, seats) ==
    LET held == UNION {DOMAIN seats[i].members : i \in DOMAIN seats}
        dists(id) == {seats[i].members[id] :
                        i \in {i \in DOMAIN seats : id \in DOMAIN seats[i].members}}
    IN  [conn EXCEPT !.seats = seats,
                     !.members = [id \in held |-> Min(dists(id))]]

\* filter_connection on the flat path: the shared list patched with the
\* connection's own rows ...
Patched(candidates, peer) ==
    {c \in candidates : c.id \notin Owned(peer)}
        \cup {CandidateForOwnRow(id) : id \in Owned(peer)}

\* ... filtered ...
FilterLinear(cfg, candidates, peer, observers) ==
    LET seats == FitSeats(conns[peer], Len(observers))
    IN  CommitUnion(conns[peer],
            [i \in DOMAIN seats |->
                UpdateLinear(cfg, seats[i], observers[i].at,
                             Patched(candidates, peer))])

\* ... and restored for the next connection.
Restored(candidates, peer) ==
    {c \in Patched(candidates, peer) : c.id \notin Owned(peer)}
        \cup {CandidateForRow(id) : id \in Owned(peer)}

\* On the grid path those rows are the override list.
FilterGrid(cfg, grid, peer, observers) ==
    LET also == {CandidateForOwnRow(id) : id \in Owned(peer)}
        seats == FitSeats(conns[peer], Len(observers))
    IN  CommitUnion(conns[peer],
            [i \in DOMAIN seats |->
                UpdateGrid(cfg, seats[i], observers[i].at, grid, also)])

Shared == {CandidateForRow(id) : id \in DOMAIN rows}

\* The list a connection finds: the one its predecessor leaves.
Ahead(peer) == {q \in Viewers : q < peer}

ListFor[peer \in Viewers] ==
    IF Ahead(peer) = {} THEN Shared
    ELSE Restored(ListFor[Max(Ahead(peer))], Max(Ahead(peer)))

\* Every connection filtered in turn on one path.
Filtered(cfg, way) ==
    LET grid == Rebuild(cfg, Shared)
    IN  [peer \in Viewers |->
            LET observers == SeatObservers(cfg, peer)
            IN  IF way = "grid" THEN FilterGrid(cfg, grid, peer, observers)
                ELSE FilterLinear(cfg, ListFor[peer], peer, observers)]

SessionIsFiltering ==
    \/ knobs.radius > 0
    \/ \E p \in Viewers : conns[p].hidden # {}
    \/ ran
    \/ \E id \in DOMAIN rows : rows[id].world # Global

---------------------------------------------------------------------------
FilterInit ==
    /\ rows \in Layouts
    /\ conns = [p \in Viewers |-> [seats |-> <<>>, members |-> <<>>, hidden |-> {}]]
    /\ decl = [p \in Viewers |-> [anchor |-> Inferred, world |-> Global,
                                last |-> NoAnchor]]
    /\ closed = FALSE
    /\ peerClosed = [p \in Viewers |-> {}]
    /\ knobs = [radius |-> Max(Radii), cap |-> Max(Caps)]
    /\ path = "linear" /\ ran = FALSE
    /\ report = [p \in Viewers |-> <<>>]
    /\ warned = {}
    /\ told = [p \in Viewers |-> {}]
    /\ edits = 0

Edit == edits < MaxEdits /\ edits' = edits + 1

\* One interest pass of send_snapshots, when the session filters at all.
UpdateInterest ==
    LET cfg == AoiConfig
        overrides == Max({Cardinality(Owned(p)) : p \in Viewers})
        way == Select(cfg, Measure(Shared), overrides)
        after == Filtered(cfg, way)
        enters(p) == DOMAIN after[p].members \ DOMAIN conns[p].members
        leaves(p) == DOMAIN conns[p].members \ DOMAIN after[p].members
    IN  /\ SessionIsFiltering
        /\ ran' = TRUE
        /\ path' = way
        /\ conns' = after
        /\ warned' = Conflicts
        /\ report' = [p \in Viewers |->
                        LET s == SeatObservers(cfg, p)
                        IN  [i \in DOMAIN s |-> s[i].label]]
        /\ decl' = [p \in Viewers |->
                        IF Tracked(p) = NoAnchor THEN decl[p]
                        ELSE [decl[p] EXCEPT !.last = Tracked(p)]]
        /\ told' = [p \in Viewers |-> (told[p] \ leaves(p)) \cup enters(p)]
        /\ UNCHANGED <<rows, closed, peerClosed, knobs, edits>>

\* An entity moves, or its position reads a NaN; a channel's anchor may also
\* stop resolving, a body's last state row does not go away.
Move(id, pos) ==
    /\ Edit
    /\ id \in DOMAIN rows /\ rows[id].anchor # pos
    /\ pos = NoAnchor => id \in Channels
    /\ rows' = [rows EXCEPT ![id].anchor = pos]
    /\ UNCHANGED <<conns, decl, closed, peerClosed, knobs, path, ran, report,
                   warned, told>>

SetMembership(id, world) ==
    /\ Edit
    /\ id \in DOMAIN rows /\ rows[id].world # world
    /\ rows' = [rows EXCEPT ![id].world = world]
    /\ UNCHANGED <<conns, decl, closed, peerClosed, knobs, path, ran, report,
                   warned, told>>

\* assign_seat and release_seat (owner 0).
SeatMoves(id, owner, seat) ==
    /\ Edit
    /\ id \in RollbackIds \cap DOMAIN rows
    /\ owner = 0 => seat = 0
    /\ <<rows[id].owner, rows[id].seat>> # <<owner, seat>>
    /\ rows' = [rows EXCEPT ![id].owner = owner, ![id].seat = seat]
    /\ UNCHANGED <<conns, decl, closed, peerClosed, knobs, path, ran, report,
                   warned, told>>

\* drain_pending: the entity leaves the registry, every union and every seat.
Despawn(id) ==
    /\ Edit
    /\ id \in DOMAIN rows
    /\ rows' = [i \in DOMAIN rows \ {id} |-> rows[i]]
    /\ conns' = [p \in Viewers |->
                    LET drop(set) == [set EXCEPT !.members =
                                        [i \in DOMAIN set.members \ {id} |->
                                            set.members[i]]]
                    IN  [drop(conns[p]) EXCEPT
                            !.seats = [i \in DOMAIN conns[p].seats |->
                                            drop(conns[p].seats[i])]]]
    /\ told' = [p \in Viewers |-> IF id \in DOMAIN conns[p].members
                                THEN told[p] \ {id} ELSE told[p]]
    /\ UNCHANGED <<decl, closed, peerClosed, knobs, path, ran, report, warned>>

Spawn(id) ==
    /\ Edit
    /\ id \notin DOMAIN rows
    /\ rows' = [i \in DOMAIN rows \cup {id} |->
                    IF i = id THEN [owner |-> 0, seat |-> 0, anchor |-> NoAnchor,
                                    world |-> Global]
                    ELSE rows[i]]
    /\ UNCHANGED <<conns, decl, closed, peerClosed, knobs, path, ran, report,
                   warned, told>>

\* is_entity_in_interest, as the server answers it.
InInterest(peer, id) == IF ran THEN id \in DOMAIN conns[peer].members
                        ELSE id \in DOMAIN rows

\* Mutant: only a veto nobody had reported is announced.
VetoAnnouncesLeaveUnreported(hidden, wasHidden, reported) ==
    hidden /\ ~wasHidden /\ ~reported

VetoAnnouncesLeave(hidden, wasHidden, reported) ==
    hidden /\ ~wasHidden /\ reported

\* set_entity_hidden: the veto reaches the union and every seat on the spot.
SetEntityHidden(peer, id, hidden) ==
    LET conn == conns[peer]
        veto(set) == IF hidden
                     THEN [set EXCEPT
                            !.hidden = @ \cup {id},
                            !.members = [i \in DOMAIN set.members \ {id} |->
                                            set.members[i]]]
                     ELSE [set EXCEPT !.hidden = @ \ {id}]
        announces == VetoAnnouncesLeave(hidden, id \in conn.hidden,
                                        InInterest(peer, id))
    IN  /\ Edit
        /\ hidden # (id \in conn.hidden)
        /\ conns' = [conns EXCEPT ![peer] =
                        [veto(conn) EXCEPT
                            !.seats = [i \in DOMAIN conn.seats |-> veto(conn.seats[i])]]]
        /\ told' = IF announces THEN [told EXCEPT ![peer] = @ \ {id}] ELSE told
        /\ UNCHANGED <<rows, decl, closed, peerClosed, knobs, path, ran, report,
                       warned>>

\* set_peer_anchor, set_peer_anchor_entity and clear_peer_anchor.
SetPeerAnchor(peer, anchor, world) ==
    /\ Edit
    /\ decl[peer].anchor # anchor \/ decl[peer].world # world
    /\ decl' = [decl EXCEPT ![peer] = [anchor |-> anchor, last |-> NoAnchor,
                                       world |-> world]]
    /\ UNCHANGED <<rows, conns, closed, peerClosed, knobs, path, ran, report,
                   warned, told>>

SetUnanchoredPolicy(policy) ==
    /\ Edit
    /\ closed # policy
    /\ closed' = policy
    /\ UNCHANGED <<rows, conns, decl, peerClosed, knobs, path, ran, report,
                   warned, told>>

SetPeerUnanchoredPolicy(peer, policy) ==
    /\ Edit
    /\ peerClosed[peer] # {policy}
    /\ peerClosed' = [peerClosed EXCEPT ![peer] = {policy}]
    /\ UNCHANGED <<rows, conns, decl, closed, knobs, path, ran, report, warned,
                   told>>

\* The radius and the cap are live settings.
SetKnobs(radius, cap) ==
    /\ Edit
    /\ knobs # [radius |-> radius, cap |-> cap]
    /\ knobs' = [radius |-> radius, cap |-> cap]
    /\ UNCHANGED <<rows, conns, decl, closed, peerClosed, path, ran, report,
                   warned, told>>

Anchors == {Inferred}
           \cup {[kind |-> "fixed", pos |-> p] : p \in Points}
           \cup {[kind |-> "entity", id |-> id] : id \in Ids}

FilterNext ==
    \/ UpdateInterest
    \/ \E id \in Ids, p \in Points \cup {NoAnchor, NotFinite} : Move(id, p)
    \/ \E id \in Ids, w \in Worlds : SetMembership(id, w)
    \/ \E id \in RollbackIds, o \in Viewers \cup {0}, s \in SeatIndices : SeatMoves(id, o, s)
    \/ \E id \in Ids : Despawn(id) \/ Spawn(id)
    \/ \E p \in Viewers, id \in Ids, h \in BOOLEAN : SetEntityHidden(p, id, h)
    \/ \E p \in Viewers, a \in Anchors, w \in Worlds : SetPeerAnchor(p, a, w)
    \/ \E b \in BOOLEAN : SetUnanchoredPolicy(b)
    \/ \E p \in Viewers, b \in BOOLEAN : SetPeerUnanchoredPolicy(p, b)
    \/ \E r \in Radii, c \in Caps : SetKnobs(r, c)

FilterSpec == FilterInit /\ [][FilterNext]_filterVars

---------------------------------------------------------------------------
(* Properties. *)

\* The step is UpdateInterest: every other one edits the session.
IsPass == ran' /\ edits' = edits

\* The grid and the flat path compute the same sets and the same distances
\* for every connection from every state the session can be in, so a session
\* that switches path mid-flight reports no leave (PathSelector, update_interest).
PathsAgree == Filtered(AoiConfig, "grid") = Filtered(AoiConfig, "linear")

\* The enter and leave events a game has been handed for a connection add up
\* to the set the datagram carries, across passes, vetoes and despawns.
EventsAddUp == ran => \A p \in Viewers : told[p] = DOMAIN conns[p].members

\* An entity joins a connection's union only by passing the filter as a
\* newcomer: not withheld, in a world one of the viewpoints admits and inside
\* its enter radius. No seat's memory outlives a despawn, a veto or a seat that
\* left, and a seat that appears later refuses what the connection refuses.
JoinsThroughTheFilter ==
    [][IsPass => \A p \in Viewers :
        LET seats == SeatObservers(AoiConfig, p)
        IN  \A id \in DOMAIN conns'[p].members \ DOMAIN conns[p].members :
                /\ id \notin conns[p].hidden
                /\ \/ id \in Owned(p)
                   \/ \E i \in DOMAIN seats :
                        Classify(AoiConfig, EmptySet({}), seats[i].at,
                                 CandidateForRow(id)) # {}]_filterVars

\* A pass never drops from a connection a body it drives, in whatever world
\* the body is and whatever the unanchored policy says, unless it is vetoed.
OwnBodiesAreCarried ==
    [][IsPass => \A p \in Viewers :
            Owned(p) \ conns[p].hidden \subseteq DOMAIN conns'[p].members]_filterVars

\* What a seat holds inside its exit radius stays with the connection while
\* that seat has a viewpoint, whatever happens to the connection's other seats.
SeatKeepsItsBand ==
    [][IsPass => \A p \in Viewers, s \in SeatIndices :
        LET was == {i \in DOMAIN report[p] : report[p][i] = {s}}
            now == SeatObservers(AoiConfig, p)
            is  == {i \in DOMAIN now : now[i].label = {s}}
        IN  was # {} /\ is # {} /\ knobs.cap = 0 =>
            LET held == conns[p].seats[Min(was)]
                seat == now[Min(is)].at
            IN  {id \in DOMAIN held.members \cap DOMAIN rows :
                    Classify(AoiConfig, held, seat, CandidateForRow(id)) # {}}
                    \subseteq DOMAIN conns'[p].members]_filterVars
=============================================================================
