----------------------------- MODULE SeatRelease -----------------------------
(***************************************************************************)
(* Seats and their release (seats.rs, and the seat passes of orbit_net.rs):*)
(* which connection drives which body, what the roster announces, and what *)
(* becomes of a body when the connection behind it ends.                   *)
(*                                                                         *)
(* A transport peer id is reused: a connection is an id together with a    *)
(* generation that only the model sees, and a body's owner is the bare id. *)
(* Grace windows are all one length, so held sessions expire in the order  *)
(* they dropped.  Tokens and the handshake are Session's subject: here a   *)
(* claim on a held identity is granted or refused.  The entity manifest is *)
(* ManifestSync's: here it is a reliable, ordered stream of seat tables.   *)
(***************************************************************************)
EXTENDS Integers, Sequences, FiniteSets, FiniteSetsExt, SequencesExt

CONSTANTS
    Peers,          \* transport ids of remote peers
    ServerPeer,     \* the server's own id
    Identities,     \* session identities
    NoIdentity,     \* the 0 of an anonymous hello
    Bodies,         \* rollback entities
    Labels,         \* seat labels, 0 among them
    Policies,       \* values the game gives seat_release_policy
    Modes,          \* subset of {"server", "host"}
    MaxConnections, \* bound: connections of a run
    MaxWire,        \* bound: seat tables in flight
    MaxAssigns      \* bound: game verbs of a run

ASSUME SeatAssumption ==
    /\ ServerPeer \notin Peers
    /\ NoIdentity \notin Identities
    /\ 0 \in Labels
    /\ Policies \subseteq {"hold", "expiry", "drop"}
    /\ Modes \subseteq {"server", "host"}

VARIABLES
    mode,       \* dedicated server or listen host
    policy,     \* seat_release_policy
    links,      \* links[p]: the generation connected under id p, 0 when none
    who,        \* who[g]: the identity generation g was seated under, NoIdentity if anonymous
    windows,    \* resume: the held sessions in drop order, [id, peer, gen]
    bodies,     \* bodies[b]: [owner, seat]
    pending,    \* pending_seat_releases
    table,      \* entity_seats: the (body, owner, seat) rows last scanned
    roster,     \* seat_roster, as announced
    dirty,      \* manifest_dirty
    wire,       \* seat tables on the reliable channel
    seen,       \* the client's entity_seats
    mirror,     \* the client's seat_roster
    given,      \* history: given[b], the generation b was last assigned to
    verbs       \* game verbs so far

seatVars == <<mode, policy, links, who, windows, bodies, pending, table, roster, dirty,
          wire, seen, mirror, given, verbs>>

Connected == {links[p] : p \in Peers} \ {0}

SeatInit ==
    /\ mode \in Modes /\ policy \in Policies
    /\ links = [p \in Peers |-> 0]
    /\ who = <<>>
    /\ windows = <<>>
    /\ bodies = [b \in Bodies |-> [owner |-> ServerPeer, seat |-> 0]]
    /\ pending = {} /\ table = {} /\ roster = {} /\ dirty = FALSE
    /\ wire = <<>> /\ seen = {} /\ mirror = {}
    /\ given = [b \in Bodies |-> 0]
    /\ verbs = 0

----------------------------------------------------------------------------
(* Releasing                                                               *)

\* releases_seats: the policy's answer for an event, and never for a live id.
ReleasesSeats(rule, event, alive) == ~alive /\ rule = event

\* peer_is_live: asked of the transport, now.
PeerIsLive(p) == links[p] # 0

\* release_owned_bodies over every id in `peers`: input back to the server and
\* the label to 0, in one call per body.
ReleaseOwnedBodies(all, peers) ==
    [b \in Bodies |-> IF all[b].owner \in peers
                      THEN [owner |-> ServerPeer, seat |-> 0] ELSE all[b]]

\* Mutant: the drop's own answer is used, and the id is not asked about again.
DrainSeatReleasesUnasked(all) == ReleaseOwnedBodies(all, pending)

\* drain_seat_releases: liveness is asked again here.
DrainSeatReleases(all) ==
    ReleaseOwnedBodies(all,
        {p \in pending : ReleasesSeats(policy, "drop", PeerIsLive(p))})

\* expire_held_sessions: the sessions `due` leave the table; what each id still
\* drives is released, whoever was given it.
ExpireHeldSessions(all, due) ==
    ReleaseOwnedBodies(all,
        {p \in {due[k].peer : k \in DOMAIN due} :
            ReleasesSeats(policy, "expiry", PeerIsLive(p))})

----------------------------------------------------------------------------
(* The roster                                                              *)

\* announce_seats, the server's scan: a dedicated server holds no seat itself.
Scan(all) ==
    {<<b, all[b].owner, all[b].seat>> :
        b \in {c \in Bodies : all[c].owner # ServerPeer \/ mode = "host"}}

\* The seats a table projects to.
SeatsOf(rows) == {<<row[2], row[3]>> : row \in rows}

\* Closed and opened seats of one announcement, in the order they are emitted.
Closed(old, new) == old \ new
Opened(old, new) == new \ old

\* Mutant: the seats that closed are never dropped.
ReplaceIntoKeepsClosed(old, new) == old \cup Opened(old, new)

\* replace_into, as a handler that applies the two lists sees it.
ReplaceInto(old, new) == (old \ Closed(old, new)) \cup Opened(old, new)

\* Mutant: the roster is announced from the bodies as they stood before the drain.
AnnouncedEarly(drained) == Scan(bodies)

Announced(drained) == Scan(drained)

\* The windows that closed by this upkeep: the oldest ones.
Due == {SubSeq(windows, 1, n) : n \in 0 .. Len(windows)}

\* run_frame with a tick: drain, announce, upkeep, and the manifest publish.
TickFrame ==
    \E due \in Due :
        LET drained == DrainSeatReleases(bodies)
            rows == Announced(drained)
        IN  /\ bodies' = ExpireHeldSessions(drained, due)
            /\ pending' = {}
            /\ table' = rows
            /\ roster' = IF rows # table THEN ReplaceInto(roster, SeatsOf(rows)) ELSE roster
            /\ windows' = SubSeq(windows, Len(due) + 1, Len(windows))
            /\ wire' = IF rows # table \/ dirty THEN Append(wire, rows) ELSE wire
            /\ dirty' = FALSE
            /\ Len(wire) < MaxWire
    /\ UNCHANGED <<mode, policy, links, who, seen, mirror, given, verbs>>

\* A frame that ran no tick does the upkeep alone.
IdleFrame ==
    /\ \E due \in Due \ {<<>>} :
          /\ bodies' = ExpireHeldSessions(bodies, due)
          /\ windows' = SubSeq(windows, Len(due) + 1, Len(windows))
    /\ UNCHANGED <<mode, policy, links, who, pending, table, roster, dirty, wire,
                   seen, mirror, given, verbs>>

----------------------------------------------------------------------------
(* Connections                                                             *)

Held(s) == \E k \in DOMAIN windows : windows[k].id = s

\* handle_hello for a connection under a free id.  An identity nobody is connected
\* under is taken; a held one may be claimed, which removes it, or refused.
Connect(p, s) ==
    LET g == Len(who) + 1
        taken == \E c \in Connected : who[c] = s
    IN  /\ ~PeerIsLive(p) /\ g <= MaxConnections
        /\ links' = [links EXCEPT ![p] = g]
        /\ dirty' = TRUE
        /\ \/ /\ s # NoIdentity /\ ~taken
              /\ who' = Append(who, s)
              /\ windows' = SelectSeq(windows, LAMBDA h : h.id # s)
           \/ /\ s = NoIdentity \/ taken \/ Held(s)
              /\ who' = Append(who, NoIdentity)
              /\ UNCHANGED windows
        /\ UNCHANGED <<mode, policy, bodies, pending, table, roster, wire, seen,
                       mirror, given, verbs>>

\* _on_peer_disconnected: hold the session if it had one and there is a window,
\* and queue the release if the policy acts on drops.
Disconnect(p, grace) ==
    LET s == who[links[p]]
        others == SelectSeq(windows, LAMBDA h : h.id # s)
    IN  /\ PeerIsLive(p)
        /\ links' = [links EXCEPT ![p] = 0]
        /\ windows' = IF s # NoIdentity /\ grace
                      THEN Append(others, [id |-> s, peer |-> p, gen |-> links[p]])
                      ELSE windows
        /\ pending' = IF ReleasesSeats(policy, "drop", FALSE) THEN pending \cup {p}
                      ELSE pending
        /\ UNCHANGED <<mode, policy, who, bodies, table, roster, dirty, wire, seen,
                       mirror, given, verbs>>

----------------------------------------------------------------------------
(* Game verbs                                                              *)

\* assign_seat: both halves of the seat in one call.
AssignSeat(b, p, label) ==
    /\ verbs < MaxAssigns /\ verbs' = verbs + 1
    /\ PeerIsLive(p)
    /\ bodies' = [bodies EXCEPT ![b] = [owner |-> p, seat |-> label]]
    /\ given' = [given EXCEPT ![b] = links[p]]
    /\ UNCHANGED <<mode, policy, links, who, windows, pending, table, roster, dirty,
                   wire, seen, mirror>>

\* release_seat_of: the same release on demand, narrowed to one label.
ReleaseSeatOf(p, label) ==
    /\ verbs < MaxAssigns /\ verbs' = verbs + 1
    /\ bodies' = [b \in Bodies |-> IF bodies[b] = [owner |-> p, seat |-> label]
                                   THEN [owner |-> ServerPeer, seat |-> 0]
                                   ELSE bodies[b]]
    /\ UNCHANGED <<mode, policy, links, who, windows, pending, table, roster, dirty,
                   wire, seen, mirror, given>>

\* set_seat_release_policy, with releases already queued.
SetSeatReleasePolicy(rule) ==
    /\ verbs < MaxAssigns /\ verbs' = verbs + 1
    /\ policy' = rule /\ rule # policy
    /\ UNCHANGED <<mode, links, who, windows, bodies, pending, table, roster, dirty,
                   wire, seen, mirror, given>>

----------------------------------------------------------------------------
(* Client                                                                  *)

\* rebuild_seats_from_manifest, and the announcement of the client's next frame.
ReadSeats ==
    /\ wire # <<>>
    /\ wire' = Tail(wire)
    /\ seen' = Head(wire)
    /\ mirror' = ReplaceInto(mirror, SeatsOf(seen'))
    /\ UNCHANGED <<mode, policy, links, who, windows, bodies, pending, table, roster,
                   dirty, given, verbs>>

SeatNext ==
    \/ TickFrame \/ IdleFrame \/ ReadSeats
    \/ \E p \in Peers, s \in Identities \cup {NoIdentity} : Connect(p, s)
    \/ \E p \in Peers, grace \in BOOLEAN : Disconnect(p, grace)
    \/ \E b \in Bodies, p \in Peers, label \in Labels : AssignSeat(b, p, label)
    \/ \E p \in Peers, label \in Labels : ReleaseSeatOf(p, label)
    \/ \E rule \in Policies : SetSeatReleasePolicy(rule)

SeatSpec == SeatInit /\ [][SeatNext]_seatVars

----------------------------------------------------------------------------
(* Properties                                                              *)

\* The release the engine performs on its own never takes a body from a player
\* who is connected, however long ago the drop it answers was and whoever holds
\* the id by now.  Every other change of a body is a verb of the game.
ReleaseSparesTheLiving ==
    [][verbs' = verbs
         => \A b \in Bodies : bodies'[b] # bodies[b] => given[b] \notin Connected]_seatVars

\* One frame carries both a queued release and the seat_closed it causes: after
\* it no seat of an id that ended is left in the roster.
ReleaseIsAnnouncedAtOnce ==
    [][pending # {} /\ pending' = {} /\ policy = "drop"
         => \A p \in pending : PeerIsLive(p) \/ \A seat \in roster' : seat[1] # p]_seatVars

\* Rosters follow ownership: the announced seats are those of the last scan, and
\* a client that has read the whole stream was told the same seats.
RostersAgree ==
    /\ roster = SeatsOf(table)
    /\ wire = <<>> => mirror = roster

\* Refuted.  "A drop on its own changes nothing, so a player who reconnects inside
\* the window finds the body where they left it" (SeatReleasePolicy::OnExpiry).
GraceIsKept ==
    [][verbs' = verbs /\ policy = "expiry"
         => \A k \in DOMAIN windows' : \A b \in Bodies :
               given[b] = windows'[k].gen => bodies'[b] = bodies[b]]_seatVars
=============================================================================
