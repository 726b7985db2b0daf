------------------------------- MODULE MCWorld -------------------------------
(* The simulated world, part by part: the rollback of one body, the seats   *)
(* of a session, and the interest filter.  The parts share no state; a      *)
(* behaviour runs the one `part` names and leaves the others in a first     *)
(* state of theirs.                                                         *)
EXTENDS MCRollback, MCInterestFilter, MCSeatRelease

VARIABLE part

\* The states the parts rest in while another runs.
RollbackIdle == Init /\ cast = "owner" /\ cli.tick = LeadLow

SeatIdle == SeatInit /\ mode = "server" /\ policy = "hold"

FilterIdle ==
    /\ FilterInit
    /\ rows = CHOOSE layout \in Layouts : TRUE

MCInit ==
    \/ part = "rollback" /\ Init /\ SeatIdle /\ FilterIdle
    \/ part = "seats" /\ RollbackIdle /\ SeatInit /\ FilterIdle
    \/ part = "filter" /\ RollbackIdle /\ SeatIdle /\ FilterInit

MCNext ==
    /\ UNCHANGED part
    /\ \/ part = "rollback" /\ Next /\ UNCHANGED <<seatVars, filterVars>>
       \/ part = "seats" /\ SeatNext /\ UNCHANGED <<vars, filterVars>>
       \/ part = "filter" /\ FilterNext /\ UNCHANGED <<vars, seatVars>>

MCSpec == MCInit /\ [][MCNext]_<<part, vars, seatVars, filterVars>>
-----------------------------------------------------------------------------

(* What a peer is told adds up to what is so: a roster replayed from its   *)
(* announcements is the roster of seats, and an interest set replayed from *)
(* its enter and leave events is the set of the last pass.                 *)
AnnouncementsAddUp == RostersAgree /\ EventsAddUp

(* Wherever a session of the interest filter stands, the grid path and the *)
(* flat path of update_interest give every connection the same sets.       *)
FilterPathsAgree == part = "filter" => PathsAgree
=============================================================================
