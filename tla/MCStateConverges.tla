-------------------------- MODULE MCStateConverges --------------------------
(* What must happen in the end on a link that settles: the state lane shows *)
(* the client the server's rows, and the client's tick loop comes to rest.  *)
(* The two share no state; a behaviour runs the one `part` names and leaves *)
(* the other in a first state of its own.                                   *)
EXTENDS StateLane, TickLoop

VARIABLE part

MCOneEntity == {1}

Untiered == [e \in Entity |-> 1]

EveryTick == {1}

MCInit ==
    /\ part \in {"lane", "pace"}
    /\ Init /\ PaceInit
    /\ part # "lane" => LET v == CHOOSE v \in Value : TRUE
                        IN  value = [e \in Entity |-> [c \in Channel |-> v]]
    /\ part # "pace" => mode = CHOOSE m \in Modes : TRUE

MCNext ==
    /\ UNCHANGED part
    /\ \/ part = "lane" /\ Next /\ UNCHANGED paceVars
       \/ part = "pace" /\ PaceNext /\ UNCHANGED vars

\* Each part's own fairness, for the behaviours that run it.
MCFairness ==
    /\ WF_vars(part = "lane" /\ Flush)
    /\ WF_vars(part = "lane" /\ \E d \in down : HandleSnapshot(d))
    /\ WF_vars(part = "lane" /\ ClientFlush)
    /\ WF_vars(part = "lane" /\ \E m \in up : HandleClientInput(m))
    /\ WF_beat(part = "pace" /\ beat' = 1 - beat)
    /\ WF_pongs(part = "pace" /\ pongs > 0 /\ pongs' = pongs - 1)

MCSpec == MCInit /\ [][MCNext]_<<part, vars, paceVars>> /\ MCFairness
=============================================================================
