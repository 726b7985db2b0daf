---------------------------- MODULE MCConnection ----------------------------
(* One connection, part by part: its handshake, one direction of its sealed *)
(* datagrams, the server's send rota for it, its input lane, and the        *)
(* threads that assemble the frames.  The parts share no state; a behaviour *)
(* runs the one `part` names and leaves the others in their first state.    *)
EXTENDS Session, SealedLane, SendRota, InputRota, AssemblyPool

VARIABLE part

OneIdentity == [p \in Player |-> {1}]

Informed == [p \in Player |-> "good"]

AnyPin == [p \in Player |-> {"none", "good", "bad"}]

\* Three rows, the second too long for a datagram.
MCIds == 1..3
MCSize == <<2, 5, 3>>
MCDeclared == <<1, 1, 1>>

\* Five bodies, the third too long for a frame.
MCBodies == 1..5
MCLength == <<2, 2, 7, 1, 2>>

ConnectionInit ==
    /\ part \in {"session", "seal", "rota", "input", "pool"}
    /\ Init /\ SealInit /\ RotaInit /\ InputInit /\ PoolInit
    /\ part # "rota" => band = [id \in Ids |-> Near]

ConnectionNext ==
    /\ UNCHANGED part
    /\ \/ /\ part = "session" /\ Next
          /\ UNCHANGED <<sealVars, rotaVars, inputVars, poolVars>>
       \/ /\ part = "seal" /\ SealNext
          /\ UNCHANGED <<vars, rotaVars, inputVars, poolVars>>
       \/ /\ part = "rota" /\ RotaNext
          /\ UNCHANGED <<vars, sealVars, inputVars, poolVars>>
       \/ /\ part = "input" /\ InputNext
          /\ UNCHANGED <<vars, sealVars, rotaVars, poolVars>>
       \/ /\ part = "pool" /\ PoolNext
          /\ UNCHANGED <<vars, sealVars, rotaVars, inputVars>>

\* Session's own Fairness, for the behaviours that run it.
ConnectionFairness ==
    /\ WF_vars(part = "session" /\ StartServer)
    /\ \A p \in Player :
          /\ WF_vars(part = "session" /\ RetryHello(p))
          /\ WF_vars(part = "session" /\ (HandleChallenge(p) \/ IntegrateWelcome(p)))
    /\ \A c \in Conn : WF_vars(part = "session" /\ HandleHello(c))

ConnectionSpec ==
    /\ ConnectionInit
    /\ [][ConnectionNext]_<<part, vars, sealVars, rotaVars, inputVars, poolVars>>
    /\ ConnectionFairness
=============================================================================
