------------------------------- MODULE MCState -------------------------------
(* The state lane's safety, part by part: a lane whose datagrams are lost   *)
(* and reordered, a lane whose ticks are split over several datagrams, the  *)
(* rows that feed it and the bytes that carry it.  The parts share no       *)
(* step; a behaviour runs the one `part` names and leaves the others in a   *)
(* first state of theirs.  The lane that reorders is StateLane itself, with *)
(* the cfg's constants; the lane that splits adds a second entity, and the  *)
(* properties of the lane speak of the first.                               *)
EXTENDS StateLane, MCBinding, MCWireCodec, TLC

CONSTANT OneChannel   \* the property of the lane that splits

VARIABLE part

MCOneEntity == {1}

Untiered == [e \in Entity |-> 1]

EveryTick == {1}

\* A tick is up to two datagrams, and either may carry a block or not.
Split == INSTANCE StateLane WITH
    Entity <- {1, 2}, Channel <- OneChannel, Tier <- [e \in {1, 2} |-> 1], Span <- 5,
    Strides <- {2}, Selective <- TRUE, Lag <- 4, MaxChurn <- 1

RowSymmetry == Permutations(Value) \cup Permutations(Channel)

BindingIdle ==
    /\ BindingInit
    /\ schema = ResolveEntries(CHOOSE e \in Declarations : TRUE)
    /\ DOMAIN hooks = {}

CodecIdle ==
    /\ frame = CHOOSE f \in Frames : TRUE
    /\ receiver = CHOOSE r \in Receivers : TRUE
    /\ buf = Encode(frame)
    /\ cur = Start /\ got = <<>> /\ wantInterest = FALSE /\ reading = "header"

MCInit ==
    \/ part = "order" /\ Init /\ BindingIdle /\ CodecIdle
    \/ part = "split" /\ Split!Init /\ BindingIdle /\ CodecIdle
    \/ part = "binding" /\ Init /\ BindingInit /\ CodecIdle
    \/ part = "codec" /\ Init /\ BindingIdle /\ CodecInit

MCNext ==
    /\ UNCHANGED part
    /\ \/ part = "order" /\ Next /\ UNCHANGED <<bindingVars, codecVars>>
       \/ part = "split" /\ Split!Next /\ UNCHANGED <<bindingVars, codecVars>>
       \/ part = "binding" /\ BindingNext /\ UNCHANGED <<vars, codecVars>>
       \/ part = "codec" /\ CodecNext /\ UNCHANGED <<vars, bindingVars>>

MCSpec == MCInit /\ [][MCNext]_<<part, vars, bindingVars, codecVars>>
=============================================================================
