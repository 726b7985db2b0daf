------------------------------ MODULE MCStateLane ------------------------------
(* TLC instances of StateLane.                                             *)
EXTENDS StateLane, TLC

MCEntity == {1, 2}

MCOneEntity == {1}

Untiered == [e \in Entity |-> 1]

EveryTick == {1}

TwoTicks == {2}

RowSymmetry == Permutations(Value) \cup Permutations(Channel)

=============================================================================
