-------------------------- MODULE MCInterestFilter --------------------------
(* The interest filter on points at the centre, on the outer edge of the      *)
(* hysteresis band (above the plane, on the other side of the origin) and     *)
(* across the map. A session starts as one of four layouts: nobody drives     *)
(* anything; one connection drives two seats far apart; two connections drive *)
(* a body each, in different worlds; a player's body has no position yet.     *)
EXTENDS InterestFilter

MCPoints == {<<0, 0, 0>>, <<-3, 4, 0>>, <<28, 0, 0>>}

At(owner, seat, anchor, world) ==
    [owner |-> owner, seat |-> seat, anchor |-> anchor, world |-> world]

MCLayouts ==
    LET here == <<0, 0, 0>>
        far  == <<28, 0, 0>>
    IN  {<<At(0, 0, here, 0), At(0, 0, far, 0), At(0, 0, here, 0)>>,
         <<At(1, 0, far, 0), At(1, 1, here, 0), At(0, 0, here, 0)>>,
         <<At(1, 0, here, 1), At(2, 0, here, 2), At(0, 0, far, 1)>>,
         <<At(1, 0, NoAnchor, 0), At(0, 0, far, 0), At(0, 0, here, 0)>>}
=============================================================================
