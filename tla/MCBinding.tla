----------------------------- MODULE MCBinding ------------------------------
(* A body with one property of each quantiser, one that asks for a          *)
(* quantiser its kind cannot carry, and cosmetics; and an input lane.       *)
EXTENDS Binding

Entry(kind, role, asks) == [kind |-> kind, role |-> role, asks |-> asks, resolves |-> TRUE]

Mistyped == [Entry("Quat", "State", "Ss3") EXCEPT !.resolves = FALSE]

MCHalfMin == -2

MCDeclarations ==
    {<<Entry("Quat", "State", "Ss3"), Mistyped, Entry("Vec2", "Cosmetic", "Half")>>,
     <<Entry("F32", "State", "Half"), Entry("F64", "State", "Half")>>,
     <<Entry("Basis", "State", "Ss3"), Entry("F64", "Cosmetic", "None")>>,
     <<Entry("Vec2", "Input", "Half"), Entry("F64", "Input", "None")>>}

\* Near-balanced orientations, where the largest component is hard to tell.
Quats ==
    {[sq |-> s, sg |-> g, norm |-> s[1] + s[2] + s[3] + s[4]] :
        s \in {<<1, 5, 13, 14>>, <<8, 9, 8, 9>>, <<1, 8, 9, 17>>, <<0, 1, 12, 12>>,
               <<16, 1, 1, 0>>, <<9, 9, 9, 9>>, <<14, 13, 5, 1>>},
        g \in {<<1, 1, 1, 1>>, <<1, -1, 1, -1>>}}

Floats ==
    {[neg |-> FALSE, exp |-> e, man |-> m] :
        e \in (HalfMin - HalfBits - 1)..(HalfTop + 1), m \in {0, 2, 7, 10, 15}}
    \cup {NonFinite, Zero(TRUE), [neg |-> TRUE, exp |-> 0, man |-> 5]}

Plain == {NonFinite, Zero(FALSE), [neg |-> FALSE, exp |-> 0, man |-> 5]}

MCSamples(kind) ==
    CASE kind = "Quat" -> Quats \cup {NonFinite}
      [] kind = "Basis" -> {QuatToBasis(q) : q \in Quats} \cup {{NonFinite}}
      [] kind = "F32" -> {<<f>> : f \in Floats}
      [] kind = "Vec2" -> Plain \X Plain
      [] OTHER -> Plain

MCDeclared == {{}, {"capture", "restore", "apply"}}
=============================================================================
