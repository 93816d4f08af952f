---------------------------- MODULE MCDotAngle ----------------------------
(* Instances of DotAngle for TLC. *)
EXTENDS DotAngle

Matrix(f) ==
    [x \in Indices |-> [y \in Indices |->
        IF x = y THEN 0 ELSE f[IF x < y THEN <<x, y>> ELSE <<y, x>>]]]

Above == {p \in Indices \X Indices : p[1] < p[2]}

\* Images of up to four stars whose separations are 1, 2 or, out of view, 3.
MCThetas ==
    {Matrix(f) : f \in {g \in [Above -> 1 .. 3] :
        g[<<0, 1>>] = 2 /\ g[<<0, 2>>] # 1 /\ g[<<1, 3>>] # 2 /\ g[<<2, 3>>] # 1}}
=============================================================================
