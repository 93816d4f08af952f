------------------------------ MODULE MCTrial ------------------------------
(* Trial for TLC. *)
EXTENDS Trial

MCLabels == 1 .. 3

\* Two or three stars of the catalog, at either side of the centre.
MCFields ==
    {f \in UNION {[1 .. n -> {[label |-> l, place |-> IF l = 1 THEN -1 ELSE 1] : l \in MCLabels}] : n \in 2 .. 3} :
        \A x, y \in DOMAIN f : x < y => f[x].label < f[y].label}

\* The engine leaves the order as it is or turns it round.
MCEngines ==
    {[n \in 0 .. MaxStars |-> [x \in 1 .. n |-> x]],
     [n \in 0 .. MaxStars |-> [x \in 1 .. n |-> n + 1 - x]]}

MCiters == [n \in 0 .. 2 |-> 2]
============================================================================
