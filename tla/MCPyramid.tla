----------------------------- MODULE MCPyramid -----------------------------
(* Instances of Pyramid for TLC: stars are numbers, image star x is star x *)
(* of the catalog.                                                         *)
EXTENDS Pyramid

MCTruth == [x \in Indices |-> x]

\* A small sky: all pairs of four stars but one.
SomePairs == {{0, 1}, {0, 2}, {1, 2}, {1, 3}, {2, 3}}

\* Every pair that a query may be asked about in images of up to six stars.
AllPairs == {{x, y} : x, y \in 0 .. 4} \ {{x} : x \in 0 .. 4}

\* One row per trio of five stars, in the order of the catalog labels.
AllTrios == {r \in (0 .. 4) \X (0 .. 4) \X (0 .. 4) : r[1] < r[2] /\ r[2] < r[3]}

Sky(strategy, pairs, trios, faithful) ==
    [strategy |-> strategy, pairs |-> pairs, trios |-> trios, faithful |-> faithful]

\* Pyramid with noisy and with faithful queries, and Composite.
MCSkies ==
    {Sky("pyramid", SomePairs, {}, FALSE), Sky("pyramid", AllPairs, {}, TRUE),
     Sky("composite", {}, AllTrios, FALSE), Sky("composite", {}, AllTrios, TRUE)}

NoisySkies == {Sky("pyramid", SomePairs, {}, FALSE)}
=============================================================================
