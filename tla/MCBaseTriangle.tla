-------------------------- MODULE MCBaseTriangle --------------------------
(* BaseTriangle for TLC: image star x is catalog star x, and the catalog has *)
(* stars that are not in the image.                                         *)
EXTENDS BaseTriangle

IdentityTruth == [x \in 0 .. MaxN - 1 |-> x]

\* Every trio of stars 0 .. 4, and two with a star no image shows.
FullCatalog == {r \in SUBSET (0 .. 4) : Cardinality(r) = 3} \cup {{0, 1, 9}, {1, 3, 9}}

\* Few rows that share two, one and no stars with each other.
SmallCatalog == {{0, 1, 2}, {0, 1, 3}, {1, 3, 4}, {0, 4, 9}, {7, 8, 9}}

\* Any answer from the few rows, and truthful answers from all of them.
MCSkies == {[catalog |-> SmallCatalog, faithful |-> FALSE],
            [catalog |-> FullCatalog, faithful |-> TRUE]}
TieSkies == {[catalog |-> SmallCatalog, faithful |-> FALSE]}
============================================================================
