--------------------------- MODULE MCLumberjack ---------------------------
(* Lumberjack for TLC. *)
EXTENDS Lumberjack, TLC

\* Writers are interchangeable, and so are readers (for safety runs).
Symmetry == Permutations(Writers) \cup Permutations(Readers)
============================================================================
