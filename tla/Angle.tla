------------------------------- MODULE Angle -------------------------------
(***************************************************************************)
(* The Angle strategy (lib/identification/angle.cpp): identify and reduce  *)
(* look up the pairs of the image in the table of pairs until one of them  *)
(* has a candidate.                                                        *)
(*                                                                         *)
(* One step is one turn of a loop.  The reference table and the geometry   *)
(* may answer anything: a pair is out of view or has any number of         *)
(* candidates, and the two overlays of direct_match_test tie or do not.    *)
(*                                                                         *)
(* i and j are unsigned int, size() - 1 is of the wider size_t: an empty   *)
(* image makes it larger than every i.                                     *)
(***************************************************************************)
EXTENDS Naturals

CONSTANTS
    MinN, MaxN,   \* bounds of the image size
    NuMax,        \* nu_max
    MaxAnswer,    \* bound of the number of candidates of a pair
    UInt,         \* 2^w for the width w of unsigned int
    SizeT         \* 2^w for the width w of size_t

ASSUME BoundsAssumption ==
    /\ MinN \in Nat /\ MaxN \in Nat /\ MinN <= MaxN /\ NuMax \in Nat /\ MaxAnswer \in Nat
ASSUME WidthAssumption == UInt \in Nat /\ SizeT \in Nat /\ MaxN < UInt /\ UInt < SizeT

VARIABLES
    pc,         \* "idle", "outer" or "inner" loop head
    op,         \* "identify" or "reduce"
    n,          \* be->get_image()->size()
    i, j, nu,
    error,      \* of the last StarsEither: "none" when it holds stars
    answered,   \* the number of candidates the returned stars were chosen from
    tried       \* history: the pairs looked up by this call

vars == <<pc, op, n, i, j, nu, error, answered, tried>>

Errors == {"none", "no_confident_a", "no_confident_r", "exceeded"}

Init ==
    /\ pc = "idle" /\ op = "identify" /\ n = MinN
    /\ i = 0 /\ j = 0 /\ nu = 0
    /\ error = "none" /\ answered = 0 /\ tried = {}

NO_CONFIDENT == IF op = "identify" THEN "no_confident_a" ELSE "no_confident_r"

\* The pairs of an image of m stars.
Pairs(m) == {p \in (0 .. m - 1) \X (0 .. m - 1) : p[1] < p[2]}

----------------------------------------------------------------------------

call(o, size) ==
    /\ pc = "idle"
    /\ pc' = "outer"
    /\ op' = o /\ n' = size
    /\ i' = 0 /\ nu' = 0
    /\ error' = "none" /\ answered' = 0 /\ tried' = {}
    /\ UNCHANGED j

identify(size) == call("identify", size)
reduce(size) == call("reduce", size)

Return(e, a) ==
    /\ pc' = "idle" /\ error' = e /\ answered' = a
    /\ UNCHANGED <<i, j>>

\* i < size() - 1.
OuterBound == IF n = 0 THEN SizeT - 1 ELSE n - 1

\* j = i + 1.
NextStar == (i + 1) % UInt

outer ==
    /\ pc = "outer"
    /\ IF i < OuterBound
       THEN /\ pc' = "inner" /\ j' = NextStar
            /\ UNCHANGED <<i, error, answered>>
       ELSE Return(NO_CONFIDENT, 0)
    /\ UNCHANGED <<op, n, nu, tried>>

\* For an empty image the loops have neither an end nor an effect, which C++
\* leaves undefined: the compiler may drop them (a release is built with -O3).
outer_dropped ==
    /\ pc = "outer" /\ n = 0
    /\ Return(NO_CONFIDENT, 0)
    /\ UNCHANGED <<op, n, nu, tried>>

\* Mutant: the inner loop leaves out the last star.
RowEndsEarly == j >= n - 1

\* j < size() no longer holds.
RowEnds == j >= n

\* Mutant: the outer loop does not advance.
inner_end_stuck ==
    /\ pc = "inner"
    /\ RowEnds
    /\ pc' = "outer"
    /\ UNCHANGED <<op, n, i, j, nu, error, answered, tried>>

\* ++i, when the inner loop has ended.
inner_end ==
    /\ pc = "inner"
    /\ RowEnds
    /\ i' = (i + 1) % UInt
    /\ pc' = "outer"
    /\ UNCHANGED <<op, n, j, nu, error, answered, tried>>

\* Mutant: the practical limit is one less.
LowLimit == nu >= NuMax

\* The practical limit of comparisons.
OverLimit == nu > NuMax

\* continue
NextPair == j' = (j + 1) % UInt /\ UNCHANGED <<pc, i, error, answered>>

\* find_candidate_pair: what it costs and how many candidates it has; the
\* first of them is the one that is used.
find_candidate_pair(cost, candidates) ==
    \/ cost = 0 /\ candidates = 0                  \* theta > fov
    \/ cost = 1 /\ candidates \in 0 .. MaxAnswer   \* query_for_pair

\* A turn of identify's loops.
identify_pair ==
    /\ pc = "inner" /\ op = "identify" /\ ~RowEnds
    /\ IF OverLimit
       THEN Return("exceeded", 0) /\ UNCHANGED <<nu, tried>>
       ELSE /\ tried' = tried \cup {<<i, j>>}
            /\ \E cost \in 0 .. 1, candidates \in 0 .. MaxAnswer :
                 /\ find_candidate_pair(cost, candidates)
                 /\ IF candidates = 0
                    THEN nu' = nu + cost /\ NextPair
                    ELSE \* nearby_hip_stars, then direct_match_test
                         /\ nu' = nu + cost + 1
                         /\ \/ Return("none", candidates)
                            \/ NextPair   \* both overlays are of one size
    /\ UNCHANGED <<op, n>>

\* A turn of reduce's loops: the limit is looked at before the result.
reduce_pair ==
    /\ pc = "inner" /\ op = "reduce" /\ ~RowEnds
    /\ tried' = tried \cup {<<i, j>>}
    /\ \E cost \in 0 .. 1, candidates \in 0 .. MaxAnswer :
         /\ find_candidate_pair(cost, candidates)
         /\ nu' = nu + cost
         /\ IF nu + cost > NuMax THEN Return("no_confident_r", 0)
            ELSE IF candidates = 0 THEN NextPair
            ELSE Return("none", candidates)
    /\ UNCHANGED <<op, n>>

Step == outer \/ outer_dropped \/ inner_end \/ identify_pair \/ reduce_pair

Next == Step \/ \E size \in MinN .. MaxN : identify(size) \/ reduce(size)

Spec == Init /\ [][Next]_vars

\* The one thread of the program keeps running.
FairSpec == Spec /\ WF_vars(Step)

----------------------------------------------------------------------------
(* Properties. *)

TypeOK ==
    /\ pc \in {"idle", "outer", "inner"}
    /\ op \in {"identify", "reduce"}
    /\ n \in MinN .. MaxN
    /\ i \in 0 .. UInt - 1 /\ j \in 0 .. UInt - 1
    /\ nu \in Nat
    /\ error \in Errors
    /\ answered \in 0 .. MaxAnswer
    /\ tried \subseteq Pairs(n)

\* A call overshoots nu_max by no more than one pair's comparisons.
NuBounded == nu <= NuMax + (IF op = "identify" THEN 2 ELSE 1)

\* "NO_CONFIDENT_A if an identification cannot be found exhaustively": every
\* pair has been looked up, but for a reduction that ran out of comparisons.
GivesUpExhausted ==
    pc = "idle" /\ error \in {"no_confident_a", "no_confident_r"} =>
        tried = Pairs(n) \/ (op = "reduce" /\ nu > NuMax)

\* EXCEEDED_NU_MAX is said for an image with pairs left and no comparisons
\* left, so it tells the caller that a larger nu_max may help.
ExceededHonest ==
    error = "exceeded" => nu > NuMax /\ tried # Pairs(n)

\* Every call for an image with a star in it comes to its end.
Returns == (pc # "idle" /\ n > 0) ~> (pc = "idle")

----------------------------------------------------------------------------
(* Angle implements Search. *)

absOutcome ==
    IF pc # "idle" THEN "none" ELSE
    CASE error = "none" -> IF answered = 0 THEN "none" ELSE "found"
      [] error = "exceeded" -> "exceeded"
      [] OTHER -> IF op = "reduce" /\ nu > NuMax THEN "exceeded" ELSE "exhausted"

absSubsets == IF pc = "idle" THEN {} ELSE Pairs(n)

S == INSTANCE Search
     WITH Subsets <- Pairs(MaxN), Cost <- 2, Repeats <- FALSE, searching <- (pc # "idle"),
          subsets <- absSubsets, untried <- absSubsets \ tried,
          due <- absSubsets, spent <- nu, outcome <- absOutcome

\* No pair is tried twice or after the limit, and the outcome is what was done.
SearchSpec == S!Spec
=============================================================================
