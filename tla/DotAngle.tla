----------------------------- MODULE DotAngle -----------------------------
(***************************************************************************)
(* The Interior Angle strategy (lib/identification/dot-angle.cpp): a trio  *)
(* of image stars is ordered by its centre c: b_i is to be nearer to it    *)
(* than b_j (condition 6d).  Rows of the table are ordered the same way.   *)
(* identify enumerates trios of indices, reduce takes every star as the    *)
(* centre with its two nearest neighbours.                                 *)
(*                                                                         *)
(* The image is the matrix theta of the separations of its stars; the      *)
(* table may have any number of candidates for any trio.                   *)
(***************************************************************************)
EXTENDS Naturals, FiniteSets, Functions

CONSTANTS
    MinN, MaxN,   \* bounds of the image size
    NuMax,        \* nu_max
    Fov,          \* the field of view
    Thetas,       \* the separations that an image may have
    MaxAnswer     \* bound of the number of candidates of a trio

Indices == 0 .. MaxN - 1

ASSUME BoundsAssumption ==
    MinN \in Nat /\ MaxN \in Nat /\ MinN <= MaxN /\ NuMax \in Nat /\ Fov \in Nat /\ MaxAnswer \in Nat

\* Only a star and itself are not apart.
ASSUME ThetasAssumption ==
    /\ Thetas # {}
    /\ \A t \in Thetas :
        /\ t \in [Indices -> [Indices -> Nat]]
        /\ \A x, y \in Indices : t[x][y] = t[y][x] /\ (t[x][y] = 0 <=> x = y)

VARIABLES
    pc,         \* "idle", "identify" or "reduce" loop head
    n,          \* be->get_image()->size()
    theta,      \* the separations of the stars of the image
    i, j, k,    \* the loop variables; reduce uses k, its centre
    nu,         \* database accesses so far
    error,      \* of what was returned; "out_of_range" is the exception
    answered,   \* the number of candidates the answer was chosen from
    b,          \* the image trio (b_i, b_j, centre) of the answer
    tried,      \* history: the trios this call of identify has looked up
    centres     \* history: the centres this call of reduce has looked up

vars == <<pc, n, theta, i, j, k, nu, error, answered, b, tried, centres>>

outcome == <<error, answered, b>>

Init ==
    /\ pc = "idle" /\ n = MinN /\ theta \in Thetas
    /\ i = 0 /\ j = 1 /\ k = 2 /\ nu = 0
    /\ error = "none" /\ answered = 0 /\ b = <<0, 0, 0>>
    /\ tried = {} /\ centres = {}

----------------------------------------------------------------------------

call(o, size, t) ==
    /\ pc = "idle"
    /\ pc' = o /\ n' = size /\ theta' = t
    /\ i' = 0 /\ j' = 1 /\ k' = IF o = "identify" THEN 2 ELSE 0
    /\ nu' = 0
    /\ error' = "none" /\ answered' = 0 /\ b' = <<0, 0, 0>>
    /\ tried' = {} /\ centres' = {}

identify(size, t) == call("identify", size, t)
reduce(size, t) == call("reduce", size, t)

Return(e, a, t) ==
    /\ pc' = "idle" /\ error' = e /\ answered' = a /\ b' = t
    /\ UNCHANGED <<i, j, k>>

Fail(e) == Return(e, 0, <<0, 0, 0>>)

\* Mutant: the nearest of the other stars is not required to be b_i.
AnyOrder(t) == TRUE

\* Condition 6d: theta_1 <= theta_2.
Condition6d(t) == theta[t[3]][t[1]] <= theta[t[3]][t[2]]

\* Star::within_angle of a trio: every pair is closer than fov.
within_angle(t) == theta[t[1]][t[2]] < Fov /\ theta[t[1]][t[3]] < Fov /\ theta[t[2]][t[3]] < Fov

\* find_candidate_trio: what it costs and how many candidates it has; the
\* first of them is the one that is used.
find_candidate_trio(t, cost, candidates) ==
    IF Condition6d(t) /\ within_angle(t)
    THEN cost = 1 /\ candidates \in 0 .. MaxAnswer
    ELSE cost = 0 /\ candidates = 0

OverLimit == nu > NuMax

\* Mutants: k begins after i + 2; it does not advance.
NextTrioSkipping ==
    /\ IF k + 1 < n THEN k' = k + 1 /\ UNCHANGED <<i, j>>
       ELSE IF j + 1 < n - 1 THEN j' = j + 1 /\ k' = i + 3 /\ UNCHANGED i
       ELSE i' = i + 1 /\ j' = i + 2 /\ k' = i + 3
    /\ UNCHANGED <<pc, outcome>>
NextTrioStuck == UNCHANGED <<i, j, k, pc, outcome>>

\* The next turn of identify's loops: k begins at i + 2 for every j.
NextTrio ==
    /\ IF k + 1 < n THEN k' = k + 1 /\ UNCHANGED <<i, j>>
       ELSE IF j + 1 < n - 1 THEN j' = j + 1 /\ k' = i + 2 /\ UNCHANGED i
       ELSE i' = i + 1 /\ j' = i + 2 /\ k' = i + 3
    /\ UNCHANGED <<pc, outcome>>

\* Mutant: the bound of the loop over i is one more.
HasTrioFar == i + 1 < n

\* size() - 2 is cast to a signed int: no turn for an image of two or fewer.
HasTrio == i + 2 < n

identify_end ==
    /\ pc = "identify" /\ ~HasTrio
    /\ Fail("no_confident_a")
    /\ UNCHANGED <<n, theta, nu, tried, centres>>

identify_exceeded ==
    /\ pc = "identify" /\ HasTrio /\ OverLimit
    /\ Fail("exceeded")
    /\ UNCHANGED <<n, theta, nu, tried, centres>>

\* A turn of identify's loops.  k meets j, and passes behind it; what was to
\* be done when find_candidate_trio fails, to swap b_i and b_j, is commented
\* out.
identify_trio ==
    /\ pc = "identify" /\ HasTrio /\ ~OverLimit
    /\ tried' = tried \cup {<<i, j, k>>}
    /\ \E cost \in 0 .. 1, candidates \in 0 .. MaxAnswer :
         /\ find_candidate_trio(<<i, j, k>>, cost, candidates)
         /\ nu' = nu + cost
         /\ IF candidates = 0 THEN NextTrio ELSE Return("none", candidates, <<i, j, k>>)
    /\ UNCHANGED <<n, theta, centres>>

\* theta_big_i: the stars with another vector than the centre c.
theta_big_i(c) == {x \in 0 .. n - 1 : theta[c][x] # 0}

\* Mutant: the index is compared in place of the separation.
BeforeByIndex(c, x, y) == x < y

\* The comparator of the sort.
Before(c, x, y) == theta[c][x] < theta[c][y]

\* What std::sort may make of theta_big_i: stars of the same separation are
\* left in any order.
Sorted(c) ==
    {s \in Bijection(1 .. Cardinality(theta_big_i(c)), theta_big_i(c)) :
        \A u, v \in DOMAIN s : u < v => ~Before(c, s[v], s[u])}

\* Element m of the sorted vector; past its end there may be the index of any
\* star...
ReadAt(s, m) == IF m \in DOMAIN s THEN {s[m]} ELSE 0 .. n - 1

\* find_closest: the first two stars of the sorted vector.
find_closest(c) == UNION {ReadAt(s, 1) \X ReadAt(s, 2) : s \in Sorted(c)}

reduce_end ==
    /\ pc = "reduce" /\ k >= n
    /\ Fail("no_confident_r")
    /\ UNCHANGED <<n, theta, nu, tried, centres>>

\* ... or an index that at() throws at.
reduce_throws ==
    /\ pc = "reduce" /\ k < n /\ Cardinality(theta_big_i(k)) < 2
    /\ Fail("out_of_range")
    /\ UNCHANGED <<n, theta, nu, tried, centres>>

\* A turn of reduce's loop: the limit is looked at before the result.
reduce_star ==
    /\ pc = "reduce" /\ k < n
    /\ centres' = centres \cup {k}
    /\ \E p \in find_closest(k), cost \in 0 .. 1, candidates \in 0 .. MaxAnswer :
         /\ find_candidate_trio(<<p[1], p[2], k>>, cost, candidates)
         /\ nu' = nu + cost
         /\ IF nu + cost > NuMax THEN Fail("no_confident_r")
            ELSE IF candidates = 0 THEN k' = k + 1 /\ UNCHANGED <<pc, i, j, outcome>>
            ELSE Return("none", candidates, <<p[1], p[2], k>>)
    /\ UNCHANGED <<n, theta, tried>>

Step ==
    \/ identify_end \/ identify_exceeded \/ identify_trio
    \/ reduce_end \/ reduce_throws \/ reduce_star

Next ==
    \/ Step
    \/ \E size \in MinN .. MaxN, t \in Thetas : identify(size, t) \/ reduce(size, t)

Spec == Init /\ [][Next]_vars

\* The one thread of the program runs the call to its end.
FairSpec == Spec /\ WF_vars(Step)

----------------------------------------------------------------------------
(* Properties. *)

Errors == {"none", "no_confident_a", "no_confident_r", "exceeded", "out_of_range"}

\* The trios that identify enumerates.
Trios(m) ==
    {t \in (0 .. m - 3) \X (1 .. m - 2) \X (2 .. m - 1) : t[1] < t[2] /\ t[1] + 2 <= t[3]}

TypeOK ==
    /\ pc \in {"idle", "identify", "reduce"}
    /\ n \in MinN .. MaxN
    /\ theta \in Thetas
    /\ i \in Nat /\ j \in Nat /\ k \in Nat /\ nu \in Nat
    /\ error \in Errors
    /\ answered \in 0 .. MaxAnswer
    /\ b \in Nat \X Nat \X Nat
    /\ tried \subseteq Trios(n) /\ centres \subseteq 0 .. n - 1

\* A call overshoots nu_max by one comparison at most.
NuBounded == nu <= NuMax + 1

\* "Not found" is only said when every trio of the loops, or every centre, has
\* been looked up, but for a reduction that ran out of comparisons.
GivesUpExhausted ==
    pc = "idle" =>
        /\ error = "no_confident_a" => tried = Trios(n)
        /\ error = "no_confident_r" => centres = 0 .. n - 1 \/ nu > NuMax

\* Whatever the loops enumerate, the stars of an answer are three different
\* stars in view of each other, the first the nearer to the centre: k = j is
\* only kept out by condition 6d.
OrderedAnswer ==
    error = "none" /\ answered > 0 /\ n >= 3 =>
        /\ b[1] # b[2] /\ b[1] # b[3] /\ b[2] # b[3]
        /\ Condition6d(b) /\ within_angle(b)

\* The stars of a reduction are "the 2 nearest neighbors" of its centre: no
\* star of the image that was left out is nearer than either.
NearestReduced ==
    error = "none" /\ answered > 0 /\ b[3] \in centres =>
        \A z \in (0 .. n - 1) \ {b[1], b[2], b[3]} :
            theta[b[3]][b[1]] <= theta[b[3]][z] /\ theta[b[3]][b[2]] <= theta[b[3]][z]

\* Every call comes to its end.
Returns == (pc # "idle") ~> (pc = "idle")

----------------------------------------------------------------------------
(* Interior Angle implements Search: identify over the trios of its loops, *)
(* reduce over the centres.                                                *)

absOutcome ==
    IF pc # "idle" THEN "none" ELSE
    CASE error = "none" -> IF answered = 0 THEN "none" ELSE "found"
      [] error = "exceeded" -> "exceeded"
      [] error = "out_of_range" -> "thrown"
      [] error = "no_confident_a" -> "exhausted"
      [] OTHER -> IF nu > NuMax THEN "exceeded" ELSE "exhausted"

Centres(cs) == {<<c>> : c \in cs}

absSubsets ==
    CASE pc = "idle" -> {}
      [] pc = "identify" -> Trios(n)
      [] pc = "reduce" -> Centres(0 .. n - 1)

absUntried ==
    CASE pc = "idle" -> {}
      [] pc = "identify" -> Trios(n) \ tried
      [] pc = "reduce" -> Centres((0 .. n - 1) \ centres)

S == INSTANCE Search
     WITH Subsets <- Trios(MaxN) \cup Centres(Indices), Cost <- 1, Repeats <- FALSE,
          searching <- (pc # "idle"), subsets <- absSubsets, untried <- absUntried,
          due <- absSubsets, spent <- nu, outcome <- absOutcome

\* No trio and no centre is looked up twice or after the limit, and the outcome
\* is what was done; only an image too small for a centre and its neighbours
\* raises the exception.
SearchSpec == S!Spec
=============================================================================
