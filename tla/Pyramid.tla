------------------------------ MODULE Pyramid ------------------------------
(***************************************************************************)
(* The Pyramid and Composite Pyramid strategies                            *)
(* (lib/identification/pyramid.cpp, composite-pyramid.cpp): identify and   *)
(* reduce try the trios of the image, nearest indices first, until one of  *)
(* them has exactly one answer.                                            *)
(*                                                                         *)
(* Composite inherits identify and overrides find_catalog_stars and reduce;*)
(* sky.strategy says whose are called.  Pyramid asks the table for the     *)
(* three pairs of a trio and lets them vote; Composite asks for the trio.  *)
(* A query may answer with any rows; when Faithful, it finds the row of    *)
(* the stars it was asked about, and the true map has the best overlay.    *)
(***************************************************************************)
EXTENDS Naturals, FiniteSets

CONSTANTS
    Skies,       \* the skies: records [strategy, pairs, trios, faithful]
    MinN, MaxN,  \* bounds of the image size
    NuMax,       \* nu_max
    Truth,       \* Truth[x]: the catalog star that image star x really is
    MaxAnswer    \* bound: rows one query answers with

Indices == 0 .. MaxN - 1

ASSUME SizeAssumption == MinN \in Nat /\ MaxN \in Nat /\ MinN <= MaxN /\ NuMax \in Nat
ASSUME TruthAssumption == \A x, y \in Indices : x # y => Truth[x] # Truth[y]

\* The stars of a trio are different ones.
Different(r) == r[1] # r[2] /\ r[1] # r[3] /\ r[2] # r[3]

ASSUME SkiesAssumption ==
    \A s \in Skies :
        /\ s.strategy \in {"pyramid", "composite"}
        /\ s.faithful \in BOOLEAN
        /\ \A r \in s.trios : Different(r)

Members(r) == {r[1], r[2], r[3]}

VARIABLES
    sky,          \* the strategy called, its table and the noise
    pc,           \* "idle" or "loop"
    op,           \* "identify" or "reduce"
    n,            \* be->get_image()->size()
    dj, dk, di,   \* the loop variables
    nu,           \* database accesses so far
    error,        \* of what was returned; "out_of_range" is the exception
    answer,       \* the returned catalog trio, or NoStars
    b,            \* history: the image trio it was returned for
    tried         \* history: the trios this call has looked up

vars == <<sky, pc, op, n, dj, dk, di, nu, error, answer, b, tried>>

outcome == <<error, answer, b>>

\* Whose methods are called: "pyramid" or "composite".
Strategy == sky.strategy

\* The rows of Pyramid's table: sets of two catalog stars; and of Composite's:
\* sequences of three.
CatalogPairs == sky.pairs
CatalogTrios == sky.trios

\* Queries and overlays do not miss the truth.
Faithful == sky.faithful

NoStars == <<>>

Init ==
    /\ sky \in Skies
    /\ pc = "idle" /\ op = "identify" /\ n = MinN
    /\ dj = 1 /\ dk = 1 /\ di = 0 /\ nu = 0
    /\ error = "none" /\ answer = NoStars /\ b = NoStars
    /\ tried = {}

----------------------------------------------------------------------------
(* Candidates. *)

\* query_for_pairs, asked about image stars x and y.
query_for_pairs(x, y) ==
    {a \in SUBSET CatalogPairs : /\ Cardinality(a) <= MaxAnswer
                                 /\ Faithful => {Truth[x], Truth[y]} \in a}

\* query_for_trios, asked about the image trio t; asked says whether with the
\* area and the moment of t.
query_for_trios(t, asked) ==
    {a \in SUBSET CatalogTrios :
        /\ Cardinality(a) <= MaxAnswer
        /\ Faithful /\ asked =>
              \E r \in a : Members(r) = {Truth[t[1]], Truth[t[2]], Truth[t[3]]}}

\* Star s is once in the flattened list of the pairs p.
Once(p, s) == \A e, f \in p : s \in e /\ s \in f => e = f

\* Mutant: the stars that were chosen already are not removed.
CommonAll(p, q, removed) == (UNION p) \cap (UNION q)

\* common: the stars of the set_intersection of the flattened lists p and q,
\* but for the removed ones.
common(p, q, removed) == ((UNION p) \cap (UNION q)) \ removed

\* Mutant: one of many is good enough.
SoleAny(p, q, removed) ==
    {s \in common(p, q, removed) : s = CHOOSE x \in common(p, q, removed) : TRUE}

\* The star that common(p, q, removed) has when its size is 1: it is a list,
\* with a star as often as both flattened lists have it.
Sole(p, q, removed) ==
    {s \in common(p, q, removed) :
        common(p, q, removed) = {s} /\ (Once(p, s) \/ Once(q, s))}

\* Pyramid::find_catalog_stars: the trio that the rows of the pairs ij, ik and
\* jk vote for, in a set of one; or NoStars.
Elected(ij, ik, jk) ==
    LET big_t_i == common(ij, ik, {})
        big_t_j == common(ij, jk, big_t_i)
        big_r == Sole(ij, ik, {}) \X Sole(ij, jk, big_t_i)
                   \X Sole(ik, jk, big_t_i \cup big_t_j)
    IN  IF big_r = {} THEN {NoStars} ELSE big_r

----------------------------------------------------------------------------
(* identify and reduce. *)

call(o, size) ==
    /\ pc = "idle"
    /\ sky' \in Skies
    /\ pc' = "loop" /\ op' = o /\ n' = size
    /\ dj' = 1 /\ dk' = 1 /\ di' = 0 /\ nu' = 0
    /\ error' = "none" /\ answer' = NoStars /\ b' = NoStars
    /\ tried' = {}

identify(size) == call("identify", size)
reduce(size) == call("reduce", size)

NO_CONFIDENT == IF op = "identify" THEN "no_confident_a" ELSE "no_confident_r"

Return(e, r, t) ==
    /\ pc' = "idle"
    /\ error' = e /\ answer' = r /\ b' = t
    /\ UNCHANGED <<dj, dk, di>>

\* Mutant: the loop over dk is left early.
NextTrioShort ==
    /\ IF di + 1 < n - dj - dk - 1
       THEN di' = di + 1 /\ UNCHANGED <<dj, dk>>
       ELSE di' = 0 /\ dj' = dj + 1 /\ dk' = 1
    /\ UNCHANGED <<pc, outcome>>

\* continue: the next turn of the three loops.
NextTrio ==
    /\ IF di + 1 < n - dj - dk - 1
       THEN di' = di + 1 /\ UNCHANGED <<dj, dk>>
       ELSE IF dk + 1 < n - dj - 1
       THEN di' = 0 /\ dk' = dk + 1 /\ UNCHANGED dj
       ELSE di' = 0 /\ dk' = 1 /\ dj' = dj + 1
    /\ UNCHANGED <<pc, outcome>>

\* Mutant: the bound of the loop over dj is one more.
HasTrioFar == dj < n

\* The loops have a turn left.  Fewer than four stars give none: identify
\* returns at once and the loops of reduce are empty.
HasTrio == dj < n - 2

\* The end of the loops, or the early return.  The bounds of reduce wrap
\* around for an empty image: its at(0) throws.
end ==
    /\ pc = "loop" /\ ~HasTrio
    /\ Return(IF op = "reduce" /\ n = 0 THEN "out_of_range" ELSE NO_CONFIDENT, NoStars, NoStars)
    /\ UNCHANGED <<sky, op, n, nu, tried>>

Trio == <<di, di + dj, di + dj + dk>>

\* All but Pyramid's reduce look at nu_max before they query.
LimitFirst == op = "identify" \/ Strategy = "composite"

\* The practical limit of comparisons.
OverLimit == nu > NuMax

exceeded ==
    /\ pc = "loop" /\ HasTrio
    /\ LimitFirst /\ OverLimit
    /\ Return(IF op = "identify" THEN "exceeded" ELSE "no_confident_r", NoStars, NoStars)
    /\ UNCHANGED <<sky, op, n, nu, tried>>

\* A turn of the loops before its queries.
turn ==
    /\ pc = "loop" /\ HasTrio
    /\ ~(LimitFirst /\ OverLimit)
    /\ tried' = tried \cup {Trio}
    /\ UNCHANGED <<sky, op, n>>

\* The rest of the turn: r is what was found; Pyramid's reduce looks at nu_max
\* now, before it uses it.
decide(r) ==
    IF ~LimitFirst /\ nu' > NuMax THEN Return("no_confident_r", NoStars, NoStars)
    ELSE IF r = NoStars THEN NextTrio
    ELSE Return("none", r, Trio)

\* Pyramid: three queries for pairs.
pyramid_trio ==
    /\ Strategy = "pyramid" /\ turn
    /\ nu' = nu + 3
    /\ \E ij \in query_for_pairs(Trio[1], Trio[2]),
          ik \in query_for_pairs(Trio[1], Trio[3]),
          jk \in query_for_pairs(Trio[2], Trio[3]) :
         \E r \in Elected(ij, ik, jk) : decide(r)

\* Composite's find_catalog_stars: one query; a sole row is mapped by the
\* permutation with the best overlay.  (The test for ties compares the sizes
\* of big_a, which are all 3; chained, ((3 == 3) == 3) == ... is never true.)
composite_trio ==
    /\ Strategy = "composite" /\ op = "identify" /\ turn
    /\ \E a \in query_for_trios(Trio, TRUE) :
         \/ (\A r \in a : a # {r}) /\ nu' = nu + 1 /\ decide(NoStars)
         \/ \E r \in a, x, y, z \in 1 .. 3 :
              /\ a = {r} /\ nu' = nu + 2
              /\ x # y /\ y # z /\ x # z
              /\ Faithful => <<r[x], r[y], r[z]>> = <<Truth[Trio[1]], Truth[Trio[2]], Truth[Trio[3]]>>
              /\ decide(<<r[x], r[y], r[z]>>)

\* Composite::reduce gives the area for the area and for the moment.
composite_reduce_trio ==
    /\ Strategy = "composite" /\ op = "reduce" /\ turn
    /\ nu' = nu + 1
    /\ \E a \in query_for_trios(Trio, FALSE) :
         \/ (\A r \in a : a # {r}) /\ decide(NoStars)
         \/ \E r \in a : a = {r} /\ decide(r)

Step == end \/ exceeded \/ pyramid_trio \/ composite_trio \/ composite_reduce_trio

Next == Step \/ \E size \in MinN .. MaxN : identify(size) \/ reduce(size)

Spec == Init /\ [][Next]_vars

----------------------------------------------------------------------------
(* Properties. *)

Errors == {"none", "no_confident_a", "no_confident_r", "exceeded", "out_of_range"}

\* The trios of an image of m stars: "|big_i| choose 3 possibilities".
Trios(m) == {t \in (0 .. m - 1) \X (0 .. m - 1) \X (0 .. m - 1) : t[1] < t[2] /\ t[2] < t[3]}

TypeOK ==
    /\ sky \in Skies
    /\ pc \in {"idle", "loop"}
    /\ op \in {"identify", "reduce"}
    /\ n \in MinN .. MaxN
    /\ dj \in Nat \ {0} /\ dk \in Nat \ {0} /\ di \in Nat
    /\ nu \in Nat
    /\ error \in Errors
    /\ tried \subseteq Trios(n)

\* A call overshoots nu_max by no more than the queries of one trio.
Cost == IF Strategy = "pyramid" THEN 3 ELSE IF op = "identify" THEN 2 ELSE 1

NuBounded == nu <= NuMax + Cost

\* "Not found" is only said when every trio without the last star of the image
\* has been looked up, but for a reduction that ran out of comparisons.
GivesUpExhausted ==
    pc = "idle" /\ error \in {"no_confident_a", "no_confident_r"} =>
        Trios(n - 1) \subseteq tried \/ (op = "reduce" /\ nu > NuMax)

\* The three stars of an answer are three different stars, whatever the table
\* answered: the removed lists of common see to it.
DistinctAnswer == answer # NoStars => Different(answer)

\* If no query misses the true rows, an identification, and a reduction of
\* Pyramid, is true, star by star: the vote never elects another star.
AnswerTrue ==
    Faithful /\ answer # NoStars /\ (op = "identify" \/ Strategy = "pyramid") =>
        answer = <<Truth[b[1]], Truth[b[2]], Truth[b[3]]>>

----------------------------------------------------------------------------
(* Both strategies implement Search. *)

absOutcome ==
    IF pc # "idle" THEN "none" ELSE
    CASE error = "none" -> IF answer = NoStars THEN "none" ELSE "found"
      [] error = "exceeded" -> "exceeded"
      [] error = "out_of_range" -> "thrown"
      [] OTHER -> IF op = "reduce" /\ nu > NuMax THEN "exceeded" ELSE "exhausted"

absSubsets == IF pc = "idle" THEN {} ELSE Trios(n)

\* The trios of the image but for its last star.
absDue == IF pc = "idle" THEN {} ELSE Trios(n - 1)

S == INSTANCE Search
     WITH Subsets <- Trios(MaxN), Cost <- 3, Repeats <- FALSE, searching <- (pc # "idle"),
          subsets <- absSubsets, untried <- absSubsets \ tried, due <- absDue,
          spent <- nu, outcome <- absOutcome

\* No trio is tried twice or after the limit, none but those with the last star
\* of the image is left out, and the outcome is what was done.
SearchSpec == S!Spec

All == INSTANCE Search
       WITH Subsets <- Trios(MaxN), Cost <- 3, Repeats <- FALSE, searching <- (pc # "idle"),
            subsets <- absSubsets, untried <- absSubsets \ tried, due <- absSubsets,
            spent <- nu, outcome <- absOutcome

\* "Otherwise, there exists |big_i| choose 3 possibilities.  Looping specified in
\* paper." (pyramid.cpp): none at all is left out.  The bounds of the loops
\* stop one short: no trio with the last star is ever tried.
ExhaustiveSpec == All!Spec
=============================================================================
