--------------------------- MODULE BaseTriangle ---------------------------
(***************************************************************************)
(* The triangle identifiers Sphere and Plane: e_identify and e_reduction   *)
(* of lib/identification/base-triangle.cpp, with the pivot they share.     *)
(*                                                                         *)
(* An image of n stars is searched trio by trio (i < j < k).  For each     *)
(* trio the reference table is asked for candidate catalog trios; while    *)
(* more than one is left, pivot asks again with another third star and     *)
(* keeps the candidates that share two stars with some new candidate.      *)
(*                                                                         *)
(* Stars are abstract.  A catalog trio is a set of three catalog stars: the*)
(* code compares trios only by how many stars they share.  What the table  *)
(* answers depends on areas, moments and tolerances, so a query may answer *)
(* with any set of rows; when Faithful, the answer has the true trio of    *)
(* the stars it was asked about and the true map has the best overlay.     *)
(* A sky is what an image is searched against: a catalog and a faithfulness.*)
(***************************************************************************)
EXTENDS Naturals, Integers, FiniteSets

CONSTANTS
    MaxN,      \* bound: stars in an image
    NuMax,     \* nu_max
    Skies,     \* the skies: records [catalog, faithful]
    Truth,     \* Truth[x]: the catalog star that image star x really is
    MaxAnswer  \* bound: candidates one query answers with

Indices == 0 .. MaxN - 1

ASSUME SizeAssumption == MaxN \in Nat /\ NuMax \in Nat

\* A set of exactly three stars.
IsTrio(r) == \E x, y, z \in r : r = {x, y, z} /\ x # y /\ y # z /\ x # z

ASSUME SkiesAssumption ==
    \A s \in Skies : s.faithful \in BOOLEAN /\ \A r \in s.catalog : IsTrio(r)
ASSUME TruthAssumption ==
    /\ DOMAIN Truth = Indices
    /\ \A x, y \in Indices : x # y => Truth[x] # Truth[y]

\* What image stars S really are.
TrueStars(S) == {Truth[x] : x \in S}

VARIABLES
    sky,       \* the table and the noise of the operation called
    pc,        \* "idle", "loop", "pivot", "after", or "undefined" behaviour
    op,        \* the operation called: "identify" or "reduce"
    n,         \* be->get_image()->size()
    i, j, k,   \* the loop indices
    c3,        \* c[2] of the running pivot; c[0], c[1] are i, j
    pivot_c,   \* the indices pivot has left; the deque is in increasing order
    has_r_1,   \* big_r_1 # nullptr
    big_r_1,   \* the candidates left for (i, j, k)
    nu,        \* database accesses so far
    p,         \* what pivot returned: its error, and its trio in big_r_1
    error,     \* what the operation has returned: its error,
    found,     \*   the catalog trio,
    map,       \*   and the image stars it was mapped to (identify only)
    tied,      \* history: the returned map's overlay was no better than any
    tried,     \* history: the trios this operation has pivoted on
    asked      \* history: the running pivot has asked the table

vars == <<sky, pc, op, n, i, j, k, c3, pivot_c, has_r_1, big_r_1, nu, p, error,
          found, map, tied, tried, asked>>

loop == <<sky, op, n, i, j, k>>
outcome == <<error, found, map, tied>>

\* The rows of the reference table: trios of catalog stars.
Catalog == sky.catalog

\* Queries and overlays do not miss the truth.
Faithful == sky.faithful

NO_CONFIDENT == IF op = "identify" THEN "no_confident_a" ELSE "no_confident_r"

Init ==
    /\ sky \in Skies
    /\ pc = "idle" /\ op = "identify" /\ n = 0
    /\ i = 0 /\ j = 1 /\ k = 2 /\ c3 = 2
    /\ pivot_c = {} /\ has_r_1 = FALSE /\ big_r_1 = {}
    /\ nu = 0 /\ p = "none"
    /\ error = "none" /\ found = {} /\ map = {} /\ tied = FALSE /\ tried = {}
    /\ asked = FALSE

----------------------------------------------------------------------------
(* Queries. *)

\* What the table may answer when asked about the image stars S.
Answers(S) ==
    {a \in SUBSET Catalog : /\ Cardinality(a) <= MaxAnswer
                            /\ Faithful => TrueStars(S) \in a}

\* Mutant: all three stars have to agree.
FullMatch(r, r_1) == r = r_1

\* PartialMatch: at least two stars of r are in r_1.
PartialMatch(r, r_1) == \E x, y \in r \cap r_1 : x # y

\* Mutant: the condition of the comment, the reverse of the code's.
RemoveMatching(candidates, answer) ==
    {r_1 \in candidates : \A r \in answer : ~PartialMatch(r, r_1)}

\* The erase/remove_if: candidates no trio of the answer partially matches go.
Filter(candidates, answer) ==
    {r_1 \in candidates : \E r \in answer : PartialMatch(r, r_1)}

----------------------------------------------------------------------------
(* The loops of e_identify and e_reduction. *)

Return(e, trio, h, t) ==
    /\ pc' = "idle"
    /\ error' = e /\ found' = trio /\ map' = h /\ tied' = t

\* Enter with an image of size stars.  size - 2 is cast back to a signed
\* int, so the loops are skipped for images of fewer than three stars.
call(o, size) ==
    /\ pc = "idle"
    /\ sky' \in Skies
    /\ op' = o /\ n' = size
    /\ pivot_c' = {} /\ nu' = 0
    /\ i' = 0 /\ j' = 1 /\ k' = 2
    /\ tried' = {}
    /\ IF 0 < size - 2
       THEN pc' = "loop" /\ error' = "none" /\ found' = {} /\ map' = {} /\ tied' = FALSE
       ELSE Return(IF o = "identify" THEN "no_confident_a" ELSE "no_confident_r", {}, {}, FALSE)
    /\ UNCHANGED <<c3, has_r_1, big_r_1, p, asked>>

e_identify(size) == call("identify", size)
e_reduction(size) == call("reduce", size)

\* Mutant: the outermost loop does not advance.
NextTrioStuck ==
    IF k + 1 < n
    THEN pc' = "loop" /\ k' = k + 1 /\ UNCHANGED <<i, j, outcome>>
    ELSE IF j + 1 < n - 1
    THEN pc' = "loop" /\ j' = j + 1 /\ k' = j + 2 /\ UNCHANGED <<i, outcome>>
    ELSE pc' = "loop" /\ j' = i + 1 /\ k' = i + 2 /\ UNCHANGED <<i, outcome>>

\* The next trio of the three nested loops, or the return after them.
NextTrio ==
    IF k + 1 < n
    THEN pc' = "loop" /\ k' = k + 1 /\ UNCHANGED <<i, j, outcome>>
    ELSE IF j + 1 < n - 1
    THEN pc' = "loop" /\ j' = j + 1 /\ k' = j + 2 /\ UNCHANGED <<i, outcome>>
    ELSE IF i + 1 < n - 2
    THEN pc' = "loop" /\ i' = i + 1 /\ j' = i + 2 /\ k' = i + 3 /\ UNCHANGED outcome
    ELSE Return(NO_CONFIDENT, {}, {}, FALSE) /\ UNCHANGED <<i, j, k>>

\* Mutant: the last star is not queued.
initialize_pivot_short ==
    /\ pc = "loop"
    /\ pc' = "pivot"
    /\ has_r_1' = FALSE /\ big_r_1' = {}
    /\ pivot_c' = (0 .. n - 2) \ {i, j, k}
    /\ c3' = k
    /\ tried' = tried \cup {{i, j, k}}
    /\ asked' = FALSE
    /\ UNCHANGED <<loop, nu, p, outcome>>

\* Mutant: the stars of the trio stay in the pivot's reserve.
initialize_pivot_all ==
    /\ pc = "loop"
    /\ pc' = "pivot"
    /\ has_r_1' = FALSE /\ big_r_1' = {}
    /\ pivot_c' = 0 .. n - 1
    /\ c3' = k
    /\ tried' = tried \cup {{i, j, k}}
    /\ asked' = FALSE
    /\ UNCHANGED <<loop, nu, p, outcome>>

\* Forget the last candidates, queue every other star, pivot on (i, j, k).
initialize_pivot ==
    /\ pc = "loop"
    /\ pc' = "pivot"
    /\ has_r_1' = FALSE /\ big_r_1' = {}
    /\ pivot_c' = (0 .. n - 1) \ {i, j, k}
    /\ c3' = k
    /\ tried' = tried \cup {{i, j, k}}
    /\ asked' = FALSE
    /\ UNCHANGED <<loop, nu, p, outcome>>

----------------------------------------------------------------------------
(* pivot. *)

\* The deque's front is the least index left.
IsFront(x, S) == x \in S /\ \A y \in S : x <= y

\* The deque once ptop has taken x.
Popped(S, x) == S \ {x}

\* With the candidates left: return the only one, give up, or recurse with
\* the next star in the reserve.  ptop of an empty deque is undefined.
Narrow(candidates) ==
    /\ big_r_1' = candidates
    /\ has_r_1' = TRUE
    /\ IF \E r \in candidates : candidates = {r}
       THEN p' = "none" /\ pc' = "after" /\ UNCHANGED <<c3, pivot_c>>
       ELSE IF candidates = {} \/ c3 = n - 1
       THEN p' = "no_candidate_star_set" /\ pc' = "after" /\ UNCHANGED <<c3, pivot_c>>
       ELSE IF pivot_c = {}
       THEN pc' = "undefined" /\ UNCHANGED <<p, c3, pivot_c>>
       ELSE /\ pc' = "pivot"
            /\ \E x \in pivot_c :
                 IsFront(x, pivot_c) /\ c3' = x /\ pivot_c' = Popped(pivot_c, x)
            /\ UNCHANGED p

pivot_exceeded ==
    /\ pc = "pivot"
    /\ nu > NuMax
    /\ p' = "exceeded" /\ pc' = "after"
    /\ UNCHANGED <<loop, c3, pivot_c, has_r_1, big_r_1, nu, outcome, tried, asked>>

\* The three stars do not fit in one field of view: no query is made, and
\* no candidate is removed.
pivot_out_of_view ==
    /\ pc = "pivot"
    /\ nu <= NuMax
    /\ Narrow(IF has_r_1 THEN big_r_1 ELSE {})
    /\ UNCHANGED <<loop, nu, outcome, tried, asked>>

\* The table is asked; an empty answer removes no candidate either.
pivot_query ==
    /\ pc = "pivot"
    /\ nu <= NuMax
    /\ nu' = nu + 1 /\ asked' = TRUE
    /\ \E answer \in Answers({i, j, c3}) :
         LET r_1 == IF has_r_1 THEN big_r_1 ELSE answer
         IN Narrow(IF answer = {} THEN r_1 ELSE Filter(r_1, answer))
    /\ UNCHANGED <<loop, outcome, tried>>

----------------------------------------------------------------------------
(* After pivot. *)

\* a == b == c == d == e == f in C: every == yields 0 or 1.
CEqual(a, b) == IF a = b THEN 1 ELSE 0
ChainedEqual(s) ==
    CEqual(CEqual(CEqual(CEqual(CEqual(s[1], s[2]), s[3]), s[4]), s[5]), s[6]) # 0

\* The six ways to map image stars b to a catalog trio r.
Maps(b, r) == {h \in [b -> r] : \A x, y \in b : x # y => h[x] # h[y]}

\* What the overlays may say: the maps with the largest overlay.
Best(b, r) ==
    {best \in SUBSET Maps(b, r) :
        /\ best # {}
        /\ Faithful /\ r = TrueStars(b) => best = {[x \in b |-> Truth[x]]}}

\* Every one of the six maps assigns three labels.
LabelCounts == <<3, 3, 3, 3, 3, 3>>

after_exceeded ==
    /\ pc = "after"
    /\ nu > NuMax
    /\ has_r_1' = FALSE /\ big_r_1' = {}
    /\ Return("exceeded", {}, {}, FALSE)
    /\ UNCHANGED <<loop, c3, pivot_c, nu, p, tried, asked>>

\* Mutant: nu is not looked at again once pivot has returned.
continue_unchecked ==
    /\ pc = "after"
    /\ p = "no_candidate_star_set"
    /\ has_r_1' = FALSE /\ big_r_1' = {}
    /\ NextTrio
    /\ UNCHANGED <<sky, op, n, c3, pivot_c, nu, p, tried, asked>>

\* Mutant: k is skipped after a failed pivot.
continue_skipping ==
    /\ pc = "after"
    /\ nu <= NuMax
    /\ p = "no_candidate_star_set"
    /\ has_r_1' = FALSE /\ big_r_1' = {}
    /\ IF k + 2 < n
       THEN pc' = "loop" /\ k' = k + 2 /\ UNCHANGED <<i, j, outcome>>
       ELSE NextTrio
    /\ UNCHANGED <<sky, op, n, c3, pivot_c, nu, p, tried, asked>>

\* No meaningful result: continue with the next trio.
continue ==
    /\ pc = "after"
    /\ nu <= NuMax
    /\ p = "no_candidate_star_set"
    /\ has_r_1' = FALSE /\ big_r_1' = {}
    /\ NextTrio
    /\ UNCHANGED <<sky, op, n, c3, pivot_c, nu, p, tried, asked>>

\* e_reduction returns the only candidate.
return_reduction ==
    /\ pc = "after" /\ op = "reduce"
    /\ nu <= NuMax
    /\ p # "no_candidate_star_set"
    /\ has_r_1' = FALSE /\ big_r_1' = {}
    /\ Return("none", UNION big_r_1, {}, FALSE)
    /\ UNCHANGED <<loop, c3, pivot_c, nu, p, tried, asked>>

\* e_identify reads the catalog around the candidate and overlays all maps of
\* (i, j, k) to it; one of the best is returned, unless the label counts
\* satisfy the chained comparison.
direct_match_test ==
    /\ pc = "after" /\ op = "identify"
    /\ nu <= NuMax
    /\ p # "no_candidate_star_set"
    /\ has_r_1' = FALSE /\ big_r_1' = {}
    /\ nu' = nu + 1
    /\ IF ChainedEqual(LabelCounts)
       THEN NextTrio
       ELSE /\ \E best \in Best({i, j, k}, UNION big_r_1) : \E h \in best :
                 Return("none", UNION big_r_1, {<<x, h[x]>> : x \in DOMAIN h},
                        best = Maps({i, j, k}, UNION big_r_1))
            /\ UNCHANGED <<i, j, k>>
    /\ UNCHANGED <<sky, op, n, c3, pivot_c, p, tried, asked>>

----------------------------------------------------------------------------

Step ==
    \/ initialize_pivot
    \/ pivot_exceeded \/ pivot_out_of_view \/ pivot_query
    \/ after_exceeded \/ continue \/ return_reduction \/ direct_match_test

Next ==
    \/ \E size \in 0 .. MaxN : e_identify(size) \/ e_reduction(size)
    \/ Step

Spec == Init /\ [][Next]_vars

\* The operation runs on one thread and never waits.
FairSpec == Spec /\ WF_vars(Step)

----------------------------------------------------------------------------
(* Properties. *)

TypeOK ==
    /\ sky \in Skies
    /\ pc \in {"idle", "loop", "pivot", "after", "undefined"}
    /\ op \in {"identify", "reduce"}
    /\ n \in 0 .. MaxN
    /\ i \in Nat /\ j \in Nat /\ k \in Nat /\ c3 \in Nat
    /\ pc # "idle" => i < j /\ j < k /\ k < n
    /\ pivot_c \subseteq Nat
    /\ has_r_1 \in BOOLEAN /\ asked \in BOOLEAN
    /\ big_r_1 \subseteq Catalog
    /\ nu \in Nat
    /\ p \in {"none", "no_candidate_star_set", "exceeded"}
    /\ error \in {"none", "exceeded", "no_confident_a", "no_confident_r"}

\* The recursion's guard c[2] # n - 1 is enough to keep ptop off an empty
\* deque, whatever the table answers and wherever the pivot started.
NeverPopsEmpty == pc # "undefined"

\* Every query is about three different stars of the image.
DistinctStars ==
    pc = "pivot" => c3 \in 0 .. n - 1 /\ c3 \notin {i, j}

\* nu_max is checked twice per trio only, and still exceeded by at most one.
NuBounded == nu <= NuMax + 1

\* Pivoting never throws the right trio away: as long as the table's answers
\* have the truth in them, the true trio of (i, j, k) is among the candidates
\* after the first query, however many other third stars have been tried.
TruthKept ==
    Faithful /\ asked /\ pc \in {"pivot", "after"} =>
        TrueStars({i, j, k}) \in big_r_1

\* With truthful answers a trio that is returned is the trio of the image stars
\* it was found for, and identify maps each of them to the star it really is.
AnswerSound ==
    Faithful /\ pc = "idle" /\ error = "none" /\ found # {} =>
        /\ found = TrueStars({i, j, k})
        /\ op = "identify" => map = {<<x, Truth[x]>> : x \in {i, j, k}}

\* "There exists |big_i| choose 3 possibilities.": an operation gives up for
\* lack of confidence only after it has pivoted on each of them.
GivesUpExhausted ==
    pc = "idle" /\ error \in {"no_confident_a", "no_confident_r"} =>
        \A x, y, z \in 0 .. n - 1 : x < y /\ y < z => {x, y, z} \in tried

\* EXCEEDED_NU_MAX_EITHER is returned exactly when nu_max was exceeded by
\* queries; a trio found with the last allowed query is not thrown away.
ExceededHonest ==
    pc = "idle" /\ n > 0 =>
        /\ error = "exceeded" => nu > NuMax /\ found = {}
        /\ error \in {"no_confident_a", "no_confident_r"} => nu <= NuMax

\* Every call returns: the loops, the pivot's recursion and nu_max leave no
\* way to run for ever.
Returns == (pc # "idle") ~> (pc = "idle")

----------------------------------------------------------------------------
(* The triangles implement Search: a trio is one subset, begun once and    *)
(* looked up again by every recursion of its pivot.                        *)

absOutcome ==
    IF pc # "idle" THEN "none" ELSE
    CASE error = "none" -> IF found = {} THEN "none" ELSE "found"
      [] error = "exceeded" -> "exceeded"
      [] OTHER -> "exhausted"

\* The trios of an image of m stars.
ImageTrios == [m \in 0 .. MaxN |->
    {{t[1], t[2], t[3]} : t \in
        {u \in (0 .. m - 1) \X (0 .. m - 1) \X (0 .. m - 1) : u[1] < u[2] /\ u[2] < u[3]}}]

absSubsets == IF pc = "idle" THEN {} ELSE ImageTrios[n]

S == INSTANCE Search
     WITH Subsets <- ImageTrios[MaxN], Cost <- 1, Repeats <- TRUE, searching <- (pc # "idle"),
          subsets <- absSubsets, untried <- absSubsets \ tried,
          due <- absSubsets, spent <- nu, outcome <- absOutcome

\* No trio is begun twice, none is looked up after the limit, however its pivot
\* recurses, and the outcome is what was done.
SearchSpec == S!Spec

----------------------------------------------------------------------------

\* "a direct match test to either obtain a map or choose another b set and
\* repeat the process" (doc/include/existing-shr.tex): no map is returned
\* when the overlays do not tell the six maps apart.
TiesRejected == pc = "idle" => ~tied
============================================================================
