------------------------ MODULE BaseTriangleProofs ------------------------
(***************************************************************************)
(* What holds of the triangle identifiers for every catalog, every image   *)
(* size, every nu_max and whatever the reference table answers.            *)
(***************************************************************************)
EXTENDS BaseTriangle, TLAPS

USE SizeAssumption

\* The deque holds other stars than the three under query, and the last star
\* of the image, where the recursion stops, is still to come.
ReserveInv ==
    pc = "pivot" =>
        /\ c3 \in 0 .. n - 1 /\ c3 # i /\ c3 # j
        /\ pivot_c \subseteq (0 .. n - 1) \ {i, j, c3}
        /\ c3 = n - 1 \/ n - 1 \in pivot_c

\* The first query is about (i, j, k) itself; pivot recurses on candidates, and
\* none of them outlive the operation.
FirstInv ==
    /\ pc = "pivot" => IF has_r_1 THEN big_r_1 # {} /\ asked ELSE c3 = k /\ ~asked
    /\ pc = "idle" => big_r_1 = {}

\* What pivot's return value says of the candidates.
ResultInv ==
    pc = "after" /\ nu <= NuMax /\ p # "no_candidate_star_set" =>
        asked /\ \E r \in big_r_1 : big_r_1 = {r}

\* Trio (x, y, z) comes before (i, j, k) in the order of the loops.
Before(x, y, z) == x < i \/ (x = i /\ (y < j \/ (y = j /\ z < k)))

Current(x, y, z) == x = i /\ y = j /\ z = k

\* What the loops have passed is what has been pivoted on.
TriedInv ==
    \A x, y, z \in 0 .. n - 1 : x < y /\ y < z =>
        /\ pc = "loop" => ({x, y, z} \in tried <=> Before(x, y, z))
        /\ pc \in {"pivot", "after"} =>
               ({x, y, z} \in tried <=> Before(x, y, z) \/ Current(x, y, z))

\* A trio is of the image, and begun with comparisons left.
BegunInv ==
    /\ tried \subseteq ImageTrios[n]
    /\ pc = "loop" => nu <= NuMax

IInv ==
    /\ TypeOK /\ NeverPopsEmpty /\ NuBounded /\ ExceededHonest
    /\ ReserveInv /\ FirstInv /\ ResultInv
    /\ TriedInv /\ BegunInv /\ GivesUpExhausted
    /\ TruthKept /\ AnswerSound

----------------------------------------------------------------------------

\* The loops go from (i, j, k) to the trio after it, or end after the last one.
LEMMA NextTrioLemma ==
    ASSUME TypeOK, pc = "after", NextTrio, UNCHANGED n
    PROVE  /\ i' \in Nat /\ j' \in Nat /\ k' \in Nat
           /\ \/ /\ pc' = "loop" /\ i' < j' /\ j' < k' /\ k' < n
                 /\ UNCHANGED outcome
                 /\ \A x, y, z \in 0 .. n - 1 : x < y /\ y < z =>
                        (Before(x, y, z)' <=> Before(x, y, z) \/ Current(x, y, z))
              \/ /\ pc' = "idle" /\ error' = NO_CONFIDENT /\ found' = {} /\ map' = {}
                 /\ \A x, y, z \in 0 .. n - 1 : x < y /\ y < z =>
                        Before(x, y, z) \/ Current(x, y, z)
  <1>1. /\ i \in Nat /\ j \in Nat /\ k \in Nat /\ n \in Nat
        /\ i < j /\ j < k /\ k < n
    BY DEF TypeOK
  <1>2. CASE k + 1 < n
    BY <1>1, <1>2 DEF NextTrio, Before, Current, outcome
  <1>3. CASE ~(k + 1 < n) /\ j + 1 < n - 1
    BY <1>1, <1>3 DEF NextTrio, Before, Current, outcome
  <1>4. CASE ~(k + 1 < n) /\ ~(j + 1 < n - 1) /\ i + 1 < n - 2
    BY <1>1, <1>4 DEF NextTrio, Before, Current, outcome
  <1>5. CASE ~(k + 1 < n) /\ ~(j + 1 < n - 1) /\ ~(i + 1 < n - 2)
    BY <1>1, <1>5 DEF NextTrio, Before, Current, Return
  <1>6. QED BY <1>2, <1>3, <1>4, <1>5

\* The trios of an image of m stars are those of the loops.
LEMMA TriosOfImage ==
    ASSUME NEW m \in 0 .. MaxN
    PROVE  /\ \A x, y, z \in 0 .. m - 1 : x < y /\ y < z => {x, y, z} \in ImageTrios[m]
           /\ \A r \in ImageTrios[m] : \E x, y, z \in 0 .. m - 1 :
                 r = {x, y, z} /\ x < y /\ y < z
  <1> DEFINE T == {u \in (0 .. m - 1) \X (0 .. m - 1) \X (0 .. m - 1) : u[1] < u[2] /\ u[2] < u[3]}
  <1>1. ImageTrios[m] = {{t[1], t[2], t[3]} : t \in T}
    BY DEF ImageTrios
  <1>2. ASSUME NEW x \in 0 .. m - 1, NEW y \in 0 .. m - 1, NEW z \in 0 .. m - 1, x < y, y < z
        PROVE  {x, y, z} \in ImageTrios[m]
    <2>1. <<x, y, z>> \in T
      BY <1>2
    <2>2. {x, y, z} = {<<x, y, z>>[1], <<x, y, z>>[2], <<x, y, z>>[3]}
      OBVIOUS
    <2> HIDE DEF T
    <2>3. QED BY <1>1, <2>1, <2>2
  <1>3. ASSUME NEW r \in ImageTrios[m]
        PROVE  \E x, y, z \in 0 .. m - 1 : r = {x, y, z} /\ x < y /\ y < z
    <2>1. PICK t \in T : r = {t[1], t[2], t[3]}
      BY <1>1
    <2>2. t[1] \in 0 .. m - 1 /\ t[2] \in 0 .. m - 1 /\ t[3] \in 0 .. m - 1 /\ t[1] < t[2] /\ t[2] < t[3]
      OBVIOUS
    <2>3. QED BY <2>1, <2>2
  <1>4. QED BY <1>2, <1>3

\* Narrowing the candidates leaves the pivot with a single one, with none that
\* is certain, or at the next star of the reserve, never without a next star.
LEMMA NarrowLemma ==
    ASSUME TypeOK, ReserveInv, pc = "pivot", NEW candidates \in SUBSET Catalog,
           Narrow(candidates), UNCHANGED <<sky, n, i, j>>
    PROVE  /\ big_r_1' = candidates /\ has_r_1' = TRUE
           /\ p' \in {"none", "no_candidate_star_set", "exceeded"}
           /\ pivot_c' \subseteq Nat /\ c3' \in Nat
           /\ \/ /\ pc' = "after"
                 /\ p' = "no_candidate_star_set" \/ \E r \in candidates : candidates = {r}
              \/ pc' = "pivot" /\ candidates # {} /\ ReserveInv'
  <1>1. /\ i \in Nat /\ j \in Nat /\ k \in Nat /\ n \in Nat /\ c3 \in Nat
        /\ pivot_c \subseteq Nat /\ p \in {"none", "no_candidate_star_set", "exceeded"}
    BY DEF TypeOK
  <1>2. big_r_1' = candidates /\ has_r_1' = TRUE
    BY DEF Narrow
  <1>3. CASE \E r \in candidates : candidates = {r}
    BY <1>1, <1>2, <1>3 DEF Narrow
  <1>4. CASE ~(\E r \in candidates : candidates = {r}) /\ (candidates = {} \/ c3 = n - 1)
    BY <1>1, <1>2, <1>4 DEF Narrow
  <1>5. CASE /\ ~(\E r \in candidates : candidates = {r})
             /\ candidates # {} /\ c3 # n - 1
    <2>1. n - 1 \in pivot_c
      BY <1>5 DEF ReserveInv
    <2>2. /\ pc' = "pivot" /\ p' = p
          /\ \E x \in pivot_c : IsFront(x, pivot_c) /\ c3' = x /\ pivot_c' = Popped(pivot_c, x)
      BY <1>5, <2>1 DEF Narrow
    <2>3. PICK x \in pivot_c : c3' = x /\ pivot_c' = pivot_c \ {x}
      BY <2>2 DEF Popped
    <2>4. ReserveInv'
      BY <1>1, <2>1, <2>3 DEF ReserveInv
    <2>5. QED BY <1>1, <1>2, <1>5, <2>2, <2>3, <2>4
  <1>6. QED BY <1>3, <1>4, <1>5

\* The trio of (i, j, x) and the trio of (i, j, k) share two stars.
LEMMA TruthShares ==
    ASSUME NEW a \in Indices, NEW b \in Indices, a # b, NEW x, NEW y
    PROVE  PartialMatch(TrueStars({a, b, x}), TrueStars({a, b, y}))
  <1>1. Truth[a] # Truth[b]
    BY TruthAssumption
  <1>2. /\ Truth[a] \in TrueStars({a, b, x}) \cap TrueStars({a, b, y})
        /\ Truth[b] \in TrueStars({a, b, x}) \cap TrueStars({a, b, y})
    BY DEF TrueStars
  <1>3. QED BY <1>1, <1>2 DEF PartialMatch

\* Filtering with a truthful answer keeps the truth.
LEMMA FilterKeeps ==
    ASSUME NEW a \in Indices, NEW b \in Indices, a # b, NEW x, NEW y,
           NEW candidates, TrueStars({a, b, y}) \in candidates,
           NEW answer, TrueStars({a, b, x}) \in answer
    PROVE  TrueStars({a, b, y}) \in Filter(candidates, answer)
  BY TruthShares DEF Filter

----------------------------------------------------------------------------

\* The facts about the running pivot that every step may use.
LEMMA Typing ==
    ASSUME IInv
    PROVE  /\ TypeOK /\ sky \in Skies
           /\ i \in Nat /\ j \in Nat /\ k \in Nat /\ n \in Nat /\ c3 \in Nat /\ nu \in Nat
           /\ n <= MaxN
           /\ pc # "idle" => i < j /\ j < k /\ k < n /\ i \in Indices /\ j \in Indices
  BY DEF IInv, TypeOK, Indices

\* e_identify and e_reduction start at the first trio or return at once.
LEMMA CallStep ==
    ASSUME IInv, NEW size \in 0 .. MaxN, e_identify(size) \/ e_reduction(size)
    PROVE  IInv'
  <1>1. PICK o \in {"identify", "reduce"} : call(o, size)
    BY DEF e_identify, e_reduction
  <1>2. /\ pc = "idle" /\ sky' \in Skies /\ op' = o /\ n' = size /\ nu' = 0 /\ i' = 0 /\ j' = 1 /\ k' = 2
        /\ pivot_c' = {} /\ tried' = {} /\ UNCHANGED <<c3, has_r_1, big_r_1, p, asked>>
    BY <1>1 DEF call
  <1>3. \/ size > 2 /\ pc' = "loop" /\ error' = "none" /\ found' = {}
        \/ /\ size <= 2 /\ pc' = "idle" /\ found' = {}
           /\ error' \in {"no_confident_a", "no_confident_r"}
    BY <1>1 DEF call, Return
  <1>4. big_r_1' = {}
    BY <1>2 DEF IInv, FirstInv
  <1>5. TypeOK'
    BY <1>4, <1>2, <1>3, Typing DEF TypeOK
  <1>6. NeverPopsEmpty' /\ NuBounded' /\ ExceededHonest'
    BY <1>2, <1>3 DEF NeverPopsEmpty, NuBounded, ExceededHonest
  <1>7. ReserveInv' /\ FirstInv' /\ ResultInv' /\ TruthKept' /\ AnswerSound'
    BY <1>4, <1>3 DEF ReserveInv, FirstInv, ResultInv, TruthKept, AnswerSound
  <1>8. TriedInv' /\ BegunInv' /\ GivesUpExhausted'
    BY <1>2, <1>3 DEF TriedInv, BegunInv, Before, GivesUpExhausted
  <1>9. QED BY <1>5, <1>6, <1>7, <1>8 DEF IInv

\* initialize_pivot queues every other star, the last one with them.
LEMMA InitializePivotStep ==
    ASSUME IInv, initialize_pivot
    PROVE  IInv'
  <1>1. /\ pc = "loop" /\ pc' = "pivot" /\ ~has_r_1' /\ big_r_1' = {} /\ ~asked'
        /\ pivot_c' = (0 .. n - 1) \ {i, j, k} /\ c3' = k
        /\ tried' = tried \cup {{i, j, k}}
        /\ UNCHANGED <<sky, op, n, i, j, k, nu, p, error, found, map>>
    BY DEF initialize_pivot, loop, outcome
  <1>2. TypeOK'
    <2>1. has_r_1' \in BOOLEAN /\ asked' \in BOOLEAN
      BY DEF initialize_pivot
    <2>2. QED BY <1>1, <2>1, Typing DEF TypeOK
  <1>3. NeverPopsEmpty' /\ NuBounded' /\ ExceededHonest'
    BY <1>1 DEF IInv, NeverPopsEmpty, NuBounded, ExceededHonest
  <1>4. ReserveInv' /\ FirstInv' /\ ResultInv'
    BY <1>1, Typing DEF ReserveInv, FirstInv, ResultInv
  <1>5. TriedInv' /\ BegunInv'
    <2>1. /\ i \in 0 .. n - 1 /\ j \in 0 .. n - 1 /\ k \in 0 .. n - 1 /\ i < j /\ j < k
          /\ n \in 0 .. MaxN
      BY <1>1, Typing
    <2>2. ASSUME NEW x \in 0 .. n - 1, NEW y \in 0 .. n - 1, NEW z \in 0 .. n - 1, x < y, y < z
          PROVE  {x, y, z} \in tried' <=> Before(x, y, z) \/ Current(x, y, z)
      <3>1. {x, y, z} \in tried <=> Before(x, y, z)
        BY <1>1, <2>2 DEF IInv, TriedInv
      <3>2. x \in Nat /\ y \in Nat /\ z \in Nat /\ i \in Nat /\ j \in Nat /\ k \in Nat
        BY <2>1
      <3>3. ASSUME {x, y, z} = {i, j, k}
            PROVE  Current(x, y, z)
        <4>1. i < j /\ j < k /\ x < y /\ y < z
          BY <2>1, <2>2
        <4>2. x = i /\ y = j /\ z = k
          <5>1. /\ x \in {i, j, k} /\ y \in {i, j, k} /\ z \in {i, j, k}
                /\ i \in {x, y, z} /\ j \in {x, y, z} /\ k \in {x, y, z}
            BY <3>3
          <5>2. QED BY <3>2, <4>1, <5>1
        <4>3. QED BY <4>2 DEF Current
      <3>4. Current(x, y, z) => {x, y, z} = {i, j, k}
        BY DEF Current
      <3>5. QED BY <1>1, <3>1, <3>3, <3>4
    <2>3. TriedInv'
      <3>1. n' = n /\ pc' = "pivot" /\ UNCHANGED <<i, j, k>>
        BY <1>1
      <3>2. ASSUME NEW x, NEW y, NEW z
            PROVE  Before(x, y, z)' = Before(x, y, z) /\ Current(x, y, z)' = Current(x, y, z)
        BY <3>1 DEF Before, Current
      <3> HIDE DEF Before, Current
      <3>3. QED BY <2>2, <3>1, <3>2 DEF TriedInv
    <2>4. {i, j, k} \in ImageTrios[n]
      BY <2>1, TriosOfImage
    <2>5. BegunInv'
      BY <1>1, <2>4 DEF IInv, BegunInv
    <2>6. QED BY <2>3, <2>5
  <1>6. GivesUpExhausted' /\ TruthKept' /\ AnswerSound'
    BY <1>1 DEF GivesUpExhausted, TruthKept, AnswerSound
  <1>7. QED BY <1>2, <1>3, <1>4, <1>5, <1>6 DEF IInv

\* A pivot step that narrows the candidates.
LEMMA PivotStep ==
    ASSUME IInv, pc = "pivot", nu <= NuMax, nu' \in {nu, nu + 1},
           NEW candidates \in SUBSET Catalog, Narrow(candidates),
           UNCHANGED <<loop, outcome, tried>>, asked' \in BOOLEAN,
           candidates # {} => asked',
           Faithful /\ asked' => TrueStars({i, j, k}) \in candidates
    PROVE  IInv'
  <1>1. UNCHANGED <<sky, op, n, i, j, k, error, found, map, tried>>
    BY DEF loop, outcome
  <1>2. /\ big_r_1' = candidates /\ has_r_1' = TRUE
        /\ p' \in {"none", "no_candidate_star_set", "exceeded"}
        /\ pivot_c' \subseteq Nat /\ c3' \in Nat
        /\ \/ /\ pc' = "after"
              /\ p' = "no_candidate_star_set" \/ \E r \in candidates : candidates = {r}
           \/ pc' = "pivot" /\ candidates # {} /\ ReserveInv'
    BY <1>1, NarrowLemma DEF IInv
  <1>3. TypeOK'
    <2>1. has_r_1' \in BOOLEAN
      BY <1>2
    <2>2. QED BY <1>1, <1>2, <2>1, Typing DEF TypeOK, Catalog
  <1>4. NeverPopsEmpty' /\ NuBounded' /\ ExceededHonest'
    BY <1>1, <1>2, Typing DEF IInv, NeverPopsEmpty, NuBounded, ExceededHonest
  <1>5. ReserveInv' /\ FirstInv' /\ ResultInv'
    BY <1>2 DEF ReserveInv, FirstInv, ResultInv
  <1>6. TriedInv' /\ BegunInv' /\ GivesUpExhausted'
    BY <1>1, <1>2 DEF IInv, TriedInv, BegunInv, Before, Current, GivesUpExhausted
  <1>7. TruthKept' /\ AnswerSound'
    BY <1>1, <1>2 DEF TruthKept, AnswerSound, Faithful
  <1>8. QED BY <1>3, <1>4, <1>5, <1>6, <1>7 DEF IInv

\* Without a query the candidates stay as they are.
LEMMA OutOfViewStep ==
    ASSUME IInv, pivot_out_of_view
    PROVE  IInv'
  <1> DEFINE candidates == IF has_r_1 THEN big_r_1 ELSE {}
  <1>1. candidates \in SUBSET Catalog
    BY DEF IInv, TypeOK
  <1>2. Faithful /\ asked => TrueStars({i, j, k}) \in candidates
    BY DEF IInv, FirstInv, TruthKept, pivot_out_of_view
  <1>3. candidates # {} => asked
    BY DEF IInv, FirstInv, pivot_out_of_view
  <1>4. /\ pc = "pivot" /\ nu <= NuMax /\ nu' = nu
        /\ Narrow(candidates) /\ UNCHANGED <<loop, outcome, tried, asked>>
    BY DEF pivot_out_of_view
  <1> HIDE DEF candidates
  <1>5. asked' \in BOOLEAN
    BY <1>4 DEF IInv, TypeOK
  <1>6. QED BY <1>1, <1>2, <1>3, <1>4, <1>5, PivotStep

\* An answer only removes candidates, and never the truth.
LEMMA QueryStep ==
    ASSUME IInv, pivot_query
    PROVE  IInv'
  <1>1. /\ pc = "pivot" /\ nu <= NuMax /\ nu' = nu + 1 /\ asked' = TRUE
        /\ UNCHANGED <<loop, outcome, tried>>
    BY DEF pivot_query
  <1>2. PICK answer \in Answers({i, j, c3}) :
          Narrow(IF answer = {} THEN IF has_r_1 THEN big_r_1 ELSE answer
                 ELSE Filter(IF has_r_1 THEN big_r_1 ELSE answer, answer))
    BY DEF pivot_query
  <1> DEFINE r_1 == IF has_r_1 THEN big_r_1 ELSE answer
             candidates == IF answer = {} THEN r_1 ELSE Filter(r_1, answer)
  <1>3. answer \subseteq Catalog /\ (Faithful => TrueStars({i, j, c3}) \in answer)
    BY DEF Answers
  <1>4. r_1 \subseteq Catalog
    BY <1>3 DEF IInv, TypeOK
  <1>5. candidates \in SUBSET Catalog
    BY <1>4 DEF Filter
  <1>6. Narrow(candidates)
    BY <1>2
  <1>7. ASSUME Faithful
        PROVE  TrueStars({i, j, k}) \in candidates
    <2>1. TrueStars({i, j, k}) \in r_1
      <3>1. CASE has_r_1
        BY <1>1, <1>7, <3>1 DEF IInv, FirstInv, TruthKept
      <3>2. CASE ~has_r_1
        BY <1>1, <1>3, <1>7, <3>2 DEF IInv, FirstInv
      <3>3. QED BY <3>1, <3>2
    <2>2. i \in Indices /\ j \in Indices /\ i # j
      BY <1>1, Typing
    <2>3. TrueStars({i, j, c3}) \in answer /\ answer # {}
      BY <1>3, <1>7
    <2> HIDE DEF r_1
    <2>4. TrueStars({i, j, k}) \in Filter(r_1, answer)
      BY <2>1, <2>2, <2>3, FilterKeeps
    <2>5. QED BY <2>3, <2>4
  <1> HIDE DEF candidates
  <1>8. QED BY <1>1, <1>5, <1>6, <1>7, PivotStep

\* The steps that stop at nu_max.
LEMMA ExceededStep ==
    ASSUME IInv, pivot_exceeded \/ after_exceeded
    PROVE  IInv'
  <1>1. CASE pivot_exceeded
    <2>1. /\ pc = "pivot" /\ pc' = "after" /\ p' = "exceeded" /\ nu > NuMax
          /\ UNCHANGED <<sky, op, n, i, j, k, c3, pivot_c, has_r_1, big_r_1, nu, error, found,
                         map, tried, asked>>
      BY <1>1 DEF pivot_exceeded, loop, outcome
    <2>2. TypeOK'
      BY <2>1, Typing DEF TypeOK, Catalog
    <2>3. NeverPopsEmpty' /\ NuBounded' /\ ExceededHonest' /\ ReserveInv' /\ FirstInv'
      BY <2>1 DEF IInv, NeverPopsEmpty, NuBounded, ExceededHonest, ReserveInv, FirstInv
    <2>4. ResultInv'
      BY <2>1, Typing DEF ResultInv
    <2>5. TriedInv' /\ BegunInv'
      BY <2>1 DEF IInv, TriedInv, BegunInv, Before, Current
    <2>6. GivesUpExhausted' /\ TruthKept' /\ AnswerSound'
      BY <2>1 DEF IInv, GivesUpExhausted, TruthKept, AnswerSound, Faithful
    <2>7. QED BY <2>2, <2>3, <2>4, <2>5, <2>6 DEF IInv
  <1>2. CASE after_exceeded
    <2>1. /\ pc = "after" /\ pc' = "idle" /\ nu > NuMax /\ ~has_r_1' /\ has_r_1' \in BOOLEAN
          /\ big_r_1' = {} /\ error' = "exceeded" /\ found' = {}
          /\ UNCHANGED <<sky, op, n, i, j, k, c3, pivot_c, nu, p, tried, asked>>
      BY <1>2 DEF after_exceeded, loop, Return
    <2>2. TypeOK'
      BY <2>1, Typing DEF TypeOK
    <2>3. NeverPopsEmpty' /\ NuBounded' /\ ExceededHonest' /\ ReserveInv' /\ FirstInv'
      BY <2>1 DEF IInv, NeverPopsEmpty, NuBounded, ExceededHonest, ReserveInv, FirstInv
    <2>4. ResultInv' /\ TriedInv' /\ BegunInv' /\ GivesUpExhausted' /\ TruthKept' /\ AnswerSound'
      BY <2>1 DEF IInv, ResultInv, TriedInv, BegunInv, GivesUpExhausted, TruthKept, AnswerSound
    <2>5. QED BY <2>2, <2>3, <2>4 DEF IInv
  <1>3. QED BY <1>1, <1>2

\* A trio that yields nothing is followed by the next, or by the end.
LEMMA ContinueStep ==
    ASSUME IInv, continue
    PROVE  IInv'
  <1>1. /\ pc = "after" /\ nu <= NuMax /\ NextTrio /\ ~has_r_1' /\ has_r_1' \in BOOLEAN
        /\ big_r_1' = {}
        /\ UNCHANGED <<sky, op, n, c3, pivot_c, nu, p, tried, asked>>
    BY DEF continue
  <1>2. /\ i' \in Nat /\ j' \in Nat /\ k' \in Nat
        /\ \/ /\ pc' = "loop" /\ i' < j' /\ j' < k' /\ k' < n
              /\ UNCHANGED outcome
              /\ \A x, y, z \in 0 .. n - 1 : x < y /\ y < z =>
                     (Before(x, y, z)' <=> Before(x, y, z) \/ Current(x, y, z))
           \/ /\ pc' = "idle" /\ error' = NO_CONFIDENT /\ found' = {} /\ map' = {}
              /\ \A x, y, z \in 0 .. n - 1 : x < y /\ y < z =>
                     Before(x, y, z) \/ Current(x, y, z)
    BY <1>1, Typing, NextTrioLemma
  <1>3. \A x, y, z \in 0 .. n - 1 : x < y /\ y < z =>
          ({x, y, z} \in tried <=> Before(x, y, z) \/ Current(x, y, z))
    BY <1>1 DEF IInv, TriedInv
  <1>4. CASE pc' = "loop"
    <2>1. /\ i' < j' /\ j' < k' /\ k' < n /\ UNCHANGED <<error, found, map>>
          /\ \A x, y, z \in 0 .. n - 1 : x < y /\ y < z =>
                 (Before(x, y, z)' <=> Before(x, y, z) \/ Current(x, y, z))
      BY <1>2, <1>4 DEF outcome
    <2>2. TypeOK'
      BY <1>1, <1>2, <1>4, <2>1, Typing DEF TypeOK
    <2>3. NeverPopsEmpty' /\ NuBounded' /\ ExceededHonest' /\ ReserveInv' /\ FirstInv'
      BY <1>1, <1>4 DEF IInv, NeverPopsEmpty, NuBounded, ExceededHonest, ReserveInv, FirstInv
    <2>4. TriedInv' /\ BegunInv'
      BY <1>1, <1>3, <1>4, <2>1 DEF IInv, TriedInv, BegunInv
    <2>5. ResultInv' /\ GivesUpExhausted' /\ TruthKept' /\ AnswerSound'
      BY <1>1, <1>4 DEF ResultInv, GivesUpExhausted, TruthKept, AnswerSound
    <2>6. QED BY <2>2, <2>3, <2>4, <2>5 DEF IInv
  <1>5. CASE pc' = "idle"
    <2>1. /\ error' \in {"no_confident_a", "no_confident_r"} /\ found' = {}
          /\ \A x, y, z \in 0 .. n - 1 : x < y /\ y < z =>
                 Before(x, y, z) \/ Current(x, y, z)
      BY <1>2, <1>5 DEF NO_CONFIDENT
    <2>2. TypeOK'
      BY <1>1, <1>2, <1>5, <2>1, Typing DEF TypeOK
    <2>3. NeverPopsEmpty' /\ NuBounded' /\ ExceededHonest' /\ ReserveInv' /\ FirstInv'
      BY <1>1, <1>5, <2>1 DEF IInv, NeverPopsEmpty, NuBounded, ExceededHonest, ReserveInv,
                              FirstInv
    <2>4. GivesUpExhausted'
      BY <1>1, <1>3, <2>1 DEF GivesUpExhausted
    <2>5. ResultInv' /\ TriedInv' /\ BegunInv' /\ TruthKept' /\ AnswerSound'
      BY <1>1, <1>5, <2>1 DEF IInv, ResultInv, TriedInv, BegunInv, TruthKept, AnswerSound
    <2>6. QED BY <2>2, <2>3, <2>4, <2>5 DEF IInv
  <1>6. QED BY <1>2, <1>4, <1>5

\* What a pivot returned without an error is one candidate, and with truthful
\* answers it is the true one.
LEMMA PivotResult ==
    ASSUME IInv, pc = "after", nu <= NuMax, p # "no_candidate_star_set"
    PROVE  Faithful => UNION big_r_1 = TrueStars({i, j, k})
  <1>1. PICK r \in big_r_1 : asked /\ big_r_1 = {r}
    BY DEF IInv, ResultInv
  <1>2. UNION big_r_1 = r
    BY <1>1
  <1>3. Faithful => r = TrueStars({i, j, k})
    BY <1>1 DEF IInv, TruthKept
  <1>4. QED BY <1>2, <1>3

\* The two steps that return a trio, and the direct match test of one of them.
LEMMA ReturnStep ==
    ASSUME IInv, return_reduction \/ direct_match_test
    PROVE  IInv'
  <1>1. /\ pc = "after" /\ nu <= NuMax /\ p # "no_candidate_star_set"
        /\ ~has_r_1' /\ has_r_1' \in BOOLEAN /\ big_r_1' = {}
        /\ nu' \in {nu, nu + 1} /\ UNCHANGED <<sky, op, n, c3, pivot_c, p, tried, asked>>
    BY DEF return_reduction, direct_match_test, loop
  <1>2. ~ChainedEqual(LabelCounts)
    BY DEF ChainedEqual, LabelCounts, CEqual
  <1>3. /\ pc' = "idle" /\ error' = "none" /\ found' = UNION big_r_1
        /\ UNCHANGED <<i, j, k>>
    BY <1>2 DEF return_reduction, direct_match_test, loop, Return
  <1>4. Faithful /\ op = "identify" => map' = {<<x, Truth[x]>> : x \in {i, j, k}}
    <2> SUFFICES ASSUME Faithful, op = "identify"
                 PROVE  map' = {<<x, Truth[x]>> : x \in {i, j, k}}
      OBVIOUS
    <2>1. PICK best \in Best({i, j, k}, UNION big_r_1) :
            \E h \in best : map' = {<<x, h[x]>> : x \in DOMAIN h}
      BY <1>2 DEF return_reduction, direct_match_test, Return
    <2>2. best = {[x \in {i, j, k} |-> Truth[x]]}
      BY <1>1, <2>1, PivotResult DEF Best
    <2>3. map' = {<<x, [y \in {i, j, k} |-> Truth[y]][x]>> :
                    x \in DOMAIN [y \in {i, j, k} |-> Truth[y]]}
      BY <2>1, <2>2
    <2>4. QED BY <2>3
  <1>5. TypeOK'
    BY <1>1, <1>3, Typing DEF TypeOK
  <1>6. NeverPopsEmpty' /\ NuBounded' /\ ExceededHonest'
    BY <1>1, <1>3, Typing DEF NeverPopsEmpty, NuBounded, ExceededHonest
  <1>7. ReserveInv' /\ FirstInv' /\ ResultInv' /\ TriedInv' /\ BegunInv' /\ GivesUpExhausted' /\ TruthKept'
    BY <1>1, <1>3 DEF IInv, ReserveInv, FirstInv, ResultInv, TriedInv, BegunInv, GivesUpExhausted,
                      TruthKept
  <1>8. AnswerSound'
    <2>1. Faithful' => Faithful
      BY <1>1 DEF Faithful
    <2>2. Faithful => found' = TrueStars({i, j, k})
      BY <1>1, <1>3, PivotResult
    <2>3. QED BY <1>1, <1>3, <1>4, <2>1, <2>2 DEF AnswerSound, TrueStars
  <1>9. QED BY <1>5, <1>6, <1>7, <1>8 DEF IInv

LEMMA InitInv == Init => IInv
  <1> SUFFICES ASSUME Init PROVE IInv
    OBVIOUS
  <1>1. TypeOK
    <2>1. has_r_1 \in BOOLEAN /\ asked \in BOOLEAN
      BY DEF Init
    <2>2. sky \in Skies /\ n \in 0 .. MaxN /\ i \in Nat /\ j \in Nat /\ k \in Nat /\ c3 \in Nat /\ nu \in Nat
      BY DEF Init
    <2>3. pivot_c = {} /\ big_r_1 = {} /\ pc = "idle" /\ op = "identify" /\ p = "none"
          /\ error = "none"
      BY DEF Init
    <2>4. QED BY <2>1, <2>2, <2>3 DEF TypeOK
  <1>2. QED
    BY <1>1 DEF Init, IInv, NeverPopsEmpty, NuBounded, ExceededHonest, ReserveInv, FirstInv,
                ResultInv, TriedInv, BegunInv, GivesUpExhausted, TruthKept, AnswerSound

LEMMA StepInv == IInv /\ [Next]_vars => IInv'
  <1> SUFFICES ASSUME IInv, [Next]_vars PROVE IInv'
    OBVIOUS
  <1>1. CASE UNCHANGED vars
    BY <1>1 DEF vars, Catalog, Faithful, IInv, TypeOK, NeverPopsEmpty, NuBounded, ExceededHonest, ReserveInv,
                FirstInv, ResultInv, TriedInv, BegunInv, Before, Current, GivesUpExhausted, TruthKept,
                AnswerSound, TrueStars
  <1>2. ASSUME NEW size \in 0 .. MaxN, e_identify(size) \/ e_reduction(size)
        PROVE  IInv'
    BY <1>2, CallStep
  <1>3. CASE Step
    BY <1>3, InitializePivotStep, ExceededStep, OutOfViewStep, QueryStep, ContinueStep,
       ReturnStep DEF Step
  <1>4. QED BY <1>1, <1>2, <1>3 DEF Next

\* The inductive invariant is an invariant.
THEOREM Inductive == Spec => []IInv
  BY InitInv, StepInv, PTL DEF Spec

\* Every variable keeps its type and the loop indices their order.
THEOREM TypeCorrect == Spec => []TypeOK
  <1>1. IInv => TypeOK
    BY DEF IInv
  <1>2. QED BY <1>1, Inductive, PTL

\* Whatever the table answers and however many stars the image has, pivot
\* never takes an index from an empty deque.
THEOREM PopCorrect == Spec => []NeverPopsEmpty
  <1>1. IInv => NeverPopsEmpty
    BY DEF IInv
  <1>2. QED BY <1>1, Inductive, PTL

\* Every query is about three different stars of the image.
THEOREM DistinctCorrect == Spec => []DistinctStars
  <1>1. IInv => DistinctStars
    BY DEF IInv, ReserveInv, DistinctStars
  <1>2. QED BY <1>1, Inductive, PTL

\* nu_max is exceeded by at most one database access.
THEOREM NuCorrect == Spec => []NuBounded
  <1>1. IInv => NuBounded
    BY DEF IInv
  <1>2. QED BY <1>1, Inductive, PTL

\* EXCEEDED_NU_MAX_EITHER means what it says.
THEOREM ExceededCorrect == Spec => []ExceededHonest
  <1>1. IInv => ExceededHonest
    BY DEF IInv
  <1>2. QED BY <1>1, Inductive, PTL

\* For every image size the loops give up only after a pivot on every trio.
THEOREM ExhaustionCorrect == Spec => []GivesUpExhausted
  <1>1. IInv => GivesUpExhausted
    BY DEF IInv
  <1>2. QED BY <1>1, Inductive, PTL

\* As long as answers contain the truth no pivot discards it.
THEOREM TruthCorrect == Spec => []TruthKept
  <1>1. IInv => TruthKept
    BY DEF IInv
  <1>2. QED BY <1>1, Inductive, PTL

\* As long as answers and overlays contain the truth, for every catalog and
\* image, reduce and identify return nothing but the truth.
THEOREM AnswerCorrect == Spec => []AnswerSound
  <1>1. IInv => AnswerSound
    BY DEF IInv
  <1>2. QED BY <1>1, Inductive, PTL

----------------------------------------------------------------------------
(* The refinement. *)

\* A call ends in Search as it ends here.
LEMMA ReturnEnds ==
    ASSUME NEW e, NEW trio, NEW h, NEW t, Return(e, trio, h, t)
    PROVE  /\ pc' = "idle" /\ absSubsets' = {} /\ (absSubsets \ tried)' = {}
           /\ error' = e /\ found' = trio
  BY DEF Return, absSubsets

\* While a call goes on, Search sees the trios it has begun and nothing else.
LEMMA GoingOn ==
    ASSUME pc # "idle", pc' # "idle", UNCHANGED n
    PROVE  UNCHANGED <<absSubsets, absOutcome>> /\ absSubsets = ImageTrios[n]
  BY DEF absSubsets, absOutcome

\* The trio under query is one of the image, and it was begun.
LEMMA TrioBegun ==
    ASSUME IInv, pc # "idle"
    PROVE  /\ {i, j, k} \in ImageTrios[n]
           /\ pc = "loop" => {i, j, k} \notin tried
           /\ pc \in {"pivot", "after"} => {i, j, k} \in tried
  <1>1. /\ i \in 0 .. n - 1 /\ j \in 0 .. n - 1 /\ k \in 0 .. n - 1 /\ i < j /\ j < k
        /\ n \in 0 .. MaxN
    BY Typing
  <1>2. {i, j, k} \in ImageTrios[n]
    BY <1>1, TriosOfImage
  <1>3. ~Before(i, j, k) /\ Current(i, j, k)
    BY <1>1 DEF Before, Current
  <1>4. QED BY <1>1, <1>2, <1>3 DEF IInv, TriedInv

LEMMA CallSearches ==
    ASSUME IInv, NEW o \in {"identify", "reduce"}, NEW size \in 0 .. MaxN, call(o, size)
    PROVE  S!Start \/ S!Refuse
  <1>1. pc = "idle" /\ n' = size /\ nu' = 0 /\ tried' = {}
    BY DEF call
  <1>2. CASE 0 < size - 2
    <2>1. pc' = "loop"
      BY <1>2 DEF call
    <2>2. absSubsets' = ImageTrios[size] /\ (absSubsets \ tried)' = absSubsets' /\ absOutcome' = "none"
      BY <1>1, <2>1 DEF absSubsets, absOutcome
    <2>3. ASSUME NEW r \in ImageTrios[size] PROVE r \in ImageTrios[MaxN]
      <3>1. PICK x \in 0 .. size - 1, y \in 0 .. size - 1, z \in 0 .. size - 1 :
              r = {x, y, z} /\ x < y /\ y < z
        BY TriosOfImage
      <3>2. x \in 0 .. MaxN - 1 /\ y \in 0 .. MaxN - 1 /\ z \in 0 .. MaxN - 1 /\ MaxN \in 0 .. MaxN
        OBVIOUS
      <3>3. QED BY <3>1, <3>2, TriosOfImage
    <2>4. QED BY <1>1, <2>1, <2>2, <2>3 DEF S!Start
  <1>3. CASE ~(0 < size - 2)
    <2>1. PICK e \in {"no_confident_a", "no_confident_r"} : Return(e, {}, {}, FALSE)
      BY <1>3 DEF call
    <2>2. absOutcome' = "exhausted"
      BY <2>1, ReturnEnds DEF absOutcome
    <2>3. absSubsets = {}
      BY <1>1 DEF absSubsets
    <2>4. QED BY <1>1, <2>1, <2>2, <2>3, ReturnEnds DEF S!Refuse
  <1>4. QED BY <1>2, <1>3

\* initialize_pivot begins a trio; it costs nothing yet.
LEMMA InitializePivotSearches ==
    ASSUME IInv, initialize_pivot
    PROVE  S!Try
  <1>1. /\ pc = "loop" /\ pc' = "pivot" /\ tried' = tried \cup {{i, j, k}} /\ UNCHANGED <<n, nu>>
        /\ nu \in Nat /\ nu <= NuMax
    BY DEF initialize_pivot, loop, IInv, TypeOK, BegunInv
  <1>2. S!Compare
    <2>1. nu' = nu + 0 /\ 0 \in 0 .. 1
      BY <1>1
    <2>2. QED BY <1>1, <2>1 DEF S!Compare
  <1>3. UNCHANGED <<absSubsets, absOutcome>> /\ absSubsets = ImageTrios[n]
    BY <1>1, GoingOn
  <1>4. {i, j, k} \in absSubsets \ tried
    BY <1>1, <1>3, TrioBegun
  <1>5. (absSubsets \ tried)' = (absSubsets \ tried) \ {{i, j, k}}
    BY <1>1, <1>3
  <1>6. QED BY <1>1, <1>2, <1>3, <1>4, <1>5 DEF S!Try

\* A query of the running pivot compares its trio again.
LEMMA QuerySearches ==
    ASSUME IInv, pivot_query
    PROVE  S!Again
  <1>1. /\ pc = "pivot" /\ pc' # "idle" /\ nu <= NuMax /\ nu' = nu + 1 /\ UNCHANGED <<n, tried>>
    BY DEF pivot_query, Narrow, loop
  <1>2. S!Compare
    BY <1>1 DEF S!Compare
  <1>3. UNCHANGED <<absSubsets, absOutcome>> /\ absSubsets = ImageTrios[n]
    BY <1>1, GoingOn
  <1>4. absSubsets \ tried # absSubsets
    BY <1>1, <1>3, TrioBegun
  <1>5. QED BY <1>1, <1>2, <1>3, <1>4 DEF S!Again

\* What is returned is a trio, so Search has found something.
LEMMA ReturnSearches ==
    ASSUME IInv, return_reduction \/ direct_match_test
    PROVE  S!Again
  <1>1. /\ pc = "after" /\ nu <= NuMax /\ nu \in Nat /\ p # "no_candidate_star_set"
        /\ nu' = nu \/ nu' = nu + 1
    BY DEF return_reduction, direct_match_test, IInv, TypeOK
  <1>2. ~ChainedEqual(LabelCounts)
    BY DEF ChainedEqual, LabelCounts, CEqual
  <1>3. \E h, t : Return("none", UNION big_r_1, h, t)
    BY <1>2 DEF return_reduction, direct_match_test
  <1>4. UNION big_r_1 # {}
    <2>1. PICK r \in big_r_1 : big_r_1 = {r}
      BY <1>1 DEF IInv, ResultInv
    <2>2. IsTrio(r)
      BY SkiesAssumption DEF IInv, TypeOK, Catalog
    <2>3. QED BY <2>1, <2>2 DEF IsTrio
  <1>5. pc' = "idle" /\ absSubsets' = {} /\ (absSubsets \ tried)' = {} /\ absOutcome' = "found"
    BY <1>3, <1>4, ReturnEnds DEF absOutcome
  <1>6. S!Compare
    <2>1. \E c \in 0 .. 1 : nu' = nu + c
      BY <1>1
    <2>2. QED BY <1>1, <2>1 DEF S!Compare
  <1>7. absSubsets \ tried # absSubsets
    <2>1. absSubsets = ImageTrios[n]
      BY <1>1 DEF absSubsets
    <2>2. QED BY <1>1, <2>1, TrioBegun
  <1>8. QED BY <1>1, <1>5, <1>6, <1>7 DEF S!Again, S!Decide, S!End

\* After a pivot without a result, the loops go on unseen, or have begun every
\* trio of the image.
LEMMA ContinueSearches ==
    ASSUME IInv, continue
    PROVE  S!Exhaust \/ UNCHANGED S!vars
  <1>1. pc = "after" /\ NextTrio /\ UNCHANGED <<n, nu, tried>> /\ n \in 0 .. MaxN
    BY DEF continue, IInv, TypeOK
  <1>2. CASE pc' = "loop"
    BY <1>1, <1>2, GoingOn DEF S!vars
  <1>3. CASE pc' = "idle"
    <2>1. /\ error' = NO_CONFIDENT
          /\ \A x, y, z \in 0 .. n - 1 : x < y /\ y < z => Before(x, y, z) \/ Current(x, y, z)
      BY <1>1, <1>3, Typing, NextTrioLemma
    <2>2. ASSUME NEW r \in ImageTrios[n] PROVE r \in tried
      <3>1. PICK x \in 0 .. n - 1, y \in 0 .. n - 1, z \in 0 .. n - 1 :
              r = {x, y, z} /\ x < y /\ y < z
        BY <1>1, TriosOfImage
      <3>2. QED BY <1>1, <2>1, <3>1 DEF IInv, TriedInv
    <2>3. absSubsets \ tried = {} /\ absSubsets' = {}
      BY <1>1, <1>3, <2>2 DEF absSubsets
    <2>4. absOutcome' = "exhausted"
      BY <1>3, <2>1 DEF absOutcome, NO_CONFIDENT
    <2>5. QED BY <1>1, <1>3, <2>3, <2>4 DEF S!Exhaust, S!End
  <1>4. QED BY <1>1, <1>2, <1>3, Typing, NextTrioLemma

LEMMA SearchStep ==
    ASSUME IInv, [Next]_vars
    PROVE  S!Next \/ UNCHANGED S!vars
  <1>1. ASSUME NEW size \in 0 .. MaxN, e_identify(size) \/ e_reduction(size)
        PROVE  S!Next
    BY <1>1, CallSearches DEF e_identify, e_reduction, S!Next
  <1>2. CASE initialize_pivot \/ pivot_query \/ return_reduction \/ direct_match_test
    BY <1>2, InitializePivotSearches, QuerySearches, ReturnSearches DEF S!Next
  <1>3. CASE continue
    BY <1>3, ContinueSearches DEF S!Next
  <1>4. CASE after_exceeded
    <2>1. pc = "after" /\ nu > NuMax /\ Return("exceeded", {}, {}, FALSE) /\ UNCHANGED nu
      BY <1>4 DEF after_exceeded
    <2>2. absOutcome' = "exceeded"
      BY <2>1, ReturnEnds DEF absOutcome
    <2>3. QED BY <2>1, <2>2, ReturnEnds DEF S!Next, S!Exceed, S!End
  <1>5. CASE pivot_exceeded \/ pivot_out_of_view
    <2>1. pc = "pivot" /\ pc' # "idle" /\ UNCHANGED <<n, nu, tried>>
      BY <1>5 DEF pivot_exceeded, pivot_out_of_view, Narrow, loop
    <2>2. QED BY <2>1, GoingOn DEF S!vars
  <1>6. CASE UNCHANGED vars
    BY <1>6 DEF vars, S!vars, absSubsets, absOutcome
  <1>7. QED BY <1>1, <1>2, <1>3, <1>4, <1>5, <1>6 DEF Next, Step

\* The triangles keep the promise of Search, however often a pivot recurses:
\* every trio is begun once, nothing is compared after the limit, and "not
\* found" and "found" are what was done.
THEOREM SearchCorrect == Spec => SearchSpec
  <1>1. Init => S!Init
    BY DEF Init, S!Init, absSubsets, absOutcome
  <1>2. IInv /\ [Next]_vars => [S!Next]_S!vars
    BY SearchStep
  <1>3. QED BY <1>1, <1>2, Inductive, PTL DEF Spec, SearchSpec, S!Spec
----------------------------------------------------------------------------
(* Why an operation ends: every step comes nearer to the end of the loops, *)
(* or within a trio to the last star of the deque.                         *)

\* The stars left in the deque come after the one under query.
FrontInv == pc = "pivot" /\ has_r_1 => \A y \in pivot_c : c3 < y

\* What the loops have left, and what is left to do for their trio: to begin,
\* the first query, one with each later third star, to leave.
OuterLeft == n - i
MiddleLeft == n - j
InnerLeft == n - k
PivotLeft ==
    CASE pc = "loop" -> n + 2
      [] pc = "pivot" -> IF has_r_1 THEN n - c3 ELSE n + 1
      [] OTHER -> 0

Measured ==
    OuterLeft \in Nat /\ MiddleLeft \in Nat /\ InnerLeft \in Nat /\ PivotLeft \in Nat

SameTrio == OuterLeft' = OuterLeft /\ MiddleLeft' = MiddleLeft /\ InnerLeft' = InnerLeft

Nearer ==
    \/ OuterLeft' < OuterLeft
    \/ OuterLeft' = OuterLeft /\ MiddleLeft' < MiddleLeft
    \/ OuterLeft' = OuterLeft /\ MiddleLeft' = MiddleLeft /\ InnerLeft' < InnerLeft
    \/ SameTrio /\ PivotLeft' < PivotLeft

\* The next trio of the loops.
LEMMA TrioNearer ==
    ASSUME IInv, pc = "after", NextTrio, pc' # "idle", UNCHANGED n
    PROVE  Nearer
  <1>1. /\ i \in Nat /\ j \in Nat /\ k \in Nat /\ n \in Nat
        /\ i < j /\ j < k /\ k < n
    BY Typing
  <1>2. \/ k' = k + 1 /\ UNCHANGED <<i, j>>
        \/ j' = j + 1 /\ UNCHANGED i
        \/ i' = i + 1
    BY DEF NextTrio, Return
  <1>3. QED BY <1>1, <1>2 DEF Nearer, OuterLeft, MiddleLeft, InnerLeft

\* A recursion of pivot takes a later star, or is over.
LEMMA NarrowNearer ==
    ASSUME IInv, FrontInv, pc = "pivot", NEW candidates, Narrow(candidates), UNCHANGED <<n, i, j, k>>
    PROVE  FrontInv' /\ Nearer
  <1>1. /\ i \in Nat /\ j \in Nat /\ k \in Nat /\ n \in Nat /\ c3 \in Nat
        /\ pivot_c \subseteq 0 .. n - 1 /\ c3 \in 0 .. n - 1
    BY Typing DEF IInv, ReserveInv
  <1>2. CASE pc' # "pivot"
    <2>1. pc' = "after" \/ pc' = "undefined"
      BY <1>2 DEF Narrow
    <2>2. PivotLeft' = 0 /\ PivotLeft > 0 /\ PivotLeft \in Nat
      BY <1>1, <2>1 DEF PivotLeft
    <2>3. SameTrio
      BY DEF SameTrio, OuterLeft, MiddleLeft, InnerLeft
    <2>4. QED BY <1>2, <2>2, <2>3 DEF FrontInv, Nearer
  <1>3. CASE pc' = "pivot"
    <2>1. /\ has_r_1' = TRUE
          /\ \E x \in pivot_c : IsFront(x, pivot_c) /\ c3' = x /\ pivot_c' = Popped(pivot_c, x)
      BY <1>3 DEF Narrow
    <2>2. PICK x \in pivot_c :
            c3' = x /\ pivot_c' = pivot_c \ {x} /\ \A y \in pivot_c : x <= y
      BY <2>1 DEF IsFront, Popped
    <2>3. FrontInv'
      BY <1>1, <2>2 DEF FrontInv
    <2>4. SameTrio
      BY DEF SameTrio, OuterLeft, MiddleLeft, InnerLeft
    <2>5. PivotLeft' = n - x
      BY <1>3, <2>1, <2>2 DEF PivotLeft
    <2>6. n - x < PivotLeft
      <3>1. x \in Nat
        BY <1>1, <2>2
      <3>2. CASE has_r_1
        <4>1. c3 < x /\ PivotLeft = n - c3
          BY <2>2, <3>2 DEF FrontInv, PivotLeft
        <4>2. QED BY <1>1, <3>1, <4>1
      <3>3. CASE ~has_r_1
        <4>1. PivotLeft = n + 1
          BY <3>3 DEF PivotLeft
        <4>2. QED BY <1>1, <3>1, <4>1
      <3>4. QED BY <3>2, <3>3
    <2>7. QED BY <2>3, <2>4, <2>5, <2>6 DEF Nearer
  <1>4. QED BY <1>2, <1>3

\* Every step of a running operation.
LEMMA StepNearer ==
    ASSUME IInv, FrontInv, [Next]_vars
    PROVE  FrontInv' /\ (pc # "idle" /\ vars' # vars /\ pc' # "idle" => Nearer)
  <1>1. ASSUME NEW size \in 0 .. MaxN, e_identify(size) \/ e_reduction(size)
        PROVE  FrontInv' /\ pc = "idle"
    BY <1>1 DEF e_identify, e_reduction, call, Return, FrontInv
  <1>2. CASE initialize_pivot
    <2>1. pc = "loop" /\ pc' = "pivot" /\ ~has_r_1' /\ UNCHANGED <<n, i, j, k>> /\ n \in Nat
      BY <1>2, Typing DEF initialize_pivot, loop
    <2>2. PivotLeft' < PivotLeft /\ SameTrio
      BY <2>1 DEF PivotLeft, SameTrio, OuterLeft, MiddleLeft, InnerLeft
    <2>3. QED BY <2>1, <2>2 DEF FrontInv, Nearer
  <1>3. CASE pivot_exceeded
    <2>1. /\ pc = "pivot" /\ pc' = "after" /\ UNCHANGED <<n, i, j, k>>
          /\ n \in Nat /\ c3 \in 0 .. n - 1
      BY <1>3, Typing DEF pivot_exceeded, loop, IInv, ReserveInv
    <2>2. PivotLeft' < PivotLeft /\ SameTrio
      BY <2>1 DEF PivotLeft, SameTrio, OuterLeft, MiddleLeft, InnerLeft
    <2>3. QED BY <2>1, <2>2 DEF FrontInv, Nearer
  <1>4. CASE pivot_out_of_view \/ pivot_query
    <2>1. pc = "pivot" /\ UNCHANGED <<n, i, j, k>> /\ \E candidates : Narrow(candidates)
      BY <1>4 DEF pivot_out_of_view, pivot_query, loop
    <2>2. QED BY <2>1, NarrowNearer
  <1>5. CASE after_exceeded \/ return_reduction
    BY <1>5 DEF after_exceeded, return_reduction, Return, FrontInv
  <1>6. CASE continue \/ direct_match_test
    <2>1. pc = "after" /\ n' = n /\ ~has_r_1' /\ (pc' = "idle" \/ NextTrio)
      BY <1>6 DEF continue, direct_match_test, Return
    <2>2. QED BY <2>1, TrioNearer DEF FrontInv
  <1>7. CASE UNCHANGED vars
    BY <1>7 DEF vars, FrontInv
  <1>8. QED BY <1>1, <1>2, <1>3, <1>4, <1>5, <1>6, <1>7 DEF Next, Step

\* An operation returns or comes nearer to its end with every step, for every
\* image size, however ambiguous the answers stay and wherever pivot recurses:
\* Returns, but for the fairness that makes it take the steps.
THEOREM Progress ==
    Spec => /\ [](pc # "idle" => Measured)
            /\ [][pc # "idle" => pc' = "idle" \/ Nearer]_vars
  <1>1. IInv => (pc # "idle" => Measured)
    <2> SUFFICES ASSUME IInv, pc # "idle" PROVE Measured
      OBVIOUS
    <2>1. /\ i \in Nat /\ j \in Nat /\ k \in Nat /\ n \in Nat
          /\ i < j /\ j < k /\ k < n
          /\ pc = "pivot" => c3 \in 0 .. n - 1
      BY Typing DEF IInv, ReserveInv
    <2>2. OuterLeft \in Nat /\ MiddleLeft \in Nat /\ InnerLeft \in Nat
      BY <2>1 DEF OuterLeft, MiddleLeft, InnerLeft
    <2>3. PivotLeft \in Nat
      BY <2>1 DEF PivotLeft
    <2>4. QED BY <2>2, <2>3 DEF Measured
  <1>2. Init => FrontInv
    BY DEF Init, FrontInv
  <1>3. IInv /\ FrontInv /\ [Next]_vars => FrontInv'
    BY StepNearer
  <1>4. IInv /\ FrontInv /\ [Next]_vars => [pc # "idle" => pc' = "idle" \/ Nearer]_vars
    BY StepNearer
  <1>5. QED BY <1>1, <1>2, <1>3, <1>4, Inductive, PTL DEF Spec
============================================================================
