-------------------------- MODULE DotAngleProofs --------------------------
(***************************************************************************)
(* What holds of the Interior Angle strategy for every image, every nu_max *)
(* and whatever the reference table answers.                               *)
(***************************************************************************)
EXTENDS DotAngle, FiniteSetTheorems, TLAPS

USE BoundsAssumption

\* The loop variables name a trio, or a centre, or the loops are over.
LoopInv ==
    /\ pc = "identify" /\ HasTrio => i < j /\ j < n - 1 /\ i + 2 <= k /\ k < n
    /\ pc = "reduce" => k <= n

\* What the loops have passed is what has been looked up.
TriedInv ==
    /\ pc = "identify" =>
        /\ centres = {}
        /\ \A x \in 0 .. n - 3, y \in 1 .. n - 2, z \in 2 .. n - 1 : x < y /\ x + 2 <= z =>
              (<<x, y, z>> \in tried <=>
                  \/ x < i
                  \/ x = i /\ y < j
                  \/ x = i /\ y = j /\ z < k)
    /\ pc = "reduce" => centres = 0 .. k - 1 /\ tried = {}

\* Between two turns of reduce there are comparisons left.
SpentInv ==
    /\ pc = "reduce" => nu <= NuMax
    /\ pc # "idle" => error = "none" /\ answered = 0
    /\ error # "none" => answered = 0

IInv ==
    /\ TypeOK /\ NuBounded /\ GivesUpExhausted
    /\ LoopInv /\ TriedInv /\ SpentInv
    /\ OrderedAnswer /\ NearestReduced

LEMMA Initially == Init => IInv
  <1> SUFFICES ASSUME Init PROVE IInv
    OBVIOUS
  <1>1. TypeOK
    BY DEF Init, TypeOK, Errors
  <1>2. NuBounded /\ GivesUpExhausted /\ OrderedAnswer /\ NearestReduced
    BY DEF Init, NuBounded, GivesUpExhausted, OrderedAnswer, NearestReduced
  <1>3. LoopInv /\ TriedInv /\ SpentInv
    BY DEF Init, LoopInv, TriedInv, SpentInv
  <1>4. QED BY <1>1, <1>2, <1>3 DEF IInv

LEMMA CallStep ==
    ASSUME IInv, NEW o \in {"identify", "reduce"}, NEW size \in MinN .. MaxN, NEW t \in Thetas,
           call(o, size, t)
    PROVE  IInv'
  <1> USE DEF call
  <1>1. TypeOK'
    BY DEF TypeOK, Errors
  <1>2. NuBounded' /\ GivesUpExhausted' /\ OrderedAnswer' /\ NearestReduced' /\ SpentInv'
    BY DEF NuBounded, GivesUpExhausted, OrderedAnswer, NearestReduced, SpentInv
  <1>3. LoopInv'
    BY DEF LoopInv, HasTrio
  <1>4. TriedInv'
    BY DEF TriedInv
  <1>5. QED BY <1>1, <1>2, <1>3, <1>4 DEF IInv

\* A call that ends without an answer.
LEMMA FailKeeps ==
    ASSUME IInv, NEW e \in Errors \ {"none"}, Fail(e), UNCHANGED <<n, theta>>,
           nu' \in Nat, nu' <= NuMax + 1, tried' \subseteq Trios(n), centres' \subseteq 0 .. n - 1,
           e = "no_confident_a" => tried' = Trios(n),
           e = "no_confident_r" => centres' = 0 .. n - 1 \/ nu' > NuMax
    PROVE  IInv'
  <1>1. /\ pc' = "idle" /\ error' = e /\ e # "none" /\ answered' = 0 /\ b' = <<0, 0, 0>>
        /\ UNCHANGED <<i, j, k>>
    BY DEF Fail, Return
  <1>2. TypeOK'
    BY <1>1 DEF IInv, TypeOK
  <1>3. NuBounded' /\ GivesUpExhausted'
    BY <1>1 DEF NuBounded, GivesUpExhausted
  <1>4. OrderedAnswer' /\ NearestReduced' /\ LoopInv' /\ TriedInv' /\ SpentInv'
    BY <1>1 DEF OrderedAnswer, NearestReduced, LoopInv, TriedInv, SpentInv
  <1>5. QED BY <1>2, <1>3, <1>4 DEF IInv

\* The end of identify's loops: every trio has been passed.
LEMMA LoopsOver ==
    ASSUME IInv, pc = "identify", ~HasTrio
    PROVE  tried = Trios(n)
  <1>1. i + 2 >= n /\ n \in Nat /\ i \in Nat /\ tried \subseteq Trios(n)
    BY DEF HasTrio, IInv, TypeOK
  <1>2. ASSUME NEW t \in Trios(n) PROVE t \in tried
    <2>1. PICK x \in 0 .. n - 3, y \in 1 .. n - 2, z \in 2 .. n - 1 :
            t = <<x, y, z>> /\ x < y /\ x + 2 <= z
      BY DEF Trios
    <2>2. x < i
      BY <1>1
    <2>3. QED BY <2>1, <2>2 DEF IInv, TriedInv
  <1>3. QED BY <1>1, <1>2

LEMMA IdentifyEndStep ==
    ASSUME IInv, identify_end
    PROVE  IInv'
  <1>1. /\ pc = "identify" /\ ~HasTrio /\ nu \in Nat /\ nu <= NuMax + 1
        /\ tried \subseteq Trios(n) /\ centres \subseteq 0 .. n - 1
        /\ Fail("no_confident_a") /\ UNCHANGED <<n, theta, nu, tried, centres>>
    BY DEF identify_end, IInv, TypeOK, NuBounded
  <1>2. tried = Trios(n)
    BY <1>1, LoopsOver
  <1>3. QED BY <1>1, <1>2, FailKeeps DEF Errors

LEMMA IdentifyExceededStep ==
    ASSUME IInv, identify_exceeded
    PROVE  IInv'
  <1>1. /\ nu \in Nat /\ nu <= NuMax + 1 /\ tried \subseteq Trios(n) /\ centres \subseteq 0 .. n - 1
        /\ Fail("exceeded") /\ UNCHANGED <<n, theta, nu, tried, centres>>
    BY DEF identify_exceeded, IInv, TypeOK, NuBounded
  <1>2. QED BY <1>1, FailKeeps DEF Errors

LEMMA ReduceEndStep ==
    ASSUME IInv, reduce_end
    PROVE  IInv'
  <1>1. /\ pc = "reduce" /\ k >= n /\ k <= n /\ k \in Nat /\ n \in Nat /\ nu \in Nat /\ nu <= NuMax + 1
        /\ Fail("no_confident_r") /\ UNCHANGED <<n, theta, nu, tried, centres>>
    BY DEF reduce_end, IInv, TypeOK, NuBounded, LoopInv
  <1>2. k = n
    BY <1>1
  <1>3. centres = 0 .. n - 1 /\ tried \subseteq Trios(n)
    BY <1>1, <1>2 DEF IInv, TriedInv, TypeOK
  <1>4. QED BY <1>1, <1>3, FailKeeps DEF Errors

LEMMA ReduceThrowsStep ==
    ASSUME IInv, reduce_throws
    PROVE  IInv'
  <1>1. /\ nu \in Nat /\ nu <= NuMax + 1 /\ tried \subseteq Trios(n) /\ centres \subseteq 0 .. n - 1
        /\ Fail("out_of_range") /\ UNCHANGED <<n, theta, nu, tried, centres>>
    BY DEF reduce_throws, IInv, TypeOK, NuBounded
  <1>2. QED BY <1>1, FailKeeps DEF Errors

----------------------------------------------------------------------------

\* A turn of identify looks a new trio up.
LEMMA NewTrio ==
    ASSUME IInv, pc = "identify", HasTrio
    PROVE  /\ i \in 0 .. n - 3 /\ j \in 1 .. n - 2 /\ k \in 2 .. n - 1 /\ i < j /\ i + 2 <= k
           /\ <<i, j, k>> \in Trios(n)
  <1>1. n \in Nat /\ i \in Nat /\ j \in Nat /\ k \in Nat
    BY DEF IInv, TypeOK
  <1>2. i < j /\ j < n - 1 /\ i + 2 <= k /\ k < n
    BY DEF IInv, LoopInv
  <1>3. i \in 0 .. n - 3 /\ j \in 1 .. n - 2 /\ k \in 2 .. n - 1
    BY <1>1, <1>2
  <1>4. QED BY <1>2, <1>3 DEF Trios

\* The loops of identify after a turn without an answer.
LEMMA NextTrioKeeps ==
    ASSUME IInv, pc = "identify", HasTrio, NextTrio, UNCHANGED <<n, centres>>,
           tried' = tried \cup {<<i, j, k>>}
    PROVE  LoopInv' /\ TriedInv' /\ i' \in Nat /\ j' \in Nat /\ k' \in Nat
  <1>1. n \in Nat /\ i \in Nat /\ j \in Nat /\ k \in Nat
    BY DEF IInv, TypeOK
  <1>2. i < j /\ j < n - 1 /\ i + 2 <= k /\ k < n /\ pc' = "identify"
    BY DEF IInv, LoopInv, NextTrio
  <1>3. i' \in Nat /\ j' \in Nat /\ k' \in Nat
    BY <1>1 DEF NextTrio
  <1>4. LoopInv'
    BY <1>1, <1>2 DEF NextTrio, LoopInv, HasTrio
  <1>5. centres' = {}
    BY DEF IInv, TriedInv
  <1>6. ASSUME NEW x \in 0 .. n - 3, NEW y \in 1 .. n - 2, NEW z \in 2 .. n - 1, x < y, x + 2 <= z
        PROVE  <<x, y, z>> \in tried' <=>
                  \/ x < i'
                  \/ x = i' /\ y < j'
                  \/ x = i' /\ y = j' /\ z < k'
    <2>1. <<x, y, z>> \in tried <=>
             \/ x < i
             \/ x = i /\ y < j
             \/ x = i /\ y = j /\ z < k
      BY <1>6 DEF IInv, TriedInv
    <2>2. <<x, y, z>> \in tried' <=> <<x, y, z>> \in tried \/ (x = i /\ y = j /\ z = k)
      OBVIOUS
    <2>3. CASE k + 1 < n
      <3>1. k' = k + 1 /\ i' = i /\ j' = j
        BY <2>3 DEF NextTrio
      <3>2. QED BY <1>1, <2>1, <2>2, <3>1
    <2>4. CASE ~(k + 1 < n) /\ j + 1 < n - 1
      <3>1. j' = j + 1 /\ k' = i + 2 /\ i' = i
        BY <2>4 DEF NextTrio
      <3>2. QED BY <1>1, <1>2, <1>6, <2>1, <2>2, <2>4, <3>1
    <2>5. CASE ~(k + 1 < n) /\ ~(j + 1 < n - 1)
      <3>1. i' = i + 1 /\ j' = i + 2 /\ k' = i + 3
        BY <2>5 DEF NextTrio
      <3>2. QED BY <1>1, <1>2, <1>6, <2>1, <2>2, <2>5, <3>1
    <2>6. QED BY <2>3, <2>4, <2>5
  <1>7. TriedInv'
    BY <1>2, <1>5, <1>6 DEF TriedInv
  <1>8. QED BY <1>3, <1>4, <1>7

\* Condition 6d keeps the stars of a candidate apart, even where the loops
\* let two of them be the same.
LEMMA CandidateApart ==
    ASSUME IInv, NEW x \in Indices, NEW y \in Indices, NEW c \in Indices,
           x # c, x # y, Condition6d(<<x, y, c>>)
    PROVE  y # c
  <1>1. theta[c][x] <= theta[c][y]
    BY DEF Condition6d
  <1>2. theta[c][x] \in Nat /\ theta[c][x] # 0 /\ theta[c][c] = 0
    BY ThetasAssumption DEF IInv, TypeOK
  <1>3. QED BY <1>1, <1>2

LEMMA IdentifyStep ==
    ASSUME IInv, identify_trio
    PROVE  IInv'
  <1>1. /\ pc = "identify" /\ HasTrio /\ nu \in Nat /\ nu <= NuMax /\ UNCHANGED <<n, theta, centres>>
        /\ tried' = tried \cup {<<i, j, k>>} /\ error = "none" /\ answered = 0
    BY DEF identify_trio, IInv, TypeOK, OverLimit, SpentInv
  <1>2. PICK cost \in 0 .. 1, candidates \in 0 .. MaxAnswer :
          /\ find_candidate_trio(<<i, j, k>>, cost, candidates)
          /\ nu' = nu + cost
          /\ IF candidates = 0 THEN NextTrio ELSE Return("none", candidates, <<i, j, k>>)
    BY DEF identify_trio
  <1>3. nu' \in Nat /\ nu' <= NuMax + 1
    BY <1>1, <1>2
  <1>4. tried' \subseteq Trios(n') /\ centres' \subseteq 0 .. n' - 1
    BY <1>1, NewTrio DEF IInv, TypeOK
  <1>5. CASE candidates = 0
    <2>1. NextTrio /\ pc' = "identify" /\ UNCHANGED <<error, answered, b>>
      BY <1>1, <1>2, <1>5 DEF NextTrio, outcome
    <2>2. LoopInv' /\ TriedInv' /\ i' \in Nat /\ j' \in Nat /\ k' \in Nat
      BY <1>1, <2>1, NextTrioKeeps
    <2>3. TypeOK'
      BY <1>1, <1>3, <1>4, <2>1, <2>2 DEF IInv, TypeOK
    <2>4. NuBounded' /\ GivesUpExhausted' /\ SpentInv' /\ OrderedAnswer' /\ NearestReduced'
      BY <1>1, <1>3, <2>1 DEF NuBounded, GivesUpExhausted, SpentInv, OrderedAnswer, NearestReduced
    <2>5. QED BY <2>2, <2>3, <2>4 DEF IInv
  <1>6. CASE candidates # 0
    <2>1. /\ pc' = "idle" /\ error' = "none" /\ answered' = candidates /\ b' = <<i, j, k>>
          /\ UNCHANGED <<i, j, k>>
      BY <1>2, <1>6 DEF Return
    <2>2. Condition6d(<<i, j, k>>) /\ within_angle(<<i, j, k>>)
      BY <1>2, <1>6 DEF find_candidate_trio
    <2>3. n \in Nat /\ n <= MaxN /\ i \in 0 .. n - 3 /\ j \in 1 .. n - 2 /\ k \in 2 .. n - 1
          /\ i < j /\ i + 2 <= k
      BY <1>1, NewTrio DEF IInv, TypeOK
    <2>4. i # j /\ i # k /\ i \in Indices /\ j \in Indices /\ k \in Indices
      BY <2>3 DEF Indices
    <2>5. j # k
      BY <2>2, <2>4, CandidateApart
    <2>6. b'[1] = i /\ b'[2] = j /\ b'[3] = k
      BY <2>1
    <2>7. Condition6d(b)' /\ within_angle(b)'
      BY <1>1, <2>1, <2>2, <2>6 DEF Condition6d, within_angle
    <2>8. OrderedAnswer'
      BY <2>4, <2>5, <2>6, <2>7 DEF OrderedAnswer
    <2>9. TypeOK'
      BY <1>1, <1>3, <1>4, <2>1, <2>3 DEF IInv, TypeOK, Errors
    <2>10. centres' = {}
      BY <1>1 DEF IInv, TriedInv
    <2>11. NearestReduced'
      BY <2>10 DEF NearestReduced
    <2>12. NuBounded' /\ GivesUpExhausted' /\ SpentInv' /\ LoopInv' /\ TriedInv'
      BY <1>3, <2>1 DEF NuBounded, GivesUpExhausted, SpentInv, LoopInv, TriedInv
    <2>13. QED BY <2>8, <2>9, <2>11, <2>12 DEF IInv
  <1>7. QED BY <1>5, <1>6

\* The stars whose vector differs from the centre's: all but itself.
LEMMA OtherStars ==
    ASSUME IInv, NEW c \in 0 .. n - 1
    PROVE  /\ theta_big_i(c) = (0 .. n - 1) \ {c}
           /\ Cardinality(theta_big_i(c)) = n - 1
           /\ n \in Nat /\ n >= 1
  <1>1. n \in Nat /\ n >= 1 /\ n <= MaxN /\ theta \in Thetas
    BY DEF IInv, TypeOK
  <1>2. ASSUME NEW x \in 0 .. n - 1 PROVE theta[c][x] = 0 <=> x = c
    <2>1. x \in Indices /\ c \in Indices
      BY <1>1 DEF Indices
    <2>2. QED BY <1>1, <2>1, ThetasAssumption
  <1>3. theta_big_i(c) = (0 .. n - 1) \ {c}
    BY <1>2 DEF theta_big_i
  <1>4. IsFiniteSet(0 .. n - 1) /\ Cardinality(0 .. n - 1) = n
    <2>1. 0 \in Int /\ n - 1 \in Int /\ ~(0 > n - 1)
      BY <1>1
    <2>2. IsFiniteSet(0 .. n - 1) /\ Cardinality(0 .. n - 1) = n - 1 - 0 + 1
      BY <2>1, FS_Interval
    <2>3. QED BY <1>1, <2>2
  <1>5. Cardinality((0 .. n - 1) \ {c}) = n - 1
    BY <1>4, FS_RemoveElement
  <1>6. QED BY <1>1, <1>3, <1>5

\* What the sort leaves at the front: other stars, different ones when there
\* are two, and none that stays behind is nearer to the centre.
LEMMA ClosestFound ==
    ASSUME IInv, NEW c \in 0 .. n - 1, NEW p \in find_closest(c)
    PROVE  /\ p \in (0 .. n - 1) \X (0 .. n - 1)
           /\ n >= 3 => c # p[1] /\ c # p[2] /\ p[1] # p[2]
           /\ \A z \in (0 .. n - 1) \ {p[1], p[2], c} :
                 theta[c][p[1]] <= theta[c][z] /\ theta[c][p[2]] <= theta[c][z]
  <1> DEFINE others == (0 .. n - 1) \ {c}
  <1>1. theta_big_i(c) = others /\ Cardinality(theta_big_i(c)) = n - 1 /\ n \in Nat /\ n >= 1
    BY OtherStars
  <1>2. PICK s \in Sorted(c) : p \in ReadAt(s, 1) \X ReadAt(s, 2)
    BY DEF find_closest
  <1>3. /\ s \in [1 .. n - 1 -> others]
        /\ \A x, y \in 1 .. n - 1 : s[x] = s[y] => x = y
        /\ \A z \in others : \E m \in 1 .. n - 1 : s[m] = z
        /\ \A u, v \in 1 .. n - 1 : u < v => ~Before(c, s[v], s[u])
    <2>1. /\ s \in Bijection(1 .. n - 1, others)
          /\ \A u, v \in DOMAIN s : u < v => ~Before(c, s[v], s[u])
      BY <1>1, <1>2 DEF Sorted
    <2>2. /\ s \in [1 .. n - 1 -> others] /\ IsInjective(s)
          /\ \A z \in others : \E m \in 1 .. n - 1 : s[m] = z
      BY <2>1 DEF Bijection, Injection, Surjection
    <2>3. QED BY <2>1, <2>2 DEF IsInjective
  <1>4. ASSUME NEW m \in {1, 2}
        PROVE  /\ ReadAt(s, m) \subseteq 0 .. n - 1
               /\ m \in 1 .. n - 1 => ReadAt(s, m) = {s[m]}
    BY <1>3 DEF ReadAt
  <1>5. p \in (0 .. n - 1) \X (0 .. n - 1)
    BY <1>2, <1>4
  <1>6. /\ 1 \in 1 .. n - 1 => p[1] = s[1]
        /\ 2 \in 1 .. n - 1 => p[2] = s[2]
    BY <1>2, <1>4
  <1>7. ASSUME n >= 3 PROVE c # p[1] /\ c # p[2] /\ p[1] # p[2]
    <2>1. 1 \in 1 .. n - 1 /\ 2 \in 1 .. n - 1
      BY <1>1, <1>7
    <2>2. s[1] \in others /\ s[2] \in others
      BY <1>3, <2>1
    <2>3. s[1] # s[2]
      BY <1>3, <2>1
    <2>4. s[1] # c /\ s[2] # c
      BY <2>2
    <2>5. QED BY <1>6, <2>1, <2>3, <2>4
  <1>8. ASSUME NEW z \in (0 .. n - 1) \ {p[1], p[2], c}
        PROVE  theta[c][p[1]] <= theta[c][z] /\ theta[c][p[2]] <= theta[c][z]
    <2>1. PICK m \in 1 .. n - 1 : s[m] = z
      BY <1>3
    <2>2. 1 \in 1 .. n - 1 /\ p[1] = s[1] /\ m > 1
      BY <1>1, <1>6, <2>1
    <2>3. 2 \in 1 .. n - 1 /\ p[2] = s[2] /\ m > 2
      BY <1>1, <1>6, <2>1, <2>2
    <2>4. ~Before(c, z, p[1]) /\ ~Before(c, z, p[2])
      <3>1. ~Before(c, s[m], s[1]) /\ ~Before(c, s[m], s[2])
        BY <1>3, <2>2, <2>3
      <3>2. QED BY <2>1, <2>2, <2>3, <3>1
    <2>5. theta[c][z] \in Nat /\ theta[c][p[1]] \in Nat /\ theta[c][p[2]] \in Nat
      <3>1. theta \in [Indices -> [Indices -> Nat]] /\ n <= MaxN
        BY ThetasAssumption DEF IInv, TypeOK
      <3>2. c \in Indices /\ z \in Indices /\ p[1] \in Indices /\ p[2] \in Indices
        BY <1>1, <1>5, <3>1 DEF Indices
      <3>3. QED BY <3>1, <3>2
    <2>6. QED BY <2>4, <2>5 DEF Before
  <1>9. QED BY <1>5, <1>7, <1>8

LEMMA ReduceStep ==
    ASSUME IInv, reduce_star
    PROVE  IInv'
  <1>1. /\ pc = "reduce" /\ k < n /\ k \in Nat /\ n \in Nat /\ nu \in Nat /\ nu <= NuMax
        /\ UNCHANGED <<n, theta, tried>>
        /\ centres' = centres \cup {k} /\ error = "none" /\ answered = 0
    BY DEF reduce_star, IInv, TypeOK, SpentInv
  <1>2. PICK p \in find_closest(k), cost \in 0 .. 1, candidates \in 0 .. MaxAnswer :
          /\ find_candidate_trio(<<p[1], p[2], k>>, cost, candidates)
          /\ nu' = nu + cost
          /\ IF nu + cost > NuMax THEN Fail("no_confident_r")
             ELSE IF candidates = 0 THEN k' = k + 1 /\ UNCHANGED <<pc, i, j, outcome>>
             ELSE Return("none", candidates, <<p[1], p[2], k>>)
    BY DEF reduce_star
  <1>3. nu' \in Nat /\ nu' <= NuMax + 1
    BY <1>1, <1>2
  <1>4. tried' \subseteq Trios(n') /\ centres' \subseteq 0 .. n' - 1
    BY <1>1 DEF IInv, TypeOK
  <1>5. CASE nu + cost > NuMax
    BY <1>1, <1>2, <1>3, <1>4, <1>5, FailKeeps DEF Errors
  <1>6. CASE ~(nu + cost > NuMax) /\ candidates = 0
    <2>1. k' = k + 1 /\ pc' = "reduce" /\ UNCHANGED <<i, j, error, answered, b>>
      BY <1>1, <1>2, <1>6 DEF outcome
    <2>2. TypeOK'
      BY <1>1, <1>3, <1>4, <2>1 DEF IInv, TypeOK
    <2>3. LoopInv'
      BY <1>1, <2>1 DEF LoopInv
    <2>4. TriedInv'
      <3>1. centres = 0 .. k - 1 /\ tried' = {}
        BY <1>1 DEF IInv, TriedInv
      <3>2. centres' = 0 .. k' - 1
        BY <1>1, <2>1, <3>1
      <3>3. QED BY <2>1, <3>1, <3>2 DEF TriedInv
    <2>5. NuBounded' /\ GivesUpExhausted' /\ SpentInv' /\ OrderedAnswer' /\ NearestReduced'
      BY <1>1, <1>2, <1>3, <1>6, <2>1
         DEF NuBounded, GivesUpExhausted, SpentInv, OrderedAnswer, NearestReduced
    <2>6. QED BY <2>2, <2>3, <2>4, <2>5 DEF IInv
  <1>7. CASE ~(nu + cost > NuMax) /\ candidates # 0
    <2>1. /\ pc' = "idle" /\ error' = "none" /\ answered' = candidates
          /\ b' = <<p[1], p[2], k>> /\ UNCHANGED <<i, j, k>>
      BY <1>2, <1>7 DEF Return
    <2>2. PICK x \in 0 .. n - 1, y \in 0 .. n - 1 : p = <<x, y>>
      BY <1>1, ClosestFound
    <2>3. b' = <<x, y, k>> /\ b'[1] = x /\ b'[2] = y /\ b'[3] = k
      BY <2>1, <2>2
    <2>4. Condition6d(<<x, y, k>>) /\ within_angle(<<x, y, k>>)
      BY <1>2, <1>7, <2>2 DEF find_candidate_trio
    <2>5. /\ n >= 3 => k # x /\ k # y /\ x # y
          /\ \A z \in (0 .. n - 1) \ {x, y, k} : theta[k][x] <= theta[k][z] /\ theta[k][y] <= theta[k][z]
      BY <1>1, <2>2, ClosestFound
    <2>6. Condition6d(b)' /\ within_angle(b)'
      BY <1>1, <2>3, <2>4 DEF Condition6d, within_angle
    <2>7. OrderedAnswer'
      BY <1>1, <2>3, <2>5, <2>6 DEF OrderedAnswer
    <2>8. NearestReduced'
      BY <1>1, <2>3, <2>5 DEF NearestReduced
    <2>9. TypeOK'
      BY <1>1, <1>3, <1>4, <2>1, <2>3 DEF IInv, TypeOK, Errors
    <2>10. NuBounded' /\ GivesUpExhausted' /\ SpentInv' /\ LoopInv' /\ TriedInv'
      BY <1>3, <2>1 DEF NuBounded, GivesUpExhausted, SpentInv, LoopInv, TriedInv
    <2>11. QED BY <2>7, <2>8, <2>9, <2>10 DEF IInv
  <1>8. QED BY <1>5, <1>6, <1>7

LEMMA Steps == IInv /\ [Next]_vars => IInv'
  <1> SUFFICES ASSUME IInv, [Next]_vars PROVE IInv'
    OBVIOUS
  <1>1. ASSUME NEW size \in MinN .. MaxN, NEW t \in Thetas, identify(size, t) \/ reduce(size, t)
        PROVE  IInv'
    BY <1>1, CallStep DEF identify, reduce
  <1>2. CASE Step
    BY <1>2, IdentifyEndStep, IdentifyExceededStep, IdentifyStep, ReduceEndStep,
       ReduceThrowsStep, ReduceStep DEF Step
  <1>3. CASE UNCHANGED vars
    <2>1. TypeOK' /\ NuBounded' /\ GivesUpExhausted' /\ LoopInv' /\ TriedInv' /\ SpentInv'
      BY <1>3 DEF vars, IInv, TypeOK, NuBounded, GivesUpExhausted, LoopInv, HasTrio, TriedInv,
                  SpentInv
    <2>2. OrderedAnswer' /\ NearestReduced'
      BY <1>3 DEF vars, IInv, OrderedAnswer, NearestReduced, Condition6d, within_angle
    <2>3. QED BY <2>1, <2>2 DEF IInv
  <1>4. QED BY <1>1, <1>2, <1>3 DEF Next

----------------------------------------------------------------------------

\* The invariant that the theorems below follow from.
THEOREM Inductive == Spec => []IInv
  <1>1. QED BY Initially, Steps, PTL DEF Spec

\* The trios looked up are those the loops are written for.
THEOREM TypeCorrect == Spec => []TypeOK
  <1>1. IInv => TypeOK
    BY DEF IInv
  <1>2. QED BY <1>1, Inductive, PTL

\* nu never passes nu_max by more than one.
THEOREM NuCorrect == Spec => []NuBounded
  <1>1. IInv => NuBounded
    BY DEF IInv
  <1>2. QED BY <1>1, Inductive, PTL

\* "Not found" is said only after every trio, or every centre, was looked up.
THEOREM ExhaustionCorrect == Spec => []GivesUpExhausted
  <1>1. IInv => GivesUpExhausted
    BY DEF IInv
  <1>2. QED BY <1>1, Inductive, PTL

\* The stars of an answer are three different ones in the order of condition
\* 6d, although the loops let two of them be the same.
THEOREM OrderCorrect == Spec => []OrderedAnswer
  <1>1. IInv => OrderedAnswer
    BY DEF IInv
  <1>2. QED BY <1>1, Inductive, PTL

\* The stars of a reduction are the two nearest to their centre, in any order
\* that the sort may give to stars of the same separation.
THEOREM NearestCorrect == Spec => []NearestReduced
  <1>1. IInv => NearestReduced
    BY DEF IInv
  <1>2. QED BY <1>1, Inductive, PTL

----------------------------------------------------------------------------
(* The refinement. *)

\* A turn of identify is a step of Search that tries a trio, one of reduce a
\* step that tries a centre.
LEMMA TurnTries ==
    ASSUME IInv, pc \in {"identify", "reduce"}, UNCHANGED n,
           NEW x \in absUntried, nu <= NuMax, NEW c \in 0 .. 1, nu' = nu + c,
           \/ UNCHANGED pc /\ absSubsets' = absSubsets /\ absUntried' = absUntried \ {x}
           \/ pc' = "idle" /\ absOutcome' = "found"
           \/ pc' = "idle" /\ absOutcome' = "exceeded" /\ nu' > NuMax
    PROVE  S!Try
  <1>1. S!Compare
    BY DEF S!Compare
  <1>2. CASE UNCHANGED pc /\ absSubsets' = absSubsets /\ absUntried' = absUntried \ {x}
    <2>1. absOutcome' = absOutcome
      BY <1>2 DEF absOutcome
    <2>2. QED BY <1>1, <1>2, <2>1 DEF S!Try
  <1>3. CASE pc' = "idle"
    <2>1. absSubsets' = {} /\ absUntried' = {}
      BY <1>3 DEF absSubsets, absUntried
    <2>2. S!Decide
      BY <1>3, <2>1 DEF S!Decide, S!End
    <2>3. QED BY <1>1, <2>2 DEF S!Try
  <1>4. QED BY <1>2, <1>3

\* A call that ends without an answer has nothing left in Search.
LEMMA FailEnds ==
    ASSUME NEW e, Fail(e)
    PROVE  pc' = "idle" /\ absSubsets' = {} /\ absUntried' = {} /\ error' = e /\ answered' = 0
  BY DEF Fail, Return, absSubsets, absUntried

\* The trios of an image, and its centres, are some that an image may have.
LEMMA SubsetsOfImage ==
    ASSUME NEW size \in MinN .. MaxN
    PROVE  Trios(size) \subseteq Trios(MaxN) /\ Centres(0 .. size - 1) \subseteq Centres(Indices)
  <1>1. Trios(size) \subseteq Trios(MaxN)
    BY DEF Trios
  <1>2. Centres(0 .. size - 1) \subseteq Centres(Indices)
    BY DEF Centres, Indices
  <1>3. QED BY <1>1, <1>2

LEMMA CallStarts ==
    ASSUME NEW o \in {"identify", "reduce"}, NEW size \in MinN .. MaxN, NEW t \in Thetas,
           call(o, size, t)
    PROVE  S!Start
  <1>1. /\ pc = "idle" /\ pc' = o /\ n' = size /\ nu' = 0 /\ tried' = {} /\ centres' = {}
        /\ absOutcome' = "none"
    BY DEF call, absOutcome
  <1>2. CASE o = "identify"
    <2>1. absSubsets' = Trios(size) /\ absUntried' = Trios(size)
      BY <1>1, <1>2 DEF absSubsets, absUntried
    <2>2. QED BY <1>1, <1>2, <2>1, SubsetsOfImage DEF S!Start
  <1>3. CASE o = "reduce"
    <2>1. absSubsets' = Centres(0 .. size - 1)
      BY <1>1, <1>3 DEF absSubsets
    <2>2. absUntried' = Centres((0 .. size - 1) \ {})
      BY <1>1, <1>3 DEF absUntried
    <2>3. absUntried' = absSubsets'
      BY <2>1, <2>2
    <2>4. QED BY <1>1, <1>3, <2>1, <2>3, SubsetsOfImage DEF S!Start
  <1>4. QED BY <1>2, <1>3

LEMMA IdentifySearches ==
    ASSUME IInv, identify_trio
    PROVE  S!Try
  <1>1. /\ pc = "identify" /\ HasTrio /\ nu \in Nat /\ nu <= NuMax /\ UNCHANGED n
        /\ tried' = tried \cup {<<i, j, k>>}
    BY DEF identify_trio, IInv, TypeOK, OverLimit
  <1>2. PICK cost \in 0 .. 1, candidates \in 0 .. MaxAnswer :
          /\ nu' = nu + cost
          /\ IF candidates = 0 THEN NextTrio ELSE Return("none", candidates, <<i, j, k>>)
    BY DEF identify_trio
  <1>3. <<i, j, k>> \in Trios(n) \ tried
    BY <1>1, NewTrio DEF IInv, TriedInv
  <1>4. <<i, j, k>> \in absUntried
    BY <1>1, <1>3 DEF absUntried
  <1>5. CASE candidates = 0
    <2>1. UNCHANGED pc
      BY <1>2, <1>5 DEF NextTrio
    <2>2. absSubsets' = absSubsets /\ absUntried' = absUntried \ {<<i, j, k>>}
      BY <1>1, <2>1 DEF absSubsets, absUntried
    <2>3. QED BY <1>1, <1>2, <1>4, <2>1, <2>2, TurnTries
  <1>6. CASE candidates # 0
    <2>1. pc' = "idle" /\ absOutcome' = "found"
      BY <1>2, <1>6 DEF Return, absOutcome
    <2>2. QED BY <1>1, <1>2, <1>4, <2>1, TurnTries
  <1>7. QED BY <1>5, <1>6

LEMMA ReduceSearches ==
    ASSUME IInv, reduce_star
    PROVE  S!Try
  <1>1. /\ pc = "reduce" /\ k < n /\ k \in Nat /\ n \in Nat /\ nu \in Nat /\ nu <= NuMax
        /\ UNCHANGED n /\ centres' = centres \cup {k} /\ centres = 0 .. k - 1
    BY DEF reduce_star, IInv, TypeOK, SpentInv, TriedInv
  <1>2. PICK cost \in 0 .. 1, candidates \in 0 .. MaxAnswer : \E t :
          /\ nu' = nu + cost
          /\ IF nu + cost > NuMax THEN Fail("no_confident_r")
             ELSE IF candidates = 0 THEN k' = k + 1 /\ UNCHANGED <<pc, i, j, outcome>>
             ELSE Return("none", candidates, t)
    BY DEF reduce_star
  <1>3. k \in (0 .. n - 1) \ centres
    BY <1>1
  <1>4. <<k>> \in absUntried
    BY <1>1, <1>3 DEF absUntried, Centres
  <1>5. CASE nu + cost > NuMax
    <2>1. pc' = "idle" /\ error' = "no_confident_r" /\ nu' > NuMax
      BY <1>2, <1>5, FailEnds
    <2>2. absOutcome' = "exceeded"
      BY <2>1 DEF absOutcome
    <2>3. QED BY <1>1, <1>2, <1>4, <2>1, <2>2, TurnTries
  <1>6. CASE ~(nu + cost > NuMax) /\ candidates = 0
    <2>1. UNCHANGED pc
      BY <1>2, <1>6
    <2>2. Centres((0 .. n - 1) \ (centres \cup {k})) = Centres((0 .. n - 1) \ centres) \ {<<k>>}
      BY <1>3 DEF Centres
    <2>3. absSubsets' = absSubsets
      BY <1>1, <2>1 DEF absSubsets
    <2>4. absUntried' = absUntried \ {<<k>>}
      BY <1>1, <2>1, <2>2 DEF absUntried
    <2>5. QED BY <1>1, <1>2, <1>4, <2>1, <2>3, <2>4, TurnTries
  <1>7. CASE ~(nu + cost > NuMax) /\ candidates # 0
    <2>1. pc' = "idle" /\ absOutcome' = "found"
      BY <1>2, <1>7 DEF Return, absOutcome
    <2>2. QED BY <1>1, <1>2, <1>4, <2>1, TurnTries
  <1>8. QED BY <1>5, <1>6, <1>7

\* The ends without an answer.
LEMMA EndSearches ==
    ASSUME IInv, identify_end \/ identify_exceeded \/ reduce_end \/ reduce_throws
    PROVE  S!Exhaust \/ S!Exceed \/ S!Throw
  <1>1. CASE identify_end
    <2>1. pc = "identify" /\ ~HasTrio /\ Fail("no_confident_a") /\ UNCHANGED nu
      BY <1>1 DEF identify_end
    <2>2. absUntried = {}
      BY <2>1, LoopsOver DEF absUntried
    <2>3. absOutcome' = "exhausted"
      BY <2>1, FailEnds DEF absOutcome
    <2>4. QED BY <2>1, <2>2, <2>3, FailEnds DEF S!Exhaust, S!End
  <1>2. CASE identify_exceeded
    <2>1. pc = "identify" /\ nu > NuMax /\ Fail("exceeded") /\ UNCHANGED nu
      BY <1>2 DEF identify_exceeded, OverLimit
    <2>2. absOutcome' = "exceeded"
      BY <2>1, FailEnds DEF absOutcome
    <2>3. QED BY <2>1, <2>2, FailEnds DEF S!Exceed, S!End
  <1>3. CASE reduce_end
    <2>1. /\ pc = "reduce" /\ k >= n /\ Fail("no_confident_r") /\ UNCHANGED nu
          /\ k \in Nat /\ n \in Nat /\ nu \in Nat /\ nu <= NuMax /\ centres = 0 .. k - 1
      BY <1>3 DEF reduce_end, IInv, TypeOK, SpentInv, TriedInv
    <2>2. (0 .. n - 1) \ centres = {}
      BY <2>1
    <2>3. absUntried = {}
      BY <2>1, <2>2 DEF absUntried, Centres
    <2>4. absOutcome' = "exhausted"
      BY <2>1, FailEnds DEF absOutcome
    <2>5. QED BY <2>1, <2>3, <2>4, FailEnds DEF S!Exhaust, S!End
  <1>4. CASE reduce_throws
    <2>1. pc = "reduce" /\ n \in Nat /\ n < 3 /\ Fail("out_of_range") /\ UNCHANGED nu
      <3>1. /\ pc = "reduce" /\ k < n /\ Cardinality(theta_big_i(k)) < 2
            /\ Fail("out_of_range") /\ UNCHANGED nu /\ k \in Nat /\ n \in Nat
        BY <1>4 DEF reduce_throws, IInv, TypeOK
      <3>2. Cardinality(theta_big_i(k)) = n - 1
        BY <3>1, OtherStars
      <3>3. QED BY <3>1, <3>2
    <2>2. absSubsets = Centres(0 .. n - 1)
      BY <2>1 DEF absSubsets
    <2>3. ASSUME NEW x \in Centres(0 .. n - 1), NEW y \in Centres(0 .. n - 1),
                 NEW z \in Centres(0 .. n - 1)
          PROVE  x = y \/ x = z \/ y = z
      <3>1. PICK u \in 0 .. n - 1, v \in 0 .. n - 1, w \in 0 .. n - 1 :
              x = <<u>> /\ y = <<v>> /\ z = <<w>>
        BY DEF Centres
      <3>2. u = v \/ u = w \/ v = w
        BY <2>1
      <3>3. QED BY <3>1, <3>2
    <2>4. absOutcome' = "thrown"
      BY <2>1, FailEnds DEF absOutcome
    <2>5. QED BY <2>1, <2>2, <2>3, <2>4, FailEnds DEF S!Throw, S!Few, S!End
  <1>5. QED BY <1>1, <1>2, <1>3, <1>4

\* A step of the strategy is a step of Search or changes nothing it speaks of.
LEMMA SearchStep ==
    ASSUME IInv, [Next]_vars
    PROVE  S!Next \/ UNCHANGED S!vars
  <1>1. ASSUME NEW size \in MinN .. MaxN, NEW t \in Thetas, identify(size, t) \/ reduce(size, t)
        PROVE  S!Next
    BY <1>1, CallStarts DEF identify, reduce, S!Next
  <1>2. CASE Step
    BY <1>2, IdentifySearches, ReduceSearches, EndSearches DEF Step, S!Next
  <1>3. CASE UNCHANGED vars
    BY <1>3 DEF vars, S!vars, absSubsets, absUntried, absOutcome
  <1>4. QED BY <1>1, <1>2, <1>3 DEF Next

\* The strategy keeps the promise of Search, for every image and every answer:
\* identify over its trios, reduce over its centres.
THEOREM SearchCorrect == Spec => SearchSpec
  <1>1. Init => S!Init
    BY DEF Init, S!Init, absSubsets, absUntried, absOutcome
  <1>2. IInv /\ [Next]_vars => [S!Next]_S!vars
    BY SearchStep
  <1>3. QED BY <1>1, <1>2, Inductive, PTL DEF Spec, SearchSpec, S!Spec
----------------------------------------------------------------------------
(* Why a call ends: every turn comes nearer to the end of the loops.       *)

\* What each loop has left; reduce has one loop.
OuterLeft == IF pc = "reduce" THEN n - k ELSE IF HasTrio THEN n - i ELSE 0
MiddleLeft == IF pc = "identify" /\ HasTrio THEN n - j ELSE 0
InnerLeft == IF pc = "identify" /\ HasTrio THEN n - k ELSE 0

Measured == OuterLeft \in Nat /\ MiddleLeft \in Nat /\ InnerLeft \in Nat

Nearer ==
    \/ OuterLeft' < OuterLeft
    \/ OuterLeft' = OuterLeft /\ MiddleLeft' < MiddleLeft
    \/ OuterLeft' = OuterLeft /\ MiddleLeft' = MiddleLeft /\ InnerLeft' < InnerLeft

\* A turn of identify's loops that does not return.
LEMMA TrioNearer ==
    ASSUME IInv, pc = "identify", HasTrio, NextTrio, UNCHANGED n
    PROVE  Nearer
  <1>1. /\ n \in Nat /\ i \in Nat /\ j \in Nat /\ k \in Nat
        /\ i + 2 < n /\ i < j /\ j < n - 1 /\ k < n /\ pc' = "identify"
    BY DEF IInv, TypeOK, LoopInv, HasTrio, NextTrio
  <1>2. CASE k + 1 < n
    <2>1. k' = k + 1 /\ UNCHANGED <<i, j>>
      BY <1>2 DEF NextTrio
    <2>2. QED BY <1>1, <2>1 DEF Nearer, OuterLeft, MiddleLeft, InnerLeft, HasTrio
  <1>3. CASE ~(k + 1 < n) /\ j + 1 < n - 1
    <2>1. j' = j + 1 /\ UNCHANGED i
      BY <1>3 DEF NextTrio
    <2>2. QED BY <1>1, <2>1 DEF Nearer, OuterLeft, MiddleLeft, HasTrio
  <1>4. CASE ~(k + 1 < n) /\ ~(j + 1 < n - 1)
    <2>1. i' = i + 1
      BY <1>4 DEF NextTrio
    <2>2. QED BY <1>1, <2>1 DEF Nearer, OuterLeft, HasTrio
  <1>5. QED BY <1>2, <1>3, <1>4

\* A call returns or comes nearer to the end of its loops with every step, for
\* every image and every answer of the table: Returns, but for the fairness that
\* makes it take the steps.
THEOREM Progress ==
    Spec => /\ [](pc # "idle" => Measured)
            /\ [][pc # "idle" => pc' = "idle" \/ Nearer]_vars
  <1>1. IInv => (pc # "idle" => Measured)
    <2> SUFFICES ASSUME IInv, pc # "idle" PROVE Measured
      OBVIOUS
    <2>1. /\ n \in Nat /\ i \in Nat /\ j \in Nat /\ k \in Nat /\ pc \in {"identify", "reduce"}
      BY DEF IInv, TypeOK
    <2>2. CASE pc = "reduce"
      BY <2>1, <2>2 DEF IInv, LoopInv, Measured, OuterLeft, MiddleLeft, InnerLeft
    <2>3. CASE pc = "identify"
      BY <2>1, <2>3 DEF IInv, LoopInv, Measured, OuterLeft, MiddleLeft, InnerLeft, HasTrio
    <2>4. QED BY <2>1, <2>2, <2>3
  <1>2. ASSUME IInv, [Next]_vars, pc # "idle", pc' # "idle", vars' # vars
        PROVE  Nearer
    <2>1. CASE identify_trio
      <3>1. pc = "identify" /\ HasTrio /\ NextTrio /\ n' = n
        BY <1>2, <2>1 DEF identify_trio, Return
      <3>2. QED BY <1>2, <3>1, TrioNearer
    <2>2. CASE reduce_star
      <3>1. pc = "reduce" /\ pc' = "reduce" /\ k' = k + 1 /\ n' = n /\ k \in Nat /\ n \in Nat
        BY <1>2, <2>2 DEF reduce_star, Return, Fail, IInv, TypeOK
      <3>2. QED BY <3>1 DEF Nearer, OuterLeft
    <2>3. QED
      BY <1>2, <2>1, <2>2 DEF Next, Step, identify, reduce, call, identify_end,
         identify_exceeded, reduce_end, reduce_throws, Fail, Return
  <1>3. IInv /\ [Next]_vars => [pc # "idle" => pc' = "idle" \/ Nearer]_vars
    BY <1>2
  <1>4. QED BY <1>1, <1>3, Inductive, PTL DEF Spec
=============================================================================
