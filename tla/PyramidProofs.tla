--------------------------- MODULE PyramidProofs ---------------------------
(***************************************************************************)
(* What holds of the Pyramid and Composite Pyramid strategies for every    *)
(* image size, every nu_max and every reference table: the vote of the     *)
(* pairs is never wrong when no query misses the truth, no star is used    *)
(* twice, and the search keeps the promise of Search.                      *)
(***************************************************************************)
EXTENDS Pyramid, TLAPS

USE SizeAssumption

----------------------------------------------------------------------------
(* The vote. *)

\* A star that both queries answered with is in their common list, but for the
\* removed ones.
LEMMA CommonStar ==
    ASSUME NEW p, NEW q, NEW removed, NEW e \in p, NEW f \in q, NEW s, s \in e, s \in f,
           s \notin removed
    PROVE  s \in common(p, q, removed)
  <1>1. s \in UNION p
    OBVIOUS
  <1>2. s \in UNION q
    OBVIOUS
  <1>3. QED BY <1>1, <1>2 DEF common

\* The sole star of a common list is every star of it, and none removed.
LEMMA SoleStar ==
    ASSUME NEW p, NEW q, NEW removed, NEW s \in Sole(p, q, removed)
    PROVE  /\ s \notin removed
           /\ common(p, q, removed) = {s}
  BY DEF Sole, common

\* What an elected trio is made of.
LEMMA ElectedTrio ==
    ASSUME NEW ij, NEW ik, NEW jk, NEW r \in Elected(ij, ik, jk), r # NoStars
    PROVE  \E s_i, s_j, s_k :
             /\ r = <<s_i, s_j, s_k>>
             /\ s_i \in Sole(ij, ik, {})
             /\ s_j \in Sole(ij, jk, {s_i})
             /\ s_k \in Sole(ik, jk, {s_i, s_j})
  <1> DEFINE t_i == common(ij, ik, {})
             t_j == common(ij, jk, t_i)
  <1>1. r \in Sole(ij, ik, {}) \X Sole(ij, jk, t_i) \X Sole(ik, jk, t_i \cup t_j)
    BY DEF Elected
  <1>2. PICK s_i \in Sole(ij, ik, {}), s_j \in Sole(ij, jk, t_i), s_k \in Sole(ik, jk, t_i \cup t_j) :
          r = <<s_i, s_j, s_k>>
    BY <1>1
  <1>3. t_i = {s_i}
    BY SoleStar
  <1>4. t_j = {s_j}
    BY SoleStar
  <1>5. t_i \cup t_j = {s_i, s_j}
    BY <1>3, <1>4
  <1>6. QED BY <1>2, <1>3, <1>5

\* An elected trio has three different stars.
LEMMA ElectedDifferent ==
    ASSUME NEW ij, NEW ik, NEW jk, NEW r \in Elected(ij, ik, jk), r # NoStars
    PROVE  Different(r)
  <1>1. PICK s_i, s_j, s_k :
          /\ r = <<s_i, s_j, s_k>>
          /\ s_i \in Sole(ij, ik, {})
          /\ s_j \in Sole(ij, jk, {s_i})
          /\ s_k \in Sole(ik, jk, {s_i, s_j})
    BY ElectedTrio
  <1>2. s_j \notin {s_i}
    BY <1>1, SoleStar
  <1>3. s_k \notin {s_i, s_j}
    BY <1>1, SoleStar
  <1>4. s_j # s_i /\ s_k # s_i /\ s_k # s_j
    BY <1>2, <1>3
  <1>5. r[1] = s_i /\ r[2] = s_j /\ r[3] = s_k
    BY <1>1
  <1>6. QED BY <1>4, <1>5 DEF Different

\* When all three queries find the true pairs, only the true trio is elected.
LEMMA ElectedTrue ==
    ASSUME NEW ij, NEW ik, NEW jk, NEW r \in Elected(ij, ik, jk), r # NoStars,
           NEW t_i, NEW t_j, NEW t_k, t_i # t_j, t_i # t_k, t_j # t_k,
           NEW e_ij \in ij, NEW e_ik \in ik, NEW e_jk \in jk,
           t_i \in e_ij, t_j \in e_ij, t_i \in e_ik, t_k \in e_ik, t_j \in e_jk, t_k \in e_jk
    PROVE  r = <<t_i, t_j, t_k>>
  <1>1. PICK s_i, s_j, s_k :
          /\ r = <<s_i, s_j, s_k>>
          /\ s_i \in Sole(ij, ik, {})
          /\ s_j \in Sole(ij, jk, {s_i})
          /\ s_k \in Sole(ik, jk, {s_i, s_j})
    BY ElectedTrio
  <1>2. s_i = t_i
    <2>1. t_i \in common(ij, ik, {})
      BY CommonStar
    <2>2. QED BY <1>1, <2>1, SoleStar
  <1>3. s_j = t_j
    <2>1. t_j \in common(ij, jk, {s_i})
      BY <1>2, CommonStar
    <2>2. QED BY <1>1, <2>1, SoleStar
  <1>4. s_k = t_k
    <2>1. t_k \in common(ik, jk, {s_i, s_j})
      BY <1>2, <1>3, CommonStar
    <2>2. QED BY <1>1, <2>1, SoleStar
  <1>5. QED BY <1>1, <1>2, <1>3, <1>4

----------------------------------------------------------------------------
(* The loops. *)

\* The loop variables name a trio of the image, or the loops are over.
LoopInv ==
    pc = "loop" =>
        /\ HasTrio => dk < n - dj - 1 /\ di < n - dj - dk - 1
        /\ n < 4 => dj = 1 /\ nu = 0

\* What the loops have passed is what has been looked up.
TriedInv ==
    pc = "loop" =>
        \A x, y, z \in 0 .. n - 2 : x < y /\ y < z =>
            (<<x, y, z>> \in tried <=>
                \/ y - x < dj
                \/ y - x = dj /\ z - y < dk
                \/ y - x = dj /\ z - y = dk /\ x < di)

\* Between two turns of Pyramid's reduce there are comparisons left.
SpentInv ==
    /\ pc = "loop" /\ ~LimitFirst => nu <= NuMax
    /\ pc = "loop" => error = "none" /\ answer = NoStars
    /\ error # "none" => answer = NoStars
    /\ error \in {"no_confident_a", "exceeded"} => op = "identify"
    /\ error \in {"no_confident_r", "out_of_range"} => op = "reduce"

AnswerInv == DistinctAnswer /\ AnswerTrue

IInv ==
    /\ TypeOK /\ NuBounded /\ GivesUpExhausted
    /\ LoopInv /\ TriedInv /\ SpentInv /\ AnswerInv

\* The trios of Composite's table have three different stars.
LEMMA CatalogFact ==
    ASSUME IInv
    PROVE  Strategy \in {"pyramid", "composite"} /\ \A r \in CatalogTrios : Different(r)
  BY SkiesAssumption DEF IInv, TypeOK, Strategy, CatalogTrios

\* Strategy and Faithful are those of the call.
LEMMA SameSky ==
    ASSUME UNCHANGED sky
    PROVE  Strategy' = Strategy /\ (Faithful' <=> Faithful)
  BY DEF Strategy, Faithful

LEMMA CostFact == Cost \in 1 .. 3
  BY DEF Cost

LEMMA Initially == Init => IInv
  <1> SUFFICES ASSUME Init PROVE IInv
    OBVIOUS
  <1>1. TypeOK
    BY DEF Init, TypeOK, Errors
  <1>2. NuBounded
    BY CostFact DEF Init, NuBounded
  <1>3. GivesUpExhausted /\ LoopInv /\ TriedInv /\ SpentInv
    BY DEF Init, GivesUpExhausted, LoopInv, TriedInv, SpentInv
  <1>4. AnswerInv
    BY DEF Init, AnswerInv, DistinctAnswer, AnswerTrue
  <1>5. QED BY <1>1, <1>2, <1>3, <1>4 DEF IInv

LEMMA CallStep ==
    ASSUME IInv, NEW o \in {"identify", "reduce"}, NEW size \in MinN .. MaxN, call(o, size)
    PROVE  IInv'
  <1> USE DEF call
  <1>1. TypeOK'
    BY DEF TypeOK, Errors
  <1>2. NuBounded'
    BY DEF NuBounded, Cost
  <1>3. GivesUpExhausted' /\ SpentInv'
    BY DEF GivesUpExhausted, SpentInv
  <1>4. LoopInv'
    BY DEF LoopInv, HasTrio
  <1>5. TriedInv'
    BY DEF TriedInv
  <1>6. AnswerInv'
    BY DEF AnswerInv, DistinctAnswer, AnswerTrue
  <1>7. QED BY <1>1, <1>2, <1>3, <1>4, <1>5, <1>6 DEF IInv

\* A call that ends without an answer keeps all but the first three parts.
LEMMA ReturnNothing ==
    ASSUME IInv, pc = "loop", UNCHANGED <<sky, op, n>>,
           NEW e \in Errors \ {"none"}, Return(e, NoStars, NoStars),
           e \in {"no_confident_a", "exceeded"} => op = "identify",
           e \in {"no_confident_r", "out_of_range"} => op = "reduce"
    PROVE  LoopInv' /\ TriedInv' /\ SpentInv' /\ AnswerInv'
  <1>1. pc' = "idle" /\ error' = e /\ answer' = NoStars
    BY DEF Return
  <1>2. LoopInv' /\ TriedInv' /\ SpentInv'
    BY <1>1 DEF LoopInv, TriedInv, SpentInv
  <1>3. AnswerInv'
    BY <1>1 DEF AnswerInv, DistinctAnswer, AnswerTrue
  <1>4. QED BY <1>2, <1>3

\* At the end of the loops every trio has been passed.
LEMMA AllPassed ==
    ASSUME IInv, pc = "loop", ~HasTrio
    PROVE  Trios(n - 1) \subseteq tried
  <1>1. n \in Nat /\ dj \in Nat /\ dj >= n - 2
    BY DEF IInv, TypeOK, HasTrio
  <1>2. ASSUME NEW t \in Trios(n - 1) PROVE t \in tried
    <2>1. PICK x \in 0 .. n - 2, y \in 0 .. n - 2, z \in 0 .. n - 2 :
            t = <<x, y, z>> /\ x < y /\ y < z
      BY <1>1 DEF Trios
    <2>2. y - x < dj
      BY <1>1, <2>1
    <2>3. QED BY <2>1, <2>2 DEF IInv, TriedInv
  <1>3. QED BY <1>1, <1>2

LEMMA EndStep ==
    ASSUME IInv, end
    PROVE  IInv'
  <1>1. /\ pc = "loop" /\ ~HasTrio /\ UNCHANGED <<sky, op, n, nu, tried, dj, dk, di>>
        /\ pc' = "idle"
    BY DEF end, Return
  <1>2. PICK e \in {"out_of_range", "no_confident_a", "no_confident_r"} :
          /\ Return(e, NoStars, NoStars)
          /\ e = "no_confident_a" => op = "identify"
          /\ e \in {"no_confident_r", "out_of_range"} => op = "reduce"
    BY DEF end, NO_CONFIDENT, IInv, TypeOK
  <1>3. Trios(n - 1) \subseteq tried
    BY <1>1, AllPassed
  <1>4. TypeOK'
    BY <1>1, <1>2 DEF IInv, TypeOK, Errors, Return
  <1>5. NuBounded'
    BY <1>1, SameSky DEF IInv, NuBounded, Cost
  <1>6. GivesUpExhausted'
    BY <1>1, <1>3 DEF GivesUpExhausted
  <1>7. LoopInv' /\ TriedInv' /\ SpentInv' /\ AnswerInv'
    BY <1>1, <1>2, ReturnNothing DEF Errors
  <1>8. QED BY <1>4, <1>5, <1>6, <1>7 DEF IInv

LEMMA ExceededStep ==
    ASSUME IInv, exceeded
    PROVE  IInv'
  <1>1. /\ pc = "loop" /\ nu > NuMax /\ UNCHANGED <<sky, op, n, nu, tried, dj, dk, di>>
        /\ pc' = "idle"
    BY DEF exceeded, Return, OverLimit
  <1>2. PICK e \in {"exceeded", "no_confident_r"} :
          /\ Return(e, NoStars, NoStars)
          /\ e = "exceeded" => op = "identify"
          /\ e = "no_confident_r" => op = "reduce"
    BY DEF exceeded, IInv, TypeOK
  <1>3. TypeOK'
    BY <1>1, <1>2 DEF IInv, TypeOK, Errors, Return
  <1>4. NuBounded'
    BY <1>1, SameSky DEF IInv, NuBounded, Cost
  <1>5. GivesUpExhausted'
    BY <1>1, <1>2 DEF GivesUpExhausted, Return
  <1>6. LoopInv' /\ TriedInv' /\ SpentInv' /\ AnswerInv'
    BY <1>1, <1>2, ReturnNothing DEF Errors
  <1>7. QED BY <1>3, <1>4, <1>5, <1>6 DEF IInv

\* A smaller image has fewer trios.
LEMMA FewerTrios ==
    ASSUME NEW m \in Nat, NEW k \in Nat, k <= m
    PROVE  Trios(k) \subseteq Trios(m) /\ Trios(m - 1) \subseteq Trios(m)
  <1>1. 0 .. k - 1 \subseteq 0 .. m - 1 /\ 0 .. m - 1 - 1 \subseteq 0 .. m - 1
    OBVIOUS
  <1>2. QED BY <1>1 DEF Trios

\* A turn looks up a new trio, without the last star of the image.
LEMMA NewTrio ==
    ASSUME IInv, pc = "loop", HasTrio
    PROVE  Trio \in Trios(n - 1) \ tried /\ Trio \in Trios(n)
  <1> DEFINE x == di
             y == di + dj
             z == di + dj + dk
  <1>1. n \in Nat /\ dj \in Nat \ {0} /\ dk \in Nat \ {0} /\ di \in Nat
    BY DEF IInv, TypeOK
  <1>2. dk < n - dj - 1 /\ di < n - dj - dk - 1
    BY DEF IInv, LoopInv
  <1>3. x \in 0 .. n - 2 /\ y \in 0 .. n - 2 /\ z \in 0 .. n - 2 /\ x < y /\ y < z
    BY <1>1, <1>2
  <1>4. y - x = dj /\ z - y = dk
    BY <1>1
  <1>5. ~(y - x < dj \/ (y - x = dj /\ z - y < dk) \/ (y - x = dj /\ z - y = dk /\ x < di))
    BY <1>1
  <1>6. <<x, y, z>> \notin tried
    BY <1>3, <1>5 DEF IInv, TriedInv
  <1>7. <<x, y, z>> \in Trios(n - 1)
    BY <1>1, <1>3 DEF Trios
  <1>8. QED BY <1>1, <1>6, <1>7, FewerTrios DEF Trio

\* The loops after a turn without an answer.
LEMMA NextTrioKeeps ==
    ASSUME IInv, pc = "loop", HasTrio, NextTrio, UNCHANGED <<sky, op, n>>,
           tried' = tried \cup {Trio}
    PROVE  /\ LoopInv' /\ TriedInv'
           /\ dj' \in Nat \ {0} /\ dk' \in Nat \ {0} /\ di' \in Nat
  <1>1. n \in Nat /\ dj \in Nat \ {0} /\ dk \in Nat \ {0} /\ di \in Nat
    BY DEF IInv, TypeOK
  <1>2. dk < n - dj - 1 /\ di < n - dj - dk - 1 /\ n >= 4
    BY <1>1 DEF IInv, LoopInv, HasTrio
  <1>3. dj' \in Nat \ {0} /\ dk' \in Nat \ {0} /\ di' \in Nat
    BY <1>1 DEF NextTrio
  <1>4. LoopInv'
    BY <1>1, <1>2 DEF NextTrio, LoopInv, HasTrio
  <1>5. ASSUME NEW x \in 0 .. n - 2, NEW y \in 0 .. n - 2, NEW z \in 0 .. n - 2, x < y, y < z
        PROVE  <<x, y, z>> \in tried' <=>
                  \/ y - x < dj'
                  \/ y - x = dj' /\ z - y < dk'
                  \/ y - x = dj' /\ z - y = dk' /\ x < di'
    <2>1. <<x, y, z>> \in tried <=>
             \/ y - x < dj
             \/ y - x = dj /\ z - y < dk
             \/ y - x = dj /\ z - y = dk /\ x < di
      BY <1>5 DEF IInv, TriedInv
    <2>2. <<x, y, z>> = Trio <=> y - x = dj /\ z - y = dk /\ x = di
      BY <1>1 DEF Trio
    <2>3. <<x, y, z>> \in tried' <=> <<x, y, z>> \in tried \/ <<x, y, z>> = Trio
      OBVIOUS
    <2>4. CASE di + 1 < n - dj - dk - 1
      <3>1. di' = di + 1 /\ dj' = dj /\ dk' = dk
        BY <2>4 DEF NextTrio
      <3>2. QED BY <1>1, <2>1, <2>2, <2>3, <3>1
    <2>5. CASE ~(di + 1 < n - dj - dk - 1) /\ dk + 1 < n - dj - 1
      <3>1. di' = 0 /\ dj' = dj /\ dk' = dk + 1
        BY <2>5 DEF NextTrio
      <3>2. QED BY <1>1, <1>2, <2>1, <2>2, <2>3, <2>5, <3>1
    <2>6. CASE ~(di + 1 < n - dj - dk - 1) /\ ~(dk + 1 < n - dj - 1)
      <3>1. di' = 0 /\ dj' = dj + 1 /\ dk' = 1
        BY <2>6 DEF NextTrio
      <3>2. y - x = dj => z - y <= dk
        BY <1>1, <1>2, <1>5, <2>6
      <3>3. QED BY <1>1, <1>2, <1>5, <2>1, <2>2, <2>3, <2>6, <3>1, <3>2
    <2>7. QED BY <2>4, <2>5, <2>6
  <1>6. TriedInv'
    BY <1>5 DEF TriedInv
  <1>7. QED BY <1>3, <1>4, <1>6

\* A turn, whatever its queries found.
LEMMA TurnStep ==
    ASSUME IInv, turn, NEW c \in 1 .. Cost, nu' = nu + c,
           NEW r, decide(r),
           r # NoStars => Different(r),
           Faithful /\ r # NoStars /\ (op = "identify" \/ Strategy = "pyramid") =>
               r = <<Truth[Trio[1]], Truth[Trio[2]], Truth[Trio[3]]>>
    PROVE  IInv'
  <1>1. /\ pc = "loop" /\ HasTrio /\ tried' = tried \cup {Trio} /\ UNCHANGED <<sky, op, n>>
        /\ nu <= NuMax /\ nu \in Nat /\ c \in 1 .. 3
    BY CostFact DEF turn, IInv, SpentInv, TypeOK, OverLimit
  <1>2. nu' \in Nat /\ NuBounded'
    BY <1>1, CostFact, SameSky DEF NuBounded, Cost
  <1>3. tried' \subseteq Trios(n')
    BY <1>1, NewTrio DEF IInv, TypeOK
  <1>4. sky' \in Skies /\ n' \in MinN .. MaxN /\ op' \in {"identify", "reduce"} /\ dj \in Nat \ {0}
        /\ dk \in Nat \ {0} /\ di \in Nat /\ error = "none" /\ answer = NoStars
    BY <1>1 DEF IInv, TypeOK, SpentInv
  <1>5. CASE Return("no_confident_r", NoStars, NoStars) /\ ~LimitFirst /\ nu' > NuMax
    <2>1. op = "reduce"
      BY <1>1, <1>4, <1>5 DEF LimitFirst
    <2>2. TypeOK'
      BY <1>2, <1>3, <1>4, <1>5 DEF TypeOK, Return, Errors
    <2>3. GivesUpExhausted'
      BY <1>1, <1>5, <2>1 DEF GivesUpExhausted, Return
    <2>4. LoopInv' /\ TriedInv' /\ SpentInv' /\ AnswerInv'
      BY <1>1, <1>5, <2>1, ReturnNothing DEF Errors
    <2>5. QED BY <1>2, <2>2, <2>3, <2>4 DEF IInv
  <1>6. CASE NextTrio /\ (LimitFirst \/ ~(nu' > NuMax))
    <2>1. LoopInv' /\ TriedInv' /\ dj' \in Nat \ {0} /\ dk' \in Nat \ {0} /\ di' \in Nat
      BY <1>1, <1>6, NextTrioKeeps
    <2>2. pc' = "loop" /\ UNCHANGED <<error, answer, b>>
      BY <1>1, <1>6 DEF NextTrio, outcome
    <2>3. TypeOK'
      BY <1>2, <1>3, <1>4, <2>1, <2>2 DEF TypeOK, Errors
    <2>4. GivesUpExhausted'
      BY <2>2 DEF GivesUpExhausted
    <2>5. SpentInv'
      BY <1>1, <1>2, <1>4, <1>6, <2>2, SameSky DEF SpentInv, LimitFirst
    <2>6. AnswerInv'
      BY <1>4, <2>2 DEF AnswerInv, DistinctAnswer, AnswerTrue
    <2>7. QED BY <1>2, <2>1, <2>3, <2>4, <2>5, <2>6 DEF IInv
  <1>7. CASE Return("none", r, Trio) /\ r # NoStars
    <2>1. pc' = "idle" /\ error' = "none" /\ answer' = r /\ b' = Trio
          /\ UNCHANGED <<dj, dk, di>>
      BY <1>7 DEF Return
    <2>2. TypeOK'
      BY <1>2, <1>3, <1>4, <2>1 DEF TypeOK, Errors
    <2>3. GivesUpExhausted' /\ LoopInv' /\ TriedInv' /\ SpentInv'
      BY <2>1 DEF GivesUpExhausted, LoopInv, TriedInv, SpentInv
    <2>4. AnswerInv'
      BY <1>1, <1>7, <2>1, SameSky DEF AnswerInv, DistinctAnswer, AnswerTrue
    <2>5. QED BY <1>2, <2>2, <2>3, <2>4 DEF IInv
  <1>8. QED BY <1>5, <1>6, <1>7 DEF decide

\* The three stars of a turn are three different stars of the image.
LEMMA TrioTruth ==
    ASSUME IInv, pc = "loop", HasTrio
    PROVE  /\ Truth[Trio[1]] # Truth[Trio[2]]
           /\ Truth[Trio[1]] # Truth[Trio[3]]
           /\ Truth[Trio[2]] # Truth[Trio[3]]
  <1>1. PICK x \in 0 .. n - 2, y \in 0 .. n - 2, z \in 0 .. n - 2 :
          Trio = <<x, y, z>> /\ x < y /\ y < z
    <2>1. n \in Nat /\ Trio \in Trios(n - 1)
      BY NewTrio DEF IInv, TypeOK
    <2>2. QED BY <2>1 DEF Trios
  <1>2. n \in Nat /\ n <= MaxN
    BY DEF IInv, TypeOK
  <1>3. x \in Indices /\ y \in Indices /\ z \in Indices /\ x # y /\ x # z /\ y # z
    BY <1>1, <1>2 DEF Indices
  <1>4. Truth[x] # Truth[y] /\ Truth[x] # Truth[z] /\ Truth[y] # Truth[z]
    BY <1>3, TruthAssumption
  <1>5. Trio[1] = x /\ Trio[2] = y /\ Trio[3] = z
    BY <1>1
  <1>6. QED BY <1>4, <1>5

LEMMA PyramidStep ==
    ASSUME IInv, pyramid_trio
    PROVE  IInv'
  <1> DEFINE t_i == Truth[Trio[1]]
             t_j == Truth[Trio[2]]
             t_k == Truth[Trio[3]]
  <1>1. Strategy = "pyramid" /\ turn /\ nu' = nu + 3 /\ pc = "loop" /\ HasTrio
    BY DEF pyramid_trio, turn
  <1>2. PICK ij \in query_for_pairs(Trio[1], Trio[2]),
             ik \in query_for_pairs(Trio[1], Trio[3]),
             jk \in query_for_pairs(Trio[2], Trio[3]) :
          \E r \in Elected(ij, ik, jk) : decide(r)
    BY DEF pyramid_trio
  <1>3. PICK r \in Elected(ij, ik, jk) : decide(r)
    BY <1>2
  <1>5. 3 \in 1 .. Cost
    <2>1. Cost = 3
      BY <1>1 DEF Cost
    <2>2. QED BY <2>1
  <1>6. r # NoStars => Different(r)
    BY ElectedDifferent
  <1>7. t_i # t_j /\ t_i # t_k /\ t_j # t_k
    BY <1>1, TrioTruth
  <1>8. ASSUME Faithful, r # NoStars PROVE r = <<t_i, t_j, t_k>>
    <2>1. {t_i, t_j} \in ij /\ {t_i, t_k} \in ik /\ {t_j, t_k} \in jk
      BY <1>8 DEF query_for_pairs
    <2>2. r # NoStars
      BY <1>8
    <2> HIDE DEF t_i, t_j, t_k
    <2>3. PICK e_ij \in ij, e_ik \in ik, e_jk \in jk :
            /\ t_i \in e_ij /\ t_j \in e_ij /\ t_i \in e_ik
            /\ t_k \in e_ik /\ t_j \in e_jk /\ t_k \in e_jk
      BY <2>1
    <2>4. QED BY <1>7, <2>2, <2>3, ElectedTrue
  <1>9. Faithful /\ r # NoStars => r = <<Truth[Trio[1]], Truth[Trio[2]], Truth[Trio[3]]>>
    BY <1>8
  <1>10. QED BY <1>1, <1>3, <1>5, <1>6, <1>9, TurnStep

LEMMA CompositeStep ==
    ASSUME IInv, composite_trio
    PROVE  IInv'
  <1>1. Strategy = "composite" /\ op = "identify" /\ turn
    BY DEF composite_trio
  <1>2. PICK a \in query_for_trios(Trio, TRUE) :
          \/ nu' = nu + 1 /\ decide(NoStars)
          \/ \E r \in a, x, y, z \in 1 .. 3 :
               /\ nu' = nu + 2
               /\ x # y /\ y # z /\ x # z
               /\ Faithful => <<r[x], r[y], r[z]>>
                                = <<Truth[Trio[1]], Truth[Trio[2]], Truth[Trio[3]]>>
               /\ decide(<<r[x], r[y], r[z]>>)
    BY DEF composite_trio
  <1>3. 1 \in 1 .. Cost /\ 2 \in 1 .. Cost
    BY <1>1 DEF Cost
  <1>4. CASE nu' = nu + 1 /\ decide(NoStars)
    BY <1>1, <1>3, <1>4, TurnStep
  <1>5. CASE ~(nu' = nu + 1 /\ decide(NoStars))
    <2>1. PICK r \in a, x \in 1 .. 3, y \in 1 .. 3, z \in 1 .. 3 :
            /\ nu' = nu + 2
            /\ x # y /\ y # z /\ x # z
            /\ Faithful => <<r[x], r[y], r[z]>>
                             = <<Truth[Trio[1]], Truth[Trio[2]], Truth[Trio[3]]>>
            /\ decide(<<r[x], r[y], r[z]>>)
      BY <1>2, <1>5
    <2>2. Different(r)
      BY CatalogFact DEF query_for_trios
    <2>3. r[x] # r[y] /\ r[y] # r[z] /\ r[x] # r[z]
      BY <2>1, <2>2 DEF Different
    <2>4. Different(<<r[x], r[y], r[z]>>)
      BY <2>3 DEF Different
    <2>5. QED BY <1>1, <1>3, <2>1, <2>4, TurnStep
  <1>6. QED BY <1>4, <1>5

LEMMA CompositeReduceStep ==
    ASSUME IInv, composite_reduce_trio
    PROVE  IInv'
  <1>1. Strategy = "composite" /\ op = "reduce" /\ turn /\ nu' = nu + 1
    BY DEF composite_reduce_trio
  <1>2. PICK a \in query_for_trios(Trio, FALSE) :
          decide(NoStars) \/ \E r \in a : decide(r)
    BY DEF composite_reduce_trio
  <1>3. 1 \in 1 .. Cost
    BY <1>1 DEF Cost
  <1>4. CASE decide(NoStars)
    BY <1>1, <1>3, <1>4, TurnStep
  <1>5. ASSUME NEW r \in a, decide(r) PROVE IInv'
    <2>1. Different(r)
      BY CatalogFact DEF query_for_trios
    <2>2. QED BY <1>1, <1>3, <1>5, <2>1, TurnStep
  <1>6. QED BY <1>2, <1>4, <1>5

LEMMA Steps == IInv /\ [Next]_vars => IInv'
  <1> SUFFICES ASSUME IInv, [Next]_vars PROVE IInv'
    OBVIOUS
  <1>1. ASSUME NEW size \in MinN .. MaxN, identify(size) \/ reduce(size) PROVE IInv'
    BY <1>1, CallStep DEF identify, reduce
  <1>2. CASE Step
    BY <1>2, EndStep, ExceededStep, PyramidStep, CompositeStep, CompositeReduceStep DEF Step
  <1>3. CASE UNCHANGED vars
    <2>1. TypeOK' /\ NuBounded' /\ GivesUpExhausted'
      BY <1>3, SameSky DEF vars, IInv, TypeOK, NuBounded, Cost, GivesUpExhausted
    <2>2. LoopInv' /\ TriedInv' /\ SpentInv'
      BY <1>3, SameSky DEF vars, IInv, LoopInv, HasTrio, TriedInv, SpentInv, LimitFirst
    <2>3. AnswerInv'
      BY <1>3, SameSky DEF vars, IInv, AnswerInv, DistinctAnswer, AnswerTrue
    <2>4. QED BY <2>1, <2>2, <2>3 DEF IInv
  <1>4. QED BY <1>1, <1>2, <1>3 DEF Next

----------------------------------------------------------------------------

\* The invariant that the theorems below follow from.
THEOREM Inductive == Spec => []IInv
  <1>1. QED BY Initially, Steps, PTL DEF Spec

\* The trios looked up are trios of different stars of the image.
THEOREM TypeCorrect == Spec => []TypeOK
  <1>1. IInv => TypeOK
    BY DEF IInv
  <1>2. QED BY <1>1, Inductive, PTL

\* nu never passes nu_max by more than a trio costs.
THEOREM NuCorrect == Spec => []NuBounded
  <1>1. IInv => NuBounded
    BY DEF IInv
  <1>2. QED BY <1>1, Inductive, PTL

\* "Not found" is said only after every trio without the last star of the image
\* was looked up.
THEOREM ExhaustionCorrect == Spec => []GivesUpExhausted
  <1>1. IInv => GivesUpExhausted
    BY DEF IInv
  <1>2. QED BY <1>1, Inductive, PTL

\* No answer has a star twice, whatever the table holds.
THEOREM DistinctCorrect == Spec => []DistinctAnswer
  <1>1. IInv => DistinctAnswer
    BY DEF IInv, AnswerInv
  <1>2. QED BY <1>1, Inductive, PTL

\* With queries that do not miss the true rows, every identification is true,
\* and every reduction of Pyramid.
THEOREM AnswerCorrect == Spec => []AnswerTrue
  <1>1. IInv => AnswerTrue
    BY DEF IInv, AnswerInv
  <1>2. QED BY <1>1, Inductive, PTL

----------------------------------------------------------------------------
(* The refinement. *)

\* A turn is a step of Search that tries a trio.
LEMMA TurnTries ==
    ASSUME IInv, turn, NEW c \in 0 .. 3, nu' = nu + c, NEW r, decide(r)
    PROVE  S!Try
  <1>1. /\ pc = "loop" /\ HasTrio /\ tried' = tried \cup {Trio} /\ UNCHANGED <<sky, op, n>>
        /\ nu \in Nat /\ nu <= NuMax /\ error = "none"
        /\ (~LimitFirst => op = "reduce")
    BY DEF turn, IInv, TypeOK, SpentInv, OverLimit, LimitFirst
  <1>2. \/ UNCHANGED <<pc, error, answer>>
        \/ pc' = "idle" /\ error' = "none" /\ answer' # NoStars
        \/ pc' = "idle" /\ error' = "no_confident_r" /\ nu' > NuMax /\ op' = "reduce"
    BY <1>1 DEF decide, Return, NextTrio, outcome
  <1>3. Trio \in Trios(n) \ tried
    BY <1>1, NewTrio
  <1>4. S!Compare
    BY <1>1 DEF S!Compare
  <1>5. CASE UNCHANGED pc
    <2>1. absSubsets' = absSubsets /\ absDue' = absDue /\ absOutcome' = absOutcome
      <3>1. pc # "idle" /\ pc' # "idle" /\ n' = n
        BY <1>1, <1>5
      <3>2. absOutcome = "none" /\ absOutcome' = "none"
        BY <3>1 DEF absOutcome
      <3>3. absSubsets' = absSubsets /\ absDue' = absDue
        BY <3>1 DEF absSubsets, absDue
      <3>4. QED BY <3>2, <3>3
    <2>2. (absSubsets \ tried)' = (absSubsets \ tried) \ {Trio} /\ Trio \in absSubsets \ tried
      BY <1>1, <1>3, <2>1 DEF absSubsets
    <2>3. QED BY <1>1, <1>4, <1>5, <2>1, <2>2 DEF S!Try
  <1>6. CASE pc' = "idle"
    <2>1. absSubsets' = {} /\ absDue' = {} /\ absSubsets \ tried # {}
      BY <1>1, <1>3, <1>6 DEF absSubsets, absDue
    <2>2. absOutcome' = "found" \/ (absOutcome' = "exceeded" /\ nu' > NuMax)
      BY <1>1, <1>2, <1>6 DEF absOutcome
    <2>3. S!Decide
      BY <1>6, <2>1, <2>2 DEF S!Decide, S!End
    <2>4. QED BY <1>1, <1>4, <2>1, <2>3 DEF S!Try
  <1>7. QED BY <1>2, <1>5, <1>6

\* A step of a strategy is a step of Search or changes nothing it speaks of.
LEMMA SearchStep ==
    ASSUME IInv, IInv', [Next]_vars
    PROVE  S!Next \/ UNCHANGED S!vars
  <1> USE DEF S!vars
  <1>1. ASSUME NEW o \in {"identify", "reduce"}, NEW size \in MinN .. MaxN, call(o, size)
        PROVE  S!Start
    <2>1. Trios(size) \subseteq Trios(MaxN) /\ Trios(size - 1) \subseteq Trios(size)
      BY FewerTrios
    <2>2. /\ absSubsets' = Trios(size) /\ (absSubsets \ tried)' = Trios(size)
          /\ absDue' = Trios(size - 1) /\ absOutcome' = "none"
      BY <1>1 DEF call, absSubsets, absDue, absOutcome
    <2>3. QED BY <1>1, <2>1, <2>2 DEF S!Start, call
  <1>2. CASE end
    <2>1. /\ pc = "loop" /\ ~HasTrio /\ UNCHANGED <<sky, op, n, nu, tried>> /\ pc' = "idle"
          /\ nu \in Nat /\ n \in Nat
          /\ error' = IF op = "reduce" /\ n = 0 THEN "out_of_range" ELSE NO_CONFIDENT
      BY <1>2 DEF end, Return, IInv, TypeOK
    <2>2. (absSubsets \ tried) \cap absDue = {} /\ absSubsets' = {} /\ absDue' = {}
      BY <2>1, AllPassed DEF absSubsets, absDue
    <2>3. CASE op = "reduce" /\ n = 0
      <3>1. absOutcome' = "thrown" /\ absSubsets = {}
        BY <2>1, <2>3 DEF absOutcome, absSubsets, Trios
      <3>2. QED BY <2>1, <2>2, <3>1 DEF S!Next, S!Throw, S!Few, S!End
    <2>4. CASE ~(op = "reduce" /\ n = 0)
      <3>1. absOutcome' = IF op = "reduce" /\ nu > NuMax THEN "exceeded" ELSE "exhausted"
        BY <2>1, <2>4 DEF absOutcome, NO_CONFIDENT
      <3>2. CASE op = "reduce" /\ nu > NuMax
        BY <2>1, <2>2, <3>1, <3>2 DEF S!Next, S!Exceed, S!End
      <3>3. CASE ~(op = "reduce" /\ nu > NuMax)
        BY <2>1, <2>2, <3>1, <3>3 DEF S!Next, S!Exhaust, S!End
      <3>4. QED BY <3>2, <3>3
    <2>5. QED BY <2>3, <2>4
  <1>3. CASE exceeded
    <2>1. /\ pc = "loop" /\ nu > NuMax /\ UNCHANGED <<sky, op, n, nu, tried>> /\ pc' = "idle"
          /\ op \in {"identify", "reduce"}
          /\ error' = IF op = "identify" THEN "exceeded" ELSE "no_confident_r"
      BY <1>3 DEF exceeded, Return, OverLimit, IInv, TypeOK
    <2>2. absSubsets' = {} /\ absDue' = {} /\ absOutcome' = "exceeded"
      BY <2>1 DEF absSubsets, absDue, absOutcome
    <2>3. QED BY <2>1, <2>2 DEF S!Next, S!Exceed, S!End
  <1>4. CASE pyramid_trio
    <2>1. turn /\ nu' = nu + 3 /\ \E r : decide(r)
      BY <1>4 DEF pyramid_trio
    <2>2. QED BY <2>1, TurnTries DEF S!Next
  <1>5. CASE composite_trio
    <2>1. turn
      BY <1>5 DEF composite_trio
    <2>2. PICK a \in query_for_trios(Trio, TRUE) :
            \/ nu' = nu + 1 /\ decide(NoStars)
            \/ \E r \in a, x, y, z \in 1 .. 3 : nu' = nu + 2 /\ decide(<<r[x], r[y], r[z]>>)
      BY <1>5 DEF composite_trio
    <2>3. CASE nu' = nu + 1 /\ decide(NoStars)
      <3>1. nu' = nu + 1 /\ \E r : decide(r)
        BY <2>3
      <3>2. QED BY <2>1, <3>1, TurnTries DEF S!Next
    <2>4. CASE \E r \in a, x, y, z \in 1 .. 3 : nu' = nu + 2 /\ decide(<<r[x], r[y], r[z]>>)
      <3>1. PICK r \in a, x \in 1 .. 3, y \in 1 .. 3, z \in 1 .. 3 :
              nu' = nu + 2 /\ decide(<<r[x], r[y], r[z]>>)
        BY <2>4
      <3>2. nu' = nu + 2 /\ \E q : decide(q)
        BY <3>1
      <3>3. QED BY <2>1, <3>2, TurnTries DEF S!Next
    <2>5. QED BY <2>2, <2>3, <2>4
  <1>6. CASE composite_reduce_trio
    <2>1. turn /\ nu' = nu + 1 /\ \E r : decide(r)
      BY <1>6 DEF composite_reduce_trio
    <2>2. QED BY <2>1, TurnTries DEF S!Next
  <1>7. CASE UNCHANGED vars
    BY <1>7 DEF vars, absSubsets, absDue, absOutcome
  <1>8. QED BY <1>1, <1>2, <1>3, <1>4, <1>5, <1>6, <1>7 DEF Next, Step, identify, reduce, S!Next

\* Both strategies keep the promise of Search, but for the last star of an image.
THEOREM SearchCorrect == Spec => SearchSpec
  <1>1. Init => S!Init
    BY DEF Init, S!Init, absSubsets, absDue, absOutcome
  <1>2. IInv /\ IInv' /\ [Next]_vars => [S!Next]_S!vars
    BY SearchStep
  <1>3. QED BY <1>1, <1>2, Inductive, PTL DEF Spec, SearchSpec, S!Spec
----------------------------------------------------------------------------
(* Why a call ends: every turn comes nearer to the end of the loops.       *)

\* What the loops over dj, dk and i have left.
OuterLeft == IF HasTrio THEN n - dj ELSE 0
MiddleLeft == IF HasTrio THEN n - dk ELSE 0
InnerLeft == IF HasTrio THEN n - di ELSE 0

Measured == OuterLeft \in Nat /\ MiddleLeft \in Nat /\ InnerLeft \in Nat

Nearer ==
    \/ OuterLeft' < OuterLeft
    \/ OuterLeft' = OuterLeft /\ MiddleLeft' < MiddleLeft
    \/ OuterLeft' = OuterLeft /\ MiddleLeft' = MiddleLeft /\ InnerLeft' < InnerLeft

\* A turn that does not return.
LEMMA TurnNearer ==
    ASSUME IInv, pc = "loop", HasTrio, NextTrio, UNCHANGED n
    PROVE  Nearer
  <1>1. /\ n \in Nat /\ dj \in Nat /\ dk \in Nat /\ di \in Nat
        /\ dj < n - 2
    BY DEF IInv, TypeOK, HasTrio
  <1>2. CASE di + 1 < n - dj - dk - 1
    <2>1. di' = di + 1 /\ UNCHANGED <<dj, dk>>
      BY <1>2 DEF NextTrio
    <2>2. QED BY <1>1, <2>1 DEF Nearer, OuterLeft, MiddleLeft, InnerLeft, HasTrio
  <1>3. CASE ~(di + 1 < n - dj - dk - 1) /\ dk + 1 < n - dj - 1
    <2>1. dk' = dk + 1 /\ UNCHANGED dj
      BY <1>3 DEF NextTrio
    <2>2. QED BY <1>1, <2>1 DEF Nearer, OuterLeft, MiddleLeft, HasTrio
  <1>4. CASE ~(di + 1 < n - dj - dk - 1) /\ ~(dk + 1 < n - dj - 1)
    <2>1. dj' = dj + 1
      BY <1>4 DEF NextTrio
    <2>2. QED BY <1>1, <2>1 DEF Nearer, OuterLeft, HasTrio
  <1>5. QED BY <1>2, <1>3, <1>4

\* A call of either strategy returns or comes nearer to the end of its loops
\* with every step, for every image size and every answer of the table: as long
\* as the program runs, the call ends.
THEOREM Progress ==
    Spec => /\ [](pc # "idle" => Measured)
            /\ [][pc # "idle" => pc' = "idle" \/ Nearer]_vars
  <1>1. IInv => (pc # "idle" => Measured)
    <2> SUFFICES ASSUME IInv, pc # "idle" PROVE Measured
      OBVIOUS
    <2>1. /\ n \in Nat /\ dj \in Nat /\ dk \in Nat /\ di \in Nat /\ pc = "loop"
      BY DEF IInv, TypeOK
    <2>2. HasTrio => dj < n - 2 /\ dk < n - dj - 1 /\ di < n - dj - dk - 1
      BY <2>1 DEF IInv, LoopInv, HasTrio
    <2>3. QED BY <2>1, <2>2 DEF Measured, OuterLeft, MiddleLeft, InnerLeft
  <1>2. ASSUME IInv, [Next]_vars, pc # "idle", pc' # "idle", vars' # vars
        PROVE  Nearer
    <2>1. CASE pyramid_trio \/ composite_trio \/ composite_reduce_trio
      <3>1. turn /\ \E r : decide(r)
        <4>1. CASE pyramid_trio
          BY <4>1 DEF pyramid_trio
        <4>2. CASE composite_trio
          BY <4>2 DEF composite_trio
        <4>3. CASE composite_reduce_trio
          BY <4>3 DEF composite_reduce_trio
        <4>4. QED BY <2>1, <4>1, <4>2, <4>3
      <3>2. pc = "loop" /\ HasTrio /\ NextTrio /\ n' = n
        BY <1>2, <3>1 DEF turn, decide, Return
      <3>3. QED BY <1>2, <3>2, TurnNearer
    <2>2. QED
      BY <1>2, <2>1 DEF Next, Step, identify, reduce, call, end, exceeded, Return
  <1>3. IInv /\ [Next]_vars => [pc # "idle" => pc' = "idle" \/ Nearer]_vars
    BY <1>2
  <1>4. QED BY <1>1, <1>3, Inductive, PTL DEF Spec
=============================================================================
