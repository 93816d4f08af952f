---------------------------- MODULE AngleProofs ----------------------------
(***************************************************************************)
(* What holds of the Angle strategy for every image size, every nu_max and *)
(* whatever the reference table answers, and that it implements Search.    *)
(***************************************************************************)
EXTENDS Angle, TLAPS

USE BoundsAssumption, WidthAssumption

\* The loop variables stay in their rows: nothing wraps around but for an
\* image without stars.
LoopInv ==
    /\ n > 0 /\ pc = "outer" => i <= n - 1
    /\ pc = "inner" /\ n > 0 => i < n - 1 /\ i < j /\ j <= n

\* What the loops have passed is what has been looked up.
TriedInv ==
    \A x, y \in 0 .. n - 1 : x < y =>
        /\ pc = "outer" => (<<x, y>> \in tried <=> x < i)
        /\ pc = "inner" => (<<x, y>> \in tried <=> x < i \/ (x = i /\ y < j))

\* Between two turns of reduce there are comparisons left.
SpentInv ==
    /\ pc # "idle" /\ op = "reduce" => nu <= NuMax
    /\ pc # "idle" => error = "none" /\ answered = 0
    /\ error # "none" => answered = 0
    /\ error = "no_confident_a" => op = "identify"
    /\ error = "no_confident_r" => op = "reduce"
    /\ error = "exceeded" => op = "identify"

IInv ==
    /\ TypeOK /\ NuBounded /\ GivesUpExhausted /\ ExceededHonest
    /\ LoopInv /\ TriedInv /\ SpentInv

----------------------------------------------------------------------------

LEMMA Initially == Init => IInv
  <1> SUFFICES ASSUME Init PROVE IInv
    OBVIOUS
  <1>1. TypeOK
    BY DEF Init, TypeOK, Errors
  <1>2. NuBounded /\ GivesUpExhausted /\ ExceededHonest
    BY DEF Init, NuBounded, GivesUpExhausted, ExceededHonest
  <1>3. LoopInv /\ TriedInv /\ SpentInv
    BY DEF Init, LoopInv, TriedInv, SpentInv
  <1>4. QED BY <1>1, <1>2, <1>3 DEF IInv

LEMMA CallStep ==
    ASSUME IInv, NEW o \in {"identify", "reduce"}, NEW size \in MinN .. MaxN, call(o, size)
    PROVE  IInv'
  <1> USE DEF IInv, call
  <1>1. TypeOK'
    BY DEF TypeOK, Errors
  <1>2. NuBounded' /\ GivesUpExhausted' /\ ExceededHonest'
    BY DEF NuBounded, GivesUpExhausted, ExceededHonest
  <1>3. LoopInv' /\ TriedInv' /\ SpentInv'
    BY DEF LoopInv, TriedInv, SpentInv, TypeOK
  <1>4. QED BY <1>1, <1>2, <1>3

\* The end of the outer loop: every pair has been passed.
LEMMA AllPassed ==
    ASSUME IInv, pc = "outer", ~(i < OuterBound)
    PROVE  n > 0 /\ tried = Pairs(n)
  <1> USE DEF IInv
  <1>1. n \in Nat /\ i \in 0 .. UInt - 1 /\ tried \subseteq Pairs(n)
    BY DEF TypeOK
  <1>2. n > 0 /\ i >= n - 1
    BY <1>1 DEF OuterBound
  <1>3. ASSUME NEW p \in Pairs(n) PROVE p \in tried
    <2>1. PICK x \in 0 .. n - 1, y \in 0 .. n - 1 : p = <<x, y>> /\ x < y
      BY DEF Pairs
    <2>2. x < i
      BY <1>1, <1>2, <2>1
    <2>3. QED BY <2>1, <2>2 DEF TriedInv
  <1>4. QED BY <1>1, <1>2, <1>3

LEMMA OuterStep ==
    ASSUME IInv, outer
    PROVE  IInv'
  <1> USE DEF IInv
  <1>0. /\ n \in Nat /\ n < UInt /\ i \in 0 .. UInt - 1 /\ nu \in Nat
        /\ pc = "outer" /\ UNCHANGED <<op, n, i, nu, tried>>
    BY DEF TypeOK, outer, Return
  <1>1. CASE i < OuterBound
    <2>1. pc' = "inner" /\ j' = NextStar /\ UNCHANGED <<error, answered>>
      BY <1>1 DEF outer
    <2>2. j' \in 0 .. UInt - 1 /\ (n > 0 => j' = i + 1 /\ i < n - 1)
      BY <1>0, <1>1, <2>1 DEF NextStar, OuterBound, LoopInv
    <2>3. TypeOK'
      BY <1>0, <2>1, <2>2 DEF TypeOK
    <2>4. NuBounded' /\ GivesUpExhausted' /\ ExceededHonest' /\ SpentInv'
      BY <1>0, <2>1 DEF NuBounded, GivesUpExhausted, ExceededHonest, SpentInv
    <2>5. LoopInv'
      BY <1>0, <2>1, <2>2 DEF LoopInv
    <2>6. TriedInv'
      BY <1>0, <2>1, <2>2 DEF TriedInv
    <2>7. QED BY <2>3, <2>4, <2>5, <2>6
  <1>2. CASE ~(i < OuterBound)
    <2>1. pc' = "idle" /\ error' = NO_CONFIDENT /\ answered' = 0 /\ UNCHANGED j
      BY <1>2 DEF outer, Return
    <2>2. tried = Pairs(n)
      BY <1>0, <1>2, AllPassed
    <2>3. op \in {"identify", "reduce"}
      BY DEF TypeOK
    <2>4. TypeOK'
      BY <1>0, <2>1 DEF TypeOK, NO_CONFIDENT, Errors
    <2>5. NuBounded' /\ GivesUpExhausted' /\ ExceededHonest'
      BY <1>0, <2>1, <2>2 DEF NuBounded, GivesUpExhausted, ExceededHonest, NO_CONFIDENT
    <2>6. LoopInv' /\ TriedInv' /\ SpentInv'
      BY <2>1, <2>3, <1>0 DEF LoopInv, TriedInv, SpentInv, NO_CONFIDENT
    <2>7. QED BY <2>4, <2>5, <2>6
  <1>3. QED BY <1>1, <1>2

\* An empty image has no pairs, so dropping the loops passes none over.
LEMMA NoPairs ==
    ASSUME IInv, n = 0
    PROVE  tried = Pairs(n) /\ Pairs(n) = {}
  BY DEF IInv, TypeOK, Pairs

LEMMA OuterDroppedStep ==
    ASSUME IInv, outer_dropped
    PROVE  IInv'
  <1> USE DEF IInv
  <1>1. /\ pc = "outer" /\ pc' = "idle" /\ n = 0 /\ error' = NO_CONFIDENT /\ answered' = 0
        /\ UNCHANGED <<op, n, i, j, nu, tried>> /\ op \in {"identify", "reduce"}
    BY DEF outer_dropped, Return, TypeOK
  <1>2. tried = Pairs(n)
    BY <1>1, NoPairs
  <1>3. TypeOK'
    BY <1>1 DEF TypeOK, NO_CONFIDENT, Errors
  <1>4. NuBounded' /\ GivesUpExhausted' /\ ExceededHonest'
    BY <1>1, <1>2 DEF NuBounded, GivesUpExhausted, ExceededHonest, NO_CONFIDENT
  <1>5. LoopInv' /\ TriedInv' /\ SpentInv'
    BY <1>1 DEF LoopInv, TriedInv, SpentInv, NO_CONFIDENT
  <1>6. QED BY <1>3, <1>4, <1>5

LEMMA InnerEndStep ==
    ASSUME IInv, inner_end
    PROVE  IInv'
  <1> USE DEF IInv
  <1>0. /\ n \in Nat /\ n < UInt /\ i \in 0 .. UInt - 1 /\ j \in 0 .. UInt - 1 /\ j >= n
        /\ pc = "inner" /\ pc' = "outer" /\ i' = (i + 1) % UInt
        /\ UNCHANGED <<op, n, j, nu, error, answered, tried>>
    BY DEF TypeOK, inner_end, RowEnds
  <1>1. i' \in 0 .. UInt - 1 /\ (n > 0 => i' = i + 1 /\ i < n - 1 /\ j = n)
    BY <1>0 DEF LoopInv
  <1>2. TypeOK'
    BY <1>0, <1>1 DEF TypeOK
  <1>3. NuBounded' /\ GivesUpExhausted' /\ ExceededHonest' /\ SpentInv'
    BY <1>0 DEF NuBounded, GivesUpExhausted, ExceededHonest, SpentInv
  <1>4. LoopInv'
    BY <1>0, <1>1 DEF LoopInv
  <1>5. TriedInv'
    BY <1>0, <1>1 DEF TriedInv
  <1>6. QED BY <1>2, <1>3, <1>4, <1>5

\* A turn of an inner loop looks a new pair up.
LEMMA NewPair ==
    ASSUME IInv, pc = "inner", ~RowEnds
    PROVE  /\ n > 0 /\ i < j /\ j < n /\ i \in 0 .. n - 1 /\ j \in 0 .. n - 1
           /\ (j + 1) % UInt = j + 1
           /\ <<i, j>> \in Pairs(n) /\ <<i, j>> \notin tried
  <1>1. n \in Nat /\ n < UInt /\ i \in Nat /\ j \in Nat
    BY DEF IInv, TypeOK
  <1>2. n > 0 /\ i < j /\ j < n
    BY <1>1 DEF IInv, LoopInv, RowEnds
  <1>3. (j + 1) % UInt = j + 1
    BY <1>1, <1>2
  <1>4. QED BY <1>1, <1>2, <1>3 DEF IInv, TriedInv, Pairs

\* The invariants of the loops after a turn that goes on to the next pair.
LEMMA NextPairKeeps ==
    ASSUME IInv, pc = "inner", ~RowEnds, NextPair, UNCHANGED <<op, n>>,
           tried' = tried \cup {<<i, j>>}
    PROVE  LoopInv' /\ TriedInv' /\ j' \in 0 .. UInt - 1
  <1>1. /\ n \in Nat /\ n < UInt /\ i \in Nat /\ j \in Nat
        /\ n > 0 /\ i < j /\ j < n /\ i < n - 1
        /\ j' = j + 1 /\ i' = i /\ pc' = "inner"
    BY NewPair DEF IInv, TypeOK, NextPair, LoopInv
  <1>2. LoopInv'
    BY <1>1 DEF LoopInv
  <1>3. TriedInv'
    BY <1>1 DEF IInv, TriedInv
  <1>4. QED BY <1>1, <1>2, <1>3

LEMMA IdentifyStep ==
    ASSUME IInv, identify_pair
    PROVE  IInv'
  <1> USE DEF IInv
  <1>0. /\ pc = "inner" /\ op = "identify" /\ ~RowEnds /\ UNCHANGED <<op, n>>
        /\ nu \in Nat /\ error = "none" /\ answered = 0
    BY DEF identify_pair, TypeOK, SpentInv
  <1>1. CASE OverLimit
    <2>1. /\ pc' = "idle" /\ error' = "exceeded" /\ answered' = 0
          /\ UNCHANGED <<i, j, nu, tried>> /\ nu > NuMax
      BY <1>1 DEF identify_pair, Return, OverLimit
    <2>2. tried # Pairs(n)
      BY <1>0, NewPair
    <2>3. TypeOK'
      BY <1>0, <2>1 DEF TypeOK, Errors
    <2>4. NuBounded' /\ GivesUpExhausted' /\ ExceededHonest' /\ LoopInv' /\ TriedInv' /\ SpentInv'
      BY <1>0, <2>1, <2>2 DEF NuBounded, GivesUpExhausted, ExceededHonest, LoopInv, TriedInv, SpentInv
    <2>5. QED BY <2>3, <2>4
  <1>2. CASE ~OverLimit
    <2>1. PICK cost \in 0 .. 1, candidates \in 0 .. MaxAnswer :
            /\ find_candidate_pair(cost, candidates)
            /\ IF candidates = 0
               THEN nu' = nu + cost /\ NextPair
               ELSE /\ nu' = nu + cost + 1
                    /\ Return("none", candidates) \/ NextPair
      BY <1>2 DEF identify_pair
    <2>2. tried' = tried \cup {<<i, j>>}
      BY <1>2 DEF identify_pair
    <2>3. nu' \in Nat /\ nu' <= NuMax + 2
      BY <1>0, <1>2, <2>1 DEF OverLimit
    <2>4. tried' \subseteq Pairs(n')
      BY <1>0, <2>2, NewPair DEF TypeOK
    <2>5. CASE NextPair
      <3>1. LoopInv' /\ TriedInv' /\ j' \in 0 .. UInt - 1
        BY <1>0, <2>2, <2>5, NextPairKeeps
      <3>2. TypeOK'
        BY <1>0, <2>3, <2>4, <2>5, <3>1 DEF TypeOK, NextPair
      <3>3. NuBounded' /\ GivesUpExhausted' /\ ExceededHonest' /\ SpentInv'
        BY <1>0, <2>3, <2>5 DEF NuBounded, GivesUpExhausted, ExceededHonest, SpentInv, NextPair
      <3>4. QED BY <3>1, <3>2, <3>3
    <2>6. CASE candidates # 0 /\ Return("none", candidates)
      <3>1. TypeOK'
        BY <1>0, <2>3, <2>4, <2>6 DEF TypeOK, Return, Errors
      <3>2. NuBounded' /\ GivesUpExhausted' /\ ExceededHonest' /\ LoopInv' /\ TriedInv' /\ SpentInv'
        BY <1>0, <2>3, <2>6
           DEF NuBounded, GivesUpExhausted, ExceededHonest, LoopInv, TriedInv, SpentInv, Return
      <3>3. QED BY <3>1, <3>2
    <2>7. QED BY <2>1, <2>5, <2>6
  <1>3. QED BY <1>1, <1>2

LEMMA ReduceStep ==
    ASSUME IInv, reduce_pair
    PROVE  IInv'
  <1> USE DEF IInv
  <1>0. /\ pc = "inner" /\ op = "reduce" /\ ~RowEnds /\ UNCHANGED <<op, n>>
        /\ nu \in Nat /\ error = "none" /\ answered = 0 /\ nu <= NuMax
        /\ tried' = tried \cup {<<i, j>>}
    BY DEF reduce_pair, TypeOK, SpentInv
  <1>1. PICK cost \in 0 .. 1, candidates \in 0 .. MaxAnswer :
          /\ nu' = nu + cost
          /\ IF nu + cost > NuMax THEN Return("no_confident_r", 0)
             ELSE IF candidates = 0 THEN NextPair
             ELSE Return("none", candidates)
    BY DEF reduce_pair
  <1>2. nu' \in Nat /\ nu' <= NuMax + 1
    BY <1>0, <1>1
  <1>3. tried' \subseteq Pairs(n')
    BY <1>0, NewPair DEF TypeOK
  <1>4. CASE NextPair /\ nu' <= NuMax
    <2>1. LoopInv' /\ TriedInv' /\ j' \in 0 .. UInt - 1
      BY <1>0, <1>4, NextPairKeeps
    <2>2. TypeOK'
      BY <1>0, <1>2, <1>3, <1>4, <2>1 DEF TypeOK, NextPair
    <2>3. NuBounded' /\ GivesUpExhausted' /\ ExceededHonest' /\ SpentInv'
      BY <1>0, <1>2, <1>4 DEF NuBounded, GivesUpExhausted, ExceededHonest, SpentInv, NextPair
    <2>4. QED BY <2>1, <2>2, <2>3
  <1>5. CASE Return("no_confident_r", 0) /\ nu' > NuMax
    <2>1. TypeOK'
      BY <1>0, <1>2, <1>3, <1>5 DEF TypeOK, Return, Errors
    <2>2. NuBounded' /\ GivesUpExhausted' /\ ExceededHonest' /\ LoopInv' /\ TriedInv' /\ SpentInv'
      BY <1>0, <1>2, <1>5
         DEF NuBounded, GivesUpExhausted, ExceededHonest, LoopInv, TriedInv, SpentInv, Return
    <2>3. QED BY <2>1, <2>2
  <1>6. CASE Return("none", candidates)
    <2>1. TypeOK'
      BY <1>0, <1>2, <1>3, <1>6 DEF TypeOK, Return, Errors
    <2>2. NuBounded' /\ GivesUpExhausted' /\ ExceededHonest' /\ LoopInv' /\ TriedInv' /\ SpentInv'
      BY <1>0, <1>2, <1>6
         DEF NuBounded, GivesUpExhausted, ExceededHonest, LoopInv, TriedInv, SpentInv, Return
    <2>3. QED BY <2>1, <2>2
  <1>7. QED BY <1>0, <1>1, <1>4, <1>5, <1>6

LEMMA Steps == IInv /\ [Next]_vars => IInv'
  <1> SUFFICES ASSUME IInv, [Next]_vars PROVE IInv'
    OBVIOUS
  <1>1. ASSUME NEW size \in MinN .. MaxN, identify(size) \/ reduce(size) PROVE IInv'
    BY <1>1, CallStep DEF identify, reduce
  <1>2. CASE Step
    BY <1>2, OuterStep, OuterDroppedStep, InnerEndStep, IdentifyStep, ReduceStep DEF Step
  <1>3. CASE UNCHANGED vars
    BY <1>3 DEF vars, IInv, TypeOK, NuBounded, GivesUpExhausted, ExceededHonest,
                LoopInv, TriedInv, SpentInv
  <1>4. QED BY <1>1, <1>2, <1>3 DEF Next

----------------------------------------------------------------------------

\* The invariant that the theorems below follow from.
THEOREM Inductive == Spec => []IInv
  <1>1. QED BY Initially, Steps, PTL DEF Spec

\* The pairs looked up are pairs of different stars of the image, and the loop
\* variables have the width of their type.
THEOREM TypeCorrect == Spec => []TypeOK
  <1>1. IInv => TypeOK
    BY DEF IInv
  <1>2. QED BY <1>1, Inductive, PTL

\* nu never passes nu_max by more than a pair costs.
THEOREM NuCorrect == Spec => []NuBounded
  <1>1. IInv => NuBounded
    BY DEF IInv
  <1>2. QED BY <1>1, Inductive, PTL

\* "Not found" is said only after every pair was looked up.
THEOREM ExhaustionCorrect == Spec => []GivesUpExhausted
  <1>1. IInv => GivesUpExhausted
    BY DEF IInv
  <1>2. QED BY <1>1, Inductive, PTL

\* EXCEEDED_NU_MAX is said only with pairs left to look up.
THEOREM ExceededCorrect == Spec => []ExceededHonest
  <1>1. IInv => ExceededHonest
    BY DEF IInv
  <1>2. QED BY <1>1, Inductive, PTL

\* Looking up a pair is a step of Search, whether it ends the call or not.
LEMMA PairTries ==
    ASSUME IInv, pc = "inner", ~RowEnds, nu <= NuMax, UNCHANGED <<op, n>>,
           tried' = tried \cup {<<i, j>>},
           NEW c \in 0 .. 2, nu' = nu + c,
           \/ UNCHANGED pc
           \/ pc' = "idle" /\ absOutcome' = "found"
           \/ pc' = "idle" /\ absOutcome' = "exceeded" /\ nu' > NuMax
    PROVE  S!Try
  <1>1. nu \in Nat /\ <<i, j>> \in Pairs(n) \ tried
    BY NewPair DEF IInv, TypeOK
  <1>2. S!Compare
    BY <1>1 DEF S!Compare
  <1>3. CASE UNCHANGED pc
    <2>1. absSubsets' = absSubsets /\ absOutcome' = absOutcome
      <3>1. pc # "idle" /\ pc' # "idle" /\ n' = n
        BY <1>3
      <3>2. absOutcome = "none" /\ absOutcome' = "none"
        BY <3>1 DEF absOutcome
      <3>3. absSubsets' = absSubsets
        BY <3>1 DEF absSubsets
      <3>4. QED BY <3>2, <3>3
    <2>2. (absSubsets \ tried)' = (absSubsets \ tried) \ {<<i, j>>} /\ <<i, j>> \in absSubsets \ tried
      BY <1>1, <2>1 DEF absSubsets
    <2>3. QED BY <1>2, <1>3, <2>1, <2>2 DEF S!Try
  <1>4. CASE pc' = "idle"
    <2>1. absSubsets' = {} /\ absSubsets \ tried # {}
      BY <1>1, <1>4 DEF absSubsets
    <2>2. S!Decide
      BY <1>4, <2>1 DEF S!Decide, S!End
    <2>3. QED BY <1>2, <2>1, <2>2 DEF S!Try
  <1>5. QED BY <1>3, <1>4

\* A step of a strategy is a step of Search or changes nothing it speaks of.
LEMMA SearchStep ==
    ASSUME IInv, IInv', [Next]_vars
    PROVE  S!Next \/ UNCHANGED S!vars
  <1> USE DEF S!vars
  <1>0. nu \in Nat /\ op \in {"identify", "reduce"} /\ tried \subseteq Pairs(n)
    BY DEF IInv, TypeOK
  <1>1. ASSUME NEW o \in {"identify", "reduce"}, NEW size \in MinN .. MaxN, call(o, size)
        PROVE  S!Start
    <2>1. Pairs(size) \subseteq Pairs(MaxN)
      BY DEF Pairs
    <2>2. absSubsets' = Pairs(size) /\ (absSubsets \ tried)' = Pairs(size) /\ absOutcome' = "none"
      BY <1>1 DEF call, absSubsets, absOutcome
    <2>3. QED BY <1>1, <2>1, <2>2 DEF S!Start, call
  <1>2. CASE outer
    <2>1. CASE i < OuterBound
      BY <1>2, <2>1 DEF outer, absSubsets, absOutcome
    <2>2. CASE ~(i < OuterBound)
      <3>1. tried = Pairs(n)
        BY <1>2, <2>2, AllPassed DEF outer
      <3>2. /\ pc = "outer" /\ pc' = "idle" /\ error' = NO_CONFIDENT
            /\ UNCHANGED <<op, n, nu, tried>>
        BY <1>2, <2>2 DEF outer, Return
      <3>3. op = "reduce" => nu <= NuMax
        BY <3>2 DEF IInv, SpentInv
      <3>4. absSubsets \ tried = {} /\ absSubsets' = {} /\ absOutcome' = "exhausted"
        BY <1>0, <3>1, <3>2, <3>3 DEF absSubsets, absOutcome, NO_CONFIDENT
      <3>5. S!Exhaust
        BY <3>2, <3>4 DEF S!Exhaust, S!End
      <3>6. QED BY <3>5 DEF S!Next
    <2>3. QED BY <2>1, <2>2
  <1>3. CASE inner_end
    BY <1>3 DEF inner_end, absSubsets, absOutcome
  <1>4. CASE identify_pair
    <2>0. /\ pc = "inner" /\ op = "identify" /\ ~RowEnds /\ UNCHANGED <<op, n>>
      BY <1>4 DEF identify_pair
    <2>1. CASE OverLimit
      <3>1. /\ pc' = "idle" /\ error' = "exceeded" /\ UNCHANGED nu /\ nu > NuMax
        BY <1>4, <2>1 DEF identify_pair, Return, OverLimit
      <3>2. absSubsets' = {} /\ absOutcome' = "exceeded"
        BY <3>1 DEF absSubsets, absOutcome
      <3>3. S!Exceed
        BY <2>0, <3>1, <3>2 DEF S!Exceed, S!End
      <3>4. QED BY <3>3 DEF S!Next
    <2>2. CASE ~OverLimit
      <3>1. PICK cost \in 0 .. 1, candidates \in 0 .. MaxAnswer :
              IF candidates = 0
              THEN nu' = nu + cost /\ NextPair
              ELSE /\ nu' = nu + cost + 1
                   /\ Return("none", candidates) \/ NextPair
        BY <1>4, <2>2 DEF identify_pair
      <3>2. tried' = tried \cup {<<i, j>>}
        BY <1>4, <2>2 DEF identify_pair
      <3>3. \E c \in 0 .. 2 : nu' = nu + c
        BY <1>0, <3>1
      <3>4. nu <= NuMax
        BY <1>0, <2>2 DEF OverLimit
      <3>5. UNCHANGED pc \/ (pc' = "idle" /\ absOutcome' = "found")
        BY <2>0, <3>1 DEF absOutcome, NextPair, Return
      <3>6. QED BY <2>0, <3>2, <3>3, <3>4, <3>5, PairTries DEF S!Next
    <2>3. QED BY <2>1, <2>2
  <1>5. CASE reduce_pair
    <2>0. /\ pc = "inner" /\ op = "reduce" /\ ~RowEnds /\ UNCHANGED <<op, n>>
          /\ tried' = tried \cup {<<i, j>>} /\ nu <= NuMax
      BY <1>5 DEF reduce_pair, IInv, SpentInv
    <2>1. PICK cost \in 0 .. 1, candidates \in 0 .. MaxAnswer :
            /\ nu' = nu + cost
            /\ IF nu + cost > NuMax THEN Return("no_confident_r", 0)
               ELSE IF candidates = 0 THEN NextPair
               ELSE Return("none", candidates)
      BY <1>5 DEF reduce_pair
    <2>2. \E c \in 0 .. 2 : nu' = nu + c
      BY <1>0, <2>1
    <2>3. \/ UNCHANGED pc
          \/ pc' = "idle" /\ absOutcome' = "found"
          \/ pc' = "idle" /\ absOutcome' = "exceeded" /\ nu' > NuMax
      BY <2>0, <2>1 DEF absOutcome, NextPair, Return
    <2>4. QED BY <2>0, <2>2, <2>3, PairTries DEF S!Next
  <1>6. CASE UNCHANGED vars
    BY <1>6 DEF vars, absSubsets, absOutcome
  <1>7. CASE outer_dropped
    <2>1. /\ pc = "outer" /\ pc' = "idle" /\ n = 0 /\ error' = NO_CONFIDENT
          /\ UNCHANGED <<op, n, nu, tried>>
      BY <1>7 DEF outer_dropped, Return
    <2>2. op = "reduce" => nu <= NuMax
      BY <2>1 DEF IInv, SpentInv
    <2>3. absSubsets \ tried = {} /\ absSubsets' = {} /\ absOutcome' = "exhausted"
      BY <1>0, <2>1, <2>2, NoPairs DEF absSubsets, absOutcome, NO_CONFIDENT
    <2>4. S!Exhaust
      BY <2>1, <2>3 DEF S!Exhaust, S!End
    <2>5. QED BY <2>4 DEF S!Next
  <1>8. QED BY <1>1, <1>2, <1>3, <1>4, <1>5, <1>6, <1>7 DEF Next, Step, identify, reduce, S!Next

\* The strategy keeps the promise of Search.
THEOREM SearchCorrect == Spec => SearchSpec
  <1>1. Init => S!Init
    BY DEF Init, S!Init, absSubsets, absOutcome
  <1>2. IInv /\ IInv' /\ [Next]_vars => [S!Next]_S!vars
    BY SearchStep
  <1>3. QED BY <1>1, <1>2, Inductive, PTL DEF Spec, SearchSpec, S!Spec
----------------------------------------------------------------------------
(* Why a call ends: every turn comes nearer to the end of the loops.       *)

\* Rows the outer loop has left, and turns the inner one has (with the entry).
RowsLeft == n - i
TurnsLeft == IF pc = "outer" THEN n + 1 ELSE n - j

Nearer ==
    \/ RowsLeft' < RowsLeft
    \/ RowsLeft' = RowsLeft /\ TurnsLeft' < TurnsLeft

\* The measure of a running call is a pair of natural numbers.
LEMMA Measured ==
    ASSUME IInv, pc # "idle", n > 0
    PROVE  RowsLeft \in Nat /\ TurnsLeft \in Nat
  BY DEF IInv, TypeOK, LoopInv, RowsLeft, TurnsLeft

\* A call for an image with a star in it returns or comes nearer to the end of
\* its loops with every step, for every size and every answer of the table:
\* Returns, but for the fairness that makes it take the steps.
THEOREM Progress ==
    Spec => /\ [](pc # "idle" /\ n > 0 => RowsLeft \in Nat /\ TurnsLeft \in Nat)
            /\ [][pc # "idle" /\ n > 0 => pc' = "idle" \/ Nearer]_vars
  <1>1. IInv => (pc # "idle" /\ n > 0 => RowsLeft \in Nat /\ TurnsLeft \in Nat)
    BY Measured
  <1>2. ASSUME IInv, [Next]_vars, pc # "idle", n > 0, pc' # "idle", vars' # vars
        PROVE  Nearer
    <2>t. /\ n \in Nat /\ n < UInt /\ i \in Nat /\ j \in Nat
      BY <1>2 DEF IInv, TypeOK
    <2>1. CASE outer
      <3>1. pc = "outer" /\ pc' = "inner" /\ j' = NextStar /\ UNCHANGED <<i, n>> /\ i < OuterBound
        BY <1>2, <2>1 DEF outer, Return
      <3>2. j' = i + 1
        BY <1>2, <2>t, <3>1 DEF NextStar, OuterBound
      <3>3. QED BY <2>t, <3>1, <3>2 DEF Nearer, RowsLeft, TurnsLeft
    <2>2. CASE inner_end
      <3>1. pc = "inner" /\ i' = (i + 1) % UInt /\ n' = n /\ i < n - 1
        BY <1>2, <2>2 DEF inner_end, IInv, LoopInv
      <3>2. i' = i + 1
        BY <2>t, <3>1
      <3>3. QED BY <2>t, <3>1, <3>2 DEF Nearer, RowsLeft
    <2>3. CASE identify_pair \/ reduce_pair
      <3>1. pc = "inner" /\ ~RowEnds /\ n' = n /\ NextPair
        BY <1>2, <2>3 DEF identify_pair, reduce_pair, Return
      <3>2. i' = i /\ j' = j + 1 /\ pc' = "inner"
        BY <1>2, <3>1, NewPair DEF NextPair
      <3>3. QED BY <2>t, <3>1, <3>2 DEF Nearer, RowsLeft, TurnsLeft
    <2>4. QED
      BY <1>2, <2>1, <2>2, <2>3 DEF Next, Step, identify, reduce, call, outer_dropped
  <1>3. IInv /\ [Next]_vars => [pc # "idle" /\ n > 0 => pc' = "idle" \/ Nearer]_vars
    BY <1>2
  <1>4. QED BY <1>1, <1>3, Inductive, PTL DEF Spec
=============================================================================
