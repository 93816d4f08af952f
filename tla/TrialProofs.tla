---------------------------- MODULE TrialProofs ----------------------------
(***************************************************************************)
(* The lists of a Benchmark stay aligned, rows tell their noise and scores *)
(* are fair, for any catalog, any engine, any noise, any answers and any   *)
(* number of trials.                                                       *)
(***************************************************************************)
EXTENDS Trial, FiniteSetTheorems, SequenceTheorems, TLAPS

USE NumbersAssumption, EnginesAssumption

\* A variation is under way, and its noise has room in the image.
SizeInv ==
    /\ pc \in {"generate", "noise"} => i < 3 /\ j < iters[i]
    /\ Len(b) <= MaxStars /\ Len(b_answers) <= MaxStars
    /\ pc = "noise" => Len(b) + iters[1] * EsStep <= MaxStars

IInv == TypeOK /\ SizeInv /\ Aligned

----------------------------------------------------------------------------

LEMMA LabelsTyping == \A l \in Labels : l \in Int /\ l > NO_LABEL
  BY LabelsAssumption DEF NO_LABEL

LEMMA PermutedSequence ==
    ASSUME NEW S, NEW s \in Seq(S), Len(s) <= MaxStars, NEW e \in Engines
    PROVE  /\ Permuted(s, e) \in Seq(S) /\ Len(Permuted(s, e)) = Len(s)
           /\ \A x \in 1 .. Len(s) : /\ e[Len(s)][x] \in 1 .. Len(s)
                                     /\ Permuted(s, e)[x] = s[e[Len(s)][x]]
<1>1. Len(s) \in 0 .. MaxStars /\ DOMAIN s = 1 .. Len(s)
  OBVIOUS
<1>2. e[Len(s)] \in [1 .. Len(s) -> 1 .. Len(s)]
  BY <1>1 DEF Permutes
<1>3. Permuted(s, e) = [x \in 1 .. Len(s) |-> s[e[Len(s)][x]]]
  BY <1>1 DEF Permuted
<1>4. Permuted(s, e) \in [1 .. Len(s) -> S]
  BY <1>1, <1>2, <1>3
<1>5. Permuted(s, e) \in Seq(S) /\ Len(Permuted(s, e)) = Len(s)
  BY <1>1, <1>4
<1> QED BY <1>2, <1>3, <1>5

LEMMA Picked ==
    ASSUME NEW S, NEW s \in Seq(S), NEW m \in Nat, NEW order, \A x \in 1 .. m : order[x] \in 1 .. Len(s)
    PROVE  [x \in 1 .. m |-> s[order[x]]] \in Seq(S) /\ Len([x \in 1 .. m |-> s[order[x]]]) = m
<1> DEFINE t == [x \in 1 .. m |-> s[order[x]]]
<1>1. \A x \in 1 .. m : s[order[x]] \in S
  OBVIOUS
<1>2. t \in [1 .. m -> S]
  BY <1>1
<1>3. t \in Seq(S) /\ Len(t) = m
  BY <1>2
<1> QED BY <1>3

\* The false stars of a variation fit in the room that the fields leave.
LEMMA NoiseTyping == ASSUME j \in Nat, i = 1, j < iters[1] PROVE Noise \in 0 .. iters[1] * EsStep
<1>1. ep.extra_star_min = 0 /\ ep.extra_star_step = EsStep
  BY DEF ep, using_extra_star_parameters
<1>2. Noise = j * EsStep
  BY <1>1 DEF Noise
<1>3. iters[1] \in Nat
  OBVIOUS
<1>4. j * EsStep \in Nat /\ (iters[1] - j) * EsStep >= 0
  BY <1>3
<1>5. j * EsStep <= iters[1] * EsStep
  BY <1>3, <1>4
<1> QED BY <1>2, <1>3, <1>4, <1>5

\* Aligned lists stay aligned when they are shuffled.
LEMMA ShuffleAligned ==
    ASSUME NEW image_ \in Seq(Stars), NEW inertial \in Seq(Int), NEW answers \in Seq(Answers),
           Len(image_) <= MaxStars, Len(answers) <= MaxStars, Len(inertial) = Len(image_),
           \A x \in 1 .. Len(image_) :
               IF image_[x].of = NO_LABEL THEN inertial[x] <= NO_LABEL ELSE inertial[x] = image_[x].of,
           shuffle(image_, inertial, answers)
    PROVE  /\ b' \in Seq(Stars) /\ r' \in Seq(Int) /\ b_answers' \in Seq(Answers)
           /\ Len(b') = Len(image_) /\ Len(r') = Len(b') /\ Len(b_answers') = Len(answers)
           /\ \A x \in 1 .. Len(b') :
                  IF b'[x].of = NO_LABEL THEN r'[x] <= NO_LABEL ELSE r'[x] = b'[x].of
           /\ Len(answers) = Len(image_) /\ (\A x \in 1 .. Len(image_) : answers[x].label = inertial[x]) =>
                  \A x \in 1 .. Len(b') : b_answers'[x].label = r'[x]
<1>1. PICK e \in Engines :
        /\ b' = Permuted(image_, e) /\ r' = Permuted(inertial, e) /\ b_answers' = Permuted(answers, e)
  BY DEF shuffle
<1>2. /\ b' \in Seq(Stars) /\ Len(b') = Len(image_)
      /\ \A x \in 1 .. Len(image_) : e[Len(image_)][x] \in 1 .. Len(image_) /\ b'[x] = image_[e[Len(image_)][x]]
  BY <1>1, PermutedSequence
<1>3. /\ r' \in Seq(Int) /\ Len(r') = Len(image_)
      /\ \A x \in 1 .. Len(image_) : r'[x] = inertial[e[Len(image_)][x]]
  <2>1. /\ r' \in Seq(Int) /\ Len(r') = Len(inertial)
        /\ \A x \in 1 .. Len(inertial) : r'[x] = inertial[e[Len(inertial)][x]]
    BY <1>1, PermutedSequence
  <2> QED BY <2>1
<1>4. /\ b_answers' \in Seq(Answers) /\ Len(b_answers') = Len(answers)
      /\ \A x \in 1 .. Len(answers) : b_answers'[x] = answers[e[Len(answers)][x]]
  BY <1>1, PermutedSequence
<1>5. \A x \in 1 .. Len(b') : IF b'[x].of = NO_LABEL THEN r'[x] <= NO_LABEL ELSE r'[x] = b'[x].of
  <2> TAKE x \in 1 .. Len(b')
  <2> DEFINE y == e[Len(image_)][x]
  <2>1. y \in 1 .. Len(image_) /\ b'[x] = image_[y] /\ r'[x] = inertial[y]
    BY <1>2, <1>3
  <2> HIDE DEF y
  <2> QED BY <2>1
<1>6. ASSUME Len(answers) = Len(image_), \A x \in 1 .. Len(image_) : answers[x].label = inertial[x]
      PROVE  \A x \in 1 .. Len(b') : b_answers'[x].label = r'[x]
  <2> TAKE x \in 1 .. Len(b')
  <2> DEFINE y == e[Len(image_)][x]
  <2>1. y \in 1 .. Len(image_) /\ b_answers'[x] = answers[y] /\ r'[x] = inertial[y]
    BY <1>2, <1>3, <1>4, <1>6
  <2> HIDE DEF y
  <2> QED BY <1>6, <2>1
<1> QED BY <1>2, <1>3, <1>4, <1>5, <1>6

----------------------------------------------------------------------------

LEMMA InitInv == ASSUME Init PROVE IInv
<1>1. b \in Seq(Stars) /\ r \in Seq(Int) /\ b_answers \in Seq(Answers)
  BY DEF Init
<1>2. TypeOK
  BY <1>1 DEF Init, TypeOK
<1> QED BY <1>2 DEF Init, IInv, SizeInv, Aligned

LEMMA StutterInv == ASSUME IInv, UNCHANGED vars PROVE IInv'
  BY DEF IInv, vars, loops, image, TypeOK, SizeInv, Aligned

LEMMA LoopInv == ASSUME IInv, loop PROVE IInv'
<1> USE DEF loop, loops, image
<1>1. TypeOK'
  BY DEF IInv, TypeOK
<1>2. SizeInv'
  BY DEF IInv, TypeOK, SizeInv
<1>3. UNCHANGED <<b, r, b_answers>> /\ pc' # "noise" /\ (i' = 0 => i = 0)
  BY DEF IInv, TypeOK
<1>4. Aligned'
  BY <1>3 DEF IInv, Aligned
<1> QED BY <1>1, <1>2, <1>4 DEF IInv

\* The labels of a key.
LEMMA KeyLabels == ASSUME NEW g \in Seq(Answers) PROVE LabelsOf(g) \in Seq(Int) /\ Len(LabelsOf(g)) = Len(g)
<1>1. DOMAIN g = 1 .. Len(g) /\ Len(g) \in Nat
  OBVIOUS
<1>2. \A x \in 1 .. Len(g) : g[x].label \in Int
  <2> TAKE x \in 1 .. Len(g)
  <2>1. g[x] \in Answers
    OBVIOUS
  <2> QED BY <2>1, LabelsTyping DEF Answers
<1>3. LabelsOf(g) \in [1 .. Len(g) -> Int]
  BY <1>1, <1>2 DEF LabelsOf
<1> HIDE DEF LabelsOf
<1> QED BY <1>1, <1>3

\* What an image is drawn from: stars of the catalog, each once.
LEMMA DrawnField ==
    ASSUME NEW n \in Nat \cup {NO_N}, Drawn(n)
    PROVE  \E g : /\ g \in Seq(Answers) /\ Len(g) + iters[1] * EsStep <= MaxStars
                  /\ \A x, y \in 1 .. Len(g) : g[x].label = g[y].label => x = y
                  /\ shuffle(Imaged(g), LabelsOf(g), g)
<1>1. PICK f \in Fields :
        /\ Len(f) > MinImage
        /\ LET g == IF n # NO_N /\ Len(f) > n THEN SubSeq(f, 1, n) ELSE f
           IN shuffle(Imaged(g), LabelsOf(g), g)
  BY DEF Drawn
<1> DEFINE g == IF n # NO_N /\ Len(f) > n THEN SubSeq(f, 1, n) ELSE f
<1>2. /\ f \in Seq(Answers) /\ Len(f) + iters[1] * EsStep <= MaxStars
      /\ \A x, y \in 1 .. Len(f) : f[x].label = f[y].label => x = y
  BY FieldsAssumption
<1>3. g \in Seq(Answers) /\ Len(g) <= Len(f) /\ \A x \in 1 .. Len(g) : x \in 1 .. Len(f) /\ g[x] = f[x]
  <2>1. CASE n # NO_N /\ Len(f) > n
    <3>1. n \in Nat /\ g = SubSeq(f, 1, n)
      BY <2>1
    <3>2. /\ SubSeq(f, 1, n) \in Seq(Answers) /\ Len(SubSeq(f, 1, n)) = n
          /\ \A x \in 1 .. n : SubSeq(f, 1, n)[x] = f[x]
      <4>1. n \in 0 .. Len(f)
        BY <1>2, <2>1, <3>1
      <4> QED BY <1>2, <4>1, SubSeqProperties
    <3> QED BY <1>2, <2>1, <3>1, <3>2
  <2>2. CASE ~(n # NO_N /\ Len(f) > n)
    BY <1>2, <2>2
  <2> QED BY <2>1, <2>2
<1>4. shuffle(Imaged(g), LabelsOf(g), g)
  BY <1>1
<1> HIDE DEF g
<1>5. Len(g) + iters[1] * EsStep <= MaxStars
  BY <1>2, <1>3
<1>6. \A x, y \in 1 .. Len(g) : g[x].label = g[y].label => x = y
  BY <1>2, <1>3
<1> QED BY <1>3, <1>4, <1>5, <1>6

\* An image as it is drawn is aligned with its answer key, and leaves room for
\* false stars.
LEMMA DrawnAligned ==
    ASSUME NEW n \in Nat \cup {NO_N}, Drawn(n)
    PROVE  /\ b' \in Seq(Stars) /\ r' \in Seq(Int) /\ b_answers' \in Seq(Answers)
           /\ Len(r') = Len(b') /\ Len(b_answers') = Len(b') /\ Len(b') + iters[1] * EsStep <= MaxStars
           /\ \A x \in 1 .. Len(b') : IF b'[x].of = NO_LABEL THEN r'[x] <= NO_LABEL ELSE r'[x] = b'[x].of
           /\ \A x \in 1 .. Len(b') : b_answers'[x].label = r'[x]
<1>1. PICK g : /\ g \in Seq(Answers) /\ Len(g) + iters[1] * EsStep <= MaxStars
               /\ \A x, y \in 1 .. Len(g) : g[x].label = g[y].label => x = y
               /\ shuffle(Imaged(g), LabelsOf(g), g)
  BY DrawnField
<1>2. Len(g) + iters[1] * EsStep <= MaxStars /\ iters[1] * EsStep \in Nat /\ DOMAIN g = 1 .. Len(g)
  BY <1>1
<1>3. \A x \in 1 .. Len(g) : g[x].label \in Labels /\ g[x].place \in Places
  <2> TAKE x \in 1 .. Len(g)
  <2>1. g[x] \in Answers
    BY <1>1
  <2> QED BY <2>1 DEF Answers
<1> DEFINE image_ == Imaged(g)
           inertial == LabelsOf(g)
<1>4. image_ \in Seq(Stars) /\ Len(image_) = Len(g)
  BY <1>2, <1>3 DEF Imaged, Stars
<1>5. inertial \in Seq(Int) /\ Len(inertial) = Len(g)
  BY <1>1, KeyLabels
<1>6. \A x \in 1 .. Len(image_) : /\ g[x].label = inertial[x]
                                  /\ IF image_[x].of = NO_LABEL THEN inertial[x] <= NO_LABEL ELSE inertial[x] = image_[x].of
  BY <1>2, <1>3, <1>4, LabelsAssumption DEF Imaged, LabelsOf
<1> HIDE DEF image_, inertial
<1>7. shuffle(image_, inertial, g) /\ Len(g) <= MaxStars
  BY <1>1, <1>2 DEF image_, inertial
<1>8. g \in Seq(Answers) /\ Len(g) = Len(image_) /\ Len(inertial) = Len(image_) /\ Len(image_) <= MaxStars
  BY <1>1, <1>4, <1>5, <1>7
<1>9. /\ b' \in Seq(Stars) /\ r' \in Seq(Int) /\ b_answers' \in Seq(Answers)
      /\ Len(b') = Len(image_) /\ Len(r') = Len(b') /\ Len(b_answers') = Len(g)
      /\ \A x \in 1 .. Len(b') : IF b'[x].of = NO_LABEL THEN r'[x] <= NO_LABEL ELSE r'[x] = b'[x].of
      /\ \A x \in 1 .. Len(b') : b_answers'[x].label = r'[x]
  BY <1>4, <1>5, <1>6, <1>7, <1>8, ShuffleAligned
<1> QED BY <1>2, <1>8, <1>9

LEMMA BuildInv == ASSUME IInv, build PROVE IInv'
<1>1. /\ b' \in Seq(Stars) /\ r' \in Seq(Int) /\ b_answers' \in Seq(Answers)
      /\ Len(r') = Len(b') /\ Len(b_answers') = Len(b') /\ Len(b') + iters[1] * EsStep <= MaxStars
      /\ \A x \in 1 .. Len(b') : IF b'[x].of = NO_LABEL THEN r'[x] <= NO_LABEL ELSE r'[x] = b'[x].of
      /\ \A x \in 1 .. Len(b') : b_answers'[x].label = r'[x]
  BY DrawnAligned DEF build
<1>2. pc' = "loop" /\ iters[1] * EsStep \in Nat
  BY DEF build
<1>3. TypeOK'
  BY <1>1 DEF IInv, TypeOK, build, loops
<1>4. SizeInv'
  BY <1>1, <1>2 DEF SizeInv
<1>5. Aligned'
  BY <1>1 DEF Aligned
<1> QED BY <1>3, <1>4, <1>5 DEF IInv

LEMMA GenerateInv == ASSUME IInv, generate_stars PROVE IInv'
<1>1. /\ b' \in Seq(Stars) /\ r' \in Seq(Int) /\ b_answers' \in Seq(Answers)
      /\ Len(r') = Len(b') /\ Len(b_answers') = Len(b') /\ Len(b') + iters[1] * EsStep <= MaxStars
      /\ \A x \in 1 .. Len(b') : IF b'[x].of = NO_LABEL THEN r'[x] <= NO_LABEL ELSE r'[x] = b'[x].of
      /\ \A x \in 1 .. Len(b') : b_answers'[x].label = r'[x]
  BY DrawnAligned DEF generate_stars, NO_N
<1>2. pc' = "noise" /\ i < 3 /\ j < iters[i] /\ UNCHANGED <<i, j>> /\ iters[1] * EsStep \in Nat
  BY DEF IInv, SizeInv, generate_stars, loops
<1>3. TypeOK'
  BY <1>1 DEF IInv, TypeOK, generate_stars, loops
<1>4. SizeInv'
  BY <1>1, <1>2 DEF SizeInv
<1>5. Aligned'
  BY <1>1 DEF Aligned
<1> QED BY <1>3, <1>4, <1>5 DEF IInv

LEMMA ShiftInv == ASSUME IInv, shift_light PROVE IInv'
<1>1. PICK moved \in [DOMAIN b -> Places] :
        /\ Noise = 0 => \A x \in DOMAIN b : moved[x] = b[x].place
        /\ shuffle([x \in DOMAIN b |-> [b[x] EXCEPT !.place = moved[x]]], r, b_answers)
  BY DEF shift_light
<1> DEFINE image_ == [x \in DOMAIN b |-> [b[x] EXCEPT !.place = moved[x]]]
<1>2. /\ b \in Seq(Stars) /\ r \in Seq(Int) /\ b_answers \in Seq(Answers)
      /\ DOMAIN b = 1 .. Len(b) /\ Len(r) = Len(b) /\ Len(b_answers) = Len(b) /\ Len(b) <= MaxStars
      /\ pc = "noise" /\ i = 0
  BY DEF IInv, TypeOK, SizeInv, Aligned, shift_light, AddNoise
<1>3. \A x \in 1 .. Len(b) : image_[x] \in Stars /\ image_[x].of = b[x].of
  <2> TAKE x \in 1 .. Len(b)
  <2>1. b[x] \in Stars /\ moved[x] \in Places /\ image_[x] = [b[x] EXCEPT !.place = moved[x]]
    BY <1>2
  <2> QED BY <2>1 DEF Stars
<1>4. image_ \in Seq(Stars) /\ Len(image_) = Len(b)
  BY <1>2, <1>3
<1> HIDE DEF image_
<1>5. /\ \A x \in 1 .. Len(image_) :
           IF image_[x].of = NO_LABEL THEN r[x] <= NO_LABEL ELSE r[x] = image_[x].of
      /\ \A x \in 1 .. Len(image_) : b_answers[x].label = r[x]
  BY <1>2, <1>3, <1>4 DEF IInv, Aligned
<1>6. /\ shuffle(image_, r, b_answers)
      /\ Len(r) = Len(image_) /\ Len(b_answers) = Len(image_) /\ Len(image_) <= MaxStars
  BY <1>1, <1>2, <1>4 DEF image_
<1>7. /\ b' \in Seq(Stars) /\ r' \in Seq(Int) /\ b_answers' \in Seq(Answers)
      /\ Len(b') = Len(image_) /\ Len(r') = Len(b') /\ Len(b_answers') = Len(b')
      /\ \A x \in 1 .. Len(b') : IF b'[x].of = NO_LABEL THEN r'[x] <= NO_LABEL ELSE r'[x] = b'[x].of
      /\ \A x \in 1 .. Len(b') : b_answers'[x].label = r'[x]
  BY <1>2, <1>4, <1>5, <1>6, ShuffleAligned
<1>8. TypeOK'
  BY <1>4, <1>7 DEF IInv, TypeOK, shift_light, AddNoise, loops
<1>9. SizeInv'
  BY <1>2, <1>4, <1>7 DEF SizeInv, shift_light, AddNoise, loops
<1>10. Aligned'
  BY <1>7 DEF Aligned
<1> QED BY <1>8, <1>9, <1>10 DEF IInv

LEMMA AddInv == ASSUME IInv, add_extra_light PROVE IInv'
<1>1. PICK places \in [1 .. Noise -> Places] :
        shuffle(b \o [x \in 1 .. Noise |-> [place |-> places[x], of |-> NO_LABEL]],
                r \o [x \in 1 .. Noise |-> 1 - x], b_answers)
  BY DEF add_extra_light
<1>2. /\ b \in Seq(Stars) /\ r \in Seq(Int) /\ b_answers \in Seq(Answers)
      /\ Len(r) = Len(b) /\ Len(b) + iters[1] * EsStep <= MaxStars /\ Len(b_answers) <= MaxStars
      /\ pc = "noise" /\ i = 1 /\ j \in Nat /\ j < iters[1]
  BY DEF IInv, TypeOK, SizeInv, Aligned, add_extra_light, AddNoise
<1> DEFINE false == [x \in 1 .. Noise |-> [place |-> places[x], of |-> NO_LABEL]]
           labels == [x \in 1 .. Noise |-> 1 - x]
           image_ == b \o false
           inertial == r \o labels
<1>3. Noise \in Nat /\ Noise <= iters[1] * EsStep /\ iters[1] * EsStep \in Nat
  BY <1>2, NoiseTyping
<1>4. false \in Seq(Stars) /\ Len(false) = Noise /\ \A x \in 1 .. Noise : false[x].of = NO_LABEL
  BY <1>3 DEF Stars
<1>5. labels \in Seq(Int) /\ Len(labels) = Noise /\ \A x \in 1 .. Noise : labels[x] = 1 - x
  BY <1>3
<1> HIDE DEF false, labels
<1>6. /\ image_ \in Seq(Stars) /\ Len(image_) = Len(b) + Noise
      /\ \A x \in 1 .. Len(b) : image_[x] = b[x]
      /\ \A y \in 1 .. Noise : image_[Len(b) + y] = false[y]
  <2>1. b \in Seq(Stars) /\ false \in Seq(Stars)
    BY <1>2, <1>4
  <2>2. /\ image_ \in Seq(Stars) /\ Len(image_) = Len(b) + Len(false)
        /\ \A x \in 1 .. Len(b) : image_[x] = b[x]
        /\ \A y \in 1 .. Len(false) : image_[Len(b) + y] = false[y]
    BY <2>1
  <2> QED BY <1>4, <2>2
<1>7. /\ inertial \in Seq(Int) /\ Len(inertial) = Len(r) + Noise
      /\ \A x \in 1 .. Len(r) : inertial[x] = r[x]
      /\ \A y \in 1 .. Noise : inertial[Len(r) + y] = labels[y]
  <2>1. r \in Seq(Int) /\ labels \in Seq(Int)
    BY <1>2, <1>5
  <2>2. /\ inertial \in Seq(Int) /\ Len(inertial) = Len(r) + Len(labels)
        /\ \A x \in 1 .. Len(r) : inertial[x] = r[x]
        /\ \A y \in 1 .. Len(labels) : inertial[Len(r) + y] = labels[y]
    BY <2>1
  <2> QED BY <1>5, <2>2
<1> HIDE DEF image_, inertial
<1>8. Len(inertial) = Len(b) + Noise /\ Len(b) \in Nat
  BY <1>2, <1>7
<1>9. \A x \in 1 .. Len(image_) :
        IF image_[x].of = NO_LABEL THEN inertial[x] <= NO_LABEL ELSE inertial[x] = image_[x].of
  <2> TAKE x \in 1 .. Len(image_)
  <2>1. CASE x <= Len(b)
    <3>1. x \in 1 .. Len(b) /\ x \in 1 .. Len(r)
      BY <1>2, <1>6, <1>8, <2>1
    <3>2. image_[x] = b[x] /\ inertial[x] = r[x]
      BY <1>6, <1>7, <3>1
    <3> QED BY <3>1, <3>2 DEF IInv, Aligned
  <2>2. CASE x > Len(b)
    <3>0. x - Len(b) \in 1 .. Noise /\ x = Len(b) + (x - Len(b))
      BY <1>3, <1>6, <1>8, <2>2
    <3>1. PICK y \in 1 .. Noise : x = Len(b) + y
      BY <3>0
    <3>2. image_[x] = false[y]
      <4>1. image_[Len(b) + y] = false[y]
        BY <1>6
      <4> QED BY <3>1, <4>1
    <3>3. inertial[x] = labels[y]
      <4>1. inertial[Len(r) + y] = labels[y]
        BY <1>7
      <4> QED BY <1>2, <3>1, <4>1
    <3>4. image_[x].of = NO_LABEL /\ inertial[x] = 1 - y
      BY <1>4, <1>5, <3>1, <3>2, <3>3
    <3> QED BY <1>3, <3>1, <3>4 DEF NO_LABEL
  <2> QED BY <1>8, <2>1, <2>2
<1>10. /\ shuffle(image_, inertial, b_answers)
       /\ Len(inertial) = Len(image_) /\ Len(image_) <= MaxStars
  BY <1>1, <1>2, <1>3, <1>6, <1>8 DEF image_, inertial, false, labels
<1>11. /\ b' \in Seq(Stars) /\ r' \in Seq(Int) /\ b_answers' \in Seq(Answers)
       /\ Len(b') = Len(image_) /\ Len(r') = Len(b') /\ Len(b_answers') = Len(b_answers)
       /\ \A x \in 1 .. Len(b') : IF b'[x].of = NO_LABEL THEN r'[x] <= NO_LABEL ELSE r'[x] = b'[x].of
  BY <1>2, <1>6, <1>7, <1>9, <1>10, ShuffleAligned
<1>12. TypeOK'
  BY <1>11 DEF IInv, TypeOK, add_extra_light, AddNoise, loops
<1>13. SizeInv'
  BY <1>2, <1>10, <1>11 DEF SizeInv, add_extra_light, AddNoise, loops
<1>14. Aligned'
  BY <1>2, <1>11 DEF Aligned, add_extra_light, AddNoise, loops
<1> QED BY <1>12, <1>13, <1>14 DEF IInv

LEMMA RemoveInv == ASSUME IInv, remove_light PROVE IInv'
<1>1. /\ b \in Seq(Stars) /\ r \in Seq(Int) /\ b_answers \in Seq(Answers)
      /\ DOMAIN b = 1 .. Len(b) /\ Len(r) = Len(b) /\ Len(b) <= MaxStars /\ Len(b_answers) <= MaxStars
      /\ pc = "noise" /\ i = 2
  BY DEF IInv, TypeOK, SizeInv, Aligned, remove_light, AddNoise
<1>2. PICK kept \in SUBSET (1 .. Len(b)) : \E order \in [1 .. Cardinality(kept) -> kept] :
        shuffle([x \in DOMAIN order |-> b[order[x]]], [x \in DOMAIN order |-> r[order[x]]], b_answers)
  BY <1>1 DEF remove_light
<1> DEFINE m == Cardinality(kept)
<1>3. m \in Nat /\ m <= Len(b)
  <2>1. Len(b) \in Nat
    BY <1>1
  <2>2. IsFiniteSet(1 .. Len(b)) /\ Cardinality(1 .. Len(b)) = IF 1 > Len(b) THEN 0 ELSE Len(b) - 1 + 1
    <3> DEFINE n == Len(b)
    <3>1. n \in Int /\ 1 \in Int
      BY <2>1
    <3> HIDE DEF n
    <3>2. IsFiniteSet(1 .. n) /\ Cardinality(1 .. n) = IF 1 > n THEN 0 ELSE n - 1 + 1
      BY <3>1, FS_Interval
    <3> QED BY <3>2 DEF n
  <2>3. IsFiniteSet(kept) /\ m <= Cardinality(1 .. Len(b))
    BY <2>2, FS_Subset
  <2> QED BY <2>1, <2>2, <2>3, FS_CardinalityType
<1> HIDE DEF m
<1>4. PICK order \in [1 .. m -> kept] :
        shuffle([x \in 1 .. m |-> b[order[x]]], [x \in 1 .. m |-> r[order[x]]], b_answers)
  BY <1>2 DEF m
<1> DEFINE image_ == [x \in 1 .. m |-> b[order[x]]]
           inertial == [x \in 1 .. m |-> r[order[x]]]
<1>5. \A x \in 1 .. m : order[x] \in 1 .. Len(b)
  BY <1>4
<1>6. image_ \in Seq(Stars) /\ Len(image_) = m /\ inertial \in Seq(Int) /\ Len(inertial) = m
  <2>1. image_ \in Seq(Stars) /\ Len(image_) = m
    BY <1>1, <1>3, <1>5, Picked
  <2>2. inertial \in Seq(Int) /\ Len(inertial) = m
    <3>1. \A x \in 1 .. m : order[x] \in 1 .. Len(r)
      BY <1>1, <1>5
    <3> QED BY <1>1, <1>3, <3>1, Picked
  <2> QED BY <2>1, <2>2
<1>7. \A x \in 1 .. Len(image_) :
        IF image_[x].of = NO_LABEL THEN inertial[x] <= NO_LABEL ELSE inertial[x] = image_[x].of
  BY <1>5, <1>6 DEF IInv, Aligned
<1> HIDE DEF image_, inertial
<1>8. /\ shuffle(image_, inertial, b_answers)
      /\ Len(inertial) = Len(image_) /\ Len(image_) <= MaxStars
  BY <1>1, <1>3, <1>4, <1>6 DEF image_, inertial
<1>9. /\ b' \in Seq(Stars) /\ r' \in Seq(Int) /\ b_answers' \in Seq(Answers)
      /\ Len(b') = Len(image_) /\ Len(r') = Len(b') /\ Len(b_answers') = Len(b_answers)
      /\ \A x \in 1 .. Len(b') : IF b'[x].of = NO_LABEL THEN r'[x] <= NO_LABEL ELSE r'[x] = b'[x].of
  BY <1>1, <1>6, <1>7, <1>8, ShuffleAligned
<1>10. TypeOK'
  BY <1>9 DEF IInv, TypeOK, remove_light, AddNoise, loops
<1>11. SizeInv'
  BY <1>1, <1>8, <1>9 DEF SizeInv, remove_light, AddNoise, loops
<1>12. Aligned'
  BY <1>1, <1>9 DEF Aligned, remove_light, AddNoise, loops
<1> QED BY <1>10, <1>11, <1>12 DEF IInv

LEMMA IdentifyInv == ASSUME IInv, identify PROVE IInv'
<1> USE DEF identify, image
<1>1. error' \in {0, -1, -2} /\ UNCHANGED <<i, j, b, r, b_answers>> /\ pc' = "loop"
      /\ k' = k + 1 /\ logged' = logged + 1
  OBVIOUS
<1>2. TypeOK'
  BY <1>1 DEF IInv, TypeOK
<1>3. SizeInv'
  BY <1>1 DEF IInv, SizeInv
<1>4. Aligned'
  BY <1>1 DEF IInv, Aligned
<1> QED BY <1>2, <1>3, <1>4 DEF IInv

\* The lists are typed, aligned, and have room for noise that is due.
THEOREM Invariance == Spec => []IInv
<1>1. Init => IInv
  BY InitInv
<1>2. IInv /\ [Next]_vars => IInv'
  BY StutterInv, BuildInv, LoopInv, GenerateInv, ShiftInv, AddInv, RemoveInv, IdentifyInv DEF Next, Step, Finished
<1> QED BY <1>1, <1>2, PTL DEF Spec

\* Type correctness.
THEOREM TypeCorrect == Spec => []TypeOK
<1>1. IInv => TypeOK
  BY DEF IInv
<1> QED BY <1>1, Invariance, PTL

\* The lists of the Benchmark are aligned at every moment of an experiment.
THEOREM AlignedCorrect == Spec => []Aligned
<1>1. IInv => Aligned
  BY DEF IInv
<1> QED BY <1>1, Invariance, PTL
----------------------------------------------------------------------------
(***************************************************************************)
(* What the rows say.  An image is noised as its row will tell: its real   *)
(* stars occur once and are in the answer key, and so many stars are       *)
(* false.  A shuffle changes none of this.                                 *)
(***************************************************************************)

FalseStars(im) == {x \in 1 .. Len(im) : im[x].of = NO_LABEL}

Once(im) == \A x, y \in 1 .. Len(im) : im[x].of # NO_LABEL /\ im[x].of = im[y].of => x = y

KeyOnce(ans) == \A x, y \in 1 .. Len(ans) : ans[x].label = ans[y].label => x = y

\* The stars of the image are in the key, where they are if nothing was moved.
Keyed(im, ans, unmoved) ==
    \A x \in 1 .. Len(im) : im[x].of # NO_LABEL =>
        \E a \in 1 .. Len(ans) : ans[a].label = im[x].of /\ (unmoved => ans[a].place = im[x].place)

Noised(im, ans, unmoved, n) ==
    Once(im) /\ KeyOnce(ans) /\ Keyed(im, ans, unmoved) /\ Cardinality(FalseStars(im)) = n

\* An injection of a finite set into another bounds its cardinality.
LEMMA InjectionBound ==
    ASSUME NEW S, NEW T, IsFiniteSet(T), NEW f \in [S -> T], \A x, y \in S : f[x] = f[y] => x = y
    PROVE  IsFiniteSet(S) /\ Cardinality(S) <= Cardinality(T)
<1>1. f \in Injection(S, T)
  BY DEF Injection, IsInjective
<1> QED BY <1>1, FS_Injection

\* A permutation reaches every index.
LEMMA PermutesOnto ==
    ASSUME NEW n \in Nat, NEW f \in [1 .. n -> 1 .. n], \A x, y \in 1 .. n : f[x] = f[y] => x = y
    PROVE  \A y \in 1 .. n : \E x \in 1 .. n : f[x] = y
<1>1. f \in Injection(1 .. n, 1 .. n)
  BY DEF Injection, IsInjective
<1>2. IsFiniteSet(1 .. n)
  <2>1. 1 \in Int /\ n \in Int
    OBVIOUS
  <2> QED BY <2>1, FS_Interval
<1> DEFINE S == 1 .. n
<1>3. f \in Surjection(S, S)
  <2>1. f \in Injection(S, S) /\ IsFiniteSet(S)
    BY <1>1, <1>2
  <2> HIDE DEF S
  <2>2. Cardinality(S) = Cardinality(S) <=> f \in Surjection(S, S)
    BY <2>1, FS_Injection
  <2> QED BY <2>2
<1> QED BY <1>3 DEF S, Surjection

LEMMA EnginePermutes ==
    ASSUME NEW e \in Engines, NEW n \in 0 .. MaxStars
    PROVE  /\ e[n] \in [1 .. n -> 1 .. n]
           /\ \A x, y \in 1 .. n : e[n][x] = e[n][y] => x = y
           /\ \A y \in 1 .. n : \E x \in 1 .. n : e[n][x] = y
<1> DEFINE f == e[n]
<1>1. Permutes(f, n) /\ n \in Nat
  OBVIOUS
<1> HIDE DEF f
<1>2. f \in [1 .. n -> 1 .. n] /\ \A x, y \in 1 .. n : f[x] = f[y] => x = y
  BY <1>1 DEF Permutes
<1>3. \A y \in 1 .. n : \E x \in 1 .. n : f[x] = y
  BY <1>1, <1>2, PermutesOnto
<1> QED BY <1>2, <1>3 DEF f

\* t holds what s holds, in the order p.
Renumbered(s, t, p) ==
    /\ Len(t) = Len(s) /\ p \in [1 .. Len(s) -> 1 .. Len(s)]
    /\ \A x, y \in 1 .. Len(s) : p[x] = p[y] => x = y
    /\ \A y \in 1 .. Len(s) : \E x \in 1 .. Len(s) : p[x] = y
    /\ \A x \in 1 .. Len(s) : t[x] = s[p[x]]

LEMMA PermutedRenumbers ==
    ASSUME NEW S, NEW s \in Seq(S), Len(s) <= MaxStars, NEW e \in Engines
    PROVE  Permuted(s, e) \in Seq(S) /\ Renumbered(s, Permuted(s, e), e[Len(s)])
<1>1. Len(s) \in 0 .. MaxStars
  OBVIOUS
<1>2. Permuted(s, e) \in Seq(S) /\ Len(Permuted(s, e)) = Len(s)
      /\ \A x \in 1 .. Len(s) : Permuted(s, e)[x] = s[e[Len(s)][x]]
  BY PermutedSequence
<1> QED BY <1>1, <1>2, EnginePermutes DEF Renumbered

\* A shuffle renumbers the stars of the image and those of the key.
LEMMA ShuffleRenumbers ==
    ASSUME NEW image_ \in Seq(Stars), NEW inertial \in Seq(Int), NEW answers \in Seq(Answers),
           Len(image_) <= MaxStars, Len(answers) <= MaxStars,
           shuffle(image_, inertial, answers)
    PROVE  /\ b' \in Seq(Stars) /\ b_answers' \in Seq(Answers)
           /\ \E p, q : /\ Renumbered(image_, b', p) /\ Renumbered(answers, b_answers', q)
                        /\ Len(image_) = Len(answers) => p = q
<1>1. PICK e \in Engines : b' = Permuted(image_, e) /\ b_answers' = Permuted(answers, e)
  BY DEF shuffle
<1>2. b' \in Seq(Stars) /\ Renumbered(image_, b', e[Len(image_)])
  BY <1>1, PermutedRenumbers
<1>3. b_answers' \in Seq(Answers) /\ Renumbered(answers, b_answers', e[Len(answers)])
  BY <1>1, PermutedRenumbers
<1>4. Len(image_) = Len(answers) => e[Len(image_)] = e[Len(answers)]
  OBVIOUS
<1> QED BY <1>2, <1>3, <1>4

\* A renumbered image is noised as it was.
LEMMA RenumberedNoised ==
    ASSUME NEW im \in Seq(Stars), NEW ans \in Seq(Answers), NEW im2 \in Seq(Stars), NEW ans2 \in Seq(Answers),
           NEW p, NEW q, Renumbered(im, im2, p), Renumbered(ans, ans2, q),
           NEW unmoved, NEW n, Noised(im, ans, unmoved, n)
    PROVE  Noised(im2, ans2, unmoved, n)
<1>0. /\ Len(im2) = Len(im)
      /\ \A x \in 1 .. Len(im) : p[x] \in 1 .. Len(im) /\ im2[x] = im[p[x]]
      /\ \A x, y \in 1 .. Len(im) : p[x] = p[y] => x = y
      /\ \A y \in 1 .. Len(im) : \E x \in 1 .. Len(im) : p[x] = y
  BY DEF Renumbered
<1>9. /\ Len(ans2) = Len(ans)
      /\ \A x \in 1 .. Len(ans) : q[x] \in 1 .. Len(ans) /\ ans2[x] = ans[q[x]]
      /\ \A x, y \in 1 .. Len(ans) : q[x] = q[y] => x = y
      /\ \A y \in 1 .. Len(ans) : \E x \in 1 .. Len(ans) : q[x] = y
  BY DEF Renumbered
<1>1. Once(im2)
  <2> SUFFICES ASSUME NEW x \in 1 .. Len(im), NEW y \in 1 .. Len(im), im2[x].of # NO_LABEL, im2[x].of = im2[y].of
               PROVE  x = y
    BY <1>0 DEF Once
  <2>1. p[x] \in 1 .. Len(im) /\ p[y] \in 1 .. Len(im) /\ im2[x] = im[p[x]] /\ im2[y] = im[p[y]]
    BY <1>0
  <2>2. p[x] = p[y]
    BY <2>1 DEF Noised, Once
  <2> QED BY <1>0, <2>2
<1>2. KeyOnce(ans2)
  <2> SUFFICES ASSUME NEW x \in 1 .. Len(ans), NEW y \in 1 .. Len(ans), ans2[x].label = ans2[y].label
               PROVE  x = y
    BY <1>9 DEF KeyOnce
  <2>1. q[x] \in 1 .. Len(ans) /\ q[y] \in 1 .. Len(ans) /\ ans2[x] = ans[q[x]] /\ ans2[y] = ans[q[y]]
    BY <1>9
  <2>2. q[x] = q[y]
    BY <2>1 DEF Noised, KeyOnce
  <2> QED BY <1>9, <2>2
<1>3. Keyed(im2, ans2, unmoved)
  <2> SUFFICES ASSUME NEW x \in 1 .. Len(im2), im2[x].of # NO_LABEL
               PROVE  \E a \in 1 .. Len(ans2) : ans2[a].label = im2[x].of /\ (unmoved => ans2[a].place = im2[x].place)
    BY DEF Keyed
  <2>1. p[x] \in 1 .. Len(im) /\ im2[x] = im[p[x]]
    BY <1>0
  <2>2. PICK a \in 1 .. Len(ans) : ans[a].label = im2[x].of /\ (unmoved => ans[a].place = im2[x].place)
    BY <2>1 DEF Noised, Keyed
  <2>3. PICK c \in 1 .. Len(ans) : q[c] = a
    BY <1>9, <2>2
  <2>4. c \in 1 .. Len(ans2) /\ ans2[c] = ans[a]
    BY <1>9, <2>3
  <2> QED BY <2>2, <2>4
<1>4. Cardinality(FalseStars(im2)) = Cardinality(FalseStars(im))
  <2> DEFINE S == FalseStars(im2)
             T == FalseStars(im)
             f == [x \in S |-> p[x]]
  <2>1. f \in [S -> T] /\ \A x, y \in S : f[x] = f[y] => x = y
    BY <1>0 DEF FalseStars
  <2>2. \A t \in T : \E x \in S : f[x] = t
    <3> TAKE t \in T
    <3>1. t \in 1 .. Len(im) /\ im[t].of = NO_LABEL
      BY DEF FalseStars
    <3>2. PICK x \in 1 .. Len(im) : p[x] = t
      BY <1>0, <3>1
    <3>3. x \in S
      BY <1>0, <3>1, <3>2 DEF FalseStars
    <3> QED BY <3>2, <3>3
  <2>3. IsFiniteSet(S)
    <3>1. 1 \in Int /\ Len(im2) \in Int
      OBVIOUS
    <3>2. IsFiniteSet(1 .. Len(im2)) /\ S \in SUBSET (1 .. Len(im2))
      BY <3>1, FS_Interval DEF FalseStars
    <3> QED BY <3>2, FS_Subset
  <2> HIDE DEF S, T, f
  <2>4. f \in Bijection(S, T)
    BY <2>1, <2>2 DEF Bijection, Injection, Surjection, IsInjective
  <2>5. Cardinality(T) = Cardinality(S)
    BY <2>3, <2>4, FS_Bijection DEF ExistsBijection
  <2> QED BY <2>5 DEF S, T
<1> QED BY <1>1, <1>2, <1>3, <1>4 DEF Noised

----------------------------------------------------------------------------

Unmoved == i # 0 \/ Noise = 0
Added == IF i = 1 THEN Noise ELSE 0

\* The image after its noise.
ImageNoised ==
    /\ i < 3 /\ Noised(b, b_answers, Unmoved, Added)
    /\ i # 2 \/ Noise = 0 => Len(b) = Len(b_answers) + Added

\* The row as identify writes it.
RowWritten ==
    /\ row.shift = (IF i = 0 THEN Noise ELSE 0)
    /\ row.false = Added
    /\ row.removed = (IF i = 2 THEN Noise ELSE 0)
    /\ row.correct = (IF error = 0 THEN Cardinality(correct(result)) ELSE 0)
    /\ row.size = Cardinality(DOMAIN result)
    /\ DOMAIN result \subseteq 1 .. Len(b) /\ \A x \in DOMAIN result : result[x] \in Labels

\* An image as it is drawn is its answer key.
ImageDrawn ==
    /\ KeyOnce(b_answers)
    /\ \A x \in 1 .. Len(b) : /\ b[x].of \in Labels
                              /\ b_answers[x].label = b[x].of /\ b_answers[x].place = b[x].place

MInv ==
    /\ pc = "build" => k = 0
    /\ pc = "noise" => ImageDrawn
    /\ pc = "identify" \/ JustLogged => ImageNoised
    /\ JustLogged => RowWritten

LEMMA GenerateNoised == ASSUME generate_stars PROVE MInv'
<1>1. PICK g : /\ g \in Seq(Answers) /\ Len(g) + iters[1] * EsStep <= MaxStars
               /\ \A x, y \in 1 .. Len(g) : g[x].label = g[y].label => x = y
               /\ shuffle(Imaged(g), LabelsOf(g), g)
  BY DrawnField DEF generate_stars, NO_N
<1>2. /\ Len(g) <= MaxStars /\ DOMAIN g = 1 .. Len(g)
      /\ \A x \in 1 .. Len(g) : g[x].label \in Labels /\ g[x].place \in Places
  <2>1. Len(g) <= MaxStars /\ DOMAIN g = 1 .. Len(g)
    BY <1>1
  <2>2. \A x \in 1 .. Len(g) : g[x] \in Answers
    BY <1>1
  <2> QED BY <2>1, <2>2 DEF Answers
<1>3. /\ Imaged(g) \in Seq(Stars) /\ Len(Imaged(g)) = Len(g)
      /\ \A x \in 1 .. Len(g) : Imaged(g)[x].of = g[x].label /\ Imaged(g)[x].place = g[x].place
  <2>1. Imaged(g) = [x \in 1 .. Len(g) |-> [place |-> g[x].place, of |-> g[x].label]]
    BY <1>2 DEF Imaged
  <2>2. \A x \in 1 .. Len(g) : [place |-> g[x].place, of |-> g[x].label] \in Stars
    BY <1>2 DEF Stars
  <2>3. Imaged(g) \in Seq(Stars) /\ Len(Imaged(g)) = Len(g)
    BY <1>1, <2>1, <2>2
  <2> QED BY <2>1, <2>3
<1>4. LabelsOf(g) \in Seq(Int)
  BY <1>1, KeyLabels
<1>5. PICK p, q : /\ Renumbered(Imaged(g), b', p) /\ Renumbered(g, b_answers', q)
                  /\ Len(Imaged(g)) = Len(g) => p = q
  BY <1>1, <1>2, <1>3, <1>4, ShuffleRenumbers
<1>6. /\ Len(b') = Len(g) /\ Len(b_answers') = Len(g)
      /\ \A x \in 1 .. Len(g) : p[x] \in 1 .. Len(g) /\ b'[x] = Imaged(g)[p[x]] /\ b_answers'[x] = g[p[x]]
      /\ \A x, y \in 1 .. Len(g) : p[x] = p[y] => x = y
  BY <1>3, <1>5 DEF Renumbered
<1>7. KeyOnce(b_answers')
  <2> SUFFICES ASSUME NEW x \in 1 .. Len(g), NEW y \in 1 .. Len(g), b_answers'[x].label = b_answers'[y].label
               PROVE  x = y
    BY <1>6 DEF KeyOnce
  <2>1. /\ p[x] \in 1 .. Len(g) /\ p[y] \in 1 .. Len(g)
        /\ b_answers'[x] = g[p[x]] /\ b_answers'[y] = g[p[y]]
    BY <1>6
  <2>2. p[x] = p[y]
    BY <1>1, <2>1
  <2> QED BY <1>6, <2>2
<1>8. \A x \in 1 .. Len(b') : /\ b'[x].of \in Labels
                              /\ b_answers'[x].label = b'[x].of /\ b_answers'[x].place = b'[x].place
  <2> TAKE x \in 1 .. Len(b')
  <2>1. p[x] \in 1 .. Len(g) /\ b'[x] = Imaged(g)[p[x]] /\ b_answers'[x] = g[p[x]]
    BY <1>6
  <2> QED BY <1>2, <1>3, <2>1
<1>9. ImageDrawn'
  BY <1>7, <1>8 DEF ImageDrawn, KeyOnce
<1> QED BY <1>9 DEF MInv, JustLogged, generate_stars

\* The image that noise is added to.
LEMMA NoiseBegins ==
    ASSUME IInv, MInv, pc = "noise"
    PROVE  /\ b \in Seq(Stars) /\ r \in Seq(Int) /\ b_answers \in Seq(Answers) /\ DOMAIN b = 1 .. Len(b)
           /\ Len(r) = Len(b) /\ Len(b_answers) = Len(b) /\ Len(b) + iters[1] * EsStep <= MaxStars
           /\ Len(b) <= MaxStars /\ i \in 0 .. 2 /\ j \in Nat /\ j < iters[i]
           /\ KeyOnce(b_answers) /\ Once(b)
           /\ \A x \in 1 .. Len(b) : /\ b[x].of \in Labels /\ b[x].of # NO_LABEL
                                     /\ b_answers[x].label = b[x].of /\ b_answers[x].place = b[x].place
<1>1. /\ b \in Seq(Stars) /\ r \in Seq(Int) /\ b_answers \in Seq(Answers) /\ DOMAIN b = 1 .. Len(b)
      /\ Len(r) = Len(b) /\ Len(b_answers) = Len(b) /\ Len(b) + iters[1] * EsStep <= MaxStars
      /\ Len(b) <= MaxStars /\ i \in 0 .. 2 /\ j \in Nat /\ j < iters[i]
  BY DEF IInv, TypeOK, SizeInv, Aligned
<1>2. KeyOnce(b_answers) /\ \A x \in 1 .. Len(b) : /\ b[x].of \in Labels /\ b[x].of # NO_LABEL
                                     /\ b_answers[x].label = b[x].of /\ b_answers[x].place = b[x].place
  BY LabelsAssumption DEF MInv, ImageDrawn
<1>3. Once(b)
  <2> SUFFICES ASSUME NEW x \in 1 .. Len(b), NEW y \in 1 .. Len(b), b[x].of = b[y].of
               PROVE  x = y
    BY DEF Once
  <2>1. b_answers[x].label = b_answers[y].label /\ x \in 1 .. Len(b_answers) /\ y \in 1 .. Len(b_answers)
    BY <1>1, <1>2
  <2> QED BY <1>2, <2>1 DEF KeyOnce
<1> QED BY <1>1, <1>2, <1>3

\* No star is false.
LEMMA NoneFalse ==
    ASSUME NEW im, \A x \in 1 .. Len(im) : im[x].of # NO_LABEL
    PROVE  Cardinality(FalseStars(im)) = 0
<1>1. FalseStars(im) = {}
  BY DEF FalseStars
<1>2. Cardinality({}) = 0
  BY FS_EmptySet
<1> QED BY <1>1, <1>2

\* After its noise, an image waits to be identified.
LEMMA NoiseEnds ==
    ASSUME AddNoise, i < 3,
           NEW image_ \in Seq(Stars), NEW inertial \in Seq(Int), b_answers \in Seq(Answers),
           Len(image_) <= MaxStars, Len(b_answers) <= MaxStars, shuffle(image_, inertial, b_answers),
           Noised(image_, b_answers, Unmoved, Added),
           i # 2 \/ Noise = 0 => Len(image_) = Len(b_answers) + Added
    PROVE  MInv'
<1>1. PICK p, q : /\ b' \in Seq(Stars) /\ b_answers' \in Seq(Answers)
                  /\ Renumbered(image_, b', p) /\ Renumbered(b_answers, b_answers', q)
  BY ShuffleRenumbers
<1>2. Noised(b', b_answers', Unmoved, Added)
  BY <1>1, RenumberedNoised
<1>3. Len(b') = Len(image_) /\ Len(b_answers') = Len(b_answers)
  BY <1>1 DEF Renumbered
<1>4. i' = i /\ j' = j /\ pc' = "identify"
  BY DEF AddNoise, loops
<1>5. Noise' = Noise
  BY <1>4 DEF Noise, ep, using_extra_star_parameters
<1>6. Unmoved' = Unmoved /\ Added' = Added
  BY <1>4, <1>5 DEF Unmoved, Added
<1>7. ImageNoised'
  <2>1. Noised(b, b_answers, Unmoved, Added)'
    BY <1>2, <1>6 DEF Noised, Once, KeyOnce, Keyed, FalseStars
  <2>2. i' < 3 /\ (i' # 2 \/ Noise' = 0 => Len(b') = Len(b_answers') + Added')
    BY <1>3, <1>4, <1>5, <1>6
  <2> QED BY <2>1, <2>2 DEF ImageNoised
<1> QED BY <1>4, <1>7 DEF MInv, JustLogged

LEMMA ShiftNoised == ASSUME IInv, MInv, shift_light PROVE MInv'
<1>1. PICK moved \in [DOMAIN b -> Places] :
        /\ Noise = 0 => \A x \in DOMAIN b : moved[x] = b[x].place
        /\ shuffle([x \in DOMAIN b |-> [b[x] EXCEPT !.place = moved[x]]], r, b_answers)
  BY DEF shift_light
<1> DEFINE image_ == [x \in DOMAIN b |-> [b[x] EXCEPT !.place = moved[x]]]
<1>2. pc = "noise" /\ i = 0 /\ AddNoise
  BY DEF shift_light, AddNoise
<1>3. /\ b \in Seq(Stars) /\ r \in Seq(Int) /\ b_answers \in Seq(Answers) /\ DOMAIN b = 1 .. Len(b)
      /\ Len(r) = Len(b) /\ Len(b_answers) = Len(b) /\ Len(b) <= MaxStars /\ KeyOnce(b_answers) /\ Once(b)
      /\ \A x \in 1 .. Len(b) : /\ b[x].of \in Labels /\ b[x].of # NO_LABEL
                                /\ b_answers[x].label = b[x].of /\ b_answers[x].place = b[x].place
  BY <1>2, NoiseBegins
<1>4. \A x \in 1 .. Len(b) : /\ image_[x] \in Stars /\ image_[x].of = b[x].of
                             /\ Noise = 0 => image_[x].place = b[x].place
  <2> TAKE x \in 1 .. Len(b)
  <2>1. /\ b[x] \in Stars /\ moved[x] \in Places /\ image_[x] = [b[x] EXCEPT !.place = moved[x]]
        /\ Noise = 0 => moved[x] = b[x].place
    BY <1>1, <1>3
  <2> QED BY <2>1 DEF Stars
<1>5. image_ \in Seq(Stars) /\ Len(image_) = Len(b)
  BY <1>3, <1>4
<1>6. shuffle(image_, r, b_answers)
  BY <1>1
<1> HIDE DEF image_
<1>7. Noised(image_, b_answers, Unmoved, Added)
  <2>1. Added = 0 /\ (Unmoved => Noise = 0)
    BY <1>2 DEF Added, Unmoved
  <2>2. Once(image_)
    BY <1>3, <1>4, <1>5 DEF Once
  <2>3. Keyed(image_, b_answers, Unmoved)
    BY <1>3, <1>4, <1>5, <2>1 DEF Keyed
  <2>4. Cardinality(FalseStars(image_)) = 0
    BY <1>3, <1>4, <1>5, NoneFalse
  <2> QED BY <1>3, <2>1, <2>2, <2>3, <2>4 DEF Noised
<1>8. Len(image_) = Len(b_answers) + Added
  BY <1>2, <1>3, <1>5 DEF Added
<1> QED BY <1>2, <1>3, <1>5, <1>6, <1>7, <1>8, NoiseEnds

LEMMA RemoveNoised == ASSUME IInv, MInv, remove_light PROVE MInv'
<1>1. pc = "noise" /\ i = 2 /\ AddNoise
  BY DEF remove_light, AddNoise
<1>2. /\ b \in Seq(Stars) /\ r \in Seq(Int) /\ b_answers \in Seq(Answers) /\ DOMAIN b = 1 .. Len(b)
      /\ Len(r) = Len(b) /\ Len(b_answers) = Len(b) /\ Len(b) <= MaxStars /\ KeyOnce(b_answers) /\ Once(b)
      /\ \A x \in 1 .. Len(b) : /\ b[x].of \in Labels /\ b[x].of # NO_LABEL
                                /\ b_answers[x].label = b[x].of /\ b_answers[x].place = b[x].place
  BY <1>1, NoiseBegins
<1>3. PICK kept \in SUBSET (1 .. Len(b)) :
        /\ Noise = 0 => kept = 1 .. Len(b)
        /\ \E order \in [1 .. Cardinality(kept) -> kept] :
             /\ \A x, y \in DOMAIN order : x < y => order[x] < order[y]
             /\ shuffle([x \in DOMAIN order |-> b[order[x]]], [x \in DOMAIN order |-> r[order[x]]], b_answers)
  <2>1. PICK blobs \in [1 .. Noise -> Places] :
          LET K == {x \in DOMAIN b : \A n \in 1 .. Noise : Distance(blobs[n], b[x].place) >= Psi} IN
          \E order \in [1 .. Cardinality(K) -> K] :
             /\ \A x, y \in DOMAIN order : x < y => order[x] < order[y]
             /\ shuffle([x \in DOMAIN order |-> b[order[x]]], [x \in DOMAIN order |-> r[order[x]]], b_answers)
    BY DEF remove_light
  <2> DEFINE K == {x \in DOMAIN b : \A n \in 1 .. Noise : Distance(blobs[n], b[x].place) >= Psi}
  <2>2. K \in SUBSET (1 .. Len(b))
    BY <1>2
  <2>3. Noise = 0 => K = 1 .. Len(b)
    <3>1. ASSUME Noise = 0 PROVE 1 .. Noise = {}
      BY <3>1
    <3> QED BY <1>2, <3>1
  <2>4. \E order \in [1 .. Cardinality(K) -> K] :
             /\ \A x, y \in DOMAIN order : x < y => order[x] < order[y]
             /\ shuffle([x \in DOMAIN order |-> b[order[x]]], [x \in DOMAIN order |-> r[order[x]]], b_answers)
    BY <2>1
  <2> HIDE DEF K
  <2> QED BY <2>2, <2>3, <2>4
<1> DEFINE m == Cardinality(kept)
<1>4. IsFiniteSet(1 .. Len(b)) /\ Cardinality(1 .. Len(b)) = Len(b)
  <2> DEFINE n == Len(b)
  <2>1. n \in Nat /\ n \in Int /\ 1 \in Int
    BY <1>2
  <2> HIDE DEF n
  <2>2. IsFiniteSet(1 .. n) /\ Cardinality(1 .. n) = IF 1 > n THEN 0 ELSE n - 1 + 1
    BY <2>1, FS_Interval
  <2> QED BY <2>1, <2>2 DEF n
<1>5. m \in Nat /\ m <= Len(b) /\ (Noise = 0 => m = Len(b))
  <2>1. IsFiniteSet(kept) /\ m <= Cardinality(1 .. Len(b))
    BY <1>4, FS_Subset
  <2>2. m \in Nat
    BY <2>1, FS_CardinalityType
  <2> QED BY <1>3, <1>4, <2>1, <2>2
<1> HIDE DEF m
<1>6. PICK order \in [1 .. m -> kept] :
        /\ \A x, y \in 1 .. m : x < y => order[x] < order[y]
        /\ shuffle([x \in 1 .. m |-> b[order[x]]], [x \in 1 .. m |-> r[order[x]]], b_answers)
  BY <1>3 DEF m
<1> DEFINE image_ == [x \in 1 .. m |-> b[order[x]]]
           inertial == [x \in 1 .. m |-> r[order[x]]]
<1>7. /\ \A x \in 1 .. m : order[x] \in 1 .. Len(b)
      /\ \A x, y \in 1 .. m : order[x] = order[y] => x = y
  <2>1. \A x \in 1 .. m : order[x] \in 1 .. Len(b)
    BY <1>6
  <2>2. ASSUME NEW x \in 1 .. m, NEW y \in 1 .. m, order[x] = order[y] PROVE x = y
    <3>1. ~(x < y) /\ ~(y < x)
      BY <1>6, <2>1, <2>2
    <3> QED BY <1>5, <3>1
  <2> QED BY <2>1, <2>2
<1>8. image_ \in Seq(Stars) /\ Len(image_) = m
  <2>1. m \in Nat /\ b \in Seq(Stars) /\ \A x \in 1 .. m : order[x] \in 1 .. Len(b)
    BY <1>2, <1>5, <1>7
  <2> QED BY <2>1, Picked
<1>9. inertial \in Seq(Int) /\ Len(inertial) = m
  <2>1. m \in Nat /\ r \in Seq(Int) /\ \A x \in 1 .. m : order[x] \in 1 .. Len(r)
    BY <1>2, <1>5, <1>7
  <2> QED BY <2>1, Picked
<1>10. \A x \in 1 .. m : image_[x] = b[order[x]]
  OBVIOUS
<1>11. shuffle(image_, inertial, b_answers)
  BY <1>6
<1> HIDE DEF image_, inertial
<1>12. Noised(image_, b_answers, Unmoved, Added)
  <2>1. Added = 0
    BY <1>1 DEF Added
  <2>2. Once(image_)
    BY <1>2, <1>7, <1>8, <1>10 DEF Once
  <2>3. Keyed(image_, b_answers, Unmoved)
    <3> SUFFICES ASSUME NEW x \in 1 .. m
                 PROVE  \E a \in 1 .. Len(b_answers) : /\ b_answers[a].label = image_[x].of
                                                       /\ b_answers[a].place = image_[x].place
      BY <1>8 DEF Keyed
    <3>1. order[x] \in 1 .. Len(b) /\ image_[x] = b[order[x]]
      BY <1>7, <1>10
    <3> QED BY <1>2, <3>1
  <2>4. Cardinality(FalseStars(image_)) = 0
    <3>1. \A x \in 1 .. Len(image_) : image_[x].of # NO_LABEL
      BY <1>2, <1>7, <1>8, <1>10
    <3> QED BY <3>1, NoneFalse
  <2> QED BY <1>2, <2>1, <2>2, <2>3, <2>4 DEF Noised
<1>13. i < 3 /\ Len(image_) <= MaxStars /\ Len(b_answers) <= MaxStars
  BY <1>1, <1>2, <1>5, <1>8
<1>14. i # 2 \/ Noise = 0 => Len(image_) = Len(b_answers) + Added
  <2>1. Added = 0 /\ i = 2
    BY <1>1 DEF Added
  <2>2. ASSUME Noise = 0 PROVE Len(image_) = Len(b_answers)
    BY <1>2, <1>5, <1>8, <2>2
  <2>3. Len(b_answers) + 0 = Len(b_answers)
    BY <1>2
  <2> QED BY <2>1, <2>2, <2>3
<1> QED BY <1>1, <1>2, <1>8, <1>9, <1>11, <1>12, <1>13, <1>14, NoiseEnds

LEMMA AddNoised == ASSUME IInv, MInv, add_extra_light PROVE MInv'
<1>1. PICK places \in [1 .. Noise -> Places] :
        shuffle(b \o [x \in 1 .. Noise |-> [place |-> places[x], of |-> NO_LABEL]],
                r \o [x \in 1 .. Noise |-> 1 - x], b_answers)
  BY DEF add_extra_light
<1>2. pc = "noise" /\ i = 1 /\ AddNoise
  BY DEF add_extra_light, AddNoise
<1>3. /\ b \in Seq(Stars) /\ r \in Seq(Int) /\ b_answers \in Seq(Answers) /\ DOMAIN b = 1 .. Len(b)
      /\ Len(r) = Len(b) /\ Len(b_answers) = Len(b) /\ Len(b) + iters[1] * EsStep <= MaxStars
      /\ Len(b) <= MaxStars /\ KeyOnce(b_answers) /\ Once(b) /\ j \in Nat /\ j < iters[1]
      /\ \A x \in 1 .. Len(b) : /\ b[x].of \in Labels /\ b[x].of # NO_LABEL
                                /\ b_answers[x].label = b[x].of /\ b_answers[x].place = b[x].place
  BY <1>2, NoiseBegins
<1> DEFINE false == [x \in 1 .. Noise |-> [place |-> places[x], of |-> NO_LABEL]]
           labels == [x \in 1 .. Noise |-> 1 - x]
           image_ == b \o false
           inertial == r \o labels
<1>4. Noise \in Nat /\ Noise <= iters[1] * EsStep /\ iters[1] * EsStep \in Nat
  BY <1>2, <1>3, NoiseTyping
<1>5. false \in Seq(Stars) /\ Len(false) = Noise /\ \A x \in 1 .. Noise : false[x].of = NO_LABEL
  BY <1>4 DEF Stars
<1>6. labels \in Seq(Int)
  BY <1>4
<1>7. shuffle(image_, inertial, b_answers)
  BY <1>1
<1> HIDE DEF false, labels
<1>8. /\ image_ \in Seq(Stars) /\ Len(image_) = Len(b) + Noise
      /\ \A x \in 1 .. Len(b) : image_[x] = b[x]
      /\ \A y \in 1 .. Noise : image_[Len(b) + y] = false[y]
  <2>1. b \in Seq(Stars) /\ false \in Seq(Stars)
    BY <1>3, <1>5
  <2>2. /\ image_ \in Seq(Stars) /\ Len(image_) = Len(b) + Len(false)
        /\ \A x \in 1 .. Len(b) : image_[x] = b[x]
        /\ \A y \in 1 .. Len(false) : image_[Len(b) + y] = false[y]
    BY <2>1
  <2> QED BY <1>5, <2>2
<1>9. inertial \in Seq(Int)
  BY <1>3, <1>6
<1> HIDE DEF image_, inertial
<1>10. \A x \in 1 .. Len(image_) : image_[x].of = NO_LABEL <=> x > Len(b)
  <2> TAKE x \in 1 .. Len(image_)
  <2>1. CASE x <= Len(b)
    <3>1. x \in 1 .. Len(b) /\ image_[x] = b[x]
      BY <1>3, <1>8, <2>1
    <3> QED BY <1>3, <2>1, <3>1
  <2>2. CASE x > Len(b)
    <3>1. x - Len(b) \in 1 .. Noise /\ x = Len(b) + (x - Len(b))
      BY <1>3, <1>4, <1>8, <2>2
    <3>2. PICK y \in 1 .. Noise : x = Len(b) + y
      BY <3>1
    <3>3. image_[Len(b) + y] = false[y] /\ false[y].of = NO_LABEL
      BY <1>5, <1>8
    <3> QED BY <2>2, <3>2, <3>3
  <2> QED BY <1>3, <1>8, <2>1, <2>2
<1>11. Noised(image_, b_answers, Unmoved, Added)
  <2>1. \A x \in 1 .. Len(image_) : image_[x].of # NO_LABEL => x \in 1 .. Len(b) /\ image_[x] = b[x]
    <3> TAKE x \in 1 .. Len(image_)
    <3>1. ASSUME image_[x].of # NO_LABEL PROVE x \in 1 .. Len(b)
      BY <1>3, <1>8, <1>10, <3>1
    <3> QED BY <1>8, <3>1
  <2>2. Once(image_)
    <3> SUFFICES ASSUME NEW x \in 1 .. Len(image_), NEW y \in 1 .. Len(image_),
                        image_[x].of # NO_LABEL, image_[x].of = image_[y].of
                 PROVE  x = y
      BY DEF Once
    <3>1. x \in 1 .. Len(b) /\ y \in 1 .. Len(b) /\ b[x].of = b[y].of /\ b[x].of # NO_LABEL
      BY <2>1
    <3> QED BY <1>3, <3>1 DEF Once
  <2>3. Keyed(image_, b_answers, Unmoved)
    <3> SUFFICES ASSUME NEW x \in 1 .. Len(image_), image_[x].of # NO_LABEL
                 PROVE  \E a \in 1 .. Len(b_answers) : /\ b_answers[a].label = image_[x].of
                                                       /\ b_answers[a].place = image_[x].place
      BY DEF Keyed
    <3>1. x \in 1 .. Len(b) /\ image_[x] = b[x]
      BY <2>1
    <3> QED BY <1>3, <3>1
  <2>4. Cardinality(FalseStars(image_)) = Noise
    <3> DEFINE lo == Len(b) + 1
               hi == Len(b) + Noise
    <3>1. lo \in Int /\ hi \in Int /\ hi - lo + 1 = Noise /\ (lo > hi => Noise = 0)
      BY <1>3, <1>4
    <3>2. FalseStars(image_) = lo .. hi
      <4>1. ASSUME NEW x \in 1 .. Len(image_), x > Len(b) PROVE x \in lo .. hi
        BY <1>3, <1>4, <1>8, <4>1
      <4>2. ASSUME NEW x \in lo .. hi PROVE x \in 1 .. Len(image_) /\ x > Len(b)
        BY <1>3, <1>4, <1>8
      <4> HIDE DEF lo, hi
      <4> QED BY <1>10, <4>1, <4>2 DEF FalseStars
    <3> HIDE DEF lo, hi
    <3>3. Cardinality(lo .. hi) = IF lo > hi THEN 0 ELSE hi - lo + 1
      BY <3>1, FS_Interval
    <3> QED BY <3>1, <3>2, <3>3
  <2>5. Added = Noise
    BY <1>2 DEF Added
  <2> QED BY <1>3, <2>2, <2>3, <2>4, <2>5 DEF Noised
<1>12. i < 3 /\ Len(image_) <= MaxStars /\ Len(b_answers) <= MaxStars
  BY <1>2, <1>3, <1>4, <1>8
<1>13. Len(image_) = Len(b_answers) + Added
  BY <1>2, <1>3, <1>8 DEF Added
<1> QED BY <1>2, <1>3, <1>7, <1>8, <1>9, <1>11, <1>12, <1>13, NoiseEnds

LEMMA IdentifyNoised == ASSUME IInv, MInv, identify PROVE MInv'
<1>1. /\ UNCHANGED <<i, j, b, b_answers>> /\ pc = "identify" /\ pc' = "loop"
      /\ b \in Seq(Stars) /\ DOMAIN b = 1 .. Len(b)
  BY DEF identify, image, IInv, TypeOK
<1>2. Noise' = Noise
  BY <1>1 DEF Noise, ep, using_extra_star_parameters
<1>3. ImageNoised'
  BY <1>1, <1>2 DEF MInv, ImageNoised, Unmoved, Added, Noised, Once, KeyOnce, Keyed, FalseStars
<1>4. DOMAIN result' \subseteq 1 .. Len(b) /\ \A x \in DOMAIN result' : result'[x] \in Labels
  <2>1. CASE result' = <<>>
    BY <2>1
  <2>2. CASE error' = 0 /\ \E found \in SUBSET (DOMAIN b) :
               Cardinality(found) \in 1 .. MaxResult /\ result' \in [found -> Labels]
    BY <1>1, <2>2
  <2> QED BY <2>1, <2>2 DEF identify
<1>5. /\ row'.shift = (IF i = 0 THEN Noise ELSE 0)
      /\ row'.false = (IF i = 1 THEN Noise ELSE 0)
      /\ row'.removed = (IF i = 2 THEN Noise ELSE 0)
      /\ row'.correct = (IF error' = 0 THEN Cardinality(correct(result')) ELSE 0)
      /\ row'.size = Cardinality(DOMAIN result')
  BY DEF identify
<1>6. correct(result)' = correct(result')
  BY <1>1 DEF correct
<1>7. RowWritten'
  BY <1>1, <1>2, <1>4, <1>5, <1>6 DEF RowWritten, Added
<1> QED BY <1>1, <1>3, <1>7 DEF MInv

LEMMA LoopNoised == ASSUME IInv, MInv, loop PROVE MInv'
<1>1. pc = "loop" /\ pc' \in {"loop", "done", "generate"} /\ k \in Nat
  BY DEF loop, IInv, TypeOK
<1>2. ~JustLogged'
  BY <1>1 DEF loop, JustLogged, loops
<1> QED BY <1>1, <1>2 DEF MInv

LEMMA BuildNoised == ASSUME MInv, build PROVE MInv'
  BY DEF MInv, build, loops, JustLogged

LEMMA StutterNoised == ASSUME MInv, UNCHANGED vars PROVE MInv'
<1>1. UNCHANGED <<pc, i, j, k, b, b_answers, error, result, row>>
  BY DEF vars, loops, image
<1>2. Noise' = Noise /\ correct(result)' = correct(result)
  BY <1>1 DEF Noise, ep, using_extra_star_parameters, correct
<1> QED BY <1>1, <1>2 DEF MInv, JustLogged, ImageDrawn, ImageNoised, RowWritten, Unmoved, Added,
                          Noised, Once, KeyOnce, Keyed, FalseStars

\* The image that was identified is noised as its row tells.
THEOREM NoiseInvariance == Spec => []MInv
<1>1. Init => MInv
  BY DEF Init, MInv, JustLogged
<1>2. IInv /\ MInv /\ [Next]_vars => MInv'
  BY StutterNoised, BuildNoised, LoopNoised, GenerateNoised, ShiftNoised, AddNoised, RemoveNoised, IdentifyNoised
     DEF Next, Step, Finished
<1> QED BY <1>1, <1>2, Invariance, PTL DEF Spec

\* The row of the last trial tells its noise.
LEMMA NoiseTold == ASSUME IInv, MInv, JustLogged PROVE RowTellsNoise
<1>1. /\ i \in 0 .. 2 /\ Noised(b, b_answers, Unmoved, Added)
      /\ i # 2 \/ Noise = 0 => Len(b) = Len(b_answers) + Added
      /\ b \in Seq(Stars) /\ DOMAIN b = 1 .. Len(b)
      /\ b_answers \in Seq(Answers) /\ DOMAIN b_answers = 1 .. Len(b_answers)
  BY DEF MInv, ImageNoised, IInv, TypeOK
<1>2. /\ row.shift = (IF i = 0 THEN Noise ELSE 0) /\ row.false = Added
      /\ row.removed = (IF i = 2 THEN Noise ELSE 0)
  BY DEF MInv, RowWritten
<1>3. Cardinality({x \in DOMAIN b : b[x].of = NO_LABEL}) = row.false
  BY <1>1, <1>2 DEF Noised, FalseStars
<1>4. row.removed = 0 => Len(b) = Len(b_answers) + row.false
  BY <1>1, <1>2
<1>5. row.shift = 0 => Unmoved
  BY <1>2 DEF Unmoved
<1>6. ASSUME row.shift = 0, NEW x \in DOMAIN b, b[x].of # NO_LABEL
      PROVE  \E a \in DOMAIN b_answers : b_answers[a] = [label |-> b[x].of, place |-> b[x].place]
  <2>1. PICK a \in 1 .. Len(b_answers) : b_answers[a].label = b[x].of /\ b_answers[a].place = b[x].place
    BY <1>1, <1>5, <1>6 DEF Noised, Keyed
  <2>2. b_answers[a] \in Answers
    BY <1>1
  <2>3. b_answers[a] = [label |-> b[x].of, place |-> b[x].place]
    BY <2>1, <2>2 DEF Answers
  <2> QED BY <1>1, <2>3
<1> QED BY <1>3, <1>4, <1>6 DEF RowTellsNoise

\* Two places in one field of view are near each other.
LEMMA PlacesNear == ASSUME NEW p \in Places, NEW q \in Places PROVE Near(p, q)
<1>1. HalfFov \in Nat /\ p \in Int /\ q \in Int /\ -HalfFov < p /\ p < HalfFov /\ -HalfFov < q /\ q < HalfFov
  BY DEF Places
<1> QED BY <1>1 DEF Near, Distance

\* Each answer found is one star of the result, and each star rightly labelled
\* is one answer found.
LEMMA Scored == ASSUME IInv, MInv, JustLogged PROVE ScoreFair
<1>1. /\ Noised(b, b_answers, Unmoved, Added)
      /\ b \in Seq(Stars) /\ DOMAIN b = 1 .. Len(b)
      /\ b_answers \in Seq(Answers) /\ DOMAIN b_answers = 1 .. Len(b_answers)
  BY DEF MInv, ImageNoised, IInv, TypeOK
<1>2. /\ row.correct = (IF error = 0 THEN Cardinality(correct(result)) ELSE 0)
      /\ row.size = Cardinality(DOMAIN result)
      /\ DOMAIN result \subseteq 1 .. Len(b) /\ \A x \in DOMAIN result : result[x] \in Labels
  BY DEF MInv, RowWritten
<1> DEFINE C == correct(result)
           D == DOMAIN result
<1>3. IsFiniteSet(D) /\ Cardinality(D) \in Nat
  <2>1. 1 \in Int /\ Len(b) \in Int
    BY <1>1
  <2>2. IsFiniteSet(1 .. Len(b)) /\ D \in SUBSET (1 .. Len(b))
    BY <1>2, <2>1, FS_Interval
  <2> QED BY <2>2, FS_Subset, FS_CardinalityType
<1>4. C = {a \in 1 .. Len(b_answers) :
             \E x \in D : result[x] = b_answers[a].label /\ Near(b[x].place, b_answers[a].place)}
  BY <1>1 DEF correct
<1> HIDE DEF C, D
<1>5. IsFiniteSet(C) /\ Cardinality(C) <= Cardinality(D)
  <2> DEFINE f == [a \in C |-> CHOOSE x \in D : result[x] = b_answers[a].label]
  <2>1. \A a \in C : f[a] \in D /\ result[f[a]] = b_answers[a].label
    BY <1>4
  <2>2. f \in [C -> D]
    BY <2>1
  <2>3. \A a, c \in C : f[a] = f[c] => a = c
    <3> SUFFICES ASSUME NEW a \in C, NEW c \in C, f[a] = f[c] PROVE a = c
      OBVIOUS
    <3>1. b_answers[a].label = b_answers[c].label
      BY <2>1
    <3>2. a \in 1 .. Len(b_answers) /\ c \in 1 .. Len(b_answers)
      BY <1>4
    <3> QED BY <1>1, <3>1, <3>2 DEF Noised, KeyOnce
  <2> HIDE DEF f
  <2> QED BY <1>3, <2>2, <2>3, InjectionBound
<1>6. ASSUME \A x \in D : result[x] = b[x].of PROVE Cardinality(D) <= Cardinality(C)
  <2>1. \A x \in D : x \in 1 .. Len(b) /\ b[x] \in Stars /\ b[x].of \in Labels /\ b[x].of # NO_LABEL
    <3> TAKE x \in D
    <3>1. x \in 1 .. Len(b) /\ result[x] \in Labels
      BY <1>2 DEF D
    <3>2. b[x] \in Stars /\ b[x].of = result[x]
      BY <1>1, <1>6, <3>1
    <3> QED BY <3>1, <3>2, LabelsAssumption
  <2>2. \A x \in D : \E a \in C : b_answers[a].label = b[x].of
    <3> TAKE x \in D
    <3>1. PICK a \in 1 .. Len(b_answers) : b_answers[a].label = b[x].of
      BY <1>1, <2>1 DEF Noised, Keyed
    <3>2. b_answers[a] \in Answers /\ b[x] \in Stars
      BY <1>1, <2>1
    <3>3. Near(b[x].place, b_answers[a].place)
      BY <3>2, PlacesNear DEF Answers, Stars
    <3>4. a \in C
      BY <1>4, <1>6, <3>1, <3>3
    <3> QED BY <3>1, <3>4
  <2> DEFINE f == [x \in D |-> CHOOSE a \in C : b_answers[a].label = b[x].of]
  <2>3. \A x \in D : f[x] \in C /\ b_answers[f[x]].label = b[x].of
    BY <2>2
  <2>4. f \in [D -> C]
    BY <2>3
  <2>5. \A x, y \in D : f[x] = f[y] => x = y
    <3> SUFFICES ASSUME NEW x \in D, NEW y \in D, f[x] = f[y] PROVE x = y
      OBVIOUS
    <3>1. b[x].of = b[y].of
      BY <2>3
    <3> QED BY <1>1, <2>1, <3>1 DEF Noised, Once
  <2> HIDE DEF f
  <2> QED BY <1>5, <2>4, <2>5, InjectionBound
<1>7. Cardinality(C) \in Nat
  BY <1>5, FS_CardinalityType
<1>8. row.correct <= row.size
  BY <1>2, <1>3, <1>5, <1>7 DEF C, D
<1>9. error # 0 => row.correct = 0
  BY <1>2
<1>10. error = 0 /\ (\A x \in DOMAIN result : result[x] = b[x].of) => row.correct = row.size
  BY <1>2, <1>3, <1>5, <1>6, <1>7 DEF C, D
<1> QED BY <1>8, <1>9, <1>10 DEF ScoreFair

\* A row tells the noise of its image, whatever came before it.
THEOREM NoiseCorrect == Spec => []RowTellsNoise
<1>1. IInv /\ MInv => RowTellsNoise
  BY NoiseTold DEF RowTellsNoise
<1> QED BY <1>1, Invariance, NoiseInvariance, PTL

\* A score is at most 100 %, and a correct answer has it whatever the noise.
THEOREM ScoreCorrect == Spec => []ScoreFair
<1>1. IInv /\ MInv => ScoreFair
  BY Scored DEF ScoreFair
<1> QED BY <1>1, Invariance, NoiseInvariance, PTL

----------------------------------------------------------------------------
(* The rows of an experiment. *)

\* The variations of the noises before the i-th.
Before ==
    CASE i = 0 -> 0
      [] i = 1 -> iters[0]
      [] i = 2 -> iters[0] + iters[1]
      [] OTHER -> iters[0] + iters[1] + iters[2]

Asked == samples * (iters[0] + iters[1] + iters[2])

\* The loops have one row behind them for every sample of every variation that
\* they have left, and one for every sample of the present one.
RowsInv ==
    /\ i = 3 => j = 0 /\ k = 0
    /\ i < 3 => j <= iters[i]
    /\ k <= samples
    /\ i < 3 /\ j = iters[i] => k = 0
    /\ pc = "build" => i = 0 /\ j = 0 /\ k = 0
    /\ pc \in {"generate", "noise", "identify"} => i < 3 /\ j < iters[i] /\ k < samples
    /\ pc = "done" => i = 3
    /\ logged = samples * (Before + j) + k

LEMMA Multiples ==
    ASSUME NEW s \in Nat, NEW x \in Nat, NEW y \in Nat, x <= y
    PROVE  /\ s * x \in Nat /\ s * y \in Nat /\ s * x <= s * y
           /\ s * (x + 1) = s * x + s
<1>1. s * x \in Nat /\ s * y \in Nat /\ s * (y - x) \in Nat
  OBVIOUS
<1>2. s * y = s * x + s * (y - x) /\ s * (x + 1) = s * x + s
  OBVIOUS
<1> HIDE NumbersAssumption, EnginesAssumption
<1> QED BY <1>1, <1>2

LEMMA BeforeTyping == ASSUME i \in 0 .. 3 PROVE Before \in Nat
  BY DEF Before

LEMMA RowsInit == ASSUME Init PROVE RowsInv
<1>1. Before = 0 /\ samples * (0 + 0) + 0 = 0
  BY DEF Before, Init
<1> QED BY <1>1 DEF RowsInv, Init

\* The steps between two loop heads count nothing.
LEMMA TrialRows ==
    ASSUME IInv, RowsInv, build \/ generate_stars \/ shift_light \/ add_extra_light \/ remove_light
    PROVE  RowsInv'
<1>1. UNCHANGED <<i, j, k, logged>> /\ Before' = Before
  BY DEF build, generate_stars, shift_light, add_extra_light, remove_light, AddNoise, loops, Before
<1>2. CASE build
  BY <1>1, <1>2 DEF build, RowsInv
<1>3. CASE generate_stars \/ shift_light \/ add_extra_light \/ remove_light
  BY <1>1, <1>3 DEF generate_stars, shift_light, add_extra_light, remove_light, AddNoise, RowsInv
<1> QED BY <1>2, <1>3

LEMMA IdentifyRows == ASSUME IInv, RowsInv, identify PROVE RowsInv'
<1>1. pc = "identify" /\ pc' = "loop" /\ i' = i /\ j' = j /\ k' = k + 1 /\ logged' = logged + 1
  BY DEF identify
<1>2. Before' = Before /\ i \in 0 .. 3 /\ k \in Nat /\ logged \in Nat /\ j \in Nat
  BY <1>1 DEF Before, IInv, TypeOK
<1>3. i < 3 /\ j < iters[i] /\ k < samples /\ logged = samples * (Before + j) + k
  BY <1>1 DEF RowsInv
<1>4. logged' = samples * (Before + j)' + k'
  <2> DEFINE m == samples * (Before + j)
  <2>1. m \in Nat /\ m' = m
    BY <1>1, <1>2, BeforeTyping
  <2> HIDE DEF m
  <2>2. logged = m + k
    BY <1>3 DEF m
  <2>3. logged' = m + (k + 1)
    BY <1>1, <1>2, <2>1, <2>2
  <2> QED BY <1>1, <2>1, <2>3 DEF m
<1> QED BY <1>1, <1>2, <1>3, <1>4 DEF RowsInv

LEMMA LoopRows == ASSUME IInv, RowsInv, loop PROVE RowsInv'
<1>1. /\ pc = "loop" /\ logged' = logged
      /\ i \in 0 .. 3 /\ j \in Nat /\ k \in Nat /\ logged \in Nat
      /\ logged = samples * (Before + j) + k
  BY DEF loop, IInv, TypeOK, RowsInv
<1>2. CASE UNCHANGED loops
  <2>1. Before' = Before
    BY <1>2 DEF Before, loops
  <2> QED BY <1>1, <1>2, <2>1 DEF loop, loops, RowsInv, SamplesDone
<1>3. CASE i # 3 /\ j >= iters[i] /\ i' = i + 1 /\ j' = 0 /\ k' = 0 /\ UNCHANGED pc
  <2>1. j = iters[i] /\ k = 0
    BY <1>1, <1>3 DEF RowsInv
  <2>2. Before' + j' = Before + j
    BY <1>1, <1>3, <2>1 DEF Before
  <2> QED BY <1>1, <1>3, <2>1, <2>2 DEF RowsInv
<1>4. CASE i # 3 /\ ~(j >= iters[i]) /\ SamplesDone /\ j' = j + 1 /\ k' = 0 /\ UNCHANGED <<pc, i>>
  <2>1. k = samples /\ j < iters[i] /\ Before' = Before
    BY <1>1, <1>4 DEF RowsInv, SamplesDone, Before
  <2>2. PICK v \in Nat : v = Before + j
    BY <1>1, BeforeTyping
  <2>3. (Before + j)' = v + 1
    BY <1>1, <1>4, <2>1, <2>2, BeforeTyping
  <2>4. samples * (v + 1) = samples * v + samples
    BY <2>2, Multiples
  <2>5. logged' = samples * (Before + j)' + k'
    BY <1>1, <1>4, <2>1, <2>2, <2>3, <2>4
  <2> QED BY <1>1, <1>4, <2>1, <2>5 DEF RowsInv
<1> QED BY <1>2, <1>3, <1>4 DEF loop, loops

THEOREM RowsInvariance == Spec => []RowsInv
<1>1. IInv /\ RowsInv /\ [Next]_vars => RowsInv'
  <2>1. ASSUME RowsInv, UNCHANGED vars PROVE RowsInv'
    BY <2>1 DEF vars, loops, RowsInv, Before
  <2> QED BY <2>1, TrialRows, IdentifyRows, LoopRows DEF Next, Step, Finished
<1> QED BY <1>1, RowsInit, Invariance, PTL DEF Spec

\* An experiment that has ended has logged one row per sample of every
\* variation of every noise, no more and no fewer.
THEOREM CountCorrect == Spec => [](pc = "done" => logged = Asked)
<1>1. IInv /\ RowsInv => (pc = "done" => logged = Asked)
  <2> SUFFICES ASSUME IInv, RowsInv, pc = "done" PROVE logged = Asked
    OBVIOUS
  <2>1. i = 3 /\ j = 0 /\ k = 0 /\ logged = samples * (Before + j) + k
    BY DEF RowsInv
  <2>2. PICK v \in Nat : v = Before /\ v = iters[0] + iters[1] + iters[2]
    BY <2>1 DEF Before
  <2>3. v + 0 = v /\ samples * v \in Nat
    OBVIOUS
  <2> QED BY <2>1, <2>2, <2>3 DEF Asked
<1> QED BY <1>1, RowsInvariance, Invariance, PTL

\* What is left of an experiment: its rows, then the rest of the loops, then
\* of the trial.
Unlogged == Asked - logged
NoisesLeft == 3 - i
VariationsLeft == IF i = 3 THEN 0 ELSE iters[i] - j
StagesLeft ==
    CASE pc = "build" -> 4
      [] pc = "loop" -> 3
      [] pc = "generate" -> 2
      [] pc = "noise" -> 1
      [] OTHER -> 0

Nearer ==
    \/ Unlogged' < Unlogged
    \/ /\ Unlogged' = Unlogged
       /\ \/ NoisesLeft' < NoisesLeft
          \/ /\ NoisesLeft' = NoisesLeft
             /\ \/ VariationsLeft' < VariationsLeft
                \/ VariationsLeft' = VariationsLeft /\ StagesLeft' < StagesLeft

LEMMA Measured ==
    ASSUME IInv, RowsInv
    PROVE  Unlogged \in Nat /\ NoisesLeft \in Nat /\ VariationsLeft \in Nat /\ StagesLeft \in Nat
<1>1. i \in 0 .. 3 /\ j \in Nat /\ k \in Nat /\ logged \in Nat
  BY DEF IInv, TypeOK
<1>2. NoisesLeft \in Nat /\ VariationsLeft \in Nat /\ StagesLeft \in Nat
  BY <1>1 DEF RowsInv, NoisesLeft, VariationsLeft, StagesLeft
<1>3. PICK v \in Nat, t \in Nat : v = Before + j /\ t = iters[0] + iters[1] + iters[2]
  BY <1>1, BeforeTyping
<1>4. v <= t /\ (v = t => k = 0)
  BY <1>1, <1>3 DEF RowsInv, Before
<1>5. logged = samples * v + k /\ k <= samples
  BY <1>3 DEF RowsInv
<1>6. samples * v \in Nat /\ samples * t \in Nat /\ samples * v <= samples * t
  BY <1>3, <1>4, Multiples
<1>7. v < t => samples * v + samples <= samples * t
  <2> SUFFICES ASSUME v < t PROVE samples * v + samples <= samples * t
    OBVIOUS
  <2>1. v + 1 \in Nat /\ v + 1 <= t
    BY <1>3
  <2>2. samples * (v + 1) <= samples * t
    BY <2>1, Multiples
  <2>3. samples * (v + 1) = samples * v + samples
    BY <1>4, Multiples
  <2> QED BY <2>2, <2>3
<1>8. Asked = samples * t
  BY <1>3 DEF Asked
<1>9. samples * v + k <= samples * t
  BY <1>1, <1>4, <1>5, <1>6, <1>7
<1> QED BY <1>1, <1>2, <1>5, <1>6, <1>8, <1>9 DEF Unlogged

\* Every step of an experiment brings it nearer to its end, for any catalog,
\* noise and answers: Finishes, but for the fairness that makes it take the
\* steps.
THEOREM Progress ==
    Spec => /\ [](Unlogged \in Nat /\ NoisesLeft \in Nat /\ VariationsLeft \in Nat /\ StagesLeft \in Nat)
            /\ [][Nearer]_vars
<1>1. ASSUME IInv, RowsInv, Step PROVE Nearer
  <2>t. i \in 0 .. 3 /\ j \in Nat /\ k \in Nat /\ logged \in Nat /\ Asked \in Nat /\ Asked' = Asked
    <3>1. PICK v \in Nat : v = iters[0] + iters[1] + iters[2]
      OBVIOUS
    <3>2. samples * v \in Nat
      OBVIOUS
    <3> QED BY <1>1, <3>1, <3>2 DEF IInv, TypeOK, Asked
  <2>1. CASE identify
    BY <2>t, <2>1 DEF identify, Nearer, Unlogged
  <2>2. CASE loop
    BY <1>1, <2>t, <2>2 DEF loop, loops, RowsInv, Nearer, Unlogged, NoisesLeft, VariationsLeft, StagesLeft
  <2>3. CASE build \/ generate_stars \/ shift_light \/ add_extra_light \/ remove_light
    <3>1. UNCHANGED <<i, j, k, logged>>
      BY <2>3 DEF build, generate_stars, shift_light, add_extra_light, remove_light, AddNoise, loops
    <3>2. StagesLeft' < StagesLeft
      BY <2>3 DEF build, generate_stars, shift_light, add_extra_light, remove_light, AddNoise, StagesLeft
    <3> QED BY <2>t, <3>1, <3>2 DEF Nearer, Unlogged, NoisesLeft, VariationsLeft
  <2> QED BY <1>1, <2>1, <2>2, <2>3 DEF Step
<1>2. IInv /\ RowsInv /\ [Next]_vars => [Nearer]_vars
  BY <1>1 DEF Next, Finished
<1>3. IInv /\ RowsInv => Unlogged \in Nat /\ NoisesLeft \in Nat /\ VariationsLeft \in Nat /\ StagesLeft \in Nat
  BY Measured
<1> QED BY <1>2, <1>3, RowsInvariance, Invariance, PTL DEF Spec
=============================================================================
