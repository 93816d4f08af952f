------------------------------- MODULE Trial -------------------------------
(***************************************************************************)
(* The identification experiment: Experiment::Map::trial                   *)
(* (include/experiment/experiment.h) with Benchmark's noise                *)
(* (lib/benchmark/benchmark.cpp) and percentage_correct                    *)
(* (lib/experiment/experiment.cpp).                                        *)
(*                                                                         *)
(* Every trial draws a new image, adds one kind of noise, lets a strategy  *)
(* identify it, and logs how much of the answer is correct.  The strategy  *)
(* may answer anything, but it answers: a strategy that throws, and Angle  *)
(* on an image that remove_light emptied, which may not return, are left   *)
(* out.  b, r and b_answers are Benchmark's lists: the                     *)
(* image, the same stars in the inertial frame, and the answer key; all    *)
(* three are shuffled with copies of one random engine.  The lists are     *)
(* shared with the Benchmark that the strategy holds.                      *)
(*                                                                         *)
(* A place is where a star is in the image, as its distance from the       *)
(* centre along one line; rotating the image as a whole changes none of    *)
(* these.                                                                  *)
(***************************************************************************)
EXTENDS Integers, Sequences, FiniteSets

CONSTANTS
    Labels,            \* the labels of the catalog
    HalfFov,           \* fov / 2
    Fields,            \* what nearby_hip_stars may find around a centre
    MinImage,          \* benchmark.cpp: 4
    NLimit,            \* -nlimit
    MaxStars,          \* bound: stars of an image
    Engines,           \* states of the random engine: e[n] permutes 1 .. n
    samples, iters,    \* -samples; -ssiter, -esiter and -rmiter
    EsMin, EsStep,     \* -esmin and -esstep
    RemoveStep, Psi,   \* -rmstep and half of -rmsigma
    MaxResult          \* bound: stars in the strategy's answer

NO_LABEL == 0
NO_N == -1

Places == {p \in (-HalfFov) .. HalfFov : -HalfFov < p /\ p < HalfFov}

\* A star of the image and one of the answer key.
Stars == [place : Places, of : Labels \cup {NO_LABEL}]
Answers == [label : Labels, place : Places]

Permutes(f, n) ==
    /\ f \in [1 .. n -> 1 .. n]
    /\ \A x, y \in 1 .. n : f[x] = f[y] => x = y

ASSUME NumbersAssumption ==
    /\ HalfFov \in Nat \ {0} /\ MinImage \in Nat /\ NLimit \in Nat \cup {NO_N} /\ Psi \in Nat /\ MaxResult \in Nat
    /\ samples \in Nat /\ iters \in [0 .. 2 -> Nat]
    /\ EsMin \in Nat /\ EsStep \in Nat /\ RemoveStep \in Nat
ASSUME LabelsAssumption == Labels \subseteq Nat \ {NO_LABEL} /\ IsFiniteSet(Labels)
ASSUME FieldsAssumption ==
    \A f \in Fields :
        /\ f \in Seq(Answers)
        /\ \A x, y \in DOMAIN f : f[x].label = f[y].label => x = y
        /\ Len(f) + iters[1] * EsStep <= MaxStars
ASSUME EnginesAssumption ==
    MaxStars \in Nat /\ \A e \in Engines : \A n \in 0 .. MaxStars : Permutes(e[n], n)

VARIABLES
    pc,          \* "build", "loop", "generate", "noise", "identify" or "done"
    i, j, k,     \* the loop variables of trial
    b,           \* the image: [place, of], of being the star it really is, or
                 \* NO_LABEL for a false star (no strategy reads its label)
    r,           \* the labels of the inertial stars
    b_answers,   \* the answer key: [label, place]
    error,       \* of the strategy's last answer
    result,      \* the answer: the label given to each star of the image it has
    row,         \* the row that was logged last
    logged       \* the rows logged

loops == <<i, j, k>>
image == <<b, r, b_answers>>
vars == <<pc, loops, image, error, result, row, logged>>

Init ==
    /\ pc = "build" /\ i = 0 /\ j = 0 /\ k = 0
    /\ b = <<>> /\ r = <<>> /\ b_answers = <<>>
    /\ error = 0 /\ result = <<>> /\ logged = 0
    /\ row = [shift |-> 0, false |-> 0, removed |-> 0, correct |-> 0, size |-> 0]

\* The step is assigned twice, so the minimum stays what ParametersBuilder() is.
using_extra_star_parameters(p, min, step) ==
    [[p EXCEPT !.extra_star_step = min] EXCEPT !.extra_star_step = step]

ep == using_extra_star_parameters([extra_star_min |-> 0, extra_star_step |-> 0], EsMin, EsStep)

\* How much noise the j-th variation has: a deviation, false stars or blobs.
Noise ==
    CASE i = 0 -> j
      [] i = 1 -> ep.extra_star_min + j * ep.extra_star_step
      [] i = 2 -> RemoveStep * j

----------------------------------------------------------------------------
(* Benchmark *)

Permuted(s, e) == [x \in DOMAIN s |-> s[e[Len(s)][x]]]

\* Mutant: the engine is not copied, so r is shuffled with its next state.
shuffle_apart(image_, inertial, answers) ==
    \E e, next \in Engines :
        /\ b' = Permuted(image_, e)
        /\ r' = Permuted(inertial, next)
        /\ b_answers' = Permuted(answers, e)

\* Lists of one length are shuffled alike.
shuffle(image_, inertial, answers) ==
    \E e \in Engines :
        /\ b' = Permuted(image_, e)
        /\ r' = Permuted(inertial, e)
        /\ b_answers' = Permuted(answers, e)

Imaged(f) == [x \in DOMAIN f |-> [place |-> f[x].place, of |-> f[x].label]]
LabelsOf(f) == [x \in DOMAIN f |-> f[x].label]

\* Centres are drawn until more than MinImage stars are near one, the first n
\* of which are taken.
Drawn(n) ==
    \E f \in Fields :
        /\ Len(f) > MinImage
        /\ LET g == IF n # NO_N /\ Len(f) > n THEN SubSeq(f, 1, n) ELSE f
           IN shuffle(Imaged(g), LabelsOf(g), g)

\* The constructor of Benchmark, the only one that knows the limit of stars.
build ==
    /\ pc = "build"
    /\ Drawn(NLimit)
    /\ pc' = "loop"
    /\ UNCHANGED <<loops, error, result, row, logged>>

\* Mutant: one image for all samples of a variation.
generate_stars_once ==
    /\ pc = "generate"
    /\ IF k > 0 THEN UNCHANGED image ELSE Drawn(NO_N)
    /\ pc' = "noise"
    /\ UNCHANGED <<loops, error, result, row, logged>>

generate_stars ==
    /\ pc = "generate"
    /\ Drawn(NO_N)
    /\ pc' = "noise"
    /\ UNCHANGED <<loops, error, result, row, logged>>

AddNoise ==
    /\ pc = "noise"
    /\ pc' = "identify"
    /\ UNCHANGED <<loops, error, result, row, logged>>

\* Every star of the image is moved to where it is still in view.
shift_light ==
    /\ AddNoise /\ i = 0
    /\ \E moved \in [DOMAIN b -> Places] :
         /\ Noise = 0 => \A x \in DOMAIN b : moved[x] = b[x].place
         /\ shuffle([x \in DOMAIN b |-> [b[x] EXCEPT !.place = moved[x]]], r, b_answers)

\* False stars in view are appended.
add_extra_light ==
    /\ AddNoise /\ i = 1
    /\ \E places \in [1 .. Noise -> Places] :
         shuffle(b \o [x \in 1 .. Noise |-> [place |-> places[x], of |-> NO_LABEL]],
                 r \o [x \in 1 .. Noise |-> 1 - x], b_answers)

Distance(p, q) == IF p < q THEN q - p ELSE p - q

\* Stars near a blob are erased from b, and those of the same index from r.
remove_light ==
    /\ AddNoise /\ i = 2
    /\ \E blobs \in [1 .. Noise -> Places] :
         LET kept == {x \in DOMAIN b : \A n \in 1 .. Noise : Distance(blobs[n], b[x].place) >= Psi} IN
         \E order \in [1 .. Cardinality(kept) -> kept] :
             /\ \A x, y \in DOMAIN order : x < y => order[x] < order[y]
             /\ shuffle([x \in DOMAIN order |-> b[order[x]]], [x \in DOMAIN order |-> r[order[x]]], b_answers)

----------------------------------------------------------------------------
(* trial *)

\* Mutant: half of the field of view.
NearHalf(p, q) == Distance(p, q) < HalfFov

\* Star::within_angle(b_j, s, fov)
Near(p, q) == Distance(p, q) < 2 * HalfFov

\* percentage_correct, as the number of answers that are found in the result
\* and the number of stars in the result.
correct(res) ==
    {a \in DOMAIN b_answers :
        \E x \in DOMAIN res : res[x] = b_answers[a].label /\ Near(b[x].place, b_answers[a].place)}

\* Mutant: one sample more than asked for.
SamplesOverrun == k > samples

SamplesDone == k >= samples

\* The heads of the three loops.
loop ==
    /\ pc = "loop"
    /\ IF i = 3 THEN pc' = "done" /\ UNCHANGED loops
       ELSE IF j >= iters[i] THEN i' = i + 1 /\ j' = 0 /\ k' = 0 /\ UNCHANGED pc
       ELSE IF SamplesDone THEN j' = j + 1 /\ k' = 0 /\ UNCHANGED <<pc, i>>
       ELSE pc' = "generate" /\ UNCHANGED loops
    /\ UNCHANGED <<image, error, result, row, logged>>

\* The strategy answers with an error, or with labels for some of the stars;
\* the row of the trial is logged.
identify ==
    /\ pc = "identify"
    /\ \/ error' \in {-1, -2} /\ result' = <<>>
       \/ /\ error' = 0
          /\ \E found \in SUBSET (DOMAIN b) :
               Cardinality(found) \in 1 .. MaxResult /\ result' \in [found -> Labels]
    /\ row' = [shift |-> IF i = 0 THEN Noise ELSE 0,
               false |-> IF i = 1 THEN Noise ELSE 0,
               removed |-> IF i = 2 THEN Noise ELSE 0,
               correct |-> IF error' = 0 THEN Cardinality(correct(result')) ELSE 0,
               size |-> Cardinality(DOMAIN result')]
    /\ logged' = logged + 1
    /\ k' = k + 1
    /\ pc' = "loop"
    /\ UNCHANGED <<i, j, image>>

Step ==
    \/ build \/ loop \/ generate_stars \/ shift_light \/ add_extra_light \/ remove_light \/ identify

Finished == pc = "done" /\ UNCHANGED vars

Next == Step \/ Finished

Spec == Init /\ [][Next]_vars

\* One thread, which waits for nothing.
FairSpec == Spec /\ WF_vars(Step)

----------------------------------------------------------------------------
(* Properties. *)

TypeOK ==
    /\ pc \in {"build", "loop", "generate", "noise", "identify", "done"}
    /\ i \in 0 .. 3 /\ j \in Nat /\ k \in Nat /\ logged \in Nat
    /\ b \in Seq(Stars)
    /\ r \in Seq(Int)
    /\ b_answers \in Seq(Answers)
    /\ error \in {0, -1, -2}

\* The lists stay aligned whatever is added, erased, moved and shuffled: r
\* holds the star that b holds; so does the answer key when an image has been
\* drawn, and while stars are only moved ("StarsShuffledInOrder",
\* test-benchmark.cpp).
Aligned ==
    /\ Len(b) = Len(r)
    /\ \A x \in 1 .. Len(b) : IF b[x].of = NO_LABEL THEN r[x] <= NO_LABEL ELSE r[x] = b[x].of
    /\ pc = "noise" \/ i = 0 =>
         /\ Len(b_answers) = Len(b)
         /\ \A x \in 1 .. Len(b) : b_answers[x].label = r[x]

\* A trial has been logged, and its image and answer are still there.
JustLogged == pc = "loop" /\ k > 0

\* The noise columns of a row are the noise of the image it was measured on,
\* and no noise of an earlier trial is left in it.
RowTellsNoise ==
    JustLogged =>
        /\ Cardinality({x \in DOMAIN b : b[x].of = NO_LABEL}) = row.false
        /\ row.removed = 0 => Len(b) = Len(b_answers) + row.false
        /\ row.shift = 0 =>
             \A x \in DOMAIN b : b[x].of # NO_LABEL =>
                 \E a \in DOMAIN b_answers :
                     b_answers[a] = [label |-> b[x].of, place |-> b[x].place]

\* The score never exceeds 100 %, an error scores nothing, and an answer in
\* which every star has its own label scores 100 % whatever the noise.  (100 %
\* does not say the labels are on their own stars.)
ScoreFair ==
    JustLogged =>
        /\ row.correct <= row.size
        /\ error # 0 => row.correct = 0
        /\ error = 0 /\ (\A x \in DOMAIN result : result[x] = b[x].of) => row.correct = row.size

\* An experiment ends with one row per sample of every variation of every noise.
Finishes == <>(pc = "done" /\ logged = samples * (iters[0] + iters[1] + iters[2]))
=============================================================================
