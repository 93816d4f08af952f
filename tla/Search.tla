------------------------------- MODULE Search -------------------------------
(***************************************************************************)
(* What identify and reduce of a strategy promise: the subsets b of the    *)
(* image are tried one after the other, none is begun twice; "not found" is*)
(* only said when every subset that is due has been tried, "too many       *)
(* comparisons" only when more than NuMax have been spent, and nothing is  *)
(* compared after that.  What is found, is found by trying.  Only a call   *)
(* with hardly anything to try may end in an exception.                    *)
(* BaseTriangle, Angle, Pyramid and DotAngle implement this.               *)
(***************************************************************************)
EXTENDS Naturals

CONSTANTS
    Subsets,   \* every b that an image can have
    NuMax,     \* nu_max
    Cost,      \* what comparing one subset may cost at most
    Repeats    \* whether a subset may be compared more than once

VARIABLES
    searching,   \* a call is under way
    subsets,     \* the subsets of its image
    untried,     \* those it has still to begin
    due,         \* those it must not leave out
    spent,       \* comparisons made by the call
    outcome      \* how the last call ended

vars == <<searching, subsets, untried, due, spent, outcome>>

Init ==
    /\ searching = FALSE
    /\ subsets = {} /\ untried = {} /\ due = {}
    /\ spent = 0
    /\ outcome = "none"

\* A call, with the subsets its image has.
Start ==
    /\ ~searching
    /\ searching' = TRUE
    /\ subsets' \in SUBSET Subsets /\ untried' = subsets'
    /\ due' \in SUBSET subsets'
    /\ spent' = 0
    /\ outcome' = "none"

\* A call for an image without subsets may say so at once.
Refuse ==
    /\ ~searching
    /\ spent' = 0 /\ outcome' = "exhausted"
    /\ UNCHANGED <<searching, subsets, untried, due>>

End(o) ==
    /\ searching' = FALSE
    /\ subsets' = {} /\ untried' = {} /\ due' = {}
    /\ outcome' = o

Compare == spent <= NuMax /\ \E c \in 0 .. Cost : spent' = spent + c

\* What the comparison may show: the stars, or that it was one too many.
Decide == End("found") \/ (spent' > NuMax /\ End("exceeded"))

\* One subset is begun.
Try ==
    /\ searching
    /\ Compare
    /\ \/ /\ \E b \in untried : untried' = untried \ {b}
          /\ UNCHANGED <<searching, subsets, due, outcome>>
       \/ untried # {} /\ Decide

\* One that was begun is compared again.
Again ==
    /\ Repeats
    /\ searching /\ untried # subsets
    /\ Compare
    /\ UNCHANGED <<searching, subsets, untried, due, outcome>> \/ Decide

Exceed == searching /\ spent > NuMax /\ End("exceeded") /\ UNCHANGED spent

Exhaust == searching /\ untried \cap due = {} /\ End("exhausted") /\ UNCHANGED spent

\* Fewer than three members.
Few(S) == \A x, y, z \in S : x = y \/ x = z \/ y = z

Throw == searching /\ Few(subsets) /\ End("thrown") /\ UNCHANGED spent

Next == Start \/ Refuse \/ Try \/ Again \/ Exceed \/ Exhaust \/ Throw

Spec == Init /\ [][Next]_vars
=============================================================================
