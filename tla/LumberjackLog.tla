--------------------------- MODULE LumberjackLog ---------------------------
(***************************************************************************)
(* What an experiment expects of a Lumberjack: every result it hands over  *)
(* with log_trial is kept, and the results it has handed over reach the    *)
(* trial table in one piece and in order.  Results may only be lost with   *)
(* the process that holds them.  Nothing is said here of the buffer, of    *)
(* SQLite's locks or of retries: Lumberjack.tla implements this.           *)
(***************************************************************************)
EXTENDS Naturals, Sequences

CONSTANT Writers   \* the processes that each own one Lumberjack

VARIABLES
    state,     \* state[w]: "new", "open", "closed" or "dead"
    accepted,  \* accepted[w]: how many results log_trial of w has taken
    backlog,   \* backlog[w]: the results taken and not yet in the table
    log        \* the rows of the trial table, oldest first

vars == <<state, accepted, backlog, log>>

\* The k-th result of w.
Row(w, k) == <<w, k>>

Init ==
    /\ state = [w \in Writers |-> "new"]
    /\ accepted = [w \in Writers |-> 0]
    /\ backlog = [w \in Writers |-> <<>>]
    /\ log = <<>>

Open(w) ==
    /\ state[w] = "new"
    /\ state' = [state EXCEPT ![w] = "open"]
    /\ UNCHANGED <<accepted, backlog, log>>

Accept(w) ==
    /\ state[w] = "open"
    /\ accepted' = [accepted EXCEPT ![w] = @ + 1]
    /\ backlog' = [backlog EXCEPT ![w] = Append(@, Row(w, accepted[w] + 1))]
    /\ UNCHANGED <<state, log>>

\* The whole backlog becomes visible at once.
Publish(w) ==
    /\ state[w] = "open"
    /\ backlog[w] # <<>>
    /\ log' = log \o backlog[w]
    /\ backlog' = [backlog EXCEPT ![w] = <<>>]
    /\ state' \in {state, [state EXCEPT ![w] = "closed"]}
    /\ UNCHANGED accepted

Close(w) ==
    /\ state[w] = "open"
    /\ backlog[w] = <<>>
    /\ state' = [state EXCEPT ![w] = "closed"]
    /\ UNCHANGED <<accepted, backlog, log>>

Die(w) ==
    /\ state[w] \in {"new", "open"}
    /\ state' = [state EXCEPT ![w] = "dead"]
    /\ backlog' = [backlog EXCEPT ![w] = <<>>]
    /\ UNCHANGED <<accepted, log>>

Next == \E w \in Writers : Open(w) \/ Accept(w) \/ Publish(w) \/ Close(w) \/ Die(w)

Spec == Init /\ [][Next]_vars
============================================================================
