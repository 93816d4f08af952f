---------------------------- MODULE Lumberjack ----------------------------
(***************************************************************************)
(* The Lumberjack result logger (lib/experiment/lumberjack.cpp) as the     *)
(* PerformE processes use it (src/perform-e.cpp), over SQLite's rollback   *)
(* journal locking.                                                        *)
(*                                                                         *)
(* Every writer is one process with one Lumberjack: it makes sure that the *)
(* trial table exists, hands over results with log_trial, flushes when the *)
(* buffer is full and once more in the destructor.  A flush prepares one   *)
(* INSERT for the whole buffer and then loops: BEGIN, exec, clear the      *)
(* buffer, COMMIT; a SQLite exception is answered by sleeping and looping. *)
(* Readers are other connections to the same file (a shell, a script).     *)
(*                                                                         *)
(* SQLite (external) is modelled by its locks, one step per lock request,  *)
(* with a busy timeout of 0, which is what Nibble's constructor leaves:    *)
(*   - a read needs SHARED, refused while another holds PENDING/EXCLUSIVE; *)
(*   - INSERT needs RESERVED, refused while another holds it or more; the  *)
(*     SHARED lock taken on the way is given back when that fails;         *)
(*   - COMMIT needs EXCLUSIVE, refused while another holds SHARED; the     *)
(*     PENDING lock taken on the way is kept until ROLLBACK.               *)
(* SQLiteCpp's Statement refuses a second exec() after one that succeeded  *)
(* (mbDone), and its Transaction rolls back when destroyed uncommitted.    *)
(***************************************************************************)
EXTENDS Naturals, Sequences

CONSTANTS
    Writers,              \* processes with a Lumberjack on this database file
    Readers,              \* other connections that only read it
    MAXIMUM_BUFFER_SIZE,  \* lumberjack.cpp: 50
    MaxTrials             \* bound: results one experiment hands over

ASSUME ConnectionsAssumption == Writers \cap Readers = {}
ASSUME BufferAssumption == MAXIMUM_BUFFER_SIZE \in Nat \ {0}
ASSUME TrialsAssumption == MaxTrials \in Nat

Connections == Writers \cup Readers

VARIABLES
    exists,      \* the trial table is in the database
    table,       \* its committed rows, oldest first
    lock,        \* lock[c]: the lock connection c holds on the file
    pc,          \* pc[w]: where the process of w stands
    return_to,   \* return_to[w]: where flush_buffer returns to
    logged,      \* logged[w]: results log_trial has accepted
    result_buffer,
    bound,       \* bound[w]: the rows bound to the prepared INSERT
    done,        \* done[w]: the Statement's mbDone
    journal      \* journal[w]: rows written in the open transaction

vars == <<exists, table, lock, pc, return_to, logged, result_buffer, bound,
          done, journal>>

memory == <<return_to, logged, result_buffer, bound, done>>

Row(w, k) == <<w, k>>

\* Where a process may stand.  "dead" is a crash, a kill or an exception that
\* leaves main; "closed" is the end of the destructor.
PCs == {"connect", "missing", "create", "open", "idle", "begin", "shared",
        "written", "committing", "unwind", "sleep", "closed", "dead"}

Locks == {"none", "shared", "reserved", "pending", "exclusive"}

----------------------------------------------------------------------------
(* SQLite's lock table. *)

\* A SHARED lock can be granted to c.
MayRead(c) ==
    \A d \in Connections \ {c} : lock[d] \notin {"pending", "exclusive"}

\* A RESERVED lock can be granted to c.
MayWrite(c) ==
    \A d \in Connections \ {c} : lock[d] \notin {"reserved", "pending", "exclusive"}

\* An EXCLUSIVE lock can be granted to c.
MayCommit(c) == \A d \in Connections \ {c} : lock[d] = "none"

----------------------------------------------------------------------------

Init ==
    /\ exists = FALSE
    /\ table = <<>>
    /\ lock = [c \in Connections |-> "none"]
    /\ pc = [w \in Writers |-> "connect"]
    /\ return_to = [w \in Writers |-> "idle"]
    /\ logged = [w \in Writers |-> 0]
    /\ result_buffer = [w \in Writers |-> <<>>]
    /\ bound = [w \in Writers |-> <<>>]
    /\ done = [w \in Writers |-> FALSE]
    /\ journal = [w \in Writers |-> <<>>]

Goto(w, label) == pc' = [pc EXCEPT ![w] = label]
Hold(c, l) == lock' = [lock EXCEPT ![c] = l]

----------------------------------------------------------------------------
(* perform-e.cpp: connect_to_lumberjack, then the Lumberjack itself. *)

\* The throw-away Lumberjack of connect_to_lumberjack: any exception of its
\* constructor, a busy database included, is taken for a missing table.
connect_to_lumberjack(w) ==
    /\ pc[w] = "connect"
    /\ Goto(w, IF MayRead(w) /\ exists THEN "open" ELSE "missing")
    /\ UNCHANGED <<exists, table, lock, memory, journal>>

\* create_table looks for the table again; the exception of a busy database
\* is thrown from the handler and ends the process.
create_table_check(w) ==
    /\ pc[w] = "missing"
    /\ Goto(w, IF ~MayRead(w) THEN "dead" ELSE IF exists THEN "open" ELSE "create")
    /\ UNCHANGED <<exists, table, lock, memory, journal>>

\* CREATE TABLE in a transaction of its own.  It throws when another process
\* has created the table since the check, or has the file locked.
create_table(w) ==
    /\ pc[w] = "create"
    /\ IF ~exists /\ MayCommit(w)
       THEN exists' = TRUE /\ Goto(w, "open")
       ELSE exists' = exists /\ Goto(w, "dead")
    /\ UNCHANGED <<table, lock, memory, journal>>

\* The constructor throws (and main ends) unless it sees the trial table.
Lumberjack(w) ==
    /\ pc[w] = "open"
    /\ Goto(w, IF MayRead(w) /\ exists THEN "idle" ELSE "dead")
    /\ UNCHANGED <<exists, table, lock, memory, journal>>

----------------------------------------------------------------------------
(* flush_buffer. *)

\* Mutant: one INSERT kept for all flushes and not reset between them.
EnterFlushReusing(w, buffer, ret) ==
    IF buffer = <<>>
    THEN Goto(w, ret) /\ UNCHANGED <<return_to, bound, done>>
    ELSE /\ Goto(w, "begin")
         /\ return_to' = [return_to EXCEPT ![w] = ret]
         /\ bound' = [bound EXCEPT ![w] = buffer]
         /\ done' = done

\* Mutant: the loop that binds the buffer ends one row early.
EnterFlushShort(w, buffer, ret) ==
    IF buffer = <<>>
    THEN Goto(w, ret) /\ UNCHANGED <<return_to, bound, done>>
    ELSE /\ Goto(w, "begin")
         /\ return_to' = [return_to EXCEPT ![w] = ret]
         /\ bound' = [bound EXCEPT ![w] = SubSeq(buffer, 1, Len(buffer) - 1)]
         /\ done' = [done EXCEPT ![w] = FALSE]

\* Up to the loop: leave at once when the buffer is empty, else prepare one
\* INSERT and bind the whole buffer to it.
EnterFlush(w, buffer, ret) ==
    IF buffer = <<>>
    THEN Goto(w, ret) /\ UNCHANGED <<return_to, bound, done>>
    ELSE /\ Goto(w, "begin")
         /\ return_to' = [return_to EXCEPT ![w] = ret]
         /\ bound' = [bound EXCEPT ![w] = buffer]
         /\ done' = [done EXCEPT ![w] = FALSE]

\* Mutant: the flush comes one result late.
BufferOverfull(buffer) == Len(buffer) > MAXIMUM_BUFFER_SIZE

\* The buffer has reached its storage maximum.
BufferFull(buffer) == Len(buffer) >= MAXIMUM_BUFFER_SIZE

\* A result of the expected size is buffered; a full buffer is flushed.
log_trial(w) ==
    /\ pc[w] = "idle"
    /\ logged[w] < MaxTrials
    /\ logged' = [logged EXCEPT ![w] = @ + 1]
    /\ LET buffer == Append(result_buffer[w], Row(w, logged[w] + 1)) IN
         /\ result_buffer' = [result_buffer EXCEPT ![w] = buffer]
         /\ IF BufferFull(buffer)
            THEN EnterFlush(w, buffer, "idle")
            ELSE UNCHANGED <<pc, return_to, bound, done>>
    /\ UNCHANGED <<exists, table, lock, journal>>

\* A result of another size is refused with an exception nobody catches; the
\* process ends without running the destructor, so the buffer is lost with it.
log_trial_throws(w) ==
    /\ pc[w] = "idle"
    /\ Goto(w, "dead")
    /\ result_buffer' = [result_buffer EXCEPT ![w] = <<>>]
    /\ UNCHANGED <<exists, table, lock, return_to, logged, bound, done, journal>>

\* Mutant: a destructor that does not flush.
destroy_unflushed(w) ==
    /\ pc[w] = "idle"
    /\ Goto(w, "closed")
    /\ UNCHANGED <<exists, table, lock, memory, journal>>

\* The destructor, at the end of the experiment.
destroy(w) ==
    /\ pc[w] = "idle"
    /\ EnterFlush(w, result_buffer[w], "closed")
    /\ UNCHANGED <<exists, table, lock, logged, result_buffer, journal>>

\* BEGIN (deferred: no lock), then exec() of a statement that has already
\* succeeded once: SQLiteCpp throws "Statement need to be reseted.".
exec_refused(w) ==
    /\ pc[w] = "begin"
    /\ done[w]
    /\ Goto(w, "sleep")
    /\ UNCHANGED <<exists, table, lock, memory, journal>>

\* BEGIN, then exec() asks for SHARED.
exec_shared(w) ==
    /\ pc[w] = "begin"
    /\ ~done[w]
    /\ IF MayRead(w)
       THEN Hold(w, "shared") /\ Goto(w, "shared")
       ELSE lock' = lock /\ Goto(w, "sleep")
    /\ UNCHANGED <<exists, table, memory, journal>>

\* exec() asks for RESERVED and writes the bound rows.  When the lock is
\* refused the statement gives SHARED back and may be executed again.
exec_reserved(w) ==
    /\ pc[w] = "shared"
    /\ IF MayWrite(w)
       THEN /\ Hold(w, "reserved")
            /\ Goto(w, "written")
            /\ journal' = [journal EXCEPT ![w] = bound[w]]
            /\ done' = [done EXCEPT ![w] = TRUE]
       ELSE /\ Hold(w, "none")
            /\ Goto(w, "sleep")
            /\ UNCHANGED <<journal, done>>
    /\ UNCHANGED <<exists, table, return_to, logged, result_buffer, bound>>

\* Mutant: the buffer is not cleared.
commit_lock_uncleared(w) ==
    /\ pc[w] = "written"
    /\ IF MayCommit(w)
       THEN Hold(w, "exclusive") /\ Goto(w, "committing")
       ELSE Hold(w, "pending") /\ Goto(w, "unwind")
    /\ UNCHANGED <<exists, table, memory, journal>>

\* Mutant: a COMMIT that is refused is taken for one that succeeded.
commit_lock_unchecked(w) ==
    /\ pc[w] = "written"
    /\ result_buffer' = [result_buffer EXCEPT ![w] = <<>>]
    /\ IF MayCommit(w)
       THEN Hold(w, "exclusive") /\ Goto(w, "committing") /\ journal' = journal
       ELSE Hold(w, "none") /\ Goto(w, return_to[w]) /\ journal' = [journal EXCEPT ![w] = <<>>]
    /\ UNCHANGED <<exists, table, return_to, logged, bound, done>>

\* result_buffer.clear(), then COMMIT asks for EXCLUSIVE; when it is refused
\* PENDING stays until the Transaction's destructor has rolled back.
commit_lock(w) ==
    /\ pc[w] = "written"
    /\ result_buffer' = [result_buffer EXCEPT ![w] = <<>>]
    /\ IF MayCommit(w)
       THEN Hold(w, "exclusive") /\ Goto(w, "committing")
       ELSE Hold(w, "pending") /\ Goto(w, "unwind")
    /\ UNCHANGED <<exists, table, return_to, logged, bound, done, journal>>

\* The journal file is deleted: the rows are in the table, flush_buffer returns.
commit(w) ==
    /\ pc[w] = "committing"
    /\ table' = table \o journal[w]
    /\ journal' = [journal EXCEPT ![w] = <<>>]
    /\ Hold(w, "none")
    /\ Goto(w, return_to[w])
    /\ UNCHANGED <<exists, memory>>

\* Mutant: the handler sleeps before the transaction is destroyed.
rollback_late(w) ==
    /\ pc[w] = "unwind"
    /\ Goto(w, "sleep")
    /\ UNCHANGED <<exists, table, lock, memory, journal>>

\* The Transaction's destructor, on the way to the catch block.
rollback(w) ==
    /\ pc[w] = "unwind"
    /\ journal' = [journal EXCEPT ![w] = <<>>]
    /\ Hold(w, "none")
    /\ Goto(w, "sleep")
    /\ UNCHANGED <<exists, table, memory>>

\* The catch block: sleep for a random time, then loop.
wake_up(w) ==
    /\ pc[w] = "sleep"
    /\ Goto(w, "begin")
    /\ UNCHANGED <<exists, table, lock, memory, journal>>

----------------------------------------------------------------------------
(* The environment. *)

\* The process is killed: its memory is gone, its locks are released and the
\* next connection rolls its journal back.
crash(w) ==
    /\ pc[w] \notin {"closed", "dead"}
    /\ Goto(w, "dead")
    /\ Hold(w, "none")
    /\ result_buffer' = [result_buffer EXCEPT ![w] = <<>>]
    /\ journal' = [journal EXCEPT ![w] = <<>>]
    /\ UNCHANGED <<exists, table, return_to, logged, bound, done>>

\* Another connection starts to read...
read_begin(r) ==
    /\ lock[r] = "none"
    /\ MayRead(r)
    /\ Hold(r, "shared")
    /\ UNCHANGED <<exists, table, pc, memory, journal>>

\* ... and has read what it wanted.
read_end(r) ==
    /\ lock[r] = "shared"
    /\ Hold(r, "none")
    /\ UNCHANGED <<exists, table, pc, memory, journal>>

----------------------------------------------------------------------------

Flush(w) ==
    \/ exec_refused(w) \/ exec_shared(w) \/ exec_reserved(w)
    \/ commit_lock(w) \/ commit(w) \/ rollback(w) \/ wake_up(w)

\* What a process does when it is neither killed nor given a malformed result.
Run(w) ==
    \/ connect_to_lumberjack(w) \/ create_table_check(w) \/ create_table(w)
    \/ Lumberjack(w) \/ log_trial(w) \/ destroy(w) \/ Flush(w)

\* Every process has come to its end: nothing is left to do.
Finished ==
    /\ \A w \in Writers : pc[w] \in {"closed", "dead"}
    /\ UNCHANGED vars

Next ==
    \/ \E w \in Writers : Run(w) \/ log_trial_throws(w) \/ crash(w)
    \/ \E r \in Readers : read_begin(r) \/ read_end(r)
    \/ Finished

Spec == Init /\ [][Next]_vars

\* The operating system keeps running every process; readers finish reading.
\* A process that keeps asking for a lock gets it when it is free again and
\* again: the random wait keeps two writers from colliding for ever.
Fairness ==
    /\ \A w \in Writers :
         /\ WF_vars(Run(w))
         /\ SF_vars(exec_shared(w) /\ MayRead(w))
         /\ SF_vars(exec_reserved(w) /\ MayWrite(w))
    /\ \A r \in Readers : WF_vars(read_end(r))

FairSpec == Spec /\ Fairness

----------------------------------------------------------------------------
(* Properties. *)

Rows == {Row(w, k) : w \in Writers, k \in 1 .. MaxTrials}

TypeOK ==
    /\ exists \in BOOLEAN
    /\ table \in Seq(Rows)
    /\ lock \in [Connections -> Locks]
    /\ pc \in [Writers -> PCs]
    /\ return_to \in [Writers -> {"idle", "closed"}]
    /\ logged \in [Writers -> 0 .. MaxTrials]
    /\ result_buffer \in [Writers -> Seq(Rows)]
    /\ bound \in [Writers -> Seq(Rows)]
    /\ done \in [Writers -> BOOLEAN]
    /\ journal \in [Writers -> Seq(Rows)]
    /\ \A w \in Writers : Len(result_buffer[w]) <= MAXIMUM_BUFFER_SIZE

\* A writer's rows are in the table at most once and in the order in which its
\* log_trial took them, whatever fails, is retried or is killed in between.
RecordedInOrder ==
    \A i, j \in 1 .. Len(table) :
        i < j /\ table[i][1] = table[j][1] => table[i][2] < table[j][2]

Recorded(w, k) == \E i \in 1 .. Len(table) : table[i] = Row(w, k)

\* The results that were in the buffer together with the k-th when it filled up.
SameBatch(k, j) ==
    (k - 1) \div MAXIMUM_BUFFER_SIZE = (j - 1) \div MAXIMUM_BUFFER_SIZE

\* One flush is one transaction: of the results that shared a buffer either
\* all are in the table or none, also after a crash in the middle of a flush.
WholeBatches ==
    \A w \in Writers : \A k, j \in 1 .. logged[w] :
        SameBatch(k, j) /\ Recorded(w, k) => Recorded(w, j)

\* "All results were not recorded." is never thrown: after exec() the number
\* of rows written is the number of results in the buffer.
AllResultsRecorded ==
    \A w \in Writers :
        pc[w] = "written" => Len(journal[w]) = Len(result_buffer[w])

\* The k-th result of w is in the table or still on its way there.
Kept(w, k) ==
    \/ Recorded(w, k)
    \/ /\ pc[w] # "closed"
       /\ \E i \in 1 .. Len(result_buffer[w]) : result_buffer[w][i] = Row(w, k)
    \/ /\ pc[w] = "committing"
       /\ \E i \in 1 .. Len(journal[w]) : journal[w][i] = Row(w, k)

\* While its process lives, a result is in the table or still on its way there.
\* Holds for a database with one connection, not for a shared one.
ResultsKept ==
    \A w \in Writers : pc[w] # "dead" => \A k \in 1 .. logged[w] : Kept(w, k)

\* The flush of w has been refused its COMMIT: the buffer is cleared, the
\* transaction rolled back and the statement will not execute again.
Stuck(w) == pc[w] = "unwind" \/ (pc[w] \in {"begin", "sleep"} /\ done[w])

\* On a shared database results are lost by a refused COMMIT and by nothing
\* else, and never quietly: a process that has lost one is in the retry loop
\* of flush_buffer.  It takes no more results and does not end normally, so an
\* experiment whose destructor returns has all of its results in the table.
LossStops ==
    \A w \in Writers : pc[w] # "dead" /\ ~Stuck(w) =>
        \A k \in 1 .. logged[w] : Kept(w, k)

\* However a flush ends (committed, refused, killed), its transaction leaves no
\* lock and no rows behind for the others to wait for; of two processes at most
\* one has rows to roll back, and nobody reads while they are committed.
TransactionsApart ==
    \A w \in Writers :
        /\ pc[w] \notin {"shared", "written", "committing", "unwind"} =>
               lock[w] = "none" /\ journal[w] = <<>>
        /\ journal[w] # <<>> => \A v \in Writers \ {w} : journal[v] = <<>>
        /\ pc[w] = "committing" => \A c \in Connections \ {w} : lock[c] = "none"

\* Every process comes to the end of its destructor with all of its results in
\* the table, unless it dies on the way: "both insertions succeed"
\* (test-lumberjack.cpp), because flush_buffer is to "Handle collisions by
\* waiting a random amount of time".  Holds for a database with one connection;
\* on a shared one a COMMIT that is refused leaves its flush retrying for ever.
ResultsDelivered ==
    \A w \in Writers :
        <>(\/ pc[w] = "dead"
           \/ (pc[w] = "closed" /\ \A k \in 1 .. logged[w] : Recorded(w, k)))

----------------------------------------------------------------------------
(* Lumberjack implements LumberjackLog when its database is private. *)

absState == [w \in Writers |->
    CASE pc[w] \in {"connect", "missing", "create", "open"} -> "new"
      [] pc[w] \in {"closed", "dead"} -> pc[w]
      [] OTHER -> "open"]

\* What is on its way to the table: the buffer, or once that is cleared the
\* rows of a transaction that can no longer be refused.
absBacklog == [w \in Writers |->
    IF pc[w] = "committing" THEN journal[w] ELSE result_buffer[w]]

Log == INSTANCE LumberjackLog
       WITH state <- absState, accepted <- logged, backlog <- absBacklog, log <- table

\* The logger keeps the promise of LumberjackLog: nothing that was handed over
\* is dropped while the process lives, and it is published whole and in order.
LogSpec == Log!Spec
============================================================================
