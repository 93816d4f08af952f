---------------------------- MODULE NibbleTables ----------------------------
(***************************************************************************)
(* Generation of the reference tables: GenerateN (src/generate-n.cpp), the *)
(* Chomp constructor's catalog tables (lib/storage/chomp.cpp), the table   *)
(* generators of the identifiers and Nibble::sort_and_index, run one       *)
(* process after the other by hoku/hoku.setup.                             *)
(*                                                                         *)
(* A process may end at any step: killed, or by an exception that leaves   *)
(* main (a busy database, a catalog that cannot be opened, a malformed     *)
(* time).  SQLite keeps the last committed state (db); what the process    *)
(* has not committed is seen by its own connection only (work).            *)
(*                                                                         *)
(* A table's rows are counted by the outer loop that inserts them: catalog *)
(* lines for HIP and BRIGHT, the first star of the pair or trio otherwise. *)
(* The loops compare with size() - 1 and size() - 2 of unsigned type; the  *)
(* assumption on BrightSize excludes the wrap-around, where they never end.*)
(***************************************************************************)
EXTENDS Naturals, FiniteSets, Sequences

CONSTANTS
    HIP, BRIGHT,   \* the catalog tables
    AngleTables,   \* ANGLE, PYRAMID: one transaction for all rows
    TrioTables,    \* SPHERE, PLANE, COMPOSITE: one transaction per first star
    DotTables,     \* DOT: the same, over all stars
    CatalogSize,   \* lines of the catalog
    BrightSize,    \* stars brighter than the limit
    Setup          \* the tables hoku.setup asks for, in order

Catalogs == {HIP, BRIGHT}
References == AngleTables \cup TrioTables \cup DotTables
Tables == Catalogs \cup References

ASSUME SizesAssumption ==
    CatalogSize \in Nat /\ BrightSize \in Nat /\ 2 <= BrightSize
ASSUME NamesAssumption ==
    /\ HIP # BRIGHT
    /\ Catalogs \cap References = {}
    /\ AngleTables \cap (TrioTables \cup DotTables) = {}
    /\ TrioTables \cap DotTables = {}
ASSUME SetupAssumption == Setup \in Seq(References \cup {HIP})

VARIABLES
    db,       \* the committed database: db[t] = [exists, rows, indexed]
    work,     \* the same as the running process sees it
    pc,       \* where the running process stands; "down" when there is none
    target,   \* its table argument
    left,     \* catalog tables its Chomp has still to look at
    table,    \* current_table
    loaded,   \* all_bright_stars.size()
    next,     \* hoku.setup: the next table to ask for
    failed,   \* history: some process did not end normally
    old       \* history: the tables that existed when the process started

vars == <<db, work, pc, target, left, table, loaded, next, failed, old>>

Absent == [exists |-> FALSE, rows |-> 0, indexed |-> FALSE]

Init ==
    /\ db = [t \in Tables |-> Absent]
    /\ work = db
    /\ pc = "down" /\ target = HIP /\ left = {} /\ table = HIP /\ loaded = 0
    /\ next = 1 /\ failed = FALSE /\ old = {}

\* The rows of a complete table.  BRIGHT has as many as there are bright
\* stars; the other bounds are those of the generators' outer loops.
CompleteRows(t) ==
    IF t = HIP THEN CatalogSize
    ELSE IF t = BRIGHT THEN BrightSize
    ELSE IF t \in AngleTables THEN BrightSize - 1
    ELSE IF t \in TrioTables THEN BrightSize - 2
    ELSE BrightSize

\* Mutant: the loop of the trio tables as bounded by the stars it has loaded,
\* one short.
LoopBoundShort(t) ==
    IF t \in AngleTables THEN loaded - 1
    ELSE IF t \in TrioTables THEN loaded - 3
    ELSE loaded

\* Where the outer loop of a reference table's generator ends.
LoopBound(t) ==
    IF t \in AngleTables THEN loaded - 1
    ELSE IF t \in TrioTables THEN loaded - 2
    ELSE loaded

Stay == UNCHANGED <<target, next, failed, old>>

----------------------------------------------------------------------------
(* The constructor of Chomp. *)

\* generate-n.cpp's main, for any table.
main(t) ==
    /\ pc = "down"
    /\ pc' = "catalog"
    /\ target' = t
    /\ left' = Catalogs
    /\ work' = db
    /\ old' = {c \in Tables : db[c].exists}
    /\ UNCHANGED <<db, table, loaded, failed>>

\* hoku.setup asks for its tables, one process after the other.
run_setup == next <= Len(Setup) /\ main(Setup[next]) /\ next' = next + 1

\* Later any table may be asked for again.
rerun(t) == next > Len(Setup) /\ main(t) /\ UNCHANGED next

\* create_table(is_bright), in either order: leave a table that exists, else
\* create it in the transaction that will also fill it.
create_catalog(c) ==
    /\ pc = "catalog" /\ c \in left
    /\ table' = c
    /\ IF work[c].exists
       THEN left' = left \ {c} /\ UNCHANGED <<pc, work>>
       ELSE /\ work' = [work EXCEPT ![c].exists = TRUE]
            /\ pc' = "insert"
            /\ UNCHANGED left
    /\ UNCHANGED <<db, loaded>> /\ Stay

\* Mutant: every line is committed.
insert_catalog_committing ==
    /\ pc = "insert"
    /\ work[table].rows < CompleteRows(table)
    /\ work' = [work EXCEPT ![table].rows = @ + 1]
    /\ db' = work'
    /\ UNCHANGED <<pc, left, table, loaded>> /\ Stay

\* One catalog line.
insert_catalog ==
    /\ pc = "insert"
    /\ work[table].rows < CompleteRows(table)
    /\ work' = [work EXCEPT ![table].rows = @ + 1]
    /\ UNCHANGED <<db, pc, left, table, loaded>> /\ Stay

commit_catalog ==
    /\ pc = "insert"
    /\ work[table].rows = CompleteRows(table)
    /\ db' = work
    /\ pc' = "sort_catalog"
    /\ UNCHANGED <<work, left, table, loaded>> /\ Stay

\* sort_and_index: copy, drop, rename and index in one transaction.
sort_and_index ==
    /\ work' = [work EXCEPT ![table].indexed = TRUE]
    /\ db' = work'

sort_catalog ==
    /\ pc = "sort_catalog"
    /\ sort_and_index
    /\ left' = left \ {table}
    /\ pc' = "catalog"
    /\ UNCHANGED <<table, loaded>> /\ Stay

\* load_all_stars, then the generator; that of HIP has nothing to do.
load_all_stars ==
    /\ pc = "catalog" /\ left = {}
    /\ loaded' = work[BRIGHT].rows
    /\ pc' = IF target = HIP THEN "down" ELSE "create"
    /\ UNCHANGED <<db, work, left, table>> /\ Stay

----------------------------------------------------------------------------
(* The generators. *)

\* Mutant: the early return is missing, rows are added to the table there is.
create_table_anew ==
    /\ pc = "create"
    /\ table' = target
    /\ work' = [work EXCEPT ![target] = [Absent EXCEPT !.exists = TRUE]]
    /\ db' = IF target \in AngleTables THEN db ELSE work'
    /\ pc' = "fill"
    /\ UNCHANGED <<left, loaded>> /\ Stay

\* Mutant: the table of the angle generator is created before its transaction.
create_table_first ==
    /\ pc = "create"
    /\ table' = target
    /\ IF work[target].exists
       THEN pc' = "down" /\ UNCHANGED <<db, work>>
       ELSE /\ work' = [work EXCEPT ![target].exists = TRUE]
            /\ db' = work'
            /\ pc' = "fill"
    /\ UNCHANGED <<left, loaded>> /\ Stay

\* "Exit early if the table already exists."  The angle tables are created in
\* the transaction of their rows, the others are committed empty.
create_table ==
    /\ pc = "create"
    /\ table' = target
    /\ IF work[target].exists
       THEN pc' = "down" /\ UNCHANGED <<db, work>>
       ELSE /\ work' = [work EXCEPT ![target].exists = TRUE]
            /\ db' = IF target \in AngleTables THEN db ELSE work'
            /\ pc' = "fill"
    /\ UNCHANGED <<left, loaded>> /\ Stay

\* The rows of one first star: "Commit every star I change."
fill ==
    /\ pc = "fill"
    /\ work[table].rows < LoopBound(table)
    /\ work' = [work EXCEPT ![table].rows = @ + 1]
    /\ db' = IF table \in AngleTables THEN db ELSE work'
    /\ UNCHANGED <<pc, left, table, loaded>> /\ Stay

end_fill ==
    /\ pc = "fill"
    /\ work[table].rows >= LoopBound(table)
    /\ db' = work
    /\ pc' = "sort"
    /\ UNCHANGED <<work, left, table, loaded>> /\ Stay

\* Mutant: the generator returns without its last call.
sort_reference_skipped ==
    /\ pc = "sort"
    /\ pc' = "down"
    /\ UNCHANGED <<db, work, left, table, loaded>> /\ Stay

sort_reference ==
    /\ pc = "sort"
    /\ sort_and_index
    /\ pc' = "down"
    /\ UNCHANGED <<left, table, loaded>> /\ Stay

----------------------------------------------------------------------------

\* The process ends before its work is done; uncommitted work is rolled back.
\* hoku.setup goes on: generate-n.py does not look at the exit status.
crash ==
    /\ pc # "down"
    /\ pc' = "down"
    /\ work' = db
    /\ failed' = TRUE
    /\ UNCHANGED <<db, target, left, table, loaded, next, old>>

Process ==
    \/ \E c \in Catalogs : create_catalog(c)
    \/ insert_catalog \/ commit_catalog \/ sort_catalog \/ load_all_stars
    \/ create_table \/ fill \/ end_fill \/ sort_reference

Next ==
    \/ run_setup
    \/ \E t \in References \cup {HIP} : rerun(t)
    \/ Process
    \/ crash

Spec == Init /\ [][Next]_vars

\* A process that is not killed runs to its end; hoku.setup goes on.
FairSpec == Spec /\ WF_vars(Process) /\ WF_vars(run_setup)

----------------------------------------------------------------------------
(* Properties. *)

TableStates ==
    [exists : BOOLEAN, rows : Nat, indexed : BOOLEAN]

TypeOK ==
    /\ db \in [Tables -> TableStates]
    /\ work \in [Tables -> TableStates]
    /\ pc \in {"down", "catalog", "insert", "sort_catalog", "create", "fill", "sort"}
    /\ target \in References \cup {HIP}
    /\ left \subseteq Catalogs
    /\ table \in Tables
    /\ loaded \in {0, BrightSize}
    /\ next \in Nat
    /\ failed \in BOOLEAN
    /\ old \subseteq Tables
    /\ \A t \in Tables : db[t].rows <= CompleteRows(t)

\* A table that is sorted and indexed is complete, whatever crashed and was
\* run again before: no index is ever put on part of the data.
IndexedComplete ==
    \A t \in Tables : db[t].indexed => db[t].exists /\ db[t].rows = CompleteRows(t)

\* The tables that are created and filled in one transaction, catalogs and
\* angle tables, are there with all of their rows or not at all.  (A trio or
\* Dot table is filled in a later transaction: a crash can leave a part of it.)
AllOrNothing ==
    \A t \in Catalogs \cup AngleTables : db[t].exists => db[t].rows = CompleteRows(t)

\* Labels in a reference table can be resolved (query_hip throws otherwise):
\* a row is only ever committed over a complete HIP and BRIGHT.
CatalogFirst ==
    \A t \in References : db[t].exists =>
        \A c \in Catalogs : db[c].exists /\ db[c].rows = CompleteRows(c)

\* A process never changes a table that another one has left behind, be it
\* complete, incomplete or unsorted; what is there is also never repaired.
OldTablesUntouched ==
    [][\A t \in old : old' = old => db'[t] = db[t]]_vars

\* When every process ended normally, the tables that no process is working
\* on are complete and indexed; after hoku.setup that is all it asked for.
QuietMeansComplete ==
    ~failed /\ pc = "down" =>
        \A t \in Tables :
            \/ db[t] = [exists |-> TRUE, rows |-> CompleteRows(t), indexed |-> TRUE]
            \/ db[t] = Absent /\ \A s \in 1 .. next - 1 : Setup[s] # t

\* When no process is stopped early, hoku.setup leaves every table it asks
\* for complete and indexed.
SetupCompletes ==
    [](~failed) =>
        <>(\A i \in 1 .. Len(Setup) :
              db[Setup[i]] = [exists |-> TRUE, rows |-> CompleteRows(Setup[i]), indexed |-> TRUE])
=============================================================================
