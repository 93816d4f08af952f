----------------------------- MODULE Campaign -----------------------------
(***************************************************************************)
(* Experiment campaigns: hoku/perform-e.py, as hoku/hoku.expr starts it.   *)
(*                                                                         *)
(* A campaign runs pnum PerformE processes, each on a record database of   *)
(* its own (slot i writes recdb-i), waits for all of them, copies the rows *)
(* of every slot into the main record database in one transaction and then *)
(* removes the slots' files.  Nothing tells a slot's file of this campaign *)
(* from one that an earlier, interrupted campaign left behind.             *)
(*                                                                         *)
(* A child follows LumberjackLog: it buffers its results, publishes whole  *)
(* buffers, and the rest when it ends; a child that dies loses its buffer. *)
(* When its script is killed a child lives on, as an orphan: it writes its *)
(* file, by now perhaps that of a child of the next campaign or removed by *)
(* the next script, and its commits and theirs may collide (Lumberjack).   *)
(* A power cut is the death of the script and of every child.              *)
(***************************************************************************)
EXTENDS Naturals, FiniteSets

CONSTANTS
    MaxSlots,       \* bound: the largest -pnum
    Samples,        \* -samples, for one variation of the noise
    Buffer,         \* lumberjack.cpp: MAXIMUM_BUFFER_SIZE
    Tables,         \* experiment tables: the values of -etable
    MaxCampaigns    \* bound: campaigns started

ASSUME SizesAssumption ==
    /\ MaxSlots \in Nat \ {0} /\ Samples \in Nat /\ Buffer \in Nat \ {0}
    /\ MaxCampaigns \in Nat

Slots == 0 .. MaxSlots - 1
Campaigns == 1 .. MaxCampaigns

\* The child <<c, i>> has slot i in campaign c; <<c, i, m>> is its m-th result.
Children == Campaigns \X Slots
Rows == Campaigns \X Slots \X (1 .. Samples)

VARIABLES
    \* the command lines
    pnum,       \* pnum[c]: the -pnum of campaign c
    etable,     \* etable[c]: its -etable
    \* the database files
    main,       \* main[r]: how often row r is in the main record database
    tables,     \* tables[i]: the experiment tables in recdb-i
    rows,       \* rows[i]: the rows in them
    removals,   \* removals[i]: how often recdb-i has been removed
    \* the children
    child,      \* child[k]: "none", "started", "running", "stuck" or "ended"
    logged,     \* logged[k]: results handed to its Lumberjack
    opened,     \* opened[k]: the removals of its file when it opened it
    \* the script
    pc,         \* "idle", "pool", "collect" or "remove"
    at,         \* the next slot to read or to remove
    work,       \* main as the open transaction sees it
    \* history
    campaign,     \* campaigns started
    recorded,     \* the rows that children have committed
    orphaned,     \* those of them whose script was dead by then
    killed,       \* the campaigns whose script was killed while it waited
    failed,       \* a child has died or a script was killed
    interrupted   \* scripts killed while they removed files

arguments == <<pnum, etable>>
files == <<tables, rows, removals>>
children == <<child, logged, opened>>
script == <<pc, at, work, campaign>>
history == <<recorded, orphaned, killed, failed, interrupted>>
vars == <<arguments, main, files, children, script, history>>

Init ==
    /\ pnum \in [Campaigns -> 1 .. MaxSlots] /\ etable \in [Campaigns -> Tables]
    /\ main = [r \in Rows |-> 0] /\ work = main
    /\ tables = [i \in Slots |-> {}] /\ rows = [i \in Slots |-> {}]
    /\ removals = [i \in Slots |-> 0]
    /\ child = [k \in Children |-> "none"] /\ logged = [k \in Children |-> 0]
    /\ opened = [k \in Children |-> 0]
    /\ pc = "idle" /\ at = 0 /\ campaign = 0
    /\ recorded = {} /\ orphaned = {} /\ killed = {}
    /\ failed = FALSE /\ interrupted = 0

\* round(samples / pnum): Python rounds a half to the even neighbour.
simulations(p) ==
    LET quotient == Samples \div p
        rest == Samples % p
    IN IF 2 * rest > p \/ (2 * rest = p /\ quotient % 2 = 1) THEN quotient + 1 ELSE quotient

\* The slots of the campaign.
Slot(i) == i < pnum[campaign]

\* What child k is asked for.
Quota(k) == simulations(pnum[k[1]])

\* The script of k is there and waits for it.
Attended(k) == pc = "pool" /\ k[1] = campaign

\* The file that k has open is still recdb-i.
Linked(k) == opened[k] = removals[k[2]]

----------------------------------------------------------------------------
(* The children: PerformE processes. *)

\* connect_to_lumberjack opens the file, makes it if there is none, and makes
\* the table unless an earlier child left it.
connect(k) ==
    /\ child[k] = "started"
    /\ child' = [child EXCEPT ![k] = "running"]
    /\ opened' = [opened EXCEPT ![k] = removals[k[2]]]
    /\ tables' = [tables EXCEPT ![k[2]] = @ \cup {etable[k[1]]}]
    /\ UNCHANGED <<arguments, main, rows, removals, logged, script, history>>

\* Somebody else reads or writes the file that k writes: another child, one
\* that looks for the table, or the script.
Shared(k) ==
    \/ \E l \in Children \ {k} :
          /\ l[2] = k[2]
          /\ \/ child[l] = "running" /\ opened[l] = opened[k]
             \/ child[l] = "started" /\ Linked(k)
    \/ pc = "collect" /\ at = k[2] /\ Linked(k)

\* All that k has handed over is in its table, wherever its file now is.
Publish(k) ==
    LET results == {<<k[1], k[2], m>> : m \in 1 .. logged'[k]} IN
    /\ rows' = IF Linked(k) THEN [rows EXCEPT ![k[2]] = @ \cup results] ELSE rows
    /\ recorded' = recorded \cup results
    /\ orphaned' = IF Attended(k) THEN orphaned ELSE orphaned \cup (results \ recorded)

\* flush_buffer, before k goes on to label.  When its COMMIT is refused, what was
\* in the buffer is lost and k tries again for ever.
flush(k, label) ==
    \/ Publish(k) /\ child' = [child EXCEPT ![k] = label]
    \/ /\ Shared(k)
       /\ child' = [child EXCEPT ![k] = "stuck"]
       /\ UNCHANGED <<rows, recorded, orphaned>>

Full(k) == logged'[k] % Buffer = 0

\* log_trial; a full buffer is flushed.
log_trial(k) ==
    /\ child[k] = "running"
    /\ logged[k] < Quota(k)
    /\ logged' = [logged EXCEPT ![k] = @ + 1]
    /\ IF Full(k) THEN flush(k, "running") ELSE UNCHANGED <<rows, recorded, orphaned, child>>
    /\ UNCHANGED <<arguments, main, tables, removals, opened, script, killed, failed, interrupted>>

\* Mutant: the destructor does not flush the rest.
end_unflushed(k) ==
    /\ child[k] = "running"
    /\ logged[k] = Quota(k)
    /\ child' = [child EXCEPT ![k] = "ended"]
    /\ UNCHANGED <<arguments, main, files, logged, opened, script, history>>

\* The experiment is over: the destructor flushes the rest.
end(k) ==
    /\ child[k] = "running"
    /\ logged[k] = Quota(k)
    /\ logged' = logged
    /\ IF Full(k)
       THEN child' = [child EXCEPT ![k] = "ended"] /\ UNCHANGED <<rows, recorded, orphaned>>
       ELSE flush(k, "ended")
    /\ UNCHANGED <<arguments, main, tables, removals, opened, script, killed, failed, interrupted>>

\* An exception leaves main (an experiment that is "Not implemented", a table
\* that is missing, a malformed argument) or the process is killed.
die(k) ==
    /\ child[k] \in {"started", "running", "stuck"}
    /\ child' = [child EXCEPT ![k] = "ended"]
    /\ failed' = TRUE
    /\ UNCHANGED <<arguments, main, files, logged, opened, script, recorded, orphaned, killed, interrupted>>

----------------------------------------------------------------------------
(* perform-e.py *)

\* Pool(pnum).starmap(execute_chunk, ...) of the next campaign.
start ==
    /\ pc = "idle"
    /\ campaign < MaxCampaigns
    /\ pc' = "pool" /\ at' = 0
    /\ campaign' = campaign + 1
    /\ child' = [k \in Children |->
                   IF k[1] = campaign' /\ k[2] < pnum[k[1]] THEN "started" ELSE child[k]]
    /\ UNCHANGED <<arguments, main, files, logged, opened, work, history>>

\* Mutant: every child there may ever be is waited for.
join_all ==
    /\ pc = "pool"
    /\ \A i \in Slots : child[<<campaign, i>>] = "ended"
    /\ pc' = "collect" /\ at' = 0 /\ work' = main
    /\ UNCHANGED <<arguments, main, files, children, campaign, history>>

\* Mutant: the results are asked for and not waited for (starmap_async).
join_none ==
    /\ pc = "pool"
    /\ pc' = "collect" /\ at' = 0 /\ work' = main
    /\ UNCHANGED <<arguments, main, files, children, campaign, history>>

\* starmap returns when every call has, whatever the children ended with; the
\* main database is opened, and given its table unless it has one.
join ==
    /\ pc = "pool"
    /\ \A i \in Slots : Slot(i) => child[<<campaign, i>>] = "ended"
    /\ pc' = "collect" /\ at' = 0 /\ work' = main
    /\ UNCHANGED <<arguments, main, files, children, campaign, history>>

\* The rows of the table that the campaign asks for.
Asks(r) == etable[r[1]] = etable[campaign]

Copied == [r \in Rows |-> work[r] + (IF r \in rows[at] /\ Asks(r) THEN 1 ELSE 0)]

\* Mutant: a commit after every slot.
collect_committing ==
    /\ pc = "collect" /\ Slot(at)
    /\ etable[campaign] \in tables[at]
    /\ work' = Copied /\ main' = work' /\ at' = at + 1
    /\ UNCHANGED <<arguments, files, children, pc, campaign, history>>

\* SELECT * of one slot, and an INSERT of every row into the main database.
collect ==
    /\ pc = "collect" /\ Slot(at)
    /\ etable[campaign] \in tables[at]
    /\ work' = Copied /\ at' = at + 1
    /\ UNCHANGED <<arguments, main, files, children, pc, campaign, history>>

\* The child of the slot died before it made its table: the SELECT raises,
\* the script ends and its transaction is rolled back.
collect_raises ==
    /\ pc = "collect" /\ Slot(at)
    /\ etable[campaign] \notin tables[at]
    /\ pc' = "idle"
    /\ UNCHANGED <<arguments, main, files, children, at, work, campaign, history>>

\* Mutant: no commit.
commit_forgotten ==
    /\ pc = "collect" /\ ~Slot(at)
    /\ pc' = "remove" /\ at' = 0
    /\ UNCHANGED <<arguments, main, files, children, work, campaign, history>>

\* main_db.commit()
commit ==
    /\ pc = "collect" /\ ~Slot(at)
    /\ main' = work
    /\ pc' = "remove" /\ at' = 0
    /\ UNCHANGED <<arguments, files, children, work, campaign, history>>

\* Mutant: the last slot is forgotten.
LastRemoved == at + 1 >= pnum[campaign] - 1

LastSlot == at + 1 = pnum[campaign]

\* remove(recdb-i): the file with all of its tables; a process that has it open
\* keeps it and writes where nobody reads.
remove ==
    /\ pc = "remove"
    /\ tables' = [tables EXCEPT ![at] = {}]
    /\ rows' = [rows EXCEPT ![at] = {}]
    /\ removals' = [removals EXCEPT ![at] = @ + 1]
    /\ at' = at + 1
    /\ pc' = IF LastSlot THEN "idle" ELSE "remove"
    /\ UNCHANGED <<arguments, main, children, work, campaign, history>>

----------------------------------------------------------------------------

\* The script is killed: what it has not committed is gone, the files stay, and
\* its children go on without it.
kill ==
    /\ pc # "idle"
    /\ pc' = "idle"
    /\ killed' = IF pc = "pool" THEN killed \cup {campaign} ELSE killed
    /\ failed' = TRUE
    /\ interrupted' = IF pc = "remove" THEN interrupted + 1 ELSE interrupted
    /\ UNCHANGED <<arguments, main, files, children, at, work, campaign, recorded, orphaned>>

Child(k) == connect(k) \/ log_trial(k) \/ end(k)
Script == join \/ collect \/ collect_raises \/ commit \/ remove

\* Every campaign there is to run has been run.
Finished == pc = "idle" /\ campaign = MaxCampaigns /\ UNCHANGED vars

Next ==
    \/ start
    \/ \E k \in Children : Child(k) \/ die(k)
    \/ Script \/ kill \/ Finished

Spec == Init /\ [][Next]_vars

\* The operating system runs the script and every child.
FairSpec == Spec /\ WF_vars(Script) /\ \A k \in Children : WF_vars(Child(k))

----------------------------------------------------------------------------
(* Properties. *)

\* The rows that the campaigns so far have asked their children for.
Asked == {r \in Rows : r[1] <= campaign /\ r[2] < pnum[r[1]] /\ r[3] <= Quota(r)}

TypeOK ==
    /\ pnum \in [Campaigns -> 1 .. MaxSlots] /\ etable \in [Campaigns -> Tables]
    /\ main \in [Rows -> Nat] /\ work \in [Rows -> Nat]
    /\ tables \in [Slots -> SUBSET Tables]
    /\ rows \in [Slots -> SUBSET Rows]
    /\ removals \in [Slots -> Nat] /\ opened \in [Children -> Nat]
    /\ child \in [Children -> {"none", "started", "running", "stuck", "ended"}]
    /\ logged \in [Children -> 0 .. Samples]
    /\ pc \in {"idle", "pool", "collect", "remove"}
    /\ at \in 0 .. MaxSlots
    /\ campaign \in 0 .. MaxCampaigns
    /\ recorded \subseteq Asked /\ orphaned \subseteq recorded
    /\ killed \subseteq Campaigns
    /\ failed \in BOOLEAN /\ interrupted \in Nat

\* A later campaign that has the slot of r removes it uncollected: r came from
\* an orphan, or is in a table that the campaign does not ask for.
Overwritten(r) ==
    \E c \in r[1] + 1 .. campaign :
        r[2] < pnum[c] /\ (r \in orphaned \/ etable[c] # etable[r[1]])

\* What a child has committed is in the main database or still in its slot's
\* file, for the next campaign that has this slot to collect.  It is lost in two
\* cases only: its script was dead when it was committed, or the next campaign
\* works on another table.  No other kill or death, of script or child, at any
\* point, loses a row.
LossExplained ==
    \A r \in recorded : main[r] > 0 \/ r \in rows[r[2]] \/ Overwritten(r)

\* A result is collected once, and once more at most for every script that was
\* killed between its commit and the end of the removals.
CopiesBounded == \A r \in Rows : main[r] <= 1 + interrupted

\* The slots are collected together: when the main database changes, it has
\* every row that the children of any campaign left in the table and the slots
\* of this one, but for those that orphans wrote; and it never loses a row.
CollectedTogether ==
    [][main' # main =>
         /\ \A r \in Rows : main'[r] >= main[r]
         /\ \A i \in Slots : Slot(i) =>
               \A r \in rows[i] : Asks(r) /\ r \notin orphaned => main'[r] > 0]_vars

\* Campaigns in which nothing died leave exactly the results they asked their
\* children for (-samples divided by -pnum and rounded, for each of them), each
\* once, and no file.
QuietDelivers ==
    pc = "idle" /\ ~failed =>
        /\ \A r \in Rows : main[r] = IF r \in Asked THEN 1 ELSE 0
        /\ \A i \in Slots : tables[i] = {} /\ rows[i] = {}

\* Only an orphan makes a COMMIT fail, its own or that of a child which has
\* been given the same slot: a campaign's processes never meet on a file.
CollisionNeedsOrphan ==
    \A k \in Children : child[k] = "stuck" => \E c \in killed : k[2] < pnum[c]

\* A campaign comes to its end, also when children die, unless one of them has
\* been refused its COMMIT: for that one the script waits for ever.
CampaignEnds ==
    (pc # "idle") ~>
        (pc = "idle" \/ \E i \in Slots : child[<<campaign, i>>] = "stuck")
=============================================================================
