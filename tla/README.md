# Verification of Hoku

Hoku answers "which catalog stars are in this picture?" with five published
strategies, and compares them in experiments. This directory has TLA+ models of
the parts of it whose control can go wrong, TLC runs that check them on small
instances, and proofs, checked by TLAPS, that hold for every instance. Paths are
relative to the repository. `PROJECT.json` has the exact lines of every definition
(`map`), the runs, the hazards, the mutants that each property is tested with, the
findings and the theorems.

Check a model with `tlc -config Triangle.cfg MCBaseTriangle`, a proof with
`tlapm BaseTriangleProofs.tla`.

## 1. Inventory

### Components

| component | source | state | operations |
|---|---|---|---|
| Nibble, Chomp (storage) | `lib/storage` | SQLite connection, `current_table`, catalog tables HIP and BRIGHT, loaded stars | open or create the catalog tables, `create_table`, bulk insertion, `sort_and_index`, bound and nearby queries |
| GenerateN, `hoku.setup` | `src/generate-n.cpp`, `hoku/generate-n.py`, `hoku/hoku.setup` | the reference tables in the database | one process per table: create, fill, sort, index |
| Triangle strategies (Sphere, Plane) | `lib/identification/base-triangle.cpp`, `spherical-triangle.cpp`, `planar-triangle.cpp` | loop indices, `pivot_c` (deque), `big_r_1` (candidates), `nu` | `e_query`, `e_reduction`, `e_identify` |
| Angle | `lib/identification/angle.cpp` | loop indices, `nu` | `query`, `reduce`, `identify` |
| Pyramid | `lib/identification/pyramid.cpp` | loop indices, `nu` | `query`, `reduce`, `identify` |
| Composite Pyramid | `lib/identification/composite-pyramid.cpp` | the same; inherits `identify` | `query`, `reduce`, `find_catalog_stars` |
| Interior Angle (Dot) | `lib/identification/dot-angle.cpp` | loop indices, `nu` | `query`, `reduce`, `identify` |
| Identification (shared interface) | `lib/identification/identification.cpp`, `.h` | parameters, the shared Chomp | `find_positive_overlay`; the promise of identify and reduce |
| Math | `lib/math` | none | stars, rotations (TRIAD), areas and moments of trios |
| Benchmark | `lib/benchmark` | the image `b`, the matching inertial stars `r`, the answer key | draw an image; shift, add and remove light; shuffle |
| Experiments | `include/experiment/experiment.h`, `lib/experiment/experiment.cpp` | loop variables, one Benchmark and one strategy | trials over parameter ranges, scoring |
| Lumberjack | `lib/experiment/lumberjack.cpp` | result buffer of up to 50 rows, a SQLite transaction | `log_trial`, `flush_buffer`, destructor |
| PerformE | `src/perform-e.cpp` | one Lumberjack per process | make the record table when it is missing, run an experiment, log its rows |
| Campaign scripts | `hoku/perform-e.py`, `hoku/hoku.expr` | a pool of children with a record database each, the open transaction on the main one | start and await children, collect their rows, remove their files |
| process-i | `src/process-i.cpp`, `hoku/process-i.py` | an image | find blobs with OpenCV, write stars |
| third party | `lib/third-party`, `include/third-party` | | SQLite, SQLiteCpp, gmath, cxxtimer |

### How they interact

`hoku.setup` runs GenerateN once per table; each GenerateN opens the shared
database through Chomp (which builds HIP and BRIGHT when they are not there) and
fills one reference table. `perform-e.py` starts several PerformE children, each
with a record database of its own (`recdb-i`); a child draws an image with
Benchmark, lets a strategy identify or reduce it against the reference table, and
hands the result to its Lumberjack. When all children are done the script copies
their rows into the main record database. The processes share only files: SQLite's
locks and transactions are all the synchronisation there is. Inside a process
everything runs on one thread.

### What is hard

- **Lock collisions and retries** (Lumberjack): `flush_buffer` retries a
  transaction that may have failed in BEGIN, INSERT or COMMIT, having changed its
  own memory at some of these points and not at others.
- **Crashes and restarts** (table generation, Lumberjack): a table or the catalog
  may be left behind by a dead process; every later process decides by "does the
  table exist" what to do.
- **Exhaustive search under a budget** (all strategies): nested loops over pairs
  or trios that are left by `continue`, an early return or the limit `nu_max`.
  What "not found" and "too many comparisons" mean depends on every one of these
  exits. The bounds are differences of unsigned sizes.
- **State narrowed over many steps** (triangles): `pivot` recurses while several
  candidates are left, popping a deque and intersecting a candidate set kept in
  the object.
- **Interrupted campaigns** (scripts): what the children recorded lies in files that
  outlive them. A file does not say which campaign wrote it, a dead child is not
  noticed, and the collection is one transaction followed by one removal per file.
  Children outlive a script that is killed, and go on writing files that the next
  campaign's children open and its script reads and removes.
- **Three lists that must stay one** (Benchmark): the image, the inertial stars and
  the answer key are extended, erased and shuffled apart, and reused by every trial.
- **Voting with wrong answers** (Pyramid): three noisy queries elect three stars.

### What makes each component correct

- Lumberjack: each flushed buffer is in the table whole, once, in order; a process
  that ended normally has recorded everything; nothing handed over is lost while
  the process lives, and a process that is not killed ends with all its results in the
  table (the last two are true of a private database only).
- Table generation: an indexed table is complete; catalogs come before reference
  tables; a finished table is never changed; with no crash, setup leaves complete
  tables.
- Strategies: the indices stay in the image and differ; the budget is overrun by
  one step's cost at most; "not found" means every subset was tried (Pyramid: every
  trio without the last star of the image, which is not what it says); when queries
  do not miss the true row, filtering and voting never lose the truth and what is
  answered is the truth; every call ends.
- Campaign scripts: what a child has committed is lost in two cases only (its script was
  dead when it committed, or the slot's next campaign is on another table), and hardly
  ever collected twice; a campaign is collected whole or not at all; campaigns without a
  death deliver exactly what the children were asked for; a campaign ends unless a COMMIT
  of one of its children is refused, which takes an orphan of an earlier one.
- Benchmark and experiments: the lists stay aligned; a logged row tells the noise of
  the image it was measured on; a right answer scores 100 % under any noise and no
  answer scores more; an experiment ends with one row per sample.

## 2. Modules

| module | what it is |
|---|---|
| `LumberjackLog` | abstract: what a logger promises: accept, publish a batch, close, die |
| `Lumberjack` | the processes of PerformE on one record database, with SQLite's lock table |
| `MCLumberjack` | its symmetry |
| `LumberjackProofs` | theorems |
| `Campaign`, `CampaignProofs` | campaigns of `perform-e.py`, one script after the other, with deaths, kills and orphaned children |
| `Trial`, `MCTrial`, `TrialProofs` | an identification experiment: Benchmark, the loops of `trial`, the score |
| `NibbleTables`, `MCNibbleTables`, `NibbleTablesProofs` | `hoku.setup` and repeated GenerateN runs with crashes |
| `Search` | abstract: an exhaustive search of subsets under a budget |
| `BaseTriangle`, `MCBaseTriangle`, `BaseTriangleProofs` | Sphere and Plane; implements `Search` |
| `Angle`, `AngleProofs` | Angle; implements `Search` |
| `Pyramid`, `MCPyramid`, `PyramidProofs` | Pyramid and Composite Pyramid; implement `Search` |
| `DotAngle`, `MCDotAngle`, `DotAngleProofs` | Interior Angle; implements `Search` |

### How the models correspond to the code

**Lumberjack.** A writer is a PerformE process. `pc` names where in
`connect_to_lumberjack`, the constructor, `log_trial`, `flush_buffer` or the
destructor it is. The loop of `flush_buffer` is one step per lock it asks SQLite
for: `exec_shared` and `exec_reserved` are `insert.exec()`, `commit_lock` clears
the buffer and asks for EXCLUSIVE, `commit` writes, `rollback` is the Transaction's
destructor on the way to the `catch`, `wake_up` the sleep and the next turn.
`done` is SQLiteCpp's `mbDone`: a statement that was executed refuses a second
`exec()` until it is reset, which the code never does (`exec_refused`). The
destructor is not run by a process that dies by an exception or signal. SQLite
itself is external: the lock compatibility (SHARED, RESERVED, PENDING, EXCLUSIVE)
with a busy time-out of zero, which is what the code leaves it at.

**Campaign.** The script is `pc`, the slot `at` it has come to and `work`, the main
database as its open transaction sees it; `main` is what is committed. `pnum` and
`etable` are the command line of each campaign. A slot is the name `recdb-i`: the
tables in the file of that name and the rows in them. Child `<<c, i>>` has slot `i` in
campaign `c`; `started` is a process that has not yet come to `connect_to_lumberjack`.
It is a logger of `LumberjackLog`'s kind: full buffers are published, the rest when it
ends (`flush`, `Publish`); `die` is any exception or signal, and `join` does not look at
it. `collect` is the SELECT of one slot with its INSERTs, of the rows of the campaign's
own table (`Asks`); `collect_raises` is the missing table of a child that died before
`connect`, which ends the script and rolls back; `commit` and the `remove`s follow.

`kill` ends the script alone, at any point: the files stay, and the children go on as
orphans (`Attended` says whether a child still has its script). The next `start` gives
their slots to other children. A child that opened its file before the last removal of
that name (`opened`, `removals`, `Linked`) keeps writing a file that nobody can read any
more; one that opens it later makes a new one. A child whose COMMIT meets another process
on the same file (`Shared`) may be refused, and is `stuck` from then on, which is what
`Lumberjack` says of it. Everything being killed at once is `kill` followed by `die` of
every child.

A row is named by campaign, slot and number, so that a copy can be told from another
result; the code's rows have no such name. A campaign asks each child for
`round(samples / pnum)` results, with Python's rounding; they stand for those of one
variation of the noise. `hoku.expr` uses one `-etable` throughout; other tables are the
user's who starts `perform-e.py` by hand. At most one script runs at a time.

**Trial.** One step is one call of Benchmark, one loop head or one identification.
`b`, `r` and `b_answers` are the lists; a star of `b` carries, for the properties only,
the star it is. `build` is Benchmark's constructor, `generate_stars` the drawing
in the loop; both are `Drawn`, whose retry until enough stars are in view is the
condition on what is drawn. `shuffle` applies one permutation per length to all three
lists, as copies of one engine do. The noise steps include the shuffle that ends them.
`identify` takes any answer a strategy could give, scores it with `correct` and logs
the row. Places are on a line: angles only enter as "within the field of view of the
centre", "within the blob" and "nearer than the field of view".

**NibbleTables.** One process at a time, as the scripts run them. `db` is what is
committed, `work` what the process's own connection sees; a crash is a step from
every point and sets `work` to `db`. A table is its number of rows, by the turns of
the outer loop that writes them, and whether it is sorted and indexed. The
transaction boundaries are the code's: catalogs and the pair tables fill in the
transaction that creates the table, the trio tables commit the empty table first
and then every turn. `generate-n.py` drops the exit status, so `run_setup` goes on
after a crash.

**BaseTriangle.** `call` enters `e_identify` or `e_reduction` with an image of any
size. `initialize_pivot` fills the deque (as the set of its indices, popped in
order), `pivot_query`, `pivot_out_of_view`, `pivot_exceeded` are the three ways
through a `pivot` call, and `Narrow` its end: one candidate, none, or the recursion
with the next star. `Filter` is the `remove_if` at line 153, `ChainedEqual` the
`a == b == c ...` of the match test, with C's meaning. A catalog trio is a set of
three stars: the code only looks at how many stars two trios share. Image and table
are a *sky*: its catalog, and whether it is *faithful*.

**Angle, Pyramid, DotAngle.** One step is one turn of the innermost loop.
In `Pyramid`, `sky.strategy` says whose overrides are called. The vote (`common`,
`Sole`, `Elected`) works on the actual answers of the three queries; `DotAngle`
keeps the separations of the image stars, as condition 6d and `find_closest` compare
them: the loop of `find_closest` is `theta_big_i`, its `std::sort` any order in which the
separations ascend (`Sorted`), and its two results are what stands at the first two
places. A vector that is shorter is read past its end, which is undefined: any star, or a
throw (`ReadAt`). `Angle` keeps the width of the unsigned types, scaled down (`UInt`,
`SizeT`), because a bound wraps around for an image without stars. The loops do then
nothing that can be observed and need not end; C++ gives such a loop no meaning, and
the program is built with -O3 (`CMakeLists.txt:10`), so that the compiler may also
leave them out. `outer_dropped` is that outcome, and the steps of the loops the other.

**Faithful and noisy.** What a table answers depends on real-valued areas, moments
and tolerances. A *noisy* query may answer with any rows. A *faithful* query has the
true row among its answers, together with any others; a faithful overlay is largest
for the true map. Every property without "faithful" in it is checked for both.

**Search** has no notion of stars: it is given all `subsets` of the image and those that
are `due`, which must have been tried before it says "not found". A subset `b` is begun
once (`Try`), may be compared again where the strategy does so (`Again`, with `Repeats`),
and every comparison is made with `spent` within the budget; the outcome is tied to what
was done. All four strategies implement it. The refinement mappings are `absSubsets` (the
pairs, trios or centres of the image), `untried` (those that are not yet in `tried`),
`spent` (`nu`) and `absOutcome`. For the triangles a pivot is `Again`: it costs a
comparison and begins no trio. For Dot, whose loops meet one star twice in a trio and
whose `reduce` may throw on an image of one or two stars, `Throw` is allowed for such
images only. What is due is everything, but for Pyramid: there `SearchSpec` has the
trios without the last star (`absDue`), which is the most that the code keeps, and
`ExhaustiveSpec`, with all trios due, is what its comment says and a run refutes.

## 3. Runs

| run | checks | bounds | why they are enough |
|---|---|---|---|
| `lumberjack_private` | `ResultsDelivered`, `LogSpec` | 1 process, buffer of 3, 14 results | four full buffers and a rest; crashes and malformed results at any step |
| `lumberjack_shared` | `TypeOK`, `RecordedInOrder`, `WholeBatches`, `LossStops`, `TransactionsApart` | 2 processes and a reader, buffer of 2, 5 results | every pair of locks collides; two full flushes, of which either may be refused, and a rest that the destructor flushes |
| `lumberjack_collision` | violation of `ResultsDelivered` | 2 processes, buffer of 2, 3 results | a full buffer that is refused, and a rest |
| `tables` | `IndexedComplete`, `AllOrNothing`, `CatalogFirst`, `QuietMeansComplete`, `OldTablesUntouched`, `SetupCompletes` | 4 tables of all three kinds, 5 catalog lines, 4 bright stars | trio tables have two turns, so a crash can fall before, between and after them; reruns are unbounded |
| `triangle` | `NeverPopsEmpty`, `DistinctStars`, `ExceededHonest`, `TruthKept`, `AnswerSound`, `SearchSpec`, `Returns` | images of 0 to 5 stars, `nu_max` 5, answers of up to 3 rows | 5 stars give two recursions of a pivot; the budget ends some calls and not others |
| `triangle_ties` | violation of `TiesRejected` | image of 3 | |
| `angle_search` | `ExceededHonest`, `Returns`, `SearchSpec` | 0 to 5 stars, `nu_max` 6 | images below and above the budget; for the empty one the bound wraps around |
| `pyramid` | `DistinctAnswer`, `AnswerTrue`, `SearchSpec` | 0 to 6 stars, `nu_max` 8, answers of up to 2 rows | 4 stars give one trio, 6 give ten; four skies: both strategies, noisy and faithful |
| `pyramid_exhaustive` | violation of `ExhaustiveSpec` | 4 stars, `nu_max` 20 | four trios, and a budget that is never spent |
| `campaign` | `LossExplained`, `CopiesBounded`, `QuietDelivers`, `CollisionNeedsOrphan`, `CollectedTogether`, `CampaignEnds` | 2 campaigns of 1 or 2 slots on 2 tables, 3 samples, buffer of 2 (408 626 states) | two slots can be collected in part; the second campaign has more or fewer slots than the first, finds its leftovers and its orphans, and asks for the same table or another; 3 samples are one full buffer and a rest, and 3 of 2 slots round to 2 each |
| `trial` | `Aligned`, `RowTellsNoise`, `ScoreFair`, `Finishes` | 3 labels, 2 to 3 of them in view, 2 variations of each noise, 2 samples, answers of up to 2 stars | every noise follows itself and another one; images can become empty; answers have duplicates, false stars and wrong labels |
| `dot_search` | `OrderedAnswer`, `NearestReduced`, `SearchSpec`, `Returns` | 0 to 4 stars with separations 1 to 3 (3 is out of view) | ties, stars out of view, every order of a trio |

The budget and the exhaustive search (`NuBounded`, `GivesUpExhausted`) of every strategy
are part of `SearchSpec`; they are stated and proved by themselves as well. So are most
type invariants and `AllResultsRecorded`, which the proofs establish and no run repeats.

`Returns` of Angle is about images with a star in them: of the empty one it can only be
said that it is searched in vain for as long as it is searched (`SearchSpec`).

`CHECK_DEADLOCK` is never switched off: a process that has come to its end
stutters (`Finished`), the other systems always have a next call.

### What the passing runs show

- A process that owns its record database, which is how `perform-e.py` starts
  them, loses nothing and implements `LumberjackLog`. On a shared one, what does
  reach the table is whole, in order and not duplicated; only a refused COMMIT loses
  results (`LossStops`), so that no process ends normally with a gap in its records. (It
  does not end at all: see `lumberjack_collision`.)
- Whatever ends a transaction, its locks and its rows go with it: nobody waits for a
  process that has stopped writing (`TransactionsApart`).
- A dead GenerateN never leaves an index on a part of the data, never leaves a part
  of a catalog or pair table, and never a reference table without its catalog. It
  does leave unsorted tables and parts of trio tables that no later run repairs:
  the properties `IndexedComplete` and `QuietMeansComplete` say as much as is true.
- A campaign keeps the committed rows of children that die, and those of all its children
  when it is killed: they are still in the slots' files for the next campaign with those
  slots. They are lost when that campaign works on another table, since it removes the
  whole file, and rows that an orphan commits are lost when they come after the next
  campaign's SELECT (`LossExplained`). Rows of an interrupted campaign are collected under
  a later one, and a kill during the removals doubles what is still on disk, once per kill.
- The children of one campaign never meet on a file. After a kill an orphan and its
  successor may, and a COMMIT that is refused then leaves a child that never ends
  (`CollisionNeedsOrphan`); the script that has it in its pool waits for ever, and does so
  for no other reason (`CampaignEnds`).
- Noise never separates the image from its labels, and no trial inherits the noise of
  the one before. A right answer scores 100 %; 100 % does not prove it right.
- The guards of `pivot` (`c[2] != size - 1`) are enough to keep `ptop` off an empty
  deque, for any sequence of answers; pivoting never throws the right trio away.
- Pyramid's vote cannot elect a wrong star when its queries have the right pairs.

### Known disagreements

Runs that end in a counterexample; each quotes the line it contradicts in
`PROJECT.json`.

- `lumberjack_collision`: `flush_buffer` clears its buffer before `commit()`. When another
  connection holds a lock, COMMIT throws, the rows are rolled back, and nobody has them.
  The statement is then in its finished state and is never reset: every retry throws at
  once (`exec_refused`), and the loop at `lumberjack.cpp:72`, which is to handle
  collisions by waiting, does not end. The results of that process do not reach the
  table, although nobody died and every lock is released in the end.
- `triangle_ties`: `a == b == c == d == e == f` compares truth values from the second
  `==` on. What it compares are the sizes of six lists of labels, always three each,
  and not how well they fit; six times three does not make it true, so an inconclusive match test never sends `e_identify` to another trio.
- `pyramid_exhaustive`: the bounds at `pyramid.cpp:246` keep `k` below `size() - 1`: no
  trio has the last star, although the comment at `pyramid.cpp:243` counts all of them. Of
  the four trios of four stars one is looked up before the answer is "not found".

Read in the code, in the models, without a run of their own:

- For an image without stars `size() - 1` wraps around at `angle.cpp:167`. As written,
  `identify` then never ends; as compiled, it may return `NO_CONFIDENT_A`, which is what
  it is to do (`angle.cpp:160`). `Angle` has both (`OuterBound`, `outer_dropped`).
- `Composite::reduce` queries with the area where the moment belongs
  (`composite-pyramid.cpp:171`), so the true trio can be missed and a false one be the
  only answer. `AnswerTrue` is about identifications, and reductions of Pyramid, for
  that reason: `query_for_trios` is told whether it was `asked` about its trio at all.
- `extra_star_min` is never set: `using_extra_star_parameters` assigns the step twice
  (`experiment.h:168`), so `-esmin` has no effect.
- `-nlimit` restricts the image that the constructor draws and no image of a trial, which
  is drawn anew with `NO_N` (`experiment.h:95`).
- `percentage_correct` accepts a label within the whole field of view of its star
  (`experiment.cpp:22`), so two swapped labels score 100 %.
- A false star has one label in `b` and the next in `r` (`benchmark.cpp:79` and `:81`);
  the first one's in `r` is `NO_LABEL`.
- `EXCEEDED_NU_MAX` is not logged as an error (`experiment.h:108`).
- A campaign asks for `round(samples / pnum)` per child, so 3 samples of 2 slots are 4.
- `Angle::find_candidate_pair` uses the first of any number of candidates
  (`angle.cpp:70`), although the reduction step says |R| = 1 (`angle.cpp:152`).
- Dot's swap of `b_i` and `b_j` is commented out and would have repeated the same
  call (`dot-angle.cpp:218`): a trio whose nearer star has the larger index is never
  looked up in the order that the table has.
- Pyramid's fourth-star verification is commented out (`pyramid.cpp:256`), and the
  vote looks at stars, not at rows: with more than one row per pair it can elect
  three stars of which two are no row of their pair.

## 4. Fairness

- Strategies (`WF(Step)`): a call runs on one thread and waits for nothing.
- Table generation (`WF(Process)`, `WF(run_setup)`): the scripts wait for each
  process and start the next. `SetupCompletes` assumes that none is killed.
- Lumberjack: `WF(Run(w))` since the operating system runs every process; `SF` of the
  two lock requests, since the random sleep between two attempts keeps two
  processes from colliding for ever; `WF(read_end)` since readers finish reading.
  `ResultsDelivered` holds for a single connection, where only `WF(Run(w))` matters; that
  it fails for two in spite of the strong fairness shows that it is not bad luck.
- Campaign (`WF(Script)`, `WF(Child(k))`): the operating system runs the script and
  every child, orphans too; that a killed or raising child is done is all `join` waits
  for. A child whose COMMIT was refused takes no step that ends it, so the script that
  waits for it is what `CampaignEnds` excepts.
- Trial (`WF(Step)`): one thread. That the draws which repeat until stars are in view
  end with probability 1 is taken as given: a draw is one step.
- Nothing is assumed of crashes, malformed results or new calls.

## 5. Proofs

All theorems are of the specifications that TLC checks, for all values of the
constants that satisfy the named assumptions: any number of processes and readers,
any buffer size; any number of tables and rows; any image size, budget, catalog,
and any answer. Each proof module defines an inductive invariant `IInv`, one lemma
per action that it is kept, and derives the properties from it.

| module | assumptions | the invariant, beyond the properties | theorems |
|---|---|---|---|
| `LumberjackProofs` | disjoint connections, positive buffer size | what `journal`, `bound` and the buffer are at each point of a flush (`FlushState`); the buffer is the last stretch of what was logged (`Suffix`), everything in the table is older (`Older`), and what is neither buffered nor in flight is in the table unless the flush was refused (`Complete`); a flush begins at the first result of a batch and ends at the last one unless it is the destructor's, and writers that died or are stuck keep what was true (`BInv`); a writer holds the lock, and has the rows in its journal, of the point of the transaction it is at (`LInv`); in a database of one connection no flush is refused for good or empty (`PInv`) | `TypeCorrect`, `OrderCorrect`, `LossCorrect`, `RowCountCorrect`, `BatchesCorrect`, `ApartCorrect`; for a private database `PrivateKeeps`, `LogCorrect`, `Progress` |
| `CampaignProofs` | at least one slot and one row per buffer | the scripts of earlier campaigns whose children still run were killed (`KilledInv`, `ChildInv`); a child's open file is that of its slot unless the slot was removed after a later campaign began (`FileInv`); a committed row is where `LossExplained` says, and a row that is about to be removed has been copied (`RowsInv`); which rows the open transaction holds (`CopiedInv`); a row on disk that is not being removed was copied once per interrupted removal at most (`CopiesInv`); where each result is while nothing has died (`QuietMain`, `QuietSlots`); every slot has a child while the pool is waited for (`PoolInv`) | `TypeCorrect`, `LossCorrect`, `CopiesCorrect`, `CollisionCorrect`, `QuietCorrect`, `TogetherCorrect`, `NeverWaitsInVain`, `Progress` |
| `TrialProofs` | labels of a catalog are positive and differ; engines permute; `MaxStars` has room for the false stars | the image leaves room for the false stars of its variation while noise is due (`SizeInv`); an image as drawn is its answer key, and after its noise its real stars occur once, are in the key and so many are false (`MInv`): permutations keep this, erasing and appending change it as the row will say; the rows logged are the samples times the variations behind the loops (`RowsInv`) | `TypeCorrect`, `AlignedCorrect`, `NoiseCorrect`, `ScoreCorrect`, `CountCorrect`, `Progress` |
| `NibbleTablesProofs` | distinct names, at least two bright stars | what each point knows of the committed and of the process's view (`DbInv`, `WorkInv`, `PcInv`); old tables exist (`OldInv`); with no failure, every table asked for is finished (`QuietInv`) | `TypeCorrect`, `IndexedCorrect`, `AtomicCorrect`, `CatalogCorrect`, `QuietCorrect`, `OldCorrect`, `SetupDelivers`, `Progress` |
| `BaseTriangleProofs` | sizes, different stars are different | the last star is in the deque until it is under query (`ReserveInv`); candidates were asked for (`FirstInv`); a returned pivot has one (`ResultInv`); the trios tried are exactly the earlier ones in loop order, and the present one once it is begun (`TriedInv`, `BegunInv`); once a pivot has recursed, all that is in the deque comes after the star it is at (`FrontInv`) | `PopCorrect`, `DistinctCorrect`, `NuCorrect`, `ExceededCorrect`, `ExhaustionCorrect`, `TruthCorrect`, `AnswerCorrect`, `TypeCorrect`, `SearchCorrect`, `Progress` |
| `AngleProofs` | sizes, and images smaller than `UInt`; for `Progress`, images with a star | loops stay within their bounds, `tried` is exactly what lies before (i, j); an image without stars has no pair whatever the wrapped bound is | `TypeCorrect`, `NuCorrect`, `ExhaustionCorrect`, `ExceededCorrect`, `SearchCorrect`, `Progress` |
| `PyramidProofs` | sizes, rows with three different stars | the same for (dj, dk, di); and lemmas on the vote: an elected star is the sole common star of two lists, so with the true pairs in the answers it is the true star | `TypeCorrect`, `NuCorrect`, `ExhaustionCorrect`, `DistinctCorrect`, `AnswerCorrect`, `SearchCorrect`, `Progress` |
| `DotAngleProofs` | sizes, symmetric separations | the same for (i, j, k) | `TypeCorrect`, `NuCorrect`, `ExhaustionCorrect`, `OrderCorrect`, `NearestCorrect`, `SearchCorrect`, `Progress` |

Why the properties are not inductive as they stand: `NeverPopsEmpty` needs to know
that the last index is still in the deque; `GivesUpExhausted` needs the loop order;
`LossStops` and `RecordedInOrder` need to know which stretch of the
results is in the buffer, in the statement and in the journal at each point of a
flush; `WholeBatches` needs to know that flushes begin at batch boundaries, which a stuck or
dead writer no longer shows; `ScoreFair` needs that no label occurs twice in the key or
among the real stars, for two injections between the answers found and the result;
`TransactionsApart` needs to know which lock each point of a transaction holds, since the
exclusion of two transactions is that of their locks; `LossExplained` and
`CollisionNeedsOrphan` need to know in which file each child writes, and that one which
runs without its script belongs to a script that was killed; `IndexedComplete` needs to know that the running process's own loop bound is
the complete one.

Refinement (`SearchCorrect`, `LogCorrect`): initial states are mapped to initial states,
and each action to the abstract action it implements or to a stutter, one lemma per
action, under the inductive invariant and the abstract one's own (what is untried is what
lies ahead in loop order).

Termination (`Progress`): of every system but the shared record database a measure is
proved to consist of natural numbers and to decrease lexicographically with every step
that does not end what is running: the loops' rests for a search, with the rest of the
deque for a pivot; the phases, catalogs, stages and rows of a GenerateN; the stages,
slots and each child's rest of a campaign; the rows, loops and steps of an experiment;
the results and flushes of a process with its own database. So none of them goes on for
ever, for any size; what a run ends with is then said by the safety theorems
(`SetupDelivers`, `CountCorrect`, `QuietCorrect`, `ExhaustionCorrect`). `AtomicCorrect` is
of catalogs and pair tables, as trio and Dot tables are left in part by a crash;
`ExhaustionCorrect` of Pyramid is of the trios without the last star.

Only model-checked: the liveness properties themselves (`Returns`, `ResultsDelivered`,
`SetupCompletes`, `CampaignEnds`, `Finishes`). What `Progress` leaves to TLC is that a
step is possible as long as the end is not reached, and that fairness has it taken: the
prover has no rules for ENABLED and fairness. `NeverWaitsInVain` states the first for the
only place where one actor waits for others, by the guards of their steps; a child that
is stuck is its exception.
All safety properties and all refinements that the passing runs check are proved.
`ResultsKept`, that nothing logged is lost while its process lives, is proved for a private
database (`PrivateKeeps`); on a shared one `lumberjack_collision` shows a loss.

## 6. Not modelled

- Real-valued geometry (rotations, areas, moments, overlays) and the tolerances:
  nondeterministic in the strategies.
- `query` of each strategy: one look-up without state.
- process-i: OpenCV in one pass; third-party code; figures and documents.
- One Chomp under several strategies: `current_table` is set when a strategy is built,
  and not by every query. Each program builds one strategy, so a model of it would be
  about the tests only.
- Two scripts at once, which nothing prevents: they would share the slots' files from the
  start. `Campaign` has one at a time, and the orphans of those before.
- What SQLite makes of a journal whose database was unlinked while it was open: the
  next process makes a new file under the same name.
- A worker of the Pool that is killed itself, for which `starmap` waits for ever: a death in
  `Campaign` is one of PerformE.
- A strategy that throws, and Angle on an image that the noise has emptied, in `Trial`:
  there identification always answers.
- The query and reduction experiments, which throw "Not implemented."
- An empty catalog (`size() - 2` wraps around in the table generators):
  excluded by `SizesAssumption`.

## 7. Plan

Done, in this order: Lumberjack and its log; table generation; the triangles;
`Search` and Angle; Pyramid and Composite; Dot; the campaigns; the trials; all with
proofs.

Since then: every strategy implements `Search`; what losses on a shared record database
are bounded by (`LossStops`, `TransactionsApart`); termination measures; the orphans of a
killed script and the tables of `-etable` in `Campaign`; `find_closest` as its loop and
sort; what is due in a search apart from what there is to search.

Left:

1. The children of `Campaign` as instances of `LumberjackLog`. A child's `log_trial`
   accepts a result and publishes the full buffer in one step, which are two of the
   log's, and slots are used again by later campaigns; the log would have to be stated
   with both. Today the two modules share the promise by reading.
2. A shared record database on which no COMMIT is refused: that its retries end needs
   the strong fairness of the lock requests, so it stays with TLC.
