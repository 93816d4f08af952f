------------------------ MODULE NibbleTablesProofs ------------------------
(***************************************************************************)
(* What holds of the generated tables for every catalog size, every list   *)
(* of tables and any number of crashes and repeated runs.                  *)
(***************************************************************************)
EXTENDS NibbleTables, TLAPS

USE SizesAssumption, NamesAssumption

\* Every committed table: absent, or in a state its generator commits.
DbInv ==
    \A t \in Tables :
        /\ ~db[t].exists => db[t] = Absent
        /\ db[t].indexed => db[t].exists /\ db[t].rows = CompleteRows(t)
        /\ t \in Catalogs \cup AngleTables /\ db[t].exists => db[t].rows = CompleteRows(t)
        /\ t \in References /\ db[t].exists => \A c \in Catalogs : db[c].exists

\* What is not committed is the one table of the open transaction.
WorkInv ==
    \A t \in Tables : work[t] # db[t] =>
        /\ t = table /\ ~db[t].exists
        /\ pc = "insert" \/ (pc = "fill" /\ t \in AngleTables)

\* The table being generated is new, and what it rests on is there.
PcInv ==
    /\ pc \in {"catalog", "insert", "sort_catalog"} =>
           \A c \in Catalogs \ left : db[c].exists
    /\ pc \in {"insert", "sort_catalog"} => table \in left
    /\ pc \in {"create", "fill", "sort"} =>
           target \in References /\ loaded = BrightSize /\ \A c \in Catalogs : db[c].exists
    /\ pc \in {"fill", "sort"} => table = target
    /\ pc \in {"insert", "fill"} =>
           work[table].exists /\ ~work[table].indexed /\ work[table].rows <= CompleteRows(table)
    /\ pc \in {"sort_catalog", "sort"} =>
           db[table].exists /\ db[table].rows = CompleteRows(table)
    /\ pc \in {"insert", "sort_catalog", "fill", "sort"} => table \notin old

\* Tables are never dropped.
OldInv == \A t \in old : db[t].exists

\* Without a crash only the table being generated lacks its index, and what
\* hoku.setup has asked for is there or being generated.
QuietInv ==
    ~failed =>
        /\ \A t \in Tables : db[t].exists /\ ~db[t].indexed =>
               t = table /\ pc \in {"sort_catalog", "fill", "sort"}
        /\ \A s \in 1 .. next - 1 :
               db[Setup[s]].exists \/ (pc # "down" /\ Setup[s] = target)

\* hoku.setup is at one of its tables or past the last.
NextInv == 1 <= next /\ \A s \in 1 .. next - 1 : Setup[s] \in Tables

IInv == NextInv /\ TypeOK /\ DbInv /\ WorkInv /\ PcInv /\ OldInv /\ QuietInv

----------------------------------------------------------------------------

LEMMA RowsTyping ==
    /\ \A t \in Tables : CompleteRows(t) \in Nat
    /\ Absent \in TableStates
    /\ HIP \in Tables /\ BRIGHT \in Tables
    /\ Catalogs \subseteq Tables /\ References \subseteq Tables
    /\ AngleTables \subseteq References
  BY DEF CompleteRows, Absent, TableStates, Tables, Catalogs, References

\* The generators' loops end when every first star has its rows.
LEMMA LoopIsComplete ==
    ASSUME loaded = BrightSize, NEW t \in References
    PROVE  LoopBound(t) = CompleteRows(t)
  BY DEF LoopBound, CompleteRows, References, Catalogs

\* One more row, or none yet, in a table of the connection's view.
LEMMA OneMore ==
    ASSUME NEW f \in [Tables -> TableStates], NEW t \in Tables,
           NEW g, g = [f EXCEPT ![t].rows = @ + 1]
    PROVE  /\ g \in [Tables -> TableStates]
           /\ g[t].rows = f[t].rows + 1 /\ g[t].exists = f[t].exists
           /\ g[t].indexed = f[t].indexed
           /\ \A u \in Tables : u # t => g[u] = f[u]
  BY DEF TableStates

LEMMA AbsentFields == ~Absent.exists /\ Absent.rows = 0 /\ ~Absent.indexed
  BY DEF Absent

LEMMA Created ==
    ASSUME NEW f \in [Tables -> TableStates], NEW t \in Tables, f[t] = Absent,
           NEW g, g = [f EXCEPT ![t].exists = TRUE]
    PROVE  /\ g \in [Tables -> TableStates]
           /\ g[t].rows = 0 /\ g[t].exists /\ ~g[t].indexed
           /\ \A u \in Tables : u # t => g[u] = f[u]
  <1>1. f[t] \in TableStates /\ f[t].rows = 0 /\ ~f[t].indexed
    BY AbsentFields
  <1>2. QED BY <1>1 DEF TableStates

\* When no transaction is open the connection sees what is committed.
LEMMA WorkIsDb ==
    ASSUME TypeOK, WorkInv, pc \notin {"insert", "fill"}
    PROVE  work = db
  BY DEF TypeOK, WorkInv

----------------------------------------------------------------------------

LEMMA Initially == Init => IInv
  <1> SUFFICES ASSUME Init PROVE IInv
    OBVIOUS
  <1>1. TypeOK
    <2>1. db \in [Tables -> TableStates] /\ work \in [Tables -> TableStates]
      BY RowsTyping DEF Init
    <2>2. \A t \in Tables : db[t].rows = 0
      BY DEF Init, Absent
    <2>3. failed \in BOOLEAN
      BY DEF Init
    <2>4. QED BY <2>1, <2>2, <2>3, RowsTyping DEF Init, TypeOK
  <1>2. DbInv /\ WorkInv
    BY RowsTyping DEF Init, DbInv, WorkInv, Absent
  <1>3. PcInv /\ OldInv /\ QuietInv
    BY DEF Init, PcInv, OldInv, QuietInv, Absent
  <1>4. NextInv
    BY DEF Init, NextInv
  <1>5. QED BY <1>1, <1>2, <1>3, <1>4 DEF IInv

LEMMA MainStep ==
    ASSUME IInv, NEW t \in References \cup {HIP}, main(t),
           \/ next <= Len(Setup) /\ t = Setup[next] /\ next' = next + 1
           \/ UNCHANGED next
    PROVE  IInv'
  <1> USE DEF IInv
  <1>0. work = db
    BY WorkIsDb DEF main
  <1>1. TypeOK'
    <2>1. next' \in Nat
      BY DEF TypeOK
    <2>2. QED BY <1>0, <2>1, RowsTyping DEF TypeOK, main
  <1>2. DbInv'
    BY DEF main, DbInv
  <1>3. WorkInv'
    BY <1>0 DEF main, WorkInv
  <1>4. PcInv' /\ OldInv'
    BY DEF main, PcInv, OldInv
  <1>5. QuietInv'
    <2>1. \A u \in Tables : (~failed /\ db[u].exists /\ ~db[u].indexed) => FALSE
      BY DEF main, QuietInv
    <2>2. \A s \in 1 .. next - 1 : ~failed => db[Setup[s]].exists
      BY DEF main, QuietInv
    <2>3. \A s \in 1 .. next' - 1 : s \in 1 .. next - 1 \/ Setup[s] = t
      BY DEF TypeOK
    <2>4. QED BY <2>1, <2>2, <2>3 DEF main, QuietInv
  <1>6. NextInv'
    BY RowsTyping DEF NextInv, TypeOK
  <1>7. QED BY <1>1, <1>2, <1>3, <1>4, <1>5, <1>6

LEMMA CreateCatalogStep ==
    ASSUME IInv, NEW c \in Catalogs, create_catalog(c)
    PROVE  IInv'
  <1> USE DEF IInv
  <1>0. work = db /\ c \in Tables /\ UNCHANGED <<db, loaded, target, next, failed, old>>
    BY WorkIsDb, RowsTyping DEF create_catalog, Stay
  <1>1. CASE work[c].exists
    <2>1. TypeOK'
      BY <1>0, <1>1 DEF TypeOK, create_catalog
    <2>2. DbInv' /\ WorkInv' /\ OldInv'
      BY <1>0, <1>1 DEF create_catalog, DbInv, WorkInv, OldInv
    <2>3. PcInv'
      BY <1>0, <1>1 DEF create_catalog, PcInv
    <2>4. QuietInv'
      BY <1>0, <1>1 DEF create_catalog, QuietInv
    <2>5. NextInv'
      BY <1>0 DEF NextInv
    <2>6. QED BY <2>1, <2>2, <2>3, <2>4, <2>5
  <1>2. CASE ~work[c].exists
    <2>0. /\ work' \in [Tables -> TableStates]
          /\ work'[c].rows = 0 /\ work'[c].exists /\ ~work'[c].indexed
          /\ \A u \in Tables : u # c => work'[u] = work[u]
      BY <1>0, <1>2, Created DEF TypeOK, DbInv, create_catalog
    <2>1. TypeOK'
      BY <1>0, <1>2, <2>0 DEF TypeOK, create_catalog
    <2>2. DbInv' /\ WorkInv' /\ OldInv'
      BY <1>0, <1>2, <2>0 DEF create_catalog, DbInv, WorkInv, OldInv
    <2>3. PcInv'
      <3>1. c \notin old
        BY <1>0, <1>2 DEF OldInv
      <3>2. CompleteRows(c) \in Nat
        BY <1>0, RowsTyping
      <3>3. QED BY <1>0, <1>2, <2>0, <3>1, <3>2 DEF create_catalog, PcInv
    <2>4. QuietInv'
      BY <1>0, <1>2 DEF create_catalog, QuietInv
    <2>5. NextInv'
      BY <1>0 DEF NextInv
    <2>6. QED BY <2>1, <2>2, <2>3, <2>4, <2>5
  <1>3. QED BY <1>1, <1>2

LEMMA InsertCatalogStep ==
    ASSUME IInv, insert_catalog
    PROVE  IInv'
  <1> USE DEF IInv
  <1>0. /\ table \in Tables /\ pc = "insert"
        /\ UNCHANGED <<db, pc, left, table, loaded, target, next, failed, old>>
        /\ work[table].rows < CompleteRows(table)
    BY DEF insert_catalog, TypeOK, Stay
  <1>00. /\ work' \in [Tables -> TableStates]
         /\ work'[table].rows = work[table].rows + 1
         /\ work'[table].exists = work[table].exists
         /\ work'[table].indexed = work[table].indexed
         /\ \A u \in Tables : u # table => work'[u] = work[u]
    BY <1>0, OneMore DEF insert_catalog, TypeOK
  <1>1. TypeOK'
    BY <1>0, <1>00 DEF TypeOK
  <1>2. DbInv' /\ OldInv'
    BY <1>0 DEF DbInv, OldInv
  <1>3. WorkInv'
    <2>1. ~db[table].exists
      <3>1. db[table].exists => work[table] = db[table]
        BY <1>0 DEF WorkInv
      <3>2. table \in Catalogs
        BY <1>0 DEF PcInv, TypeOK
      <3>3. QED BY <1>0, <3>1, <3>2 DEF DbInv, TypeOK, TableStates
    <2>2. QED BY <1>0, <1>00, <2>1 DEF WorkInv
  <1>4. PcInv'
    <2>1. work[table].rows + 1 <= CompleteRows(table)
      BY <1>0, RowsTyping DEF TypeOK, TableStates
    <2>2. QED BY <1>0, <1>00, <2>1 DEF PcInv
  <1>5. QuietInv' /\ NextInv'
    BY <1>0 DEF QuietInv, NextInv
  <1>6. QED BY <1>1, <1>2, <1>3, <1>4, <1>5

LEMMA CommitCatalogStep ==
    ASSUME IInv, commit_catalog
    PROVE  IInv'
  <1> USE DEF IInv
  <1>0. /\ table \in Tables /\ table \in Catalogs /\ pc = "insert" /\ pc' = "sort_catalog"
        /\ db' = work
        /\ UNCHANGED <<work, left, table, loaded, target, next, failed, old>>
        /\ work[table].rows = CompleteRows(table)
        /\ work[table].exists /\ ~work[table].indexed
        /\ \A u \in Tables : u # table => work[u] = db[u]
    BY DEF commit_catalog, TypeOK, Stay, PcInv, WorkInv
  <1>1. TypeOK'
    BY <1>0, RowsTyping DEF TypeOK
  <1>2. \A u \in Tables : db[u].exists => db'[u].exists
    BY <1>0
  <1>3. DbInv'
    BY <1>0, <1>2, RowsTyping DEF DbInv
  <1>4. WorkInv' /\ OldInv'
    BY <1>0, <1>2 DEF WorkInv, OldInv, TypeOK
  <1>5. PcInv'
    BY <1>0, <1>2, RowsTyping DEF PcInv
  <1>6. QuietInv'
    <2>1. \A u \in Tables : ~failed' /\ db'[u].exists /\ ~db'[u].indexed =>
              u = table' /\ pc' \in {"sort_catalog", "fill", "sort"}
      BY <1>0 DEF QuietInv
    <2>2. ASSUME ~failed', NEW s \in 1 .. next' - 1
          PROVE  db'[Setup[s]].exists \/ (pc' # "down" /\ Setup[s] = target')
      <3>1. Setup[s] \in Tables
        BY <1>0 DEF NextInv
      <3>2. QED BY <1>0, <1>2, <2>2, <3>1 DEF QuietInv
    <2>3. QED BY <2>1, <2>2 DEF QuietInv
  <1>7. NextInv'
    BY <1>0 DEF NextInv
  <1>8. QED BY <1>1, <1>3, <1>4, <1>5, <1>6, <1>7

LEMMA SortCatalogStep ==
    ASSUME IInv, sort_catalog
    PROVE  IInv'
  <1> USE DEF IInv
  <1>0. /\ table \in Tables /\ table \in Catalogs /\ table \in left
        /\ pc = "sort_catalog" /\ pc' = "catalog" /\ left' = left \ {table}
        /\ db' = work' /\ work = db
        /\ UNCHANGED <<table, loaded, target, next, failed, old>>
        /\ db[table].exists /\ db[table].rows = CompleteRows(table)
    BY WorkIsDb DEF sort_catalog, sort_and_index, TypeOK, Stay, PcInv
  <1>00. /\ db' \in [Tables -> TableStates]
         /\ db'[table].rows = db[table].rows /\ db'[table].exists /\ db'[table].indexed
         /\ \A u \in Tables : u # table => db'[u] = db[u]
    <2>1. work \in [Tables -> TableStates] /\ work' = [work EXCEPT ![table].indexed = TRUE]
      BY DEF sort_catalog, sort_and_index, TypeOK
    <2>2. table \in Tables
      BY <1>0
    <2>3. /\ work' \in [Tables -> TableStates]
          /\ work'[table].rows = work[table].rows
          /\ work'[table].exists = work[table].exists /\ work'[table].indexed
          /\ \A u \in Tables : u # table => work'[u] = work[u]
      BY <2>1, <2>2 DEF TableStates
    <2>4. QED BY <1>0, <2>3
  <1>1. TypeOK'
    BY <1>0, <1>00 DEF TypeOK
  <1>2. DbInv' /\ WorkInv' /\ OldInv'
    BY <1>0, <1>00, RowsTyping DEF DbInv, WorkInv, OldInv, TypeOK
  <1>3. PcInv'
    BY <1>0, <1>00, RowsTyping DEF PcInv
  <1>4. QuietInv' /\ NextInv'
    BY <1>0, <1>00 DEF QuietInv, NextInv
  <1>5. QED BY <1>1, <1>2, <1>3, <1>4

LEMMA LoadStep ==
    ASSUME IInv, load_all_stars
    PROVE  IInv'
  <1> USE DEF IInv
  <1>0. /\ work = db /\ pc = "catalog" /\ left = {}
        /\ UNCHANGED <<db, work, left, table, target, next, failed, old>>
        /\ \A c \in Catalogs : db[c].exists
    BY WorkIsDb DEF load_all_stars, Stay, PcInv
  <1>1. loaded' = BrightSize
    <2>1. BRIGHT \in Catalogs /\ CompleteRows(BRIGHT) = BrightSize
      BY DEF Catalogs, CompleteRows
    <2>2. QED BY <1>0, <2>1, RowsTyping DEF load_all_stars, DbInv
  <1>2. \/ pc' = "down" /\ target = HIP
        \/ pc' = "create" /\ target \in References
    BY <1>0 DEF load_all_stars, TypeOK
  <1>3. TypeOK'
    BY <1>0, <1>1, <1>2 DEF TypeOK
  <1>4. DbInv' /\ WorkInv' /\ OldInv' /\ NextInv'
    BY <1>0 DEF DbInv, WorkInv, OldInv, NextInv
  <1>5. PcInv'
    BY <1>0, <1>1, <1>2 DEF PcInv
  <1>6. QuietInv'
    BY <1>0, <1>2 DEF QuietInv, Catalogs
  <1>7. QED BY <1>3, <1>4, <1>5, <1>6

LEMMA CreateTableStep ==
    ASSUME IInv, create_table
    PROVE  IInv'
  <1> USE DEF IInv
  <1>0. /\ work = db /\ pc = "create" /\ table' = target
        /\ target \in References /\ target \in Tables
        /\ UNCHANGED <<left, loaded, target, next, failed, old>>
        /\ loaded = BrightSize /\ \A c \in Catalogs : db[c].exists
    BY WorkIsDb, RowsTyping DEF create_table, Stay, PcInv
  <1>1. CASE work[target].exists
    <2>1. pc' = "down" /\ db' = db /\ work' = work
      BY <1>1 DEF create_table
    <2>2. TypeOK' /\ DbInv' /\ WorkInv' /\ OldInv' /\ NextInv'
      BY <1>0, <2>1 DEF TypeOK, DbInv, WorkInv, OldInv, NextInv
    <2>3. PcInv' /\ QuietInv'
      BY <1>0, <1>1, <2>1 DEF PcInv, QuietInv
    <2>4. QED BY <2>2, <2>3
  <1>2. CASE ~work[target].exists
    <2>0. /\ pc' = "fill" /\ work' \in [Tables -> TableStates]
          /\ work'[target].rows = 0 /\ work'[target].exists /\ ~work'[target].indexed
          /\ \A u \in Tables : u # target => work'[u] = work[u]
      BY <1>0, <1>2, Created DEF TypeOK, DbInv, create_table
    <2>1. db' = IF target \in AngleTables THEN db ELSE work'
      BY <1>2 DEF create_table
    <2>2. \A u \in Tables : db[u].exists => db'[u] = db[u]
      BY <1>0, <1>2, <2>0, <2>1
    <2>3. TypeOK'
      BY <1>0, <2>0, <2>1, RowsTyping DEF TypeOK
    <2>4. DbInv'
      <3>1. CASE target \in AngleTables
        BY <2>1, <3>1 DEF DbInv
      <3>2. CASE target \notin AngleTables
        BY <1>0, <2>0, <2>1, <2>2, <3>2, RowsTyping DEF DbInv
      <3>3. QED BY <3>1, <3>2
    <2>5. WorkInv'
      BY <1>0, <1>2, <2>0, <2>1 DEF WorkInv
    <2>6. PcInv'
      <3>1. target \notin old
        BY <1>0, <1>2 DEF OldInv
      <3>2. CompleteRows(target) \in Nat
        BY <1>0, RowsTyping
      <3>3. QED BY <1>0, <2>0, <2>2, <3>1, <3>2, RowsTyping DEF PcInv
    <2>7. OldInv' /\ NextInv'
      BY <1>0, <2>2 DEF OldInv, NextInv, TypeOK
    <2>8. QuietInv'
      <3>1. \A u \in Tables : ~failed' /\ db'[u].exists /\ ~db'[u].indexed =>
                u = table' /\ pc' \in {"sort_catalog", "fill", "sort"}
        BY <1>0, <2>0, <2>1 DEF QuietInv
      <3>2. ASSUME ~failed', NEW s \in 1 .. next' - 1
            PROVE  db'[Setup[s]].exists \/ (pc' # "down" /\ Setup[s] = target')
        BY <1>0, <2>0, <2>2, <3>2 DEF QuietInv, NextInv
      <3>3. QED BY <3>1, <3>2 DEF QuietInv
    <2>9. QED BY <2>3, <2>4, <2>5, <2>6, <2>7, <2>8
  <1>3. QED BY <1>1, <1>2

LEMMA FillStep ==
    ASSUME IInv, fill
    PROVE  IInv'
  <1> USE DEF IInv
  <1>0. /\ pc = "fill" /\ table = target
        /\ table \in References /\ table \in Tables
        /\ UNCHANGED <<pc, left, table, loaded, target, next, failed, old>>
        /\ loaded = BrightSize /\ \A c \in Catalogs : db[c].exists
        /\ work[table].exists /\ ~work[table].indexed
        /\ work[table].rows < CompleteRows(table)
        /\ db' = IF table \in AngleTables THEN db ELSE work'
    BY RowsTyping, LoopIsComplete DEF fill, Stay, PcInv
  <1>1. /\ work' \in [Tables -> TableStates]
        /\ work'[table].rows = work[table].rows + 1
        /\ work'[table].exists = work[table].exists
        /\ work'[table].indexed = work[table].indexed
        /\ \A u \in Tables : u # table => work'[u] = work[u]
    <2>1. work \in [Tables -> TableStates] /\ work' = [work EXCEPT ![table].rows = @ + 1]
      BY DEF fill, TypeOK
    <2>2. table \in Tables
      BY <1>0
    <2>3. QED BY <2>1, <2>2, OneMore
  <1>2. work'[table].rows <= CompleteRows(table)
    BY <1>0, <1>1, RowsTyping DEF TypeOK, TableStates
  <1>3. \A u \in Tables : u # table => work[u] = db[u] /\ db'[u] = db[u]
    BY <1>0, <1>1 DEF WorkInv
  <1>4. table \in AngleTables => db' = db /\ ~db[table].exists
    <2>1. work[table] = db[table] => work[table].rows # CompleteRows(table)
      BY <1>0, RowsTyping DEF TypeOK, TableStates
    <2>2. QED BY <1>0, <2>1 DEF DbInv, WorkInv
  <1>5. table \notin AngleTables => db' = work'
    BY <1>0
  <1>6. db[table].exists => db'[table].exists
    BY <1>0, <1>1, <1>4, <1>5
  <1>7. TypeOK'
    BY <1>0, <1>1, <1>2, <1>3 DEF TypeOK
  <1>8. DbInv'
    <2>1. CASE table \in AngleTables
      BY <1>4, <2>1 DEF DbInv
    <2>2. CASE table \notin AngleTables
      BY <1>0, <1>1, <1>3, <1>5, <2>2, RowsTyping DEF DbInv, References, Catalogs
    <2>3. QED BY <2>1, <2>2
  <1>9. WorkInv'
    BY <1>0, <1>1, <1>3, <1>4 DEF WorkInv
  <1>10. PcInv'
    BY <1>0, <1>1, <1>2, <1>3, <1>6, RowsTyping DEF PcInv
  <1>11. OldInv' /\ NextInv'
    BY <1>0, <1>3, <1>6 DEF OldInv, NextInv, TypeOK
  <1>12. QuietInv'
    <2>1. \A u \in Tables : ~failed' /\ db'[u].exists /\ ~db'[u].indexed =>
              u = table' /\ pc' \in {"sort_catalog", "fill", "sort"}
      BY <1>0, <1>3 DEF QuietInv
    <2>2. ASSUME ~failed', NEW s \in 1 .. next' - 1
          PROVE  db'[Setup[s]].exists \/ (pc' # "down" /\ Setup[s] = target')
      BY <1>0, <1>3, <1>6, <2>2 DEF QuietInv, NextInv
    <2>3. QED BY <2>1, <2>2 DEF QuietInv
  <1>13. QED BY <1>7, <1>8, <1>9, <1>10, <1>11, <1>12

LEMMA EndFillStep ==
    ASSUME IInv, end_fill
    PROVE  IInv'
  <1> USE DEF IInv
  <1>0. /\ pc = "fill" /\ pc' = "sort" /\ table = target
        /\ table \in References /\ table \in Tables
        /\ UNCHANGED <<work, left, table, loaded, target, next, failed, old>>
        /\ loaded = BrightSize /\ \A c \in Catalogs : db[c].exists
        /\ work[table].exists /\ ~work[table].indexed
        /\ db' = work
    BY RowsTyping DEF end_fill, Stay, PcInv
  <1>1. work[table].rows = CompleteRows(table)
    <2>1. work[table].rows <= CompleteRows(table) /\ work[table].rows \in Nat
      BY <1>0 DEF PcInv, TypeOK, TableStates
    <2>2. work[table].rows >= CompleteRows(table)
      BY <1>0, LoopIsComplete DEF end_fill
    <2>3. QED BY <1>0, <2>1, <2>2, RowsTyping
  <1>2. \A u \in Tables : u # table => db'[u] = db[u]
    BY <1>0 DEF WorkInv
  <1>3. \A u \in Tables : db[u].exists => db'[u].exists
    BY <1>0, <1>2
  <1>4. TypeOK'
    BY <1>0, <1>1, <1>2, RowsTyping DEF TypeOK
  <1>5. DbInv'
    BY <1>0, <1>1, <1>2, <1>3, RowsTyping DEF DbInv
  <1>6. WorkInv'
    BY <1>0 DEF WorkInv
  <1>7. PcInv'
    BY <1>0, <1>1, <1>3, RowsTyping DEF PcInv
  <1>8. OldInv' /\ NextInv'
    BY <1>0, <1>3 DEF OldInv, NextInv, TypeOK
  <1>9. QuietInv'
    <2>1. \A u \in Tables : ~failed' /\ db'[u].exists /\ ~db'[u].indexed =>
              u = table' /\ pc' \in {"sort_catalog", "fill", "sort"}
      BY <1>0, <1>2 DEF QuietInv
    <2>2. ASSUME ~failed', NEW s \in 1 .. next' - 1
          PROVE  db'[Setup[s]].exists \/ (pc' # "down" /\ Setup[s] = target')
      BY <1>0, <1>3, <2>2 DEF QuietInv, NextInv
    <2>3. QED BY <2>1, <2>2 DEF QuietInv
  <1>10. QED BY <1>4, <1>5, <1>6, <1>7, <1>8, <1>9

LEMMA SortReferenceStep ==
    ASSUME IInv, sort_reference
    PROVE  IInv'
  <1> USE DEF IInv
  <1>0. /\ table \in Tables /\ table = target
        /\ pc = "sort" /\ pc' = "down"
        /\ db' = work' /\ work = db
        /\ UNCHANGED <<left, table, loaded, target, next, failed, old>>
        /\ db[table].exists /\ db[table].rows = CompleteRows(table)
        /\ \A c \in Catalogs : db[c].exists
    BY WorkIsDb DEF sort_reference, sort_and_index, TypeOK, Stay, PcInv
  <1>1. /\ db' \in [Tables -> TableStates]
        /\ db'[table].rows = db[table].rows /\ db'[table].exists /\ db'[table].indexed
        /\ \A u \in Tables : u # table => db'[u] = db[u]
    <2>1. work \in [Tables -> TableStates] /\ work' = [work EXCEPT ![table].indexed = TRUE]
      BY DEF sort_reference, sort_and_index, TypeOK
    <2>2. table \in Tables
      BY <1>0
    <2>3. /\ work' \in [Tables -> TableStates]
          /\ work'[table].rows = work[table].rows
          /\ work'[table].exists = work[table].exists /\ work'[table].indexed
          /\ \A u \in Tables : u # table => work'[u] = work[u]
      BY <2>1, <2>2 DEF TableStates
    <2>4. QED BY <1>0, <2>3
  <1>2. TypeOK'
    BY <1>0, <1>1 DEF TypeOK
  <1>3. DbInv' /\ WorkInv' /\ OldInv'
    BY <1>0, <1>1, RowsTyping DEF DbInv, WorkInv, OldInv, TypeOK
  <1>4. PcInv'
    BY <1>0 DEF PcInv
  <1>5. QuietInv' /\ NextInv'
    BY <1>0, <1>1 DEF QuietInv, NextInv
  <1>6. QED BY <1>2, <1>3, <1>4, <1>5

LEMMA CrashStep ==
    ASSUME IInv, crash
    PROVE  IInv'
  <1> USE DEF IInv
  <1>1. TypeOK'
    BY DEF crash, TypeOK
  <1>2. DbInv' /\ WorkInv' /\ PcInv' /\ OldInv'
    BY DEF crash, DbInv, WorkInv, PcInv, OldInv
  <1>3. QuietInv' /\ NextInv'
    BY DEF crash, QuietInv, NextInv
  <1>4. QED BY <1>1, <1>2, <1>3

LEMMA Steps == IInv /\ [Next]_vars => IInv'
  <1> SUFFICES ASSUME IInv, [Next]_vars PROVE IInv'
    OBVIOUS
  <1>1. CASE run_setup
    <2>1. Setup[next] \in References \cup {HIP}
      BY <1>1, SetupAssumption DEF run_setup, IInv, TypeOK, NextInv
    <2>2. QED BY <1>1, <2>1, MainStep DEF run_setup
  <1>2. ASSUME NEW t \in References \cup {HIP}, rerun(t) PROVE IInv'
    BY <1>2, MainStep DEF rerun
  <1>3. CASE Process
    BY <1>3, CreateCatalogStep, InsertCatalogStep, CommitCatalogStep, SortCatalogStep,
       LoadStep, CreateTableStep, FillStep, EndFillStep, SortReferenceStep DEF Process
  <1>4. CASE crash
    BY <1>4, CrashStep
  <1>5. CASE UNCHANGED vars
    BY <1>5 DEF vars, IInv, NextInv, TypeOK, DbInv, WorkInv, PcInv, OldInv, QuietInv
  <1>6. QED BY <1>1, <1>2, <1>3, <1>4, <1>5 DEF Next

\* The invariant that the theorems below follow from.
THEOREM Inductive == Spec => []IInv
  <1>1. QED BY Initially, Steps, PTL DEF Spec

\* Committed and uncommitted states of the tables, and the process, have
\* their types; no table ever has more rows than a complete one.
THEOREM TypeCorrect == Spec => []TypeOK
  <1>1. IInv => TypeOK
    BY DEF IInv
  <1>2. QED BY <1>1, Inductive, PTL

\* However often GenerateN is killed and run again, no partial table is
\* sorted and indexed.
THEOREM IndexedCorrect == Spec => []IndexedComplete
  <1>1. IInv => IndexedComplete
    BY DEF IInv, DbInv, IndexedComplete
  <1>2. QED BY <1>1, Inductive, PTL

\* No crash leaves a part of a catalog or of a table of pairs, which are written
\* in one transaction.  Nothing of the kind is said of trio and Dot tables.
THEOREM AtomicCorrect == Spec => []AllOrNothing
  <1>1. IInv => AllOrNothing
    BY RowsTyping DEF IInv, DbInv, AllOrNothing
  <1>2. QED BY <1>1, Inductive, PTL

\* There is no reference table without its catalog.
THEOREM CatalogCorrect == Spec => []CatalogFirst
  <1>1. IInv => CatalogFirst
    BY RowsTyping DEF IInv, DbInv, CatalogFirst
  <1>2. QED BY <1>1, Inductive, PTL

\* Without a crash, what hoku.setup has asked for is complete and indexed.
THEOREM QuietCorrect == Spec => []QuietMeansComplete
  <1>1. ASSUME IInv, ~failed, pc = "down", NEW t \in Tables
        PROVE  \/ db[t] = [exists |-> TRUE, rows |-> CompleteRows(t), indexed |-> TRUE]
               \/ db[t] = Absent /\ \A s \in 1 .. next - 1 : Setup[s] # t
    <2>1. CASE db[t].exists
      <3>1. db[t].indexed /\ db[t].rows = CompleteRows(t)
        BY <1>1, <2>1 DEF IInv, QuietInv, DbInv
      <3>2. db[t] \in TableStates
        BY <1>1 DEF IInv, TypeOK
      <3>3. QED BY <2>1, <3>1, <3>2 DEF TableStates
    <2>2. CASE ~db[t].exists
      BY <1>1, <2>2 DEF IInv, QuietInv, DbInv
    <2>3. QED BY <2>1, <2>2
  <1>2. IInv => QuietMeansComplete
    BY <1>1 DEF QuietMeansComplete
  <1>3. QED BY <1>2, Inductive, PTL

\* A process adds to and sorts only the tables it has created itself.
THEOREM OldCorrect == Spec => OldTablesUntouched
  <1>1. ASSUME IInv, [Next]_vars
        PROVE  [\A t \in old : old' = old => db'[t] = db[t]]_vars
    <2> SUFFICES ASSUME Next, NEW t \in old, old' = old
                 PROVE  db'[t] = db[t]
      BY <1>1
    <2>0. t \in Tables
      BY <1>1 DEF IInv, TypeOK
    <2>1. CASE run_setup \/ (\E u \in References \cup {HIP} : rerun(u)) \/ crash
      BY <2>1 DEF run_setup, rerun, main, crash
    <2>2. CASE (\E c \in Catalogs : create_catalog(c)) \/ insert_catalog \/ load_all_stars
      BY <2>2 DEF create_catalog, insert_catalog, load_all_stars
    <2>3. CASE commit_catalog \/ end_fill
      <3>1. pc \in {"insert", "fill"} /\ db' = work
        BY <2>3 DEF commit_catalog, end_fill
      <3>2. QED BY <1>1, <2>0, <3>1 DEF IInv, PcInv, WorkInv
    <2>4. CASE sort_catalog \/ sort_reference
      <3>1. pc \in {"sort_catalog", "sort"} /\ db' = [work EXCEPT ![table].indexed = TRUE]
        BY <2>4 DEF sort_catalog, sort_reference, sort_and_index
      <3>2. t # table /\ work = db
        BY <1>1, <3>1, WorkIsDb DEF IInv, PcInv
      <3>3. QED BY <1>1, <2>0, <3>1, <3>2 DEF IInv, TypeOK
    <2>5. CASE create_table
      <3>1. work = db
        BY <1>1, <2>5, WorkIsDb DEF IInv, create_table
      <3>2. db[t].exists
        BY <1>1 DEF IInv, OldInv
      <3>3. QED BY <1>1, <2>0, <2>5, <3>1, <3>2 DEF IInv, TypeOK, create_table
    <2>6. CASE fill
      <3>1. /\ t # table /\ db[t] = work[t]
            /\ work' = [work EXCEPT ![table].rows = @ + 1]
            /\ db' = db \/ db' = work'
        BY <1>1, <2>0, <2>6 DEF IInv, PcInv, WorkInv, fill
      <3>2. QED BY <1>1, <2>0, <3>1 DEF IInv, TypeOK
    <2>7. QED BY <2>1, <2>2, <2>3, <2>4, <2>5, <2>6 DEF Next, Process
  <1>2. QED BY <1>1, Inductive, PTL DEF Spec, OldTablesUntouched

----------------------------------------------------------------------------
(* Why a process, and hoku.setup, come to their end. *)

\* When hoku.setup has asked for all of its tables and nothing died, the last
\* process has left every one of them finished.
THEOREM SetupDelivers ==
    Spec => [](~failed /\ pc = "down" /\ next > Len(Setup) =>
                 \A i \in 1 .. Len(Setup) :
                    db[Setup[i]] = [exists |-> TRUE, rows |-> CompleteRows(Setup[i]), indexed |-> TRUE])
  <1>1. ASSUME QuietMeansComplete, ~failed, pc = "down", TypeOK, next > Len(Setup), NEW i \in 1 .. Len(Setup)
        PROVE  db[Setup[i]] = [exists |-> TRUE, rows |-> CompleteRows(Setup[i]), indexed |-> TRUE]
    <2>1. Setup \in Seq(References \cup {HIP}) /\ Setup[i] \in Tables
      BY SetupAssumption, RowsTyping
    <2>2. i \in 1 .. next - 1
      BY <1>1, <2>1 DEF TypeOK
    <2>3. QED BY <1>1, <2>1, <2>2 DEF QuietMeansComplete
  <1>2. QuietMeansComplete /\ TypeOK =>
          (~failed /\ pc = "down" /\ next > Len(Setup) =>
             \A i \in 1 .. Len(Setup) :
                db[Setup[i]] = [exists |-> TRUE, rows |-> CompleteRows(Setup[i]), indexed |-> TRUE])
    BY <1>1
  <1>3. QED BY <1>2, QuietCorrect, TypeCorrect, PTL

\* What is left to a process: the catalog tables, then its own; of a table, the
\* stages of its generation and then its rows.
PhasesLeft ==
    CASE pc \in {"catalog", "insert", "sort_catalog"} -> 2
      [] pc \in {"create", "fill", "sort"} -> 1
      [] OTHER -> 0
CatalogsLeft == (IF HIP \in left THEN 1 ELSE 0) + (IF BRIGHT \in left THEN 1 ELSE 0)
StagesLeft ==
    CASE pc \in {"catalog", "create"} -> 3
      [] pc \in {"insert", "fill"} -> 2
      [] pc \in {"sort_catalog", "sort"} -> 1
      [] OTHER -> 0
RowsLeft == IF pc \in {"insert", "fill"} THEN CompleteRows(table) - work[table].rows ELSE 0

Nearer ==
    \/ PhasesLeft' < PhasesLeft
    \/ /\ PhasesLeft' = PhasesLeft
       /\ \/ CatalogsLeft' < CatalogsLeft
          \/ /\ CatalogsLeft' = CatalogsLeft
             /\ \/ StagesLeft' < StagesLeft
                \/ StagesLeft' = StagesLeft /\ RowsLeft' < RowsLeft

LEMMA Measured ==
    ASSUME IInv
    PROVE  PhasesLeft \in Nat /\ CatalogsLeft \in Nat /\ StagesLeft \in Nat /\ RowsLeft \in Nat
  <1>1. work[table] \in TableStates /\ CompleteRows(table) \in Nat
    BY RowsTyping DEF IInv, TypeOK
  <1>2. RowsLeft \in Nat
    BY <1>1 DEF IInv, PcInv, RowsLeft, TableStates
  <1>3. QED BY <1>2 DEF PhasesLeft, CatalogsLeft, StagesLeft

\* A row more is a row less to be written.
LEMMA RowNearer ==
    ASSUME IInv, pc \in {"insert", "fill"}, UNCHANGED <<pc, left, table>>,
           work[table].rows < CompleteRows(table),
           work' = [work EXCEPT ![table].rows = @ + 1]
    PROVE  Nearer
  <1>1. /\ work \in [Tables -> TableStates] /\ table \in Tables
        /\ work[table].rows \in Nat /\ CompleteRows(table) \in Nat
    BY RowsTyping DEF IInv, TypeOK, TableStates
  <1>2. work'[table].rows = work[table].rows + 1
    BY <1>1, OneMore
  <1>3. CompleteRows(table)' = CompleteRows(table)
    BY DEF CompleteRows
  <1>4. RowsLeft' < RowsLeft
    BY <1>1, <1>2, <1>3 DEF RowsLeft
  <1>5. UNCHANGED <<PhasesLeft, CatalogsLeft, StagesLeft>>
    BY DEF PhasesLeft, CatalogsLeft, StagesLeft
  <1>6. QED BY <1>4, <1>5 DEF Nearer

\* A step of a process brings it nearer to its end.
LEMMA ProcessNearer ==
    ASSUME IInv, Process \/ crash
    PROVE  Nearer
  <1>1. ASSUME NEW c \in Catalogs, create_catalog(c) PROVE Nearer
    <2>1. CASE work[c].exists
      <3>1. pc = "catalog" /\ c \in left /\ left' = left \ {c} /\ pc' = pc
        BY <1>1, <2>1 DEF create_catalog
      <3>2. CatalogsLeft' < CatalogsLeft
        BY <3>1 DEF CatalogsLeft, Catalogs
      <3>3. QED BY <3>1, <3>2 DEF Nearer, PhasesLeft
    <2>2. CASE ~work[c].exists
      <3>1. pc = "catalog" /\ pc' = "insert" /\ left' = left
        BY <1>1, <2>2 DEF create_catalog
      <3>2. QED BY <3>1 DEF Nearer, PhasesLeft, CatalogsLeft, StagesLeft
    <2>3. QED BY <2>1, <2>2
  <1>2. CASE insert_catalog
    BY <1>2, RowNearer DEF insert_catalog
  <1>3. CASE commit_catalog
    BY <1>3 DEF commit_catalog, Nearer, PhasesLeft, CatalogsLeft, StagesLeft
  <1>4. CASE sort_catalog
    <2>1. pc = "sort_catalog" /\ pc' = "catalog" /\ table \in left /\ left \subseteq Catalogs /\ left' = left \ {table}
      BY <1>4 DEF sort_catalog, IInv, PcInv, TypeOK
    <2>2. CatalogsLeft' < CatalogsLeft
      BY <2>1 DEF CatalogsLeft, Catalogs
    <2>3. QED BY <2>1, <2>2 DEF Nearer, PhasesLeft
  <1>5. CASE load_all_stars \/ sort_reference \/ crash
    BY <1>5 DEF load_all_stars, sort_reference, crash, IInv, TypeOK, Nearer, PhasesLeft
  <1>6. CASE create_table \/ end_fill
    BY <1>6 DEF create_table, end_fill, Nearer, PhasesLeft, CatalogsLeft, StagesLeft
  <1>7. CASE fill
    <2>1. LoopBound(table) = CompleteRows(table)
      BY <1>7, LoopIsComplete DEF fill, IInv, PcInv
    <2>2. QED BY <1>7, <2>1, RowNearer DEF fill
  <1>8. QED BY <1>1, <1>2, <1>3, <1>4, <1>5, <1>6, <1>7 DEF Process

\* No GenerateN runs for ever, for any catalog: with every step it ends, or is
\* nearer to its end, and no table gets more rows than it is to have.  With
\* SetupDelivers, this is SetupCompletes but for the fairness that makes
\* processes run.
THEOREM Progress ==
    Spec => /\ [](PhasesLeft \in Nat /\ CatalogsLeft \in Nat /\ StagesLeft \in Nat /\ RowsLeft \in Nat)
            /\ [][pc # "down" => Nearer]_vars
  <1>1. IInv => PhasesLeft \in Nat /\ CatalogsLeft \in Nat /\ StagesLeft \in Nat /\ RowsLeft \in Nat
    BY Measured
  <1>2. IInv /\ [Next]_vars => [pc # "down" => Nearer]_vars
    BY ProcessNearer DEF Next, run_setup, rerun, main
  <1>3. QED BY <1>1, <1>2, Inductive, PTL DEF Spec
=============================================================================
