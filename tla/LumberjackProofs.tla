------------------------- MODULE LumberjackProofs -------------------------
(***************************************************************************)
(* What holds of Lumberjack for every number of writers and readers, every *)
(* buffer size and every number of results.                                *)
(***************************************************************************)
EXTENDS Lumberjack, Integers, TLAPS

\* What the flush has done so far follows from where it stands.
FlushState(w) ==
    /\ pc[w] \in {"connect", "missing", "create", "open"} => logged[w] = 0
    /\ pc[w] = "idle" => Len(result_buffer[w]) < MAXIMUM_BUFFER_SIZE
    /\ pc[w] \in {"begin", "sleep"} /\ ~done[w] => bound[w] = result_buffer[w]
    /\ pc[w] = "shared" => ~done[w] /\ bound[w] = result_buffer[w]
    /\ pc[w] = "written" => journal[w] = result_buffer[w]
    /\ pc[w] \in {"committing", "closed", "dead"} \/ Stuck(w) => result_buffer[w] = <<>>
    /\ pc[w] \in {"written", "committing", "unwind"} => done[w]

\* What is on its way to the table are the last results, in order ...
Suffix(w) ==
    /\ Len(absBacklog[w]) <= logged[w]
    /\ \A i \in 1 .. Len(absBacklog[w]) :
         absBacklog[w][i] = Row(w, logged[w] - Len(absBacklog[w]) + i)

\* ... and what is in the table are results before them.
Older(w) ==
    \A i \in 1 .. Len(table) :
        table[i][1] = w => table[i][2] <= logged[w] - Len(absBacklog[w])

\* Unless the process died or its flush is stuck, it is all of them.
Complete(w) ==
    pc[w] # "dead" /\ ~Stuck(w) =>
        \A k \in 1 .. logged[w] - Len(absBacklog[w]) : Recorded(w, k)

IInv ==
    /\ TypeOK
    /\ RecordedInOrder
    /\ \A w \in Writers : FlushState(w) /\ Suffix(w) /\ Older(w) /\ Complete(w)

----------------------------------------------------------------------------

WInv(w) == FlushState(w) /\ Suffix(w) /\ Older(w) /\ Complete(w)

\* Everything a writer keeps for itself.
Private(w) == <<pc[w], logged[w], result_buffer[w], bound[w], done[w], journal[w]>>

USE DEF Locks, PCs

\* A row of w that can still be logged is a row.
LEMMA RowInRows ==
    ASSUME NEW w \in Writers, NEW k \in 1 .. MaxTrials
    PROVE  Row(w, k) \in Rows
  BY DEF Rows

\* Replacing one buffer by another within the bound keeps all within the bound.
LEMMA BufferUpdate ==
    ASSUME NEW f \in [Writers -> Seq(Rows)], NEW w \in Writers, NEW b \in Seq(Rows),
           Len(b) <= MAXIMUM_BUFFER_SIZE,
           \A v \in Writers : Len(f[v]) <= MAXIMUM_BUFFER_SIZE
    PROVE  /\ [f EXCEPT ![w] = b] \in [Writers -> Seq(Rows)]
           /\ \A v \in Writers : Len([f EXCEPT ![w] = b][v]) <= MAXIMUM_BUFFER_SIZE
  OBVIOUS

\* The empty buffer is one.
LEMMA EmptyBuffer == <<>> \in Seq(Rows) /\ Len(<<>>) <= MAXIMUM_BUFFER_SIZE
  BY BufferAssumption

\* What concatenation yields, position by position.
LEMMA Concat ==
    ASSUME NEW S, NEW s \in Seq(S), NEW t \in Seq(S)
    PROVE  /\ s \o t \in Seq(S)
           /\ Len(s \o t) = Len(s) + Len(t)
           /\ Len(s) \in Nat /\ Len(t) \in Nat
           /\ \A i \in 1 .. Len(s) : (s \o t)[i] = s[i]
           /\ \A i \in Len(s) + 1 .. Len(s) + Len(t) : (s \o t)[i] = t[i - Len(s)]
  OBVIOUS

\* Every step keeps every variable in its type, and the buffer in its bound.
LEMMA TypeStep ==
    ASSUME IInv, [Next]_vars
    PROVE  TypeOK'
  <1> USE BufferAssumption, TrialsAssumption, ConnectionsAssumption
  <1>1. CASE UNCHANGED vars
    BY <1>1 DEF IInv, TypeOK, vars
  <1>2. ASSUME NEW w \in Writers, log_trial(w)
        PROVE  TypeOK'
    <2> DEFINE buffer == Append(result_buffer[w], Row(w, logged[w] + 1))
    <2>1. logged[w] \in 0 .. MaxTrials /\ logged[w] < MaxTrials
      BY <1>2 DEF IInv, TypeOK, log_trial
    <2>2. Row(w, logged[w] + 1) \in Rows
      BY <2>1, RowInRows
    <2>3. /\ buffer \in Seq(Rows)
          /\ Len(buffer) = Len(result_buffer[w]) + 1
          /\ Len(buffer) <= MAXIMUM_BUFFER_SIZE
      BY <1>2, <2>2 DEF IInv, TypeOK, log_trial, FlushState
    <2> HIDE DEF buffer
    <2>4. /\ result_buffer' = [result_buffer EXCEPT ![w] = buffer]
          /\ logged' = [logged EXCEPT ![w] = @ + 1]
          /\ UNCHANGED <<exists, table, lock, journal>>
      BY <1>2 DEF log_trial, buffer
    <2>5. /\ pc' \in [Writers -> PCs]
          /\ return_to' \in [Writers -> {"idle", "closed"}]
          /\ bound' \in [Writers -> Seq(Rows)]
          /\ done' \in [Writers -> BOOLEAN]
      <3>1. CASE BufferFull(buffer)
        <4>1. CASE buffer = <<>>
          BY <2>3, <4>1 DEF IInv, TypeOK
        <4>2. CASE buffer # <<>>
          <5>1. /\ pc' = [pc EXCEPT ![w] = "begin"]
                /\ return_to' = [return_to EXCEPT ![w] = "idle"]
                /\ bound' = [bound EXCEPT ![w] = buffer]
                /\ done' = [done EXCEPT ![w] = FALSE]
            BY <1>2, <3>1, <4>2 DEF log_trial, EnterFlush, Goto, buffer
          <5>2. done' \in [Writers -> BOOLEAN]
            BY <5>1 DEF IInv, TypeOK
          <5>3. QED BY <2>3, <5>1, <5>2 DEF IInv, TypeOK
        <4>3. QED BY <4>1, <4>2
      <3>2. CASE ~BufferFull(buffer)
        BY <1>2, <3>2 DEF IInv, TypeOK, log_trial, buffer
      <3>3. QED BY <3>1, <3>2
    <2>6. /\ result_buffer' \in [Writers -> Seq(Rows)]
          /\ \A v \in Writers : Len(result_buffer'[v]) <= MAXIMUM_BUFFER_SIZE
      BY <2>3, <2>4, BufferUpdate DEF IInv, TypeOK
    <2>7. logged' \in [Writers -> 0 .. MaxTrials]
      BY <2>1, <2>4 DEF IInv, TypeOK
    <2>8. QED BY <2>4, <2>5, <2>6, <2>7 DEF IInv, TypeOK
  <1>3. ASSUME NEW w \in Writers, destroy(w)
        PROVE  TypeOK'
    BY <1>3 DEF IInv, TypeOK, destroy, EnterFlush, Goto
  <1>4. ASSUME NEW w \in Writers,
               \/ connect_to_lumberjack(w) \/ create_table_check(w)
               \/ create_table(w) \/ Lumberjack(w)
        PROVE  TypeOK'
    BY <1>4 DEF IInv, TypeOK, connect_to_lumberjack, create_table_check, create_table,
                Lumberjack, Goto, memory
  <1>5. ASSUME NEW w \in Writers, exec_refused(w) \/ exec_shared(w) \/ wake_up(w)
        PROVE  TypeOK'
    BY <1>5 DEF IInv, TypeOK, exec_refused, exec_shared, wake_up, Goto, Hold, memory,
                Connections
  <1>6. ASSUME NEW w \in Writers, exec_reserved(w)
        PROVE  TypeOK'
    <2>1. pc' \in [Writers -> PCs] /\ lock' \in [Connections -> Locks]
      BY <1>6 DEF IInv, TypeOK, exec_reserved, Goto, Hold, Connections
    <2>2. journal' \in [Writers -> Seq(Rows)]
      BY <1>6 DEF IInv, TypeOK, exec_reserved
    <2>3. done' \in [Writers -> BOOLEAN]
      BY <1>6 DEF IInv, TypeOK, exec_reserved
    <2>4. UNCHANGED <<exists, table, return_to, logged, result_buffer, bound>>
      BY <1>6 DEF exec_reserved
    <2>5. QED BY <2>1, <2>2, <2>3, <2>4 DEF IInv, TypeOK
  <1>7. ASSUME NEW w \in Writers, commit_lock(w)
        PROVE  TypeOK'
    <2>1. /\ result_buffer' = [result_buffer EXCEPT ![w] = <<>>]
          /\ UNCHANGED <<exists, table, return_to, logged, bound, done, journal>>
      BY <1>7 DEF commit_lock
    <2>2. pc' \in [Writers -> PCs] /\ lock' \in [Connections -> Locks]
      BY <1>7 DEF IInv, TypeOK, commit_lock, Goto, Hold, Connections
    <2>3. /\ result_buffer' \in [Writers -> Seq(Rows)]
          /\ \A v \in Writers : Len(result_buffer'[v]) <= MAXIMUM_BUFFER_SIZE
      BY <2>1, BufferUpdate, EmptyBuffer DEF IInv, TypeOK
    <2>4. QED BY <2>1, <2>2, <2>3 DEF IInv, TypeOK
  <1>8. ASSUME NEW w \in Writers, commit(w) \/ rollback(w)
        PROVE  TypeOK'
    <2>1. /\ journal' = [journal EXCEPT ![w] = <<>>]
          /\ UNCHANGED <<exists, return_to, logged, result_buffer, bound, done>>
      BY <1>8 DEF commit, rollback, memory
    <2>2. pc' \in [Writers -> PCs] /\ lock' \in [Connections -> Locks]
      <3>1. return_to[w] \in PCs
        BY DEF IInv, TypeOK
      <3>2. QED BY <1>8, <3>1 DEF IInv, TypeOK, commit, rollback, Goto, Hold, Connections
    <2>3. table' \in Seq(Rows)
      <3>1. table' = table \o journal[w] \/ table' = table
        BY <1>8 DEF commit, rollback
      <3>2. table \in Seq(Rows) /\ journal[w] \in Seq(Rows)
        BY DEF IInv, TypeOK
      <3>3. table \o journal[w] \in Seq(Rows)
        BY <3>2, Concat
      <3>4. QED BY <3>1, <3>2, <3>3
    <2>4. journal' \in [Writers -> Seq(Rows)]
      BY <2>1, EmptyBuffer DEF IInv, TypeOK
    <2>5. QED BY <2>1, <2>2, <2>3, <2>4 DEF IInv, TypeOK
  <1>9. ASSUME NEW w \in Writers, log_trial_throws(w) \/ crash(w)
        PROVE  TypeOK'
    <2>1. /\ result_buffer' = [result_buffer EXCEPT ![w] = <<>>]
          /\ UNCHANGED <<exists, table, return_to, logged, bound, done>>
      BY <1>9 DEF log_trial_throws, crash
    <2>2. pc' \in [Writers -> PCs] /\ lock' \in [Connections -> Locks]
      BY <1>9 DEF IInv, TypeOK, log_trial_throws, crash, Goto, Hold, Connections
    <2>3. /\ result_buffer' \in [Writers -> Seq(Rows)]
          /\ \A v \in Writers : Len(result_buffer'[v]) <= MAXIMUM_BUFFER_SIZE
      BY <2>1, BufferUpdate, EmptyBuffer DEF IInv, TypeOK
    <2>4. journal' \in [Writers -> Seq(Rows)]
      BY <1>9, EmptyBuffer DEF IInv, TypeOK, log_trial_throws, crash
    <2>5. QED BY <2>1, <2>2, <2>3, <2>4 DEF IInv, TypeOK
  <1>10. ASSUME NEW r \in Readers, read_begin(r) \/ read_end(r)
         PROVE  TypeOK'
    BY <1>10 DEF IInv, TypeOK, read_begin, read_end, Hold, memory, Connections
  <1>11. QED
    BY <1>1, <1>2, <1>3, <1>4, <1>5, <1>6, <1>7, <1>8, <1>9, <1>10
       DEF Next, Run, Flush, Finished

\* A writer that takes no part in a step keeps its invariant as long as the
\* table does not change.
LEMMA Frame ==
    ASSUME NEW w \in Writers, WInv(w), UNCHANGED Private(w), table' = table
    PROVE  WInv(w)'
  <1>1. absBacklog'[w] = absBacklog[w]
    BY DEF absBacklog, Private
  <1>2. FlushState(w)'
    BY DEF WInv, FlushState, Stuck, Private
  <1>3. Suffix(w)' /\ Older(w)' /\ Complete(w)'
    BY <1>1 DEF WInv, Suffix, Older, Complete, Stuck, Recorded, Private
  <1>4. QED BY <1>2, <1>3 DEF WInv

\* The acting writer's own part of the invariant, action by action.
LEMMA ActorStep ==
    ASSUME IInv, NEW w \in Writers,
           \/ connect_to_lumberjack(w) \/ create_table_check(w)
           \/ create_table(w) \/ Lumberjack(w) \/ log_trial(w) \/ destroy(w)
           \/ exec_refused(w) \/ exec_shared(w) \/ wake_up(w) \/ exec_reserved(w)
           \/ commit_lock(w) \/ rollback(w) \/ log_trial_throws(w) \/ crash(w)
    PROVE  WInv(w)'
  <1> USE BufferAssumption, TrialsAssumption
  <1>t. /\ logged[w] \in Nat
        /\ result_buffer[w] \in Seq(Rows) /\ journal[w] \in Seq(Rows) /\ bound[w] \in Seq(Rows)
        /\ Len(result_buffer[w]) \in Nat /\ Len(journal[w]) \in Nat
        /\ done[w] \in BOOLEAN
    BY DEF IInv, TypeOK
  <1>w. FlushState(w) /\ Suffix(w) /\ Older(w) /\ Complete(w)
    BY DEF IInv
  <1>1. CASE \/ connect_to_lumberjack(w) \/ create_table_check(w)
             \/ create_table(w) \/ Lumberjack(w)
    <2>1. /\ pc[w] \in {"connect", "missing", "create", "open"}
          /\ pc'[w] \in {"connect", "missing", "create", "open", "idle", "dead"}
          /\ UNCHANGED <<table, memory, journal>>
      BY <1>1 DEF connect_to_lumberjack, create_table_check, create_table, Lumberjack, Goto,
                  IInv, TypeOK
    <2>2. logged[w] = 0 /\ result_buffer[w] = <<>> /\ absBacklog[w] = result_buffer[w]
      BY <1>w, <1>t, <2>1 DEF FlushState, Suffix, absBacklog
    <2>3. absBacklog'[w] = result_buffer'[w]
      BY <2>1 DEF absBacklog
    <2>4. FlushState(w)'
      BY <1>w, <1>t, <2>1, <2>2 DEF FlushState, Stuck, memory
    <2>5. QED
      BY <1>w, <1>t, <2>1, <2>2, <2>3, <2>4
         DEF WInv, Suffix, Older, Complete, Stuck, Recorded, memory
  <1>2. CASE log_trial(w)
    <2> DEFINE buffer == Append(result_buffer[w], Row(w, logged[w] + 1))
    <2>1. /\ pc[w] = "idle"
          /\ result_buffer'[w] = buffer
          /\ logged'[w] = logged[w] + 1
          /\ UNCHANGED <<table, journal>>
      BY <1>2 DEF log_trial, IInv, TypeOK
    <2>2. \/ /\ pc'[w] = "begin" /\ bound'[w] = buffer /\ ~done'[w]
          \/ pc'[w] = "idle" /\ Len(buffer) < MAXIMUM_BUFFER_SIZE
      <3>1. buffer # <<>> /\ Len(buffer) = Len(result_buffer[w]) + 1
        BY <1>t
      <3>2. CASE BufferFull(buffer)
        BY <1>2, <3>1, <3>2 DEF log_trial, EnterFlush, Goto, IInv, TypeOK
      <3>3. CASE ~BufferFull(buffer)
        BY <1>2, <1>t, <3>1, <3>3 DEF log_trial, BufferFull
      <3>4. QED BY <3>2, <3>3
    <2>3. absBacklog[w] = result_buffer[w] /\ absBacklog'[w] = buffer
      BY <2>1, <2>2 DEF absBacklog
    <2>4. FlushState(w)'
      BY <2>1, <2>2 DEF FlushState, Stuck
    <2>5. /\ Len(buffer) = Len(result_buffer[w]) + 1
          /\ \A i \in 1 .. Len(result_buffer[w]) : buffer[i] = result_buffer[w][i]
          /\ buffer[Len(result_buffer[w]) + 1] = Row(w, logged[w] + 1)
      BY <1>t
    <2> HIDE DEF buffer
    <2>6. Suffix(w)'
      <3>1. Len(buffer) <= logged[w] + 1
        BY <1>w, <1>t, <2>3, <2>5 DEF Suffix
      <3>2. ASSUME NEW i \in 1 .. Len(buffer)
            PROVE  buffer[i] = Row(w, (logged[w] + 1) - Len(buffer) + i)
        <4>1. CASE i \in 1 .. Len(result_buffer[w])
          <5>1. result_buffer[w][i] = Row(w, logged[w] - Len(result_buffer[w]) + i)
            BY <1>w, <2>3, <4>1 DEF Suffix
          <5>2. (logged[w] + 1) - Len(buffer) + i = logged[w] - Len(result_buffer[w]) + i
            BY <1>t, <2>5, <4>1
          <5>3. QED BY <2>5, <4>1, <5>1, <5>2
        <4>2. CASE i = Len(result_buffer[w]) + 1
          <5>1. (logged[w] + 1) - Len(buffer) + i = logged[w] + 1
            BY <1>t, <2>5, <4>2
          <5>2. QED BY <2>5, <4>2, <5>1
        <4>3. QED BY <1>t, <2>5, <3>2, <4>1, <4>2
      <3>3. QED BY <2>1, <2>3, <3>1, <3>2 DEF Suffix
    <2>7. logged'[w] - Len(absBacklog'[w]) = logged[w] - Len(absBacklog[w])
      <3>1. /\ Len(absBacklog'[w]) = Len(result_buffer[w]) + 1
            /\ Len(absBacklog[w]) = Len(result_buffer[w])
            /\ logged'[w] = logged[w] + 1
        BY <2>1, <2>3, <2>5
      <3>2. QED BY <1>t, <3>1
    <2>8. Older(w)'
      BY <1>w, <2>1, <2>7 DEF Older
    <2>9. Complete(w)'
      BY <1>w, <2>1, <2>7 DEF Complete, Stuck, Recorded
    <2>10. QED BY <2>4, <2>6, <2>8, <2>9 DEF WInv
  <1>3. CASE destroy(w)
    <2>1. /\ pc[w] = "idle"
          /\ UNCHANGED <<table, result_buffer, logged, journal>>
          /\ \/ pc'[w] = "closed" /\ result_buffer[w] = <<>>
             \/ /\ pc'[w] = "begin" /\ bound'[w] = result_buffer[w] /\ ~done'[w]
      BY <1>3 DEF destroy, EnterFlush, Goto, IInv, TypeOK
    <2>2. absBacklog[w] = result_buffer[w] /\ absBacklog'[w] = result_buffer[w]
      BY <2>1 DEF absBacklog
    <2>3. FlushState(w)'
      BY <1>w, <2>1 DEF FlushState, Stuck
    <2>4. QED
      BY <1>w, <2>1, <2>2, <2>3 DEF WInv, Suffix, Older, Complete, Stuck, Recorded
  <1>4. CASE exec_refused(w) \/ exec_shared(w) \/ wake_up(w)
    <2>1. /\ pc[w] \in {"begin", "sleep"} /\ UNCHANGED <<table, memory, journal>>
          /\ pc'[w] \in {"begin", "sleep"} \/ (~done[w] /\ pc'[w] = "shared")
      BY <1>4 DEF exec_refused, exec_shared, wake_up, Goto, IInv, TypeOK
    <2>2. absBacklog[w] = result_buffer[w] /\ absBacklog'[w] = result_buffer[w]
      BY <2>1 DEF absBacklog, memory
    <2>3. FlushState(w)'
      BY <1>w, <2>1 DEF FlushState, Stuck, memory
    <2>4. QED
      BY <1>w, <2>1, <2>2, <2>3 DEF WInv, Suffix, Older, Complete, Stuck, Recorded, memory
  <1>5. CASE exec_reserved(w)
    <2>1. /\ pc[w] = "shared" /\ UNCHANGED <<table, logged, result_buffer, bound>>
          /\ \/ pc'[w] = "written" /\ journal'[w] = bound[w] /\ done'[w]
             \/ pc'[w] = "sleep" /\ done' = done
      BY <1>5 DEF exec_reserved, Goto, IInv, TypeOK
    <2>2. absBacklog[w] = result_buffer[w] /\ absBacklog'[w] = result_buffer[w]
      BY <2>1 DEF absBacklog
    <2>3. FlushState(w)'
      BY <1>w, <2>1 DEF FlushState, Stuck
    <2>4. ~Stuck(w)
      BY <1>w, <2>1 DEF FlushState, Stuck
    <2>5. QED
      BY <1>w, <2>1, <2>2, <2>3, <2>4 DEF WInv, Suffix, Older, Complete, Recorded
  <1>6. CASE commit_lock(w)
    <2>1. /\ pc[w] = "written" /\ UNCHANGED <<table, logged, done, journal>>
          /\ result_buffer'[w] = <<>>
          /\ pc'[w] = "committing" \/ pc'[w] = "unwind"
      BY <1>6 DEF commit_lock, Goto, IInv, TypeOK
    <2>2. /\ absBacklog[w] = result_buffer[w]
          /\ journal[w] = result_buffer[w]
          /\ absBacklog'[w] = IF pc'[w] = "committing" THEN journal[w] ELSE <<>>
      BY <1>w, <2>1 DEF absBacklog, FlushState
    <2>3. FlushState(w)'
      BY <1>w, <2>1 DEF FlushState, Stuck
    <2>4. CASE pc'[w] = "committing"
      BY <1>w, <2>1, <2>2, <2>3, <2>4 DEF WInv, Suffix, Older, Complete, Stuck, Recorded
    <2>5. CASE pc'[w] = "unwind"
      <3>1. absBacklog'[w] = <<>> /\ Stuck(w)'
        BY <2>2, <2>5 DEF Stuck
      <3>2. Suffix(w)'
        BY <1>t, <2>1, <3>1 DEF Suffix
      <3>3. Older(w)'
        <4>1. ASSUME NEW i \in 1 .. Len(table), table[i][1] = w
              PROVE  table[i][2] <= logged[w]
          <5>1. table[i] \in Rows
            BY DEF IInv, TypeOK
          <5>2. table[i][2] \in Nat
            BY <5>1 DEF Rows, Row
          <5>3. QED BY <1>w, <1>t, <2>2, <4>1, <5>2 DEF Older
        <4>2. QED BY <1>t, <2>1, <3>1, <4>1 DEF Older
      <3>4. QED BY <2>3, <3>1, <3>2, <3>3 DEF WInv, Complete
    <2>6. QED BY <2>1, <2>4, <2>5
  <1>7. CASE rollback(w)
    <2>1. /\ pc[w] = "unwind" /\ pc'[w] = "sleep"
          /\ UNCHANGED <<table, memory>>
      BY <1>7 DEF rollback, Goto, IInv, TypeOK
    <2>2. absBacklog[w] = result_buffer[w] /\ absBacklog'[w] = result_buffer[w]
      BY <2>1 DEF absBacklog, memory
    <2>3. FlushState(w)' /\ Stuck(w)'
      BY <1>w, <2>1 DEF FlushState, Stuck, memory
    <2>4. QED
      BY <1>w, <2>1, <2>2, <2>3 DEF WInv, Suffix, Older, Complete, memory
  <1>8. CASE log_trial_throws(w) \/ crash(w)
    <2>1. pc'[w] = "dead" /\ result_buffer'[w] = <<>> /\ UNCHANGED <<table, logged>>
      BY <1>8 DEF log_trial_throws, crash, Goto, IInv, TypeOK
    <2>2. absBacklog'[w] = <<>>
      BY <2>1 DEF absBacklog
    <2>3. FlushState(w)' /\ Complete(w)'
      BY <2>1 DEF FlushState, Complete, Stuck
    <2>4. Suffix(w)'
      BY <1>t, <2>1, <2>2 DEF Suffix
    <2>5. ASSUME NEW i \in 1 .. Len(table), table[i][1] = w
          PROVE  table[i][2] <= logged[w]
      <3>1. table[i] \in Rows
        BY DEF IInv, TypeOK
      <3>2. table[i][2] \in Nat
        BY <3>1 DEF Rows, Row
      <3>3. Len(absBacklog[w]) \in Nat
        BY <1>t DEF absBacklog
      <3>4. QED BY <1>w, <1>t, <2>5, <3>2, <3>3 DEF Older
    <2>6. Older(w)'
      BY <1>t, <2>1, <2>2, <2>5 DEF Older
    <2>7. QED BY <2>3, <2>4, <2>6 DEF WInv
  <1>9. QED
    BY <1>1, <1>2, <1>3, <1>4, <1>5, <1>6, <1>7, <1>8

\* COMMIT appends the writer's last results to rows that are all older.
LEMMA CommitStep ==
    ASSUME IInv, NEW w \in Writers, commit(w)
    PROVE  /\ RecordedInOrder'
           /\ \A v \in Writers : WInv(v)'
  <1> USE BufferAssumption, TrialsAssumption
  <1> DEFINE n == Len(table)
             m == Len(journal[w])
             base == logged[w] - m
  <1>1. /\ pc[w] = "committing" /\ table' = table \o journal[w]
        /\ pc' = [pc EXCEPT ![w] = return_to[w]]
        /\ journal' = [journal EXCEPT ![w] = <<>>]
        /\ UNCHANGED memory
    BY DEF commit, Goto
  <1>2. /\ table \in Seq(Rows) /\ journal[w] \in Seq(Rows)
        /\ logged[w] \in Nat /\ n \in Nat /\ m \in Nat /\ base \in Int
        /\ return_to[w] \in {"idle", "closed"}
    BY DEF IInv, TypeOK
  <1>3. absBacklog[w] = journal[w]
    BY <1>1 DEF absBacklog
  <1>4. /\ m <= logged[w]
        /\ \A i \in 1 .. m : journal[w][i] = Row(w, base + i)
        /\ \A i \in 1 .. n : table[i][1] = w => table[i][2] <= base
        /\ \A k \in 1 .. base : Recorded(w, k)
        /\ result_buffer[w] = <<>>
    <2>1. FlushState(w) /\ Suffix(w) /\ Older(w) /\ Complete(w)
      BY DEF IInv
    <2>2. ~Stuck(w)
      BY <1>1 DEF Stuck
    <2>3. QED BY <1>1, <1>3, <2>1, <2>2 DEF FlushState, Suffix, Older, Complete
  <1>5. /\ Len(table') = n + m
        /\ \A i \in 1 .. n : table'[i] = table[i]
        /\ \A i \in n + 1 .. n + m : table'[i] = Row(w, base + (i - n))
    <2>1. /\ Len(table') = n + m
          /\ \A i \in 1 .. n : table'[i] = table[i]
          /\ \A i \in n + 1 .. n + m : table'[i] = journal[w][i - n]
      BY <1>1, <1>2, Concat
    <2>2. ASSUME NEW i \in n + 1 .. n + m
          PROVE  table'[i] = Row(w, base + (i - n))
      <3>1. i - n \in 1 .. m
        BY <1>2
      <3>2. journal[w][i - n] = Row(w, base + (i - n))
        BY <1>4, <3>1
      <3>3. QED BY <2>1, <3>2
    <2>3. QED BY <2>1, <2>2
  <1>6. \A i \in 1 .. n : table[i][2] \in Nat
    <2>1. \A r \in Rows : r[2] \in Nat
      BY DEF Rows, Row
    <2>2. QED BY <1>2, <2>1
  <1>7. \A i \in n + 1 .. n + m : table'[i][1] = w /\ table'[i][2] = base + (i - n)
    BY <1>5 DEF Row
  <1> HIDE DEF n, m, base
  <1>8. RecordedInOrder'
    <2> SUFFICES ASSUME NEW i \in 1 .. n + m, NEW j \in 1 .. n + m, i < j,
                        table'[i][1] = table'[j][1]
                 PROVE  table'[i][2] < table'[j][2]
      BY <1>5 DEF RecordedInOrder
    <2>1. CASE j \in 1 .. n
      <3>1. i \in 1 .. n
        BY <1>2, <2>1
      <3>2. QED BY <1>5, <2>1, <3>1 DEF IInv, RecordedInOrder, n
    <2>2. CASE i \in 1 .. n /\ j \in n + 1 .. n + m
      <3>1. table[i][2] <= base
        BY <1>4, <1>5, <1>7, <2>2
      <3>2. table'[j][2] = base + (j - n) /\ j - n > 0
        BY <1>2, <1>7, <2>2
      <3>3. QED BY <1>2, <1>5, <1>6, <2>2, <3>1, <3>2
    <2>3. CASE i \in n + 1 .. n + m /\ j \in n + 1 .. n + m
      BY <1>2, <1>7, <2>3
    <2>4. QED BY <1>2, <2>1, <2>2, <2>3
  <1>9. WInv(w)'
    <2>1. pc'[w] \in {"idle", "closed"} /\ result_buffer'[w] = <<>> /\ logged' = logged
      BY <1>1, <1>2, <1>4 DEF IInv, TypeOK, memory
    <2>2. absBacklog'[w] = <<>>
      BY <2>1 DEF absBacklog
    <2>3. FlushState(w)' /\ Suffix(w)'
      BY <1>2, <2>1, <2>2 DEF FlushState, Suffix, Stuck
    <2>4. Older(w)'
      <3>1. ASSUME NEW i \in 1 .. n + m, table'[i][1] = w
            PROVE  table'[i][2] <= logged[w]
        <4>0. base \in Int /\ base <= logged[w] /\ base + m = logged[w]
          BY <1>2 DEF base
        <4>1. CASE i \in 1 .. n
          <5>1. table[i][2] <= base /\ table'[i] = table[i] /\ table[i][2] \in Nat
            BY <1>4, <1>5, <1>6, <3>1, <4>1
          <5>2. QED BY <1>2, <4>0, <5>1
        <4>2. CASE i \in n + 1 .. n + m
          <5>1. table'[i][2] = base + (i - n) /\ i - n <= m
            BY <1>2, <1>7, <4>2
          <5>2. QED BY <1>2, <4>0, <4>2, <5>1
        <4>3. QED BY <1>2, <4>1, <4>2
      <3>2. QED BY <1>2, <1>5, <2>1, <2>2, <3>1 DEF Older
    <2>5. ASSUME NEW k \in 1 .. logged[w]
          PROVE  Recorded(w, k)'
      <3>1. CASE k \in 1 .. base
        <4>1. PICK i \in 1 .. n : table[i] = Row(w, k)
          BY <1>4, <3>1 DEF Recorded, n
        <4>2. i \in 1 .. Len(table') /\ table'[i] = Row(w, k)
          BY <1>2, <1>5, <4>1
        <4>3. QED BY <4>2 DEF Recorded
      <3>2. CASE k > base
        <4> DEFINE i == n + (k - base)
        <4>1. i \in n + 1 .. n + m /\ base + (i - n) = k
          <5>1. k \in Int /\ k <= base + m
            BY <1>2 DEF base
          <5>2. n \in Nat /\ m \in Nat /\ base \in Int
            BY <1>2
          <5>3. QED BY <3>2, <5>1, <5>2
        <4>2. table'[i] = Row(w, k)
          BY <1>5, <4>1
        <4>3. i \in 1 .. Len(table')
          BY <1>2, <1>5, <4>1
        <4>4. QED BY <4>2, <4>3 DEF Recorded
      <3>3. QED BY <1>2, <3>1, <3>2
    <2>6. Complete(w)'
      BY <1>2, <2>1, <2>2, <2>5 DEF Complete
    <2>7. QED BY <2>3, <2>4, <2>6 DEF WInv
  <1>10. ASSUME NEW v \in Writers, v # w
         PROVE  WInv(v)'
    <2>1. UNCHANGED Private(v)
      BY <1>1, <1>10 DEF Private, memory, IInv, TypeOK
    <2>2. FlushState(v) /\ Suffix(v) /\ Older(v) /\ Complete(v)
      BY DEF IInv
    <2>3. absBacklog'[v] = absBacklog[v]
      BY <2>1 DEF absBacklog, Private
    <2>4. FlushState(v)' /\ Suffix(v)'
      BY <2>1, <2>2, <2>3 DEF FlushState, Suffix, Stuck, Private
    <2>5. Older(v)'
      <3>1. ASSUME NEW i \in 1 .. n + m, table'[i][1] = v
            PROVE  i \in 1 .. n
        BY <1>2, <1>7, <1>10, <3>1
      <3>2. QED BY <1>5, <2>1, <2>2, <2>3, <3>1 DEF Older, Private, n
    <2>6. ASSUME NEW k, Recorded(v, k)
          PROVE  Recorded(v, k)'
      <3>1. PICK i \in 1 .. n : table[i] = Row(v, k)
        BY <2>6 DEF Recorded, n
      <3>2. i \in 1 .. Len(table') /\ table'[i] = Row(v, k)
        BY <1>2, <1>5, <3>1
      <3>3. QED BY <3>2 DEF Recorded
    <2>7. Complete(v)'
      BY <2>1, <2>2, <2>3, <2>6 DEF Complete, Stuck, Private
    <2>8. QED BY <2>4, <2>5, <2>7 DEF WInv
  <1>11. QED BY <1>8, <1>9, <1>10

\* The invariant holds initially.
LEMMA InitInv == Init => IInv
  <1> SUFFICES ASSUME Init PROVE IInv
    OBVIOUS
  <1> USE BufferAssumption, TrialsAssumption, EmptyBuffer DEF Init
  <1>1. TypeOK
    <2>1. [w \in Writers |-> <<>>] \in [Writers -> Seq(Rows)]
      OBVIOUS
    <2>2. [w \in Writers |-> FALSE] \in [Writers -> BOOLEAN]
      OBVIOUS
    <2>3. \A w \in Writers : Len(result_buffer[w]) <= MAXIMUM_BUFFER_SIZE
      OBVIOUS
    <2>4. /\ lock \in [Connections -> Locks] /\ pc \in [Writers -> PCs]
          /\ return_to \in [Writers -> {"idle", "closed"}]
          /\ logged \in [Writers -> 0 .. MaxTrials]
      OBVIOUS
    <2>5. exists \in BOOLEAN /\ table \in Seq(Rows)
      OBVIOUS
    <2>6. QED BY <2>1, <2>2, <2>3, <2>4, <2>5 DEF TypeOK
  <1>2. RecordedInOrder
    BY DEF RecordedInOrder
  <1>3. ASSUME NEW w \in Writers
        PROVE  FlushState(w) /\ Suffix(w) /\ Older(w) /\ Complete(w)
    BY DEF FlushState, Suffix, Older, Complete, Stuck, absBacklog
  <1>4. QED BY <1>1, <1>2, <1>3 DEF IInv

\* A step of one writer leaves what is private to another as it is.
LEMMA Untouched ==
    ASSUME TypeOK, NEW w \in Writers, NEW v \in Writers, v # w,
           \/ connect_to_lumberjack(w) \/ create_table_check(w)
           \/ create_table(w) \/ Lumberjack(w) \/ log_trial(w) \/ destroy(w)
           \/ exec_refused(w) \/ exec_shared(w) \/ wake_up(w) \/ exec_reserved(w)
           \/ commit_lock(w) \/ rollback(w) \/ log_trial_throws(w) \/ crash(w) \/ commit(w)
    PROVE  UNCHANGED Private(v) /\ return_to'[v] = return_to[v]
  <1>1. return_to'[v] = return_to[v]
    <2>1. \/ return_to' = return_to
          \/ \E ret : return_to' = [return_to EXCEPT ![w] = ret]
      BY DEF connect_to_lumberjack, create_table_check, create_table, Lumberjack,
            log_trial, destroy, EnterFlush, exec_refused, exec_shared, wake_up, exec_reserved,
            commit_lock, rollback, log_trial_throws, crash, commit, memory
    <2>2. QED BY <2>1 DEF TypeOK
  <1>2. CASE \/ connect_to_lumberjack(w) \/ create_table_check(w)
             \/ create_table(w) \/ Lumberjack(w)
             \/ exec_refused(w) \/ exec_shared(w) \/ wake_up(w)
    <2>1. UNCHANGED Private(v)
      BY <1>2 DEF connect_to_lumberjack, create_table_check, create_table, Lumberjack,
            exec_refused, exec_shared, wake_up, Goto, memory, Private, TypeOK
    <2>2. QED BY <1>1, <2>1
  <1>3. CASE log_trial(w) \/ destroy(w)
    <2>1. UNCHANGED Private(v)
      BY <1>3 DEF log_trial, destroy, EnterFlush, Goto, Private, TypeOK
    <2>2. QED BY <1>1, <2>1
  <1>4. CASE \/ exec_reserved(w) \/ commit_lock(w) \/ rollback(w) \/ commit(w)
             \/ log_trial_throws(w) \/ crash(w)
    <2>1. UNCHANGED Private(v)
      BY <1>4 DEF exec_reserved, commit_lock, rollback, log_trial_throws, crash, commit,
            Goto, memory, Private, TypeOK
    <2>2. QED BY <1>1, <2>1
  <1>5. QED BY <1>2, <1>3, <1>4

\* Every step preserves the invariant.
LEMMA StepInv == IInv /\ [Next]_vars => IInv'
  <1> SUFFICES ASSUME IInv, [Next]_vars PROVE IInv'
    OBVIOUS
  <1>t. TypeOK'
    BY TypeStep
  <1>w. \A v \in Writers : WInv(v)
    BY DEF IInv, WInv
  <1>o. table' = table => RecordedInOrder'
    BY DEF IInv, RecordedInOrder
  <1>1. CASE UNCHANGED vars
    <2>1. table' = table /\ \A v \in Writers : UNCHANGED Private(v)
      BY <1>1 DEF vars, Private
    <2>2. QED BY <1>t, <1>w, <1>o, <2>1, Frame DEF IInv, WInv
  <1>2. ASSUME NEW w \in Writers, commit(w)
        PROVE  IInv'
    BY <1>t, <1>2, CommitStep DEF IInv, WInv
  <1>3. ASSUME NEW w \in Writers,
               \/ connect_to_lumberjack(w) \/ create_table_check(w)
               \/ create_table(w) \/ Lumberjack(w) \/ log_trial(w) \/ destroy(w)
               \/ exec_refused(w) \/ exec_shared(w) \/ wake_up(w) \/ exec_reserved(w)
               \/ commit_lock(w) \/ rollback(w) \/ log_trial_throws(w) \/ crash(w)
        PROVE  IInv'
    <2>1. WInv(w)'
      BY <1>3, ActorStep
    <2>2. table' = table
      BY <1>3 DEF connect_to_lumberjack, create_table_check, create_table, Lumberjack,
                  log_trial, destroy, exec_refused, exec_shared, wake_up, exec_reserved,
                  commit_lock, rollback, log_trial_throws, crash
    <2>3. \A v \in Writers : v # w => UNCHANGED Private(v)
      BY <1>3, Untouched DEF IInv
    <2>4. \A v \in Writers : WInv(v)'
      BY <1>w, <2>1, <2>2, <2>3, Frame
    <2>5. QED BY <1>t, <1>o, <2>2, <2>4 DEF IInv, WInv
  <1>4. ASSUME NEW r \in Readers, read_begin(r) \/ read_end(r)
        PROVE  IInv'
    <2>1. table' = table /\ \A v \in Writers : UNCHANGED Private(v)
      BY <1>4 DEF read_begin, read_end, memory, Private
    <2>2. QED BY <1>t, <1>w, <1>o, <2>1, Frame DEF IInv, WInv
  <1>5. QED
    BY <1>1, <1>2, <1>3, <1>4 DEF Next, Run, Flush, Finished

\* The inductive invariant is an invariant.
THEOREM Inductive == Spec => []IInv
  BY InitInv, StepInv, PTL DEF Spec

\* Every variable keeps its type and no buffer outgrows MAXIMUM_BUFFER_SIZE.
THEOREM TypeCorrect == Spec => []TypeOK
  <1>1. IInv => TypeOK
    BY DEF IInv
  <1>2. QED BY <1>1, Inductive, PTL

\* However many processes and readers share the database, and whatever is
\* refused, retried or killed, no result is recorded twice or out of order.
THEOREM OrderCorrect == Spec => []RecordedInOrder
  <1>1. IInv => RecordedInOrder
    BY DEF IInv
  <1>2. QED BY <1>1, Inductive, PTL

\* However the database is shared, a process that lives and was not refused its
\* COMMIT has lost no result; one whose destructor returns has all of its results
\* in the table.
THEOREM LossCorrect == Spec => []LossStops
  <1>1. IInv => LossStops
    <2> SUFFICES ASSUME IInv, NEW w \in Writers, pc[w] # "dead", ~Stuck(w), NEW k \in 1 .. logged[w]
                 PROVE  Kept(w, k)
      BY DEF LossStops
    <2> DEFINE n == Len(absBacklog[w])
    <2>1. /\ FlushState(w) /\ Suffix(w) /\ Complete(w)
          /\ logged[w] \in Nat /\ n \in Nat
      BY DEF IInv, TypeOK, absBacklog
    <2>2. CASE k <= logged[w] - n
      BY <2>1, <2>2 DEF Complete, Kept
    <2>3. CASE k > logged[w] - n
      <3>1. k - (logged[w] - n) \in 1 .. n
        BY <2>1, <2>3
      <3>2. absBacklog[w][k - (logged[w] - n)] = Row(w, k)
        <4>1. logged[w] - n + (k - (logged[w] - n)) = k
          BY <2>1
        <4>2. QED BY <2>1, <3>1, <4>1 DEF Suffix
      <3>3. pc[w] # "closed"
        BY <2>1, <3>1 DEF FlushState, absBacklog
      <3>4. QED BY <3>1, <3>2, <3>3 DEF absBacklog, Kept
    <2>4. QED BY <2>1, <2>2, <2>3
  <1>2. QED BY <1>1, Inductive, PTL

\* flush_buffer never throws "All results were not recorded.".
THEOREM RowCountCorrect == Spec => []AllResultsRecorded
  <1>1. IInv => AllResultsRecorded
    BY DEF IInv, FlushState, AllResultsRecorded
  <1>2. QED BY <1>1, Inductive, PTL

----------------------------------------------------------------------------
(* Whole batches: a flush begins at the first result of a batch, and ends at *)
(* the last one unless it is the destructor's.                             *)

Batches(n) == \E q \in Nat : n = MAXIMUM_BUFFER_SIZE * q

Settled(w) == pc[w] \notin {"closed", "dead"} /\ ~Stuck(w)

Flushing(w) == pc[w] \in {"begin", "sleep", "shared", "written", "committing"} /\ ~Stuck(w)

Boundary(w) ==
    /\ Settled(w) => Batches(logged[w] - Len(absBacklog[w]))
    /\ Flushing(w) /\ return_to[w] = "idle" => Batches(logged[w])

\* WholeBatches, of one writer.
Whole(w) ==
    \A k, j \in 1 .. logged[w] : SameBatch(k, j) /\ Recorded(w, k) => Recorded(w, j)

\* A writer that died or is stuck keeps what was true when it could still write.
BInv ==
    \A w \in Writers : Boundary(w) /\ (pc[w] = "dead" \/ Stuck(w) => Whole(w))

\* Results on the two sides of a boundary are of different batches.
LEMMA DifferentBatches ==
    ASSUME NEW p \in Nat, Batches(p), NEW k \in Nat \ {0}, NEW j \in Nat \ {0}, k <= p, p < j
    PROVE  ~SameBatch(k, j)
  <1> USE BufferAssumption
  <1> DEFINE B == MAXIMUM_BUFFER_SIZE
             d == (k - 1) \div B
             e == (j - 1) \div B
  <1>1. PICK q \in Nat : p = B * q
    BY DEF Batches
  <1>2. /\ d \in Int /\ B * d <= k - 1
        /\ e \in Int /\ j - 1 < B * (e + 1)
    OBVIOUS
  <1>3. B * d < B * q /\ B * q < B * (e + 1)
    BY <1>1, <1>2
  <1>4. d < q /\ q < e + 1
    <2>1. ASSUME NEW x \in Int, NEW y \in Int, B * x < B * y PROVE x < y
      <3>1. B \in Nat /\ B > 0
        OBVIOUS
      <3> HIDE DEF B
      <3>2. CASE x >= y
        <4>1. B * x = B * y + B * (x - y) /\ B * (x - y) >= 0
          BY <3>1, <3>2
        <4>2. QED BY <2>1, <3>1, <4>1
      <3>3. QED BY <3>2
    <2>2. QED BY <1>1, <1>2, <1>3, <2>1
  <1>5. d # e
    BY <1>1, <1>2, <1>4
  <1>6. QED BY <1>5 DEF SameBatch

\* What has settled at a boundary is all there, and nothing after it is.
LEMMA SettledWhole ==
    ASSUME IInv, NEW w \in Writers, Boundary(w), pc[w] # "dead", ~Stuck(w)
    PROVE  Whole(w)
  <1> DEFINE p == logged[w] - Len(absBacklog[w])
  <1>1. FlushState(w) /\ Suffix(w) /\ Older(w) /\ Complete(w)
    BY DEF IInv
  <1>2. /\ logged[w] \in Nat /\ p \in Nat
        /\ \A i \in 1 .. Len(table) : table[i] \in Rows
    BY <1>1 DEF IInv, TypeOK, Suffix, absBacklog
  <1>3. \A k \in 1 .. p : Recorded(w, k)
    BY <1>1 DEF Complete
  <1>4. ASSUME NEW k \in 1 .. logged[w], Recorded(w, k) PROVE k <= p
    <2>1. PICK i \in 1 .. Len(table) : table[i] = Row(w, k)
      BY <1>4 DEF Recorded
    <2>2. QED BY <1>1, <2>1 DEF Older, Row
  <1>5. CASE pc[w] = "closed"
    <2>1. p = logged[w]
      BY <1>1, <1>2, <1>5 DEF FlushState, absBacklog
    <2>2. QED BY <1>3, <2>1 DEF Whole
  <1>6. CASE pc[w] # "closed"
    <2>1. Batches(p)
      BY <1>6 DEF Boundary, Settled
    <2> HIDE DEF p
    <2>2. ASSUME NEW k \in 1 .. logged[w], NEW j \in 1 .. logged[w], SameBatch(k, j), Recorded(w, k)
          PROVE  Recorded(w, j)
      <3>1. j <= p
        BY <1>2, <1>4, <2>1, <2>2, DifferentBatches
      <3>2. QED BY <1>2, <1>3, <3>1
    <2>3. QED BY <2>2 DEF Whole
  <1>7. QED BY <1>5, <1>6

\* Where log_trial leads.
LEMMA LoggedOrBegun ==
    ASSUME IInv, NEW w \in Writers, log_trial(w)
    PROVE  LET buffer == Append(result_buffer[w], Row(w, logged[w] + 1)) IN
           /\ pc[w] = "idle" /\ result_buffer'[w] = buffer /\ logged'[w] = logged[w] + 1
           /\ \/ pc'[w] = "idle"
              \/ pc'[w] = "begin" /\ ~done'[w] /\ BufferFull(buffer)
  <1> DEFINE buffer == Append(result_buffer[w], Row(w, logged[w] + 1))
  <1>1. pc[w] = "idle" /\ result_buffer'[w] = buffer /\ logged'[w] = logged[w] + 1
    BY DEF log_trial, IInv, TypeOK
  <1>2. buffer # <<>>
    BY DEF IInv, TypeOK
  <1>3. CASE BufferFull(buffer)
    <2>1. pc'[w] = "begin" /\ ~done'[w]
      BY <1>2, <1>3 DEF log_trial, EnterFlush, Goto, IInv, TypeOK
    <2>2. QED BY <1>1, <1>3, <2>1
  <1>4. CASE ~BufferFull(buffer)
    BY <1>1, <1>4 DEF log_trial
  <1>5. QED BY <1>3, <1>4

\* Boundaries, action by action.
LEMMA BoundaryStep ==
    ASSUME IInv, IInv', NEW w \in Writers, Boundary(w),
           \/ connect_to_lumberjack(w) \/ create_table_check(w)
           \/ create_table(w) \/ Lumberjack(w) \/ log_trial(w) \/ destroy(w)
           \/ exec_refused(w) \/ exec_shared(w) \/ wake_up(w) \/ exec_reserved(w)
           \/ commit_lock(w) \/ rollback(w) \/ log_trial_throws(w) \/ crash(w) \/ commit(w)
    PROVE  Boundary(w)'
  <1> USE BufferAssumption
  <1>t. /\ logged[w] \in Nat /\ logged'[w] \in Nat
        /\ result_buffer[w] \in Seq(Rows) /\ result_buffer'[w] \in Seq(Rows)
        /\ return_to[w] \in {"idle", "closed"}
        /\ FlushState(w) /\ FlushState(w)' /\ Suffix(w) /\ Suffix(w)'
    BY DEF IInv, TypeOK
  <1>1. CASE \/ connect_to_lumberjack(w) \/ create_table_check(w)
             \/ create_table(w) \/ Lumberjack(w)
    <2>1. /\ pc[w] \in {"connect", "missing", "create", "open"}
          /\ pc'[w] \in {"connect", "missing", "create", "open", "idle", "dead"}
          /\ UNCHANGED <<memory, journal>>
      BY <1>1 DEF connect_to_lumberjack, create_table_check, create_table, Lumberjack, Goto,
                  IInv, TypeOK
    <2>2. logged'[w] = 0 /\ Len(absBacklog'[w]) = 0
      <3>1. absBacklog'[w] = result_buffer'[w] /\ logged'[w] = 0
        BY <1>t, <2>1 DEF FlushState, absBacklog, memory
      <3>2. QED BY <1>t, <3>1 DEF Suffix
    <2>3. Batches(0)
      BY DEF Batches
    <2>4. QED BY <2>1, <2>2, <2>3 DEF Boundary, Flushing
  <1>2. CASE log_trial(w)
    <2> DEFINE buffer == Append(result_buffer[w], Row(w, logged[w] + 1))
    <2>1. /\ pc[w] = "idle" /\ result_buffer'[w] = buffer /\ logged'[w] = logged[w] + 1
          /\ Len(buffer) = Len(result_buffer[w]) + 1 /\ Len(result_buffer[w]) \in Nat
      BY <1>2, <1>t, LoggedOrBegun
    <2>2. pc'[w] \in {"idle", "begin"} /\ (pc'[w] = "begin" => BufferFull(buffer))
      BY <1>2, LoggedOrBegun
    <2> HIDE DEF buffer
    <2>3. absBacklog[w] = result_buffer[w] /\ absBacklog'[w] = buffer
      BY <2>1, <2>2 DEF absBacklog
    <2>4. PICK q \in Nat : logged[w] - Len(result_buffer[w]) = MAXIMUM_BUFFER_SIZE * q
      BY <2>1, <2>3 DEF Boundary, Settled, Stuck, Batches
    <2>5. logged'[w] - Len(absBacklog'[w]) = MAXIMUM_BUFFER_SIZE * q
      BY <1>t, <2>1, <2>3, <2>4
    <2>6. ASSUME pc'[w] = "begin" PROVE logged'[w] = MAXIMUM_BUFFER_SIZE * (q + 1)
      <3>1. Len(buffer) = MAXIMUM_BUFFER_SIZE
        BY <1>t, <2>1, <2>2, <2>6 DEF BufferFull, FlushState
      <3>2. MAXIMUM_BUFFER_SIZE * (q + 1) = MAXIMUM_BUFFER_SIZE * q + MAXIMUM_BUFFER_SIZE
        OBVIOUS
      <3>3. QED BY <1>t, <2>1, <2>4, <3>1, <3>2
    <2>7. Batches(logged'[w] - Len(absBacklog'[w]))
      BY <2>5 DEF Batches
    <2>8. pc'[w] = "begin" => Batches(logged'[w])
      BY <2>6 DEF Batches
    <2>9. QED BY <2>2, <2>7, <2>8 DEF Boundary, Flushing
  <1>3. CASE destroy(w)
    <2>1. /\ pc[w] = "idle" /\ UNCHANGED <<result_buffer, logged, journal>>
          /\ pc'[w] = "closed" \/ (pc'[w] = "begin" /\ return_to'[w] = "closed")
      BY <1>3 DEF destroy, EnterFlush, Goto, IInv, TypeOK
    <2>2. absBacklog'[w] = absBacklog[w] /\ Settled(w)
      BY <2>1 DEF absBacklog, Settled, Stuck
    <2>3. QED BY <2>1, <2>2 DEF Boundary, Flushing, Settled
  <1>4. CASE exec_refused(w) \/ exec_shared(w) \/ wake_up(w) \/ exec_reserved(w)
    <2>1. /\ pc[w] \in {"begin", "sleep", "shared"} /\ UNCHANGED <<logged, result_buffer, return_to>>
          /\ pc'[w] \in {"begin", "sleep", "shared", "written"}
          /\ pc'[w] # "written" => done' = done
      BY <1>4 DEF exec_refused, exec_shared, wake_up, exec_reserved, Goto, memory, IInv, TypeOK
    <2>2. absBacklog'[w] = absBacklog[w]
      BY <2>1 DEF absBacklog
    <2>3. Stuck(w) => Stuck(w)'
      BY <1>4, <2>1 DEF Stuck, exec_refused, exec_shared, wake_up, exec_reserved, Goto, IInv, TypeOK
    <2>4. QED BY <2>1, <2>2, <2>3 DEF Boundary, Flushing, Settled
  <1>5. CASE commit_lock(w)
    <2>1. /\ pc[w] = "written" /\ UNCHANGED <<logged, return_to, journal>>
          /\ pc'[w] = "committing" \/ pc'[w] = "unwind"
      BY <1>5 DEF commit_lock, Goto, IInv, TypeOK
    <2>2. pc'[w] = "committing" => absBacklog'[w] = absBacklog[w]
      BY <1>t, <2>1 DEF absBacklog, FlushState
    <2>3. Settled(w) /\ Flushing(w) /\ (pc'[w] = "unwind" => Stuck(w)')
      BY <2>1 DEF Settled, Flushing, Stuck
    <2>4. QED BY <2>1, <2>2, <2>3 DEF Boundary, Flushing, Settled
  <1>6. CASE rollback(w)
    <2>1. pc[w] = "unwind" /\ pc'[w] = "sleep" /\ UNCHANGED done
      BY <1>6 DEF rollback, Goto, memory, IInv, TypeOK
    <2>2. Stuck(w)'
      BY <1>t, <2>1 DEF FlushState, Stuck
    <2>3. QED BY <2>2 DEF Boundary, Flushing, Settled
  <1>7. CASE log_trial_throws(w) \/ crash(w)
    <2>1. pc'[w] = "dead"
      BY <1>7 DEF log_trial_throws, crash, Goto, IInv, TypeOK
    <2>2. QED BY <2>1 DEF Boundary, Flushing, Settled
  <1>8. CASE commit(w)
    <2>1. pc[w] = "committing" /\ pc'[w] = return_to[w] /\ UNCHANGED memory
      BY <1>8 DEF commit, Goto, IInv, TypeOK
    <2>2. absBacklog'[w] = <<>>
      BY <1>t, <2>1 DEF absBacklog, FlushState, memory
    <2>3. Flushing(w)
      BY <2>1 DEF Flushing, Stuck
    <2>4. logged'[w] - Len(absBacklog'[w]) = logged[w]
      BY <1>t, <2>1, <2>2 DEF memory
    <2>5. QED BY <1>t, <2>1, <2>3, <2>4 DEF Boundary, Flushing, Settled
  <1>9. QED
    BY <1>1, <1>2, <1>3, <1>4, <1>5, <1>6, <1>7, <1>8

\* A writer keeps its batches whole while it logs nothing and the table gets
\* no row of it.
LEMMA WholeFrame ==
    ASSUME NEW v \in Writers, Whole(v), logged'[v] = logged[v],
           \A k \in 1 .. logged[v] : Recorded(v, k)' <=> Recorded(v, k)
    PROVE  Whole(v)'
  BY DEF Whole, SameBatch

\* The other writers of a step.
LEMMA OthersStep ==
    ASSUME IInv, NEW v \in Writers, Boundary(v), Whole(v),
           UNCHANGED Private(v), return_to'[v] = return_to[v],
           \/ table' = table
           \/ \E w \in Writers \ {v} : commit(w)
    PROVE  Boundary(v)' /\ Whole(v)'
  <1>1. absBacklog'[v] = absBacklog[v]
    BY DEF absBacklog, Private
  <1>2. Boundary(v)'
    BY <1>1 DEF Boundary, Settled, Flushing, Stuck, Private
  <1>3. CASE table' = table
    <2>1. logged'[v] = logged[v] /\ \A k \in 1 .. logged[v] : Recorded(v, k)' <=> Recorded(v, k)
      BY <1>3 DEF Recorded, Private
    <2>2. QED BY <1>2, <2>1, WholeFrame
  <1>4. ASSUME NEW w \in Writers \ {v}, commit(w) PROVE Whole(v)'
    <2>1. table' = table \o journal[w] /\ table \in Seq(Rows) /\ journal[w] \in Seq(Rows)
      BY <1>4 DEF commit, IInv, TypeOK
    <2>2. /\ Len(table') = Len(table) + Len(journal[w]) /\ Len(table) \in Nat /\ Len(journal[w]) \in Nat
          /\ \A i \in 1 .. Len(table) : table'[i] = table[i]
          /\ \A i \in Len(table) + 1 .. Len(table) + Len(journal[w]) : table'[i] = journal[w][i - Len(table)]
      BY <2>1, Concat
    <2>3. \A i \in 1 .. Len(journal[w]) : journal[w][i][1] = w
      <3>1. absBacklog[w] = journal[w]
        BY <1>4 DEF commit, absBacklog
      <3>2. QED BY <3>1 DEF IInv, Suffix, Row
    <2>4. ASSUME NEW k \in 1 .. logged[v], Recorded(v, k)' PROVE Recorded(v, k)
      <3>1. PICK i \in 1 .. Len(table') : table'[i] = Row(v, k)
        BY <2>4 DEF Recorded
      <3>2. CASE i \in 1 .. Len(table)
        BY <2>2, <3>1, <3>2 DEF Recorded
      <3>3. CASE i \in Len(table) + 1 .. Len(table) + Len(journal[w])
        <4>1. i - Len(table) \in 1 .. Len(journal[w])
          BY <2>2, <3>3
        <4>2. table'[i][1] = w
          BY <2>2, <2>3, <3>3, <4>1
        <4>3. QED BY <1>4, <3>1, <4>2 DEF Row
      <3>4. QED BY <2>2, <3>2, <3>3
    <2>5. ASSUME NEW k \in 1 .. logged[v], Recorded(v, k) PROVE Recorded(v, k)'
      <3>1. PICK i \in 1 .. Len(table) : table[i] = Row(v, k)
        BY <2>5 DEF Recorded
      <3>2. i \in 1 .. Len(table') /\ table'[i] = Row(v, k)
        BY <2>2, <3>1
      <3>3. QED BY <3>2 DEF Recorded
    <2>6. QED BY <2>4, <2>5, WholeFrame DEF Private
  <1>5. QED BY <1>2, <1>3, <1>4

\* Every step keeps the batches.
LEMMA BatchStep == IInv /\ IInv' /\ BInv /\ [Next]_vars => BInv'
  <1> SUFFICES ASSUME IInv, IInv', BInv, [Next]_vars PROVE BInv'
    OBVIOUS
  <1>b. \A v \in Writers : Boundary(v) /\ Whole(v)
    BY SettledWhole DEF BInv
  <1>1. CASE UNCHANGED vars
    <2>1. table' = table /\ \A v \in Writers : UNCHANGED Private(v) /\ return_to'[v] = return_to[v]
      BY <1>1 DEF vars, Private
    <2>2. QED BY <1>b, <2>1, OthersStep DEF BInv
  <1>2. ASSUME NEW w \in Writers,
               \/ connect_to_lumberjack(w) \/ create_table_check(w)
               \/ create_table(w) \/ Lumberjack(w) \/ log_trial(w) \/ destroy(w)
               \/ exec_refused(w) \/ exec_shared(w) \/ wake_up(w) \/ exec_reserved(w)
               \/ commit_lock(w) \/ rollback(w) \/ log_trial_throws(w) \/ crash(w) \/ commit(w)
        PROVE  BInv'
    <2>1. Boundary(w)'
      BY <1>b, <1>2, BoundaryStep
    <2>2. ASSUME pc'[w] = "dead" \/ Stuck(w)' PROVE Whole(w)'
      <3>1. ~log_trial(w)
        <4>1. ASSUME log_trial(w) PROVE FALSE
          <5>1. pc'[w] = "idle" \/ (pc'[w] = "begin" /\ ~done'[w])
            BY <4>1, LoggedOrBegun
          <5>2. QED BY <2>2, <5>1 DEF Stuck
        <4>2. QED BY <4>1
      <3>2. ~commit(w)
        <4>1. ASSUME commit(w) PROVE FALSE
          <5>1. pc'[w] \in {"idle", "closed"}
            BY <4>1 DEF commit, Goto, IInv, TypeOK
          <5>2. QED BY <2>2, <5>1 DEF Stuck
        <4>2. QED BY <4>1
      <3>3. table' = table /\ logged' = logged
        BY <1>2, <3>1, <3>2 DEF connect_to_lumberjack, create_table_check, create_table, Lumberjack,
              destroy, exec_refused, exec_shared, wake_up, exec_reserved,
              commit_lock, rollback, log_trial_throws, crash, memory
      <3>4. \A k \in 1 .. logged[w] : Recorded(w, k)' <=> Recorded(w, k)
        BY <3>3 DEF Recorded
      <3>5. QED BY <1>b, <3>3, <3>4, WholeFrame
    <2>3. ASSUME NEW v \in Writers, v # w PROVE Boundary(v)' /\ Whole(v)'
      <3>1. table' = table \/ commit(w)
        BY <1>2 DEF connect_to_lumberjack, create_table_check, create_table, Lumberjack,
                  log_trial, destroy, exec_refused, exec_shared, wake_up, exec_reserved,
                  commit_lock, rollback, log_trial_throws, crash
      <3>2. UNCHANGED Private(v) /\ return_to'[v] = return_to[v]
        BY <1>2, <2>3, Untouched DEF IInv
      <3>3. QED BY <1>b, <2>3, <3>1, <3>2, OthersStep
    <2>4. QED BY <2>1, <2>2, <2>3 DEF BInv
  <1>3. ASSUME NEW r \in Readers, read_begin(r) \/ read_end(r)
        PROVE  BInv'
    <2>1. table' = table /\ \A v \in Writers : UNCHANGED Private(v) /\ return_to'[v] = return_to[v]
      BY <1>3 DEF read_begin, read_end, memory, Private
    <2>2. QED BY <1>b, <2>1, OthersStep DEF BInv
  <1>4. QED
    BY <1>1, <1>2, <1>3 DEF Next, Run, Flush, Finished

\* Of the results that filled a buffer together, all are in the table or none,
\* whatever lock is refused and whichever process is killed.
THEOREM BatchesCorrect == Spec => []WholeBatches
  <1>1. Init => BInv
    <2> SUFFICES ASSUME Init, NEW w \in Writers PROVE Boundary(w) /\ Whole(w)
      BY DEF BInv
    <2>1. logged[w] = 0 /\ absBacklog[w] = <<>> /\ pc[w] = "connect"
      BY DEF Init, absBacklog
    <2>2. Batches(0)
      BY BufferAssumption DEF Batches
    <2>3. QED BY <2>1, <2>2 DEF Boundary, Whole, Flushing
  <1>2. IInv /\ BInv => WholeBatches
    BY SettledWhole DEF BInv, Whole, WholeBatches
  <1>3. QED BY <1>1, <1>2, BatchStep, Inductive, PTL DEF Spec
----------------------------------------------------------------------------
(* Locks: what a connection holds follows from where it stands.            *)

InTransaction == {"written", "committing", "unwind"}

LockState(w) ==
    /\ pc[w] = "shared" => lock[w] = "shared"
    /\ pc[w] = "written" => lock[w] = "reserved"
    /\ pc[w] = "committing" => lock[w] = "exclusive"
    /\ pc[w] = "unwind" => lock[w] = "pending"
    /\ pc[w] \notin {"shared"} \cup InTransaction => lock[w] = "none"
    /\ pc[w] \notin InTransaction => journal[w] = <<>>

\* A transaction that has written keeps every other from writing, and one that
\* is being committed keeps every other connection out.
LInv ==
    /\ \A w \in Writers : LockState(w)
    /\ \A r \in Readers : lock[r] \in {"none", "shared"}
    /\ \A w, v \in Writers : w # v => pc[w] \notin InTransaction \/ pc[v] \notin InTransaction
    /\ \A w \in Writers : pc[w] = "committing" =>
           \A c \in Connections \ {w} : lock[c] = "none"

\* What a step of w does to its lock and its journal, and that it was granted.
LEMMA LockActor ==
    ASSUME IInv, LInv, NEW w \in Writers,
           \/ connect_to_lumberjack(w) \/ create_table_check(w)
           \/ create_table(w) \/ Lumberjack(w) \/ log_trial(w) \/ destroy(w)
           \/ exec_refused(w) \/ exec_shared(w) \/ wake_up(w) \/ exec_reserved(w)
           \/ commit_lock(w) \/ rollback(w) \/ log_trial_throws(w) \/ crash(w) \/ commit(w)
    PROVE  /\ \A v \in Writers \ {w} : pc'[v] = pc[v] /\ journal'[v] = journal[v]
           /\ \A c \in Connections \ {w} : lock'[c] = lock[c]
           /\ LockState(w)'
           /\ pc'[w] = "shared" => MayRead(w)
           /\ pc'[w] \in InTransaction => pc[w] \in InTransaction \/ MayWrite(w)
           /\ pc'[w] = "committing" => MayCommit(w)
  <1> USE DEF InTransaction, Goto, Hold
  <1>t. LockState(w) /\ w \in Connections
    BY DEF LInv, Connections
  <1>y. pc \in [Writers -> PCs] /\ lock \in [Connections -> Locks] /\ journal \in [Writers -> Seq(Rows)]
    BY DEF IInv, TypeOK
  <1>1. CASE \/ connect_to_lumberjack(w) \/ create_table_check(w)
             \/ create_table(w) \/ Lumberjack(w)
    BY <1>1, <1>t, <1>y DEF connect_to_lumberjack, create_table_check, create_table, Lumberjack, LockState
  <1>2. CASE log_trial(w) \/ destroy(w)
    <2>1. /\ pc[w] = "idle" /\ UNCHANGED <<lock, journal>>
          /\ \E l \in {"idle", "begin", "closed"} : pc' = [pc EXCEPT ![w] = l]
      BY <1>2, <1>y DEF log_trial, destroy, EnterFlush
    <2>2. QED BY <2>1, <1>t, <1>y DEF LockState
  <1>3. CASE exec_refused(w) \/ wake_up(w)
    BY <1>3, <1>t, <1>y DEF exec_refused, wake_up, LockState
  <1>4. CASE exec_shared(w)
    BY <1>4, <1>t, <1>y DEF exec_shared, LockState
  <1>5. CASE exec_reserved(w)
    BY <1>5, <1>t, <1>y DEF exec_reserved, LockState
  <1>6. CASE commit_lock(w)
    BY <1>6, <1>t, <1>y DEF commit_lock, LockState
  <1>7. CASE commit(w)
    <2>1. return_to[w] \in {"idle", "closed"}
      BY DEF IInv, TypeOK
    <2>2. QED BY <1>7, <2>1, <1>t, <1>y DEF commit, LockState
  <1>8. CASE rollback(w)
    BY <1>8, <1>t, <1>y DEF rollback, LockState
  <1>9. CASE log_trial_throws(w) \/ crash(w)
    BY <1>9, <1>t, <1>y DEF log_trial_throws, crash, LockState
  <1>10. QED BY <1>1, <1>2, <1>3, <1>4, <1>5, <1>6, <1>7, <1>8, <1>9

\* Whoever acts, the transactions stay apart.
LEMMA LockStep == IInv /\ LInv /\ [Next]_vars => LInv'
  <1> SUFFICES ASSUME IInv, LInv, [Next]_vars PROVE LInv'
    OBVIOUS
  <1>1. CASE UNCHANGED vars
    BY <1>1 DEF vars, LInv, LockState
  <1>2. ASSUME NEW w \in Writers,
               \/ connect_to_lumberjack(w) \/ create_table_check(w)
               \/ create_table(w) \/ Lumberjack(w) \/ log_trial(w) \/ destroy(w)
               \/ exec_refused(w) \/ exec_shared(w) \/ wake_up(w) \/ exec_reserved(w)
               \/ commit_lock(w) \/ rollback(w) \/ log_trial_throws(w) \/ crash(w) \/ commit(w)
        PROVE  LInv'
    <2>1. /\ \A v \in Writers \ {w} : pc'[v] = pc[v] /\ journal'[v] = journal[v]
          /\ \A c \in Connections \ {w} : lock'[c] = lock[c]
          /\ LockState(w)'
          /\ pc'[w] = "shared" => MayRead(w)
          /\ pc'[w] \in InTransaction => pc[w] \in InTransaction \/ MayWrite(w)
          /\ pc'[w] = "committing" => MayCommit(w)
      BY <1>2, LockActor
    <2>2. Writers \subseteq Connections /\ Readers \subseteq Connections /\ w \notin Readers
      BY ConnectionsAssumption DEF Connections
    <2>3. \A v \in Writers : LockState(v)'
      BY <2>1, <2>2 DEF LInv, LockState
    <2>4. \A r \in Readers : lock'[r] \in {"none", "shared"}
      BY <2>1, <2>2 DEF LInv
    <2>5. ASSUME NEW v \in Writers, v # w, pc'[w] \in InTransaction
          PROVE  pc'[v] \notin InTransaction
      <3>1. pc'[v] = pc[v] /\ lock[v] \in Locks
        BY <2>1, <2>2, <2>5 DEF IInv, TypeOK
      <3>2. CASE pc[w] \in InTransaction
        BY <2>5, <3>1, <3>2 DEF LInv
      <3>3. CASE MayWrite(w)
        BY <2>2, <2>5, <3>1, <3>3 DEF LInv, LockState, MayWrite, InTransaction
      <3>4. QED BY <2>1, <2>5, <3>2, <3>3
    <2>6. \A u, v \in Writers : u # v => pc'[u] \notin InTransaction \/ pc'[v] \notin InTransaction
      BY <2>1, <2>5 DEF LInv
    <2>7. ASSUME NEW u \in Writers, pc'[u] = "committing", NEW c \in Connections \ {u}
          PROVE  lock'[c] = "none"
      <3>1. CASE u = w
        BY <2>1, <2>7, <3>1 DEF MayCommit
      <3>2. CASE u # w /\ c # w
        BY <2>1, <2>7, <3>2 DEF LInv
      <3>3. CASE u # w /\ c = w
        <4>1. pc[u] = "committing" /\ lock[u] = "exclusive" /\ u \in Connections \ {w}
          BY <2>1, <2>2, <2>7, <3>3 DEF LInv, LockState
        <4>2. ~MayRead(w)
          BY <4>1 DEF MayRead
        <4>3. pc'[w] \notin InTransaction
          BY <2>6, <2>7, <3>3 DEF InTransaction
        <4>4. QED BY <2>1, <3>3, <4>2, <4>3 DEF LockState
      <3>4. QED BY <3>1, <3>2, <3>3
    <2>8. QED BY <2>3, <2>4, <2>6, <2>7 DEF LInv
  <1>3. ASSUME NEW r \in Readers, read_begin(r) \/ read_end(r)
        PROVE  LInv'
    <2>1. /\ \A c \in Connections \ {r} : lock'[c] = lock[c]
          /\ lock'[r] = "none" \/ (lock'[r] = "shared" /\ MayRead(r))
          /\ UNCHANGED <<pc, journal>>
      BY <1>3 DEF read_begin, read_end, Hold, IInv, TypeOK, Connections
    <2>2. Writers \subseteq Connections /\ Readers \subseteq Connections /\ r \notin Writers
      BY ConnectionsAssumption DEF Connections
    <2>3. \A v \in Writers : LockState(v)'
      BY <2>1, <2>2 DEF LInv, LockState
    <2>4. \A q \in Readers : lock'[q] \in {"none", "shared"}
      BY <2>1, <2>2 DEF LInv
    <2>5. ASSUME NEW u \in Writers, pc'[u] = "committing", NEW c \in Connections \ {u}
          PROVE  lock'[c] = "none"
      <3>1. pc[u] = "committing" /\ lock[u] = "exclusive" /\ u \in Connections \ {r}
        BY <2>1, <2>2, <2>5 DEF LInv, LockState
      <3>2. ~MayRead(r)
        BY <3>1 DEF MayRead
      <3>3. QED BY <2>1, <2>5, <3>1, <3>2 DEF LInv
    <2>6. QED BY <2>1, <2>3, <2>4, <2>5 DEF LInv
  <1>4. QED
    BY <1>1, <1>2, <1>3 DEF Next, Run, Flush, Finished

\* However many connections use the file, a flush leaves nothing behind and no
\* two transactions with rows in them are open at a time.
THEOREM ApartCorrect == Spec => []TransactionsApart
  <1>1. Init => LInv
    BY DEF Init, LInv, LockState, InTransaction, Connections
  <1>2. IInv /\ LInv => TransactionsApart
    BY DEF LInv, LockState, InTransaction, TransactionsApart
  <1>3. QED BY <1>1, <1>2, LockStep, Inductive, PTL DEF Spec

----------------------------------------------------------------------------
(* A database of its own: what perform-e.py arranges for every process.    *)

PrivateDatabase == \A c, d \in Connections : c = d

\* No flush has been refused for good, and none is without results.
PInv ==
    \A w \in Writers :
        /\ ~Stuck(w)
        /\ pc[w] \in {"begin", "sleep", "shared", "written", "committing"} => absBacklog[w] # <<>>

\* Nobody else holds a lock.
LEMMA AlwaysGranted ==
    ASSUME PrivateDatabase, NEW w \in Writers
    PROVE  MayRead(w) /\ MayWrite(w) /\ MayCommit(w)
  <1>1. Connections \ {w} = {}
    BY DEF PrivateDatabase, Connections
  <1>2. QED BY <1>1 DEF MayRead, MayWrite, MayCommit

\* The first flush of a destructor that has something to flush.
LEMMA ClosedOrBegun ==
    ASSUME IInv, NEW w \in Writers, destroy(w)
    PROVE  /\ pc[w] = "idle" /\ UNCHANGED <<logged, result_buffer, journal, table>>
           /\ \/ pc'[w] = "closed" /\ result_buffer[w] = <<>>
              \/ pc'[w] = "begin" /\ ~done'[w] /\ result_buffer[w] # <<>>
  BY DEF destroy, EnterFlush, Goto, IInv, TypeOK

\* The acting process, alone with its database.
LEMMA PrivateActor ==
    ASSUME PrivateDatabase, IInv, PInv, NEW w \in Writers,
           \/ connect_to_lumberjack(w) \/ create_table_check(w)
           \/ create_table(w) \/ Lumberjack(w) \/ log_trial(w) \/ destroy(w)
           \/ exec_refused(w) \/ exec_shared(w) \/ wake_up(w) \/ exec_reserved(w)
           \/ commit_lock(w) \/ rollback(w) \/ log_trial_throws(w) \/ crash(w) \/ commit(w)
    PROVE  /\ ~Stuck(w)'
           /\ pc'[w] \in {"begin", "sleep", "shared", "written", "committing"} => absBacklog'[w] # <<>>
  <1>g. MayRead(w) /\ MayWrite(w) /\ MayCommit(w)
    BY AlwaysGranted
  <1>t. FlushState(w) /\ ~Stuck(w) /\ result_buffer[w] \in Seq(Rows)
    BY DEF IInv, TypeOK, PInv
  <1>p. pc[w] \in {"begin", "sleep", "shared", "written", "committing"} => absBacklog[w] # <<>>
    BY DEF PInv
  <1>1. CASE \/ connect_to_lumberjack(w) \/ create_table_check(w)
             \/ create_table(w) \/ Lumberjack(w) \/ log_trial_throws(w) \/ crash(w) \/ commit(w)
    <2>1. pc'[w] \in {"missing", "create", "open", "idle", "closed", "dead"}
      BY <1>1 DEF connect_to_lumberjack, create_table_check, create_table, Lumberjack,
                  log_trial_throws, crash, commit, Goto, IInv, TypeOK
    <2>2. QED BY <2>1 DEF Stuck
  <1>2. CASE log_trial(w)
    <2>1. /\ result_buffer'[w] # <<>>
          /\ pc'[w] = "idle" \/ (pc'[w] = "begin" /\ ~done'[w])
      BY <1>2, <1>t, LoggedOrBegun
    <2>2. QED BY <2>1 DEF Stuck, absBacklog
  <1>3. CASE destroy(w)
    BY <1>3, ClosedOrBegun DEF Stuck, absBacklog
  <1>4. CASE exec_refused(w) \/ exec_shared(w) \/ wake_up(w) \/ exec_reserved(w)
    <2>1. /\ pc[w] \in {"begin", "sleep", "shared"} /\ ~done[w] /\ result_buffer' = result_buffer
          /\ \/ pc'[w] \in {"begin", "shared"} /\ ~done'[w]
             \/ pc'[w] = "written"
      BY <1>4, <1>g, <1>t DEF exec_refused, exec_shared, wake_up, exec_reserved, Goto, memory,
                              IInv, TypeOK, FlushState, Stuck
    <2>2. QED BY <1>p, <2>1 DEF Stuck, absBacklog
  <1>5. CASE commit_lock(w)
    <2>1. pc[w] = "written" /\ pc'[w] = "committing" /\ journal' = journal
      BY <1>5, <1>g DEF commit_lock, Goto, IInv, TypeOK
    <2>2. QED BY <1>p, <1>t, <2>1 DEF Stuck, absBacklog, FlushState
  <1>6. CASE rollback(w)
    BY <1>6, <1>t DEF rollback, Stuck
  <1>7. QED BY <1>1, <1>2, <1>3, <1>4, <1>5, <1>6

\* Whoever acts, the process that owns the database is never refused for good.
LEMMA PrivateInvStep ==
    ASSUME PrivateDatabase, IInv, PInv, [Next]_vars
    PROVE  PInv'
  <1>1. CASE UNCHANGED vars
    BY <1>1 DEF vars, PInv, Stuck, absBacklog
  <1>2. ASSUME NEW w \in Writers,
               \/ connect_to_lumberjack(w) \/ create_table_check(w)
               \/ create_table(w) \/ Lumberjack(w) \/ log_trial(w) \/ destroy(w)
               \/ exec_refused(w) \/ exec_shared(w) \/ wake_up(w) \/ exec_reserved(w)
               \/ commit_lock(w) \/ rollback(w) \/ log_trial_throws(w) \/ crash(w) \/ commit(w)
        PROVE  PInv'
    <2>1. \A v \in Writers : v = w
      BY DEF PrivateDatabase, Connections
    <2>2. QED BY <1>2, <2>1, PrivateActor DEF PInv
  <1>3. ASSUME NEW r \in Readers, read_begin(r) \/ read_end(r)
        PROVE  PInv'
    BY <1>3 DEF read_begin, read_end, memory, PInv, Stuck, absBacklog
  <1>4. QED
    BY <1>1, <1>2, <1>3 DEF Next, Run, Flush, Finished

\* No COMMIT of a process with a database of its own is ever refused.
THEOREM PrivateInvariance == ASSUME PrivateDatabase PROVE Spec => []PInv
  <1>1. Init => PInv
    BY DEF Init, PInv, Stuck
  <1>2. IInv /\ PInv /\ [Next]_vars => PInv'
    BY PrivateInvStep
  <1>3. QED BY <1>1, <1>2, Inductive, PTL DEF Spec

\* In a database of its own a live process loses nothing: what it was handed is
\* in the table, in its buffer or in a transaction that cannot be refused.
THEOREM PrivateKeeps == ASSUME PrivateDatabase PROVE Spec => []ResultsKept
  <1>1. LossStops /\ PInv => ResultsKept
    BY DEF LossStops, PInv, ResultsKept
  <1>2. QED BY <1>1, LossCorrect, PrivateInvariance, PTL

\* A step that leaves what others see of every process as it was.
LEMMA LogStutter ==
    ASSUME UNCHANGED <<logged, table>>,
           \A v \in Writers : absState'[v] = absState[v] /\ absBacklog'[v] = absBacklog[v]
    PROVE  UNCHANGED Log!vars
  <1>1. absState' = absState /\ absBacklog' = absBacklog
    BY DEF absState, absBacklog
  <1>2. QED BY <1>1 DEF Log!vars

\* The only writer of a private database, seen from outside, changes alone.
LEMMA LogUpdate ==
    ASSUME PrivateDatabase, NEW w \in Writers
    PROVE  /\ absState' = [absState EXCEPT ![w] = absState'[w]]
           /\ absBacklog' = [absBacklog EXCEPT ![w] = absBacklog'[w]]
           /\ \A v \in Writers : v = w
  <1>1. \A v \in Writers : v = w
    BY DEF PrivateDatabase, Connections
  <1>2. QED BY <1>1 DEF absState, absBacklog

\* Every step of a process with a database of its own is one of the log, or
\* changes nothing of what others see.
LEMMA LogStep ==
    ASSUME PrivateDatabase, IInv, IInv', PInv, PInv', [Next]_vars
    PROVE  Log!Next \/ UNCHANGED Log!vars
  <1>1. CASE UNCHANGED vars
    BY <1>1, LogStutter DEF vars, absState, absBacklog
  <1>2. ASSUME NEW w \in Writers,
               \/ connect_to_lumberjack(w) \/ create_table_check(w)
               \/ create_table(w) \/ Lumberjack(w) \/ log_trial(w) \/ destroy(w)
               \/ exec_refused(w) \/ exec_shared(w) \/ wake_up(w) \/ exec_reserved(w)
               \/ commit_lock(w) \/ rollback(w) \/ log_trial_throws(w) \/ crash(w) \/ commit(w)
        PROVE  Log!Next \/ UNCHANGED Log!vars
    <2>u. /\ absState' = [absState EXCEPT ![w] = absState'[w]]
          /\ absBacklog' = [absBacklog EXCEPT ![w] = absBacklog'[w]]
          /\ \A v \in Writers : v = w
      BY LogUpdate
    <2>t. /\ FlushState(w) /\ FlushState(w)' /\ Suffix(w) /\ ~Stuck(w)
          /\ logged[w] \in Nat /\ result_buffer[w] \in Seq(Rows)
      BY DEF IInv, TypeOK, PInv
    <2>g. MayRead(w) /\ MayWrite(w) /\ MayCommit(w)
      BY AlwaysGranted
    <2>s. ASSUME absState'[w] = absState[w], absBacklog'[w] = absBacklog[w], UNCHANGED <<logged, table>>
          PROVE  UNCHANGED Log!vars
      BY <2>u, <2>s, LogStutter
    <2>d. ASSUME absState[w] \in {"new", "open"}, absState'[w] = "dead", absBacklog'[w] = <<>>,
                 UNCHANGED <<logged, table>>
          PROVE  Log!Next
      <3>1. Log!Die(w)
        BY <2>u, <2>d DEF Log!Die
      <3>2. QED BY <3>1 DEF Log!Next
    <2>1. CASE \/ connect_to_lumberjack(w) \/ create_table_check(w)
               \/ create_table(w) \/ Lumberjack(w)
      <3>1. /\ pc[w] \in {"connect", "missing", "create", "open"}
            /\ pc'[w] \in {"missing", "create", "open", "idle", "dead"}
            /\ UNCHANGED <<memory, journal, table>>
        BY <2>1 DEF connect_to_lumberjack, create_table_check, create_table, Lumberjack, Goto,
                    IInv, TypeOK
      <3>2. absState[w] = "new" /\ absBacklog[w] = result_buffer[w] /\ absBacklog'[w] = result_buffer[w]
        BY <3>1 DEF absState, absBacklog, memory
      <3>3. result_buffer[w] = <<>>
        BY <2>t, <3>1, <3>2 DEF Suffix, FlushState
      <3>4. CASE pc'[w] = "dead"
        BY <2>d, <3>1, <3>2, <3>3, <3>4 DEF absState, memory
      <3>5. CASE pc'[w] = "idle"
        <4>1. absState'[w] = "open"
          BY <3>5 DEF absState
        <4>2. absBacklog' = absBacklog
          BY <2>u, <3>2 DEF absBacklog
        <4>3. Log!Open(w)
          BY <2>u, <3>1, <3>2, <4>1, <4>2 DEF Log!Open, memory
        <4>4. QED BY <4>3 DEF Log!Next
      <3>6. CASE pc'[w] \in {"missing", "create", "open"}
        <4>1. absState'[w] = "new"
          BY <3>6 DEF absState
        <4>2. QED BY <2>s, <3>1, <3>2, <4>1 DEF memory
      <3>7. QED BY <3>1, <3>4, <3>5, <3>6
    <2>2. CASE log_trial(w)
      <3> DEFINE buffer == Append(result_buffer[w], Row(w, logged[w] + 1))
      <3>1. /\ pc[w] = "idle" /\ result_buffer'[w] = buffer
            /\ pc'[w] \in {"idle", "begin"}
        BY <2>2, LoggedOrBegun
      <3>2. logged' = [logged EXCEPT ![w] = @ + 1] /\ table' = table
        BY <2>2 DEF log_trial
      <3>3. absState[w] = "open" /\ absState'[w] = "open" /\ absBacklog[w] = result_buffer[w]
            /\ absBacklog'[w] = buffer
        BY <3>1 DEF absState, absBacklog
      <3>4. absState' = absState
        BY <2>u, <3>3 DEF absState
      <3>5. absBacklog' = [absBacklog EXCEPT ![w] = Append(@, Log!Row(w, logged[w] + 1))]
        BY <2>u, <3>3 DEF Row, Log!Row
      <3>6. Log!Accept(w)
        BY <3>2, <3>3, <3>4, <3>5 DEF Log!Accept
      <3>7. QED BY <3>6 DEF Log!Next
    <2>3. CASE destroy(w)
      <3>1. /\ pc[w] = "idle" /\ UNCHANGED <<logged, result_buffer, journal, table>>
            /\ \/ pc'[w] = "closed" /\ result_buffer[w] = <<>>
               \/ pc'[w] = "begin" /\ result_buffer[w] # <<>>
        BY <2>3, ClosedOrBegun
      <3>2. absState[w] = "open" /\ absBacklog[w] = result_buffer[w] /\ absBacklog'[w] = result_buffer[w]
        BY <3>1 DEF absState, absBacklog
      <3>3. CASE pc'[w] = "closed"
        <4>1. absState'[w] = "closed" /\ absBacklog' = absBacklog
          BY <2>u, <3>2, <3>3 DEF absState, absBacklog
        <4>2. Log!Close(w)
          BY <2>u, <3>1, <3>2, <3>3, <4>1 DEF Log!Close
        <4>3. QED BY <4>2 DEF Log!Next
      <3>4. CASE pc'[w] = "begin"
        <4>1. absState'[w] = "open"
          BY <3>4 DEF absState
        <4>2. QED BY <2>s, <3>1, <3>2, <4>1
      <3>5. QED BY <3>1, <3>3, <3>4
    <2>4. CASE exec_refused(w) \/ exec_shared(w) \/ wake_up(w) \/ exec_reserved(w)
      <3>1. /\ pc[w] \in {"begin", "sleep", "shared"} /\ UNCHANGED <<logged, result_buffer, table>>
            /\ pc'[w] \in {"begin", "sleep", "shared", "written"}
        BY <2>4 DEF exec_refused, exec_shared, wake_up, exec_reserved, Goto, memory, IInv, TypeOK
      <3>2. absState[w] = "open" /\ absState'[w] = "open" /\ absBacklog'[w] = absBacklog[w]
        BY <3>1 DEF absState, absBacklog
      <3>3. QED BY <2>s, <3>1, <3>2
    <2>5. CASE commit_lock(w)
      <3>1. /\ pc[w] = "written" /\ pc'[w] = "committing" /\ UNCHANGED <<journal, logged, table>>
        BY <2>5, <2>g DEF commit_lock, Goto, IInv, TypeOK
      <3>2. absState[w] = "open" /\ absState'[w] = "open" /\ absBacklog'[w] = absBacklog[w]
        BY <2>t, <3>1 DEF absState, absBacklog, FlushState
      <3>3. QED BY <2>s, <3>1, <3>2
    <2>6. CASE rollback(w)
      BY <2>6, <2>t DEF rollback, Stuck
    <2>7. CASE log_trial_throws(w) \/ crash(w)
      <3>1. /\ pc[w] \notin {"closed", "dead"} /\ pc'[w] = "dead" /\ result_buffer'[w] = <<>>
            /\ UNCHANGED <<logged, table>>
        BY <2>7 DEF log_trial_throws, crash, Goto, IInv, TypeOK
      <3>2. absState[w] \in {"new", "open"} /\ absState'[w] = "dead" /\ absBacklog'[w] = <<>>
        BY <3>1 DEF absState, absBacklog
      <3>3. QED BY <2>d, <3>1, <3>2
    <2>8. CASE commit(w)
      <3>1. /\ pc[w] = "committing" /\ pc'[w] = return_to[w] /\ UNCHANGED memory
            /\ table' = table \o journal[w] /\ return_to[w] \in {"idle", "closed"}
        BY <2>8 DEF commit, Goto, IInv, TypeOK
      <3>2. /\ absState[w] = "open" /\ absBacklog[w] = journal[w]
            /\ absState'[w] \in {"open", "closed"} /\ absBacklog'[w] = <<>>
        BY <2>t, <3>1 DEF absState, absBacklog, FlushState, memory
      <3>3. absBacklog[w] # <<>>
        BY <3>1 DEF PInv
      <3>4. absState' \in {absState, [absState EXCEPT ![w] = "closed"]}
        <4>1. CASE absState'[w] = "open"
          <5>1. absState' = absState
            BY <2>u, <3>2, <4>1 DEF absState
          <5>2. QED BY <5>1
        <4>2. CASE absState'[w] = "closed"
          BY <2>u, <4>2
        <4>3. QED BY <3>2, <4>1, <4>2
      <3>5. Log!Publish(w)
        BY <2>u, <3>1, <3>2, <3>3, <3>4 DEF Log!Publish, memory
      <3>6. QED BY <3>5 DEF Log!Next
    <2>9. QED BY <1>2, <2>1, <2>2, <2>3, <2>4, <2>5, <2>6, <2>7, <2>8
  <1>3. ASSUME NEW r \in Readers, read_begin(r) \/ read_end(r)
        PROVE  UNCHANGED Log!vars
    BY <1>3, LogStutter DEF read_begin, read_end, memory, absState, absBacklog
  <1>4. QED
    BY <1>1, <1>2, <1>3 DEF Next, Run, Flush, Finished

\* In a database of its own a Lumberjack is the log that was promised.
THEOREM LogCorrect == ASSUME PrivateDatabase PROVE Spec => LogSpec
  <1>1. Init => Log!Init
    BY DEF Init, Log!Init, absState, absBacklog
  <1>2. IInv /\ IInv' /\ PInv /\ PInv' /\ [Next]_vars => [Log!Next]_Log!vars
    BY LogStep
  <1>3. QED BY <1>1, <1>2, Inductive, PrivateInvariance, PTL DEF Spec, LogSpec, Log!Spec

----------------------------------------------------------------------------
(* Why a process with a database of its own ends. *)

\* Nothing is refused, so flush_buffer never sleeps.
NeverSleeps == \A w \in Writers : pc[w] # "sleep"

\* What is left to a process: its way to a Lumberjack, the results it is to
\* log, the destructor's flush, and the steps of the present one.
SetupLeft(w) ==
    CASE pc[w] = "connect" -> 4
      [] pc[w] = "missing" -> 3
      [] pc[w] = "create" -> 2
      [] pc[w] = "open" -> 1
      [] OTHER -> 0
TrialsLeft(w) == MaxTrials - logged[w]
InFlush(w) == pc[w] \in {"begin", "shared", "written", "committing"}
DestroyLeft(w) ==
    IF pc[w] \in {"closed", "dead"} \/ (InFlush(w) /\ return_to[w] = "closed") THEN 0 ELSE 1
FlushLeft(w) ==
    CASE pc[w] = "begin" -> 4
      [] pc[w] = "shared" -> 3
      [] pc[w] = "written" -> 2
      [] pc[w] = "committing" -> 1
      [] OTHER -> 0

Nearer(w) ==
    \/ SetupLeft(w)' < SetupLeft(w)
    \/ /\ SetupLeft(w)' = SetupLeft(w)
       /\ \/ TrialsLeft(w)' < TrialsLeft(w)
          \/ /\ TrialsLeft(w)' = TrialsLeft(w)
             /\ \/ DestroyLeft(w)' < DestroyLeft(w)
                \/ DestroyLeft(w)' = DestroyLeft(w) /\ FlushLeft(w)' < FlushLeft(w)

LEMMA Measured ==
    ASSUME IInv, NEW w \in Writers
    PROVE  SetupLeft(w) \in Nat /\ TrialsLeft(w) \in Nat /\ DestroyLeft(w) \in Nat /\ FlushLeft(w) \in Nat
  <1>1. logged[w] \in 0 .. MaxTrials /\ MaxTrials \in Nat
    BY TrialsAssumption DEF IInv, TypeOK
  <1>2. QED BY <1>1 DEF SetupLeft, TrialsLeft, DestroyLeft, FlushLeft

\* A step of the process that owns the database.
LEMMA OwnerNearer ==
    ASSUME PrivateDatabase, IInv, PInv, NeverSleeps, NEW w \in Writers,
           Run(w) \/ log_trial_throws(w) \/ crash(w)
    PROVE  Nearer(w) /\ pc'[w] # "sleep"
  <1>g. MayRead(w) /\ MayWrite(w) /\ MayCommit(w)
    BY AlwaysGranted
  <1>t. /\ pc \in [Writers -> PCs] /\ return_to \in [Writers -> {"idle", "closed"}]
        /\ logged[w] \in 0 .. MaxTrials /\ logged \in [Writers -> 0 .. MaxTrials] /\ MaxTrials \in Nat
        /\ ~Stuck(w) /\ pc[w] # "sleep"
    BY TrialsAssumption DEF IInv, TypeOK, PInv, NeverSleeps
  <1>u. ASSUME logged' = logged PROVE TrialsLeft(w)' = TrialsLeft(w)
    BY <1>u DEF TrialsLeft
  <1>1. CASE connect_to_lumberjack(w) \/ create_table_check(w) \/ create_table(w) \/ Lumberjack(w)
    <2>1. /\ pc'[w] \in {"missing", "create", "open", "idle", "dead"}
          /\ \/ pc[w] = "connect" /\ pc'[w] \in {"missing", "open"}
             \/ pc[w] = "missing" /\ pc'[w] \in {"create", "open", "dead"}
             \/ pc[w] = "create" /\ pc'[w] \in {"open", "dead"}
             \/ pc[w] = "open" /\ pc'[w] \in {"idle", "dead"}
      BY <1>t, <1>1 DEF connect_to_lumberjack, create_table_check, create_table, Lumberjack, Goto
    <2>2. QED BY <2>1 DEF Nearer, SetupLeft
  <1>2. CASE log_trial(w)
    <2>1. pc[w] = "idle" /\ pc'[w] \in {"idle", "begin"} /\ logged'[w] = logged[w] + 1
      BY <1>2, LoggedOrBegun
    <2>2. TrialsLeft(w)' < TrialsLeft(w)
      BY <1>t, <2>1 DEF TrialsLeft
    <2>3. QED BY <2>1, <2>2 DEF Nearer, SetupLeft
  <1>3. CASE destroy(w)
    <2>1. /\ pc[w] = "idle" /\ logged' = logged
          /\ pc'[w] = "closed" \/ (pc'[w] = "begin" /\ return_to'[w] = "closed")
      BY <1>t, <1>3 DEF destroy, EnterFlush, Goto
    <2>2. QED BY <1>u, <2>1 DEF Nearer, SetupLeft, DestroyLeft, InFlush
  <1>4. CASE exec_shared(w) \/ exec_reserved(w) \/ commit_lock(w)
    <2>1. /\ logged' = logged /\ return_to' = return_to
          /\ \/ pc[w] = "begin" /\ pc'[w] = "shared"
             \/ pc[w] = "shared" /\ pc'[w] = "written"
             \/ pc[w] = "written" /\ pc'[w] = "committing"
      BY <1>g, <1>t, <1>4 DEF exec_shared, exec_reserved, commit_lock, Goto, memory
    <2>2. InFlush(w) /\ InFlush(w)' /\ pc'[w] # "sleep"
      BY <2>1 DEF InFlush
    <2>3. DestroyLeft(w)' = DestroyLeft(w)
      BY <2>1, <2>2 DEF DestroyLeft, InFlush
    <2>4. SetupLeft(w)' = SetupLeft(w) /\ FlushLeft(w)' < FlushLeft(w)
      BY <2>1 DEF SetupLeft, FlushLeft
    <2>5. QED BY <1>u, <2>1, <2>2, <2>3, <2>4 DEF Nearer
  <1>5. CASE commit(w)
    <2>1. /\ pc[w] = "committing" /\ pc'[w] = return_to[w] /\ logged' = logged
          /\ return_to[w] \in {"idle", "closed"}
      BY <1>t, <1>5 DEF commit, Goto, memory
    <2>2. DestroyLeft(w)' = DestroyLeft(w)
      BY <2>1 DEF DestroyLeft, InFlush
    <2>3. SetupLeft(w)' = SetupLeft(w) /\ FlushLeft(w)' < FlushLeft(w) /\ pc'[w] # "sleep"
      BY <2>1 DEF SetupLeft, FlushLeft
    <2>4. QED BY <1>u, <2>1, <2>2, <2>3 DEF Nearer
  <1>6. CASE exec_refused(w) \/ rollback(w) \/ wake_up(w)
    BY <1>t, <1>6 DEF exec_refused, rollback, wake_up, Stuck
  <1>7. CASE log_trial_throws(w) \/ crash(w)
    <2>1. /\ pc[w] \in PCs \ {"closed", "dead", "sleep", "unwind"} /\ pc'[w] = "dead" /\ logged' = logged
      BY <1>t, <1>7 DEF log_trial_throws, crash, Goto, PCs, Stuck
    <2>2. DestroyLeft(w)' = 0 /\ FlushLeft(w)' = 0 /\ SetupLeft(w)' = 0
      BY <2>1 DEF DestroyLeft, FlushLeft, SetupLeft
    <2>3. SetupLeft(w) > 0 \/ (SetupLeft(w) = 0 /\ (DestroyLeft(w) = 1 \/ (DestroyLeft(w) = 0 /\ FlushLeft(w) > 0)))
      BY <2>1 DEF DestroyLeft, FlushLeft, SetupLeft, InFlush, PCs
    <2>4. QED BY <1>u, <2>1, <2>2, <2>3 DEF Nearer
  <1>8. QED BY <1>1, <1>2, <1>3, <1>4, <1>5, <1>6, <1>7 DEF Run, Flush

THEOREM NeverSleepsInvariance == ASSUME PrivateDatabase PROVE Spec => []NeverSleeps
  <1>1. ASSUME IInv, PInv, NeverSleeps, [Next]_vars PROVE NeverSleeps'
    <2>1. ASSUME NEW w \in Writers, Run(w) \/ log_trial_throws(w) \/ crash(w) PROVE NeverSleeps'
      <3>1. \A v \in Writers : v = w
        BY DEF PrivateDatabase, Connections
      <3>2. QED BY <1>1, <2>1, <3>1, OwnerNearer DEF NeverSleeps
    <2>2. ASSUME pc' = pc PROVE NeverSleeps'
      BY <1>1, <2>2 DEF NeverSleeps
    <2>3. QED BY <1>1, <2>1, <2>2 DEF Next, read_begin, read_end, Finished, vars
  <1>2. Init => NeverSleeps
    BY DEF Init, NeverSleeps
  <1>3. IInv /\ PInv /\ NeverSleeps /\ [Next]_vars => NeverSleeps'
    BY <1>1
  <1>4. QED BY <1>2, <1>3, Inductive, PrivateInvariance, PTL DEF Spec

\* An experiment with a database of its own never retries, and every step
\* brings it nearer to its end, whatever it logs and whatever its buffer:
\* ResultsDelivered, with PrivateKeeps, but for the fairness that makes it take
\* its steps.  On a shared database none of the three holds.
THEOREM Progress ==
    ASSUME PrivateDatabase
    PROVE  Spec =>
             /\ [](\A w \in Writers : /\ SetupLeft(w) \in Nat /\ TrialsLeft(w) \in Nat
                                      /\ DestroyLeft(w) \in Nat /\ FlushLeft(w) \in Nat)
             /\ [][\A w \in Writers : Nearer(w)]_vars
  <1>1. IInv => \A w \in Writers : /\ SetupLeft(w) \in Nat /\ TrialsLeft(w) \in Nat
                                   /\ DestroyLeft(w) \in Nat /\ FlushLeft(w) \in Nat
    BY Measured
  <1>2. ASSUME IInv, PInv, NeverSleeps, [Next]_vars, vars' # vars, NEW w \in Writers
        PROVE  Nearer(w)
    <2>1. Writers = {w} /\ Readers = {}
      BY ConnectionsAssumption DEF PrivateDatabase, Connections
    <2>2. Run(w) \/ log_trial_throws(w) \/ crash(w)
      BY <1>2, <2>1 DEF Next, Finished
    <2>3. QED BY <1>2, <2>2, OwnerNearer
  <1>3. IInv /\ PInv /\ NeverSleeps /\ [Next]_vars => [\A w \in Writers : Nearer(w)]_vars
    BY <1>2
  <1>4. QED BY <1>1, <1>3, Inductive, PrivateInvariance, NeverSleepsInvariance, PTL DEF Spec
=============================================================================
