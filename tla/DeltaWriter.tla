------------------------------ MODULE DeltaWriter ------------------------------
(***************************************************************************)
(* write_ethereum_logs_insert_only and the ways it ends. A writer is one   *)
(* execution of the task; it reads the table's keys, keeps the rows of its *)
(* batch whose key is new, appends them in one Delta commit, and reads the *)
(* row count back. It may die between any two of these steps.              *)
(*                                                                         *)
(* Reading and committing are separate steps and nothing in the writer     *)
(* ties them together: the DAG's max_active_runs = 1, and the one task of  *)
(* a run, keep a second writer from coming in between.                     *)
(*                                                                         *)
(* A row is a natural key and the immutable payload; Malformed stands for  *)
(* a row the validation rejects. A stored row also has an id, the writer   *)
(* and the position in its batch, so that the table is a set of rows.      *)
(***************************************************************************)
EXTENDS Integers, Sequences, FiniteSets

CONSTANTS Keys, Payloads, Malformed,
          Writers,       \* executions of the task, one after another
          MaxBatch       \* bound: rows in one batch

ASSUME DeltaWriterAssumption == Malformed \notin Payloads /\ MaxBatch \in Nat

Row     == [key : Keys, payload : Payloads \cup {Malformed}]
Batches == UNION {[1..n -> Row] : n \in 0..MaxBatch}
Stored  == [key : Keys, payload : Payloads, id : Writers \X (1..MaxBatch)]

VARIABLES
  exists, rows,             \* the Delta table: its _delta_log and its rows
  phase, batch,             \* of each writer
  existed, keysRead,        \* table_exists and existing_keys of each writer
  before, inserted, skipped, after    \* the DeltaWriteResult of each writer

table  == <<exists, rows>>
reads  == <<existed, keysRead>>
result == <<before, inserted, skipped, after>>
vars   == <<table, phase, batch, reads, result>>

Phases == {"idle", "begun", "read", "written", "reported", "failed", "crashed"}
Active(w) == phase[w] \in {"begun", "read", "written"}

KeysOf(s) == {r.key : r \in s}

-------------------------------------------------------------------------------
(* _validate_input_rows and _dedupe_rows. *)

Valid(b)     == \A i \in DOMAIN b : b[i].payload # Malformed
Conflict(b)  == \E i, j \in DOMAIN b : b[i].key = b[j].key /\ b[i].payload # b[j].payload
First(b, i)  == \A j \in 1..(i - 1) : b[j].key # b[i].key
Unique(b)    == {i \in DOMAIN b : First(b, i)}

\* Mutant: the table's keys are not looked at.
NewRowsUnfiltered(w) ==
  {[key |-> batch[w][i].key, payload |-> batch[w][i].payload, id |-> <<w, i>>] :
     i \in Unique(batch[w])}

\* The rows of w's batch whose key was not in the table when w read it.
NewRows(w) ==
  {[key |-> batch[w][i].key, payload |-> batch[w][i].payload, id |-> <<w, i>>] :
     i \in {j \in Unique(batch[w]) : batch[w][j].key \notin keysRead[w]}}

-------------------------------------------------------------------------------
Init ==
  /\ exists = FALSE /\ rows = {}
  /\ phase = [w \in Writers |-> "idle"]
  /\ batch = [w \in Writers |-> <<>>]
  /\ existed = [w \in Writers |-> FALSE]
  /\ keysRead = [w \in Writers |-> {}]
  /\ before = [w \in Writers |-> 0]
  /\ inserted = [w \in Writers |-> 0]
  /\ skipped = [w \in Writers |-> 0]
  /\ after = [w \in Writers |-> 0]

\* Mutant: no max_active_runs.
SlotAlwaysFree == TRUE

\* max_active_runs = 1: a task starts only when no other one is running.
SlotFree == \A w \in Writers : ~Active(w)

Begin(w) ==
  /\ phase[w] = "idle"
  /\ SlotFree
  /\ \E b \in Batches : batch' = [batch EXCEPT ![w] = b]
  /\ phase' = [phase EXCEPT ![w] = "begun"]
  /\ UNCHANGED <<table, reads, result>>

Fail(w) == phase' = [phase EXCEPT ![w] = "failed"]

RejectBatch(w) ==
  /\ phase[w] = "begun"
  /\ ~Valid(batch[w]) \/ Conflict(batch[w])
  /\ Fail(w)
  /\ UNCHANGED <<table, batch, reads, result>>

ReadTable(w) ==
  /\ phase[w] = "begun"
  /\ Valid(batch[w]) /\ ~Conflict(batch[w])
  /\ existed' = [existed EXCEPT ![w] = exists]
  /\ keysRead' = [keysRead EXCEPT ![w] = KeysOf(rows)]
  /\ before' = [before EXCEPT ![w] = Cardinality(rows)]
  /\ phase' = [phase EXCEPT ![w] = "read"]
  /\ UNCHANGED <<table, batch, inserted, skipped, after>>

\* Mutant: every write overwrites.
WriteOver(w) ==
  /\ exists' = TRUE
  /\ rows' = NewRows(w)

\* One commit of write_deltalake: "append" to a table that existed when it was
\* looked up, "overwrite" otherwise, which creates it even when there is no row.
Write(w) ==
  /\ exists' = TRUE
  /\ rows' = IF existed[w] THEN rows \cup NewRows(w) ELSE NewRows(w)

\* Mutant: only the duplicates inside the batch are counted as skipped.
CommitSkipsLess(w) ==
  /\ phase[w] = "read"
  /\ Write(w)
  /\ inserted' = [inserted EXCEPT ![w] = Cardinality(NewRows(w))]
  /\ skipped' = [skipped EXCEPT ![w] = Len(batch[w]) - Cardinality(Unique(batch[w]))]
  /\ phase' = [phase EXCEPT ![w] = "written"]
  /\ UNCHANGED <<batch, reads, before, after>>

Commit(w) ==
  /\ phase[w] = "read"
  /\ Write(w)
  /\ inserted' = [inserted EXCEPT ![w] = Cardinality(NewRows(w))]
  /\ skipped' = [skipped EXCEPT ![w] = Len(batch[w]) - Cardinality(NewRows(w))]
  /\ phase' = [phase EXCEPT ![w] = "written"]
  /\ UNCHANGED <<batch, reads, before, after>>

\* count_rows reads the table again, after the commit.
Report(w) ==
  /\ phase[w] = "written"
  /\ after' = [after EXCEPT ![w] = Cardinality(rows)]
  /\ phase' = [phase EXCEPT ![w] = "reported"]
  /\ UNCHANGED <<table, batch, reads, before, inserted, skipped>>

\* The Delta library raises: when the table is opened, when it is written (before
\* or after the commit became visible), or when the rows are counted.
LibraryFails(w) ==
  /\ \/ phase[w] = "begun" /\ exists /\ UNCHANGED table
     \/ phase[w] = "read" /\ (UNCHANGED table \/ Write(w))
     \/ phase[w] = "written" /\ UNCHANGED table
  /\ Fail(w)
  /\ UNCHANGED <<batch, reads, result>>

Crash(w) ==
  /\ Active(w)
  /\ phase' = [phase EXCEPT ![w] = "crashed"]
  /\ UNCHANGED <<table, batch, reads, result>>

Step(w) ==
  \/ Begin(w) \/ RejectBatch(w) \/ ReadTable(w) \/ Commit(w) \/ Report(w)
  \/ LibraryFails(w) \/ Crash(w)

AllEnded ==
  /\ \A w \in Writers : phase[w] \in {"reported", "failed", "crashed"}
  /\ UNCHANGED vars

Next == (\E w \in Writers : Step(w)) \/ AllEnded

Spec == Init /\ [][Next]_vars

-------------------------------------------------------------------------------
TypeOK ==
  /\ exists \in BOOLEAN /\ rows \subseteq Stored
  /\ phase \in [Writers -> Phases]
  /\ batch \in [Writers -> Batches]
  /\ existed \in [Writers -> BOOLEAN]
  /\ keysRead \in [Writers -> SUBSET Keys]
  /\ before \in [Writers -> Nat] /\ inserted \in [Writers -> Nat]
  /\ skipped \in [Writers -> Nat] /\ after \in [Writers -> Nat]

\* A natural key has one row, whatever batches are written again after a crash or
\* a failure that came before or after the commit.
NoDuplicateKeys == \A r1, r2 \in rows : r1.key = r2.key => r1 = r2

\* Once a writer has reported, every key of its batch stays in the table.
ReportedIsStored ==
  \A w \in Writers : phase[w] = "reported" =>
    \A i \in DOMAIN batch[w] : batch[w][i].key \in KeysOf(rows)

\* The reported counts describe what happened: every row of the batch was either
\* inserted or skipped, and the table grew by the inserted ones.
CountsAddUp ==
  \A w \in Writers : phase[w] = "reported" =>
    /\ inserted[w] + skipped[w] = Len(batch[w])
    /\ after[w] = before[w] + inserted[w]

\* The table as the insert-only log: the ids are dropped.
Log == {[key |-> r.key, payload |-> r.payload] : r \in rows}

Abstract == INSTANCE InsertOnlyLog WITH log <- Log

\* Every write extends the log by rows with new keys: no row is ever removed,
\* replaced or given a second payload.
ImplementsInsertOnlyLog == Abstract!Spec

(* The inductive invariant behind NoDuplicateKeys and ImplementsInsertOnlyLog. *)

OneActive == \A w1, w2 \in Writers : Active(w1) /\ Active(w2) => w1 = w2

\* What a writer read is still true when it commits.
ReadIsCurrent ==
  \A w \in Writers : phase[w] = "read" =>
    /\ existed[w] = exists /\ keysRead[w] = KeysOf(rows)
    /\ Valid(batch[w]) /\ ~Conflict(batch[w])

IInv ==
  /\ exists \in BOOLEAN /\ rows \subseteq Stored
  /\ phase \in [Writers -> Phases]
  /\ batch \in [Writers -> Batches]
  /\ existed \in [Writers -> BOOLEAN]
  /\ keysRead \in [Writers -> SUBSET Keys]
  /\ OneActive /\ ReadIsCurrent /\ NoDuplicateKeys
  /\ ~exists => rows = {}

===============================================================================
