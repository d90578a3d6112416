-------------------------- MODULE DeltaWriter_proofs --------------------------
(***************************************************************************)
(* For every set of keys, payloads and writers and every batch size: the   *)
(* table never holds two rows of one natural key, and the writer           *)
(* implements the insert-only log. Both rest on ReadIsCurrent, which holds *)
(* because a second task cannot start while one is running. On top of it,  *)
(* what a writer reports is true: its keys are stored and its counts add   *)
(* up.                                                                     *)
(***************************************************************************)
EXTENDS DeltaWriter, FiniteSetTheorems, WellFoundedInduction, TLAPS

(* A batch that is read has positions 1..MaxBatch and rows of type Row. *)
LEMMA BatchFacts ==
  ASSUME NEW b \in Batches
  PROVE  /\ \A i \in DOMAIN b : i \in 1..MaxBatch /\ b[i] \in Row
         /\ \A i \in DOMAIN b : i \in Int
         /\ \A i, j \in DOMAIN b : j < i => j \in 1..(i - 1)
<1>1. PICK n \in 0..MaxBatch : b \in [1..n -> Row]
  BY DEF Batches
<1>2. n \in Nat /\ n <= MaxBatch /\ MaxBatch \in Nat
  BY DeltaWriterAssumption
<1>3. DOMAIN b = 1..n
  BY <1>1
<1> QED
  BY <1>1, <1>2, <1>3

(* The rows a writer is about to append: well formed, with new keys, one row  *)
(* for each key.                                                              *)
LEMMA NewRowsFacts ==
  ASSUME IInv, NEW w \in Writers, phase[w] = "read"
  PROVE  /\ NewRows(w) \subseteq Stored
         /\ \A r \in NewRows(w), old \in rows : r.key # old.key
         /\ \A r1, r2 \in NewRows(w) : r1.key = r2.key => r1 = r2
<1> DEFINE b == batch[w]
<1>1. b \in Batches
  BY DEF IInv
<1>2. /\ \A i \in DOMAIN b : i \in 1..MaxBatch /\ b[i] \in Row /\ i \in Int
      /\ \A i, j \in DOMAIN b : j < i => j \in 1..(i - 1)
  BY <1>1, BatchFacts
<1>3. Valid(b) /\ keysRead[w] = KeysOf(rows)
  BY DEF IInv, ReadIsCurrent
<1>4. ASSUME NEW r \in NewRows(w)
      PROVE  \E i \in DOMAIN b : /\ First(b, i) /\ b[i].key \notin KeysOf(rows)
                                 /\ r = [key |-> b[i].key, payload |-> b[i].payload, id |-> <<w, i>>]
  BY <1>3, <1>4 DEF NewRows, Unique
<1>5. ASSUME NEW r \in NewRows(w)
      PROVE  r \in Stored /\ \A old \in rows : r.key # old.key
  <2>1. PICK i \in DOMAIN b :
          /\ First(b, i) /\ b[i].key \notin KeysOf(rows)
          /\ r = [key |-> b[i].key, payload |-> b[i].payload, id |-> <<w, i>>]
    BY <1>4
  <2>2. i \in 1..MaxBatch /\ b[i].key \in Keys /\ b[i].payload \in Payloads \cup {Malformed}
    BY <1>2 DEF Row
  <2>3. b[i].payload # Malformed
    BY <1>3 DEF Valid
  <2>4. b[i].payload \in Payloads
    BY <2>2, <2>3
  <2>5. r \in Stored
    BY <2>1, <2>2, <2>4 DEF Stored
  <2>6. r.key = b[i].key
    BY <2>1
  <2> QED
    BY <2>1, <2>5, <2>6 DEF KeysOf
<1>6. ASSUME NEW r1 \in NewRows(w), NEW r2 \in NewRows(w), r1.key = r2.key
      PROVE  r1 = r2
  <2>1. PICK i \in DOMAIN b :
          First(b, i) /\ r1 = [key |-> b[i].key, payload |-> b[i].payload, id |-> <<w, i>>]
    BY <1>4
  <2>2. PICK j \in DOMAIN b :
          First(b, j) /\ r2 = [key |-> b[j].key, payload |-> b[j].payload, id |-> <<w, j>>]
    BY <1>4
  <2>3. b[i].key = b[j].key
    BY <1>6, <2>1, <2>2
  <2>4. ~(j < i)
    BY <1>2, <2>1, <2>3 DEF First
  <2>5. ~(i < j)
    BY <1>2, <2>2, <2>3 DEF First
  <2>6. i = j
    BY <1>2, <2>4, <2>5
  <2> QED
    BY <2>1, <2>2, <2>6
<1> QED
  BY <1>5, <1>6

(* Write appends the new rows, whichever mode it uses. *)
LEMMA WriteExtends ==
  ASSUME IInv, NEW w \in Writers, phase[w] = "read", Write(w)
  PROVE  exists' = TRUE /\ rows' = rows \cup NewRows(w)
<1>1. existed[w] = exists /\ (~exists => rows = {})
  BY DEF IInv, ReadIsCurrent
<1> QED
  BY <1>1 DEF Write

LEMMA InitInvariant == Init => IInv
<1> SUFFICES ASSUME Init PROVE IInv
  OBVIOUS
<1>1. <<>> \in Batches
  <2>1. <<>> \in [1..0 -> Row] /\ 0 \in 0..MaxBatch
    BY DeltaWriterAssumption
  <2> QED
    BY <2>1 DEF Batches
<1>2. batch \in [Writers -> Batches]
  BY <1>1 DEF Init
<1> QED
  BY <1>2 DEF Init, IInv, Phases, OneActive, ReadIsCurrent, NoDuplicateKeys, Active, Stored

(* The part of IInv about the table alone. *)
TableInv ==
  /\ exists \in BOOLEAN /\ rows \subseteq Stored
  /\ NoDuplicateKeys
  /\ ~exists => rows = {}

LEMMA WriteKeepsTable ==
  ASSUME IInv, NEW w \in Writers, phase[w] = "read", Write(w)
  PROVE  TableInv'
<1>1. /\ NewRows(w) \subseteq Stored
      /\ \A r \in NewRows(w), old \in rows : r.key # old.key
      /\ \A r1, r2 \in NewRows(w) : r1.key = r2.key => r1 = r2
  BY NewRowsFacts
<1>2. exists' = TRUE /\ rows' = rows \cup NewRows(w)
  BY WriteExtends
<1>3. rows \subseteq Stored /\ NoDuplicateKeys
  BY DEF IInv
<1>4. NoDuplicateKeys'
  <2> SUFFICES ASSUME NEW r1 \in rows', NEW r2 \in rows', r1.key = r2.key PROVE r1 = r2
    BY DEF NoDuplicateKeys
  <2>1. r1 \in rows \/ r1 \in NewRows(w)
    BY <1>2
  <2>2. r2 \in rows \/ r2 \in NewRows(w)
    BY <1>2
  <2> QED
    BY <1>1, <1>3, <2>1, <2>2 DEF NoDuplicateKeys
<1> QED
  BY <1>1, <1>2, <1>3, <1>4 DEF TableInv

(* A step of w that leaves the table alone, or is its own write, and moves    *)
(* only w's phase keeps the rest of IInv.                                     *)
LEMMA PhaseMoves ==
  ASSUME IInv, TableInv', NEW w \in Writers, Active(w),
         NEW p \in Phases, phase' = [phase EXCEPT ![w] = p], p # "read",
         UNCHANGED <<batch, reads>>
  PROVE  IInv'
<1>1. phase \in [Writers -> Phases] /\ OneActive
  BY DEF IInv
<1>2. phase' \in [Writers -> Phases]
  BY <1>1
<1>3. \A v \in Writers : v # w => phase'[v] = phase[v] /\ ~Active(v)
  BY <1>1 DEF OneActive
<1>4. \A v \in Writers : v # w => ~Active(v)'
  BY <1>3 DEF Active
<1>5. OneActive'
  BY <1>4 DEF OneActive
<1>6. \A v \in Writers : phase'[v] # "read"
  BY <1>1, <1>3 DEF Active
<1>7. ReadIsCurrent'
  BY <1>6 DEF ReadIsCurrent
<1> QED
  BY <1>2, <1>5, <1>7 DEF IInv, TableInv, reads

LEMMA BeginKeeps == ASSUME IInv, NEW w \in Writers, Begin(w) PROVE IInv'
<1>1. PICK b \in Batches : batch' = [batch EXCEPT ![w] = b]
  BY DEF Begin
<1>2. phase' = [phase EXCEPT ![w] = "begun"] /\ UNCHANGED <<exists, rows, existed, keysRead>>
  BY DEF Begin, table, reads
<1>3. batch' \in [Writers -> Batches] /\ phase' \in [Writers -> Phases]
  BY <1>1, <1>2 DEF IInv, Phases
<1>4. \A v \in Writers : ~Active(v)
  BY DEF Begin, SlotFree
<1>5. \A v \in Writers : v # w => phase'[v] = phase[v]
  BY <1>2 DEF IInv
<1>6. phase'[w] = "begun"
  BY <1>2 DEF IInv
<1>7. \A v \in Writers : v # w => ~Active(v)'
  BY <1>4, <1>5 DEF Active
<1>8. OneActive'
  BY <1>7 DEF OneActive
<1>9. ReadIsCurrent'
  BY <1>4, <1>5, <1>6 DEF ReadIsCurrent, Active
<1> QED
  BY <1>2, <1>3, <1>8, <1>9 DEF IInv, NoDuplicateKeys

LEMMA ReadTableKeeps == ASSUME IInv, NEW w \in Writers, ReadTable(w) PROVE IInv'
<1>1. /\ phase' = [phase EXCEPT ![w] = "read"]
      /\ existed' = [existed EXCEPT ![w] = exists]
      /\ keysRead' = [keysRead EXCEPT ![w] = KeysOf(rows)]
      /\ UNCHANGED <<exists, rows, batch>>
      /\ Valid(batch[w]) /\ ~Conflict(batch[w]) /\ Active(w)
  BY DEF ReadTable, table, Active
<1>2. /\ phase \in [Writers -> Phases] /\ existed \in [Writers -> BOOLEAN]
      /\ keysRead \in [Writers -> SUBSET Keys] /\ OneActive
      /\ exists \in BOOLEAN /\ rows \subseteq Stored
  BY DEF IInv
<1>3. KeysOf(rows) \in SUBSET Keys
  BY <1>2 DEF KeysOf, Stored
<1>4. /\ phase' \in [Writers -> Phases] /\ existed' \in [Writers -> BOOLEAN]
      /\ keysRead' \in [Writers -> SUBSET Keys]
  BY <1>1, <1>2, <1>3 DEF Phases
<1>5. \A v \in Writers : v # w => phase'[v] = phase[v] /\ ~Active(v)
  BY <1>1, <1>2 DEF OneActive
<1>6. \A v \in Writers : v # w => ~Active(v)'
  BY <1>5 DEF Active
<1>7. OneActive'
  BY <1>6 DEF OneActive
<1>8. existed'[w] = exists' /\ keysRead'[w] = KeysOf(rows')
  BY <1>1, <1>2
<1>9. ReadIsCurrent'
  <2> SUFFICES ASSUME NEW v \in Writers, phase'[v] = "read"
               PROVE  /\ existed'[v] = exists' /\ keysRead'[v] = KeysOf(rows')
                      /\ Valid(batch'[v]) /\ ~Conflict(batch'[v])
    BY DEF ReadIsCurrent, KeysOf, Valid, Conflict
  <2>1. v = w
    BY <1>5 DEF Active
  <2> QED
    BY <1>1, <1>8, <2>1
<1> QED
  BY <1>1, <1>4, <1>7, <1>9 DEF IInv, NoDuplicateKeys

LEMMA NextKeepsInvariant == IInv /\ [Next]_vars => IInv'
<1> SUFFICES ASSUME IInv, [Next]_vars PROVE IInv'
  OBVIOUS
<1>1. CASE UNCHANGED vars
  BY <1>1 DEF vars, table, reads, IInv, OneActive, ReadIsCurrent, NoDuplicateKeys, Active,
              KeysOf, Valid, Conflict
<1>2. CASE AllEnded
  BY <1>2 DEF AllEnded, vars, table, reads, IInv, OneActive, ReadIsCurrent, NoDuplicateKeys,
              Active, KeysOf, Valid, Conflict
<1>3. ASSUME NEW w \in Writers, Step(w) PROVE IInv'
  <2>0. UNCHANGED table => TableInv'
    BY DEF table, IInv, TableInv, NoDuplicateKeys
  <2>1. CASE Begin(w)
    BY <2>1, BeginKeeps
  <2>2. CASE RejectBatch(w)
    BY <2>0, <2>2, PhaseMoves DEF RejectBatch, Fail, Phases, Active
  <2>3. CASE ReadTable(w)
    BY <2>3, ReadTableKeeps
  <2>4. CASE Commit(w)
    <3>1. TableInv'
      BY <2>4, WriteKeepsTable DEF Commit
    <3> QED
      BY <2>4, <3>1, PhaseMoves DEF Commit, Phases, Active
  <2>5. CASE Report(w)
    BY <2>0, <2>5, PhaseMoves DEF Report, Phases, Active
  <2>6. CASE LibraryFails(w)
    <3>1. TableInv'
      BY <2>0, <2>6, WriteKeepsTable DEF LibraryFails
    <3> QED
      BY <2>6, <3>1, PhaseMoves DEF LibraryFails, Fail, Phases, Active
  <2>7. CASE Crash(w)
    BY <2>0, <2>7, PhaseMoves DEF Crash, Phases
  <2> QED
    BY <1>3, <2>1, <2>2, <2>3, <2>4, <2>5, <2>6, <2>7 DEF Step
<1> QED
  BY <1>1, <1>2, <1>3 DEF Next

THEOREM InvariantHolds == Spec => []IInv
BY InitInvariant, NextKeepsInvariant, PTL DEF Spec

(* A natural key never has two rows, whatever is written again after a crash  *)
(* or a failure before or after the commit.                                   *)
THEOREM NaturalKeyUnique == Spec => []NoDuplicateKeys
<1>1. IInv => NoDuplicateKeys
  BY DEF IInv
<1> QED
  BY <1>1, InvariantHolds, PTL

(* A write adds to the log entries with new keys, one for each key. *)
LEMMA WriteInserts ==
  ASSUME IInv, NEW w \in Writers, phase[w] = "read", Write(w)
  PROVE  Abstract!Insert
<1>1. /\ NewRows(w) \subseteq Stored
      /\ \A r \in NewRows(w), old \in rows : r.key # old.key
      /\ \A r1, r2 \in NewRows(w) : r1.key = r2.key => r1 = r2
  BY NewRowsFacts
<1>2. rows' = rows \cup NewRows(w)
  BY WriteExtends
<1> DEFINE new == {[key |-> r.key, payload |-> r.payload] : r \in NewRows(w)}
<1>3. new \in SUBSET Abstract!Entries
  BY <1>1 DEF Stored, Abstract!Entries
<1>4. \A e \in new, old \in Log : e.key # old.key
  BY <1>1 DEF Log
<1>5. Abstract!OnePerKey(new)
  BY <1>1 DEF Abstract!OnePerKey
<1>6. Log' = Log \cup new
  BY <1>2 DEF Log
<1> QED
  BY <1>3, <1>4, <1>5, <1>6 DEF Abstract!Insert

LEMMA StepsInsertOrStutter == IInv /\ [Next]_vars => [Abstract!Insert]_Log
<1> SUFFICES ASSUME IInv, [Next]_vars PROVE Abstract!Insert \/ Log' = Log
  OBVIOUS
<1>1. UNCHANGED table => Log' = Log
  BY DEF table, Log
<1>2. CASE UNCHANGED vars
  BY <1>1, <1>2 DEF vars
<1>3. CASE AllEnded
  BY <1>1, <1>3 DEF AllEnded, vars
<1>4. ASSUME NEW w \in Writers, Step(w) PROVE Abstract!Insert \/ Log' = Log
  <2>1. CASE Commit(w)
    BY <2>1, WriteInserts DEF Commit
  <2>2. CASE LibraryFails(w)
    BY <1>1, <2>2, WriteInserts DEF LibraryFails
  <2>3. CASE Begin(w) \/ RejectBatch(w) \/ ReadTable(w) \/ Report(w) \/ Crash(w)
    BY <1>1, <2>3 DEF Begin, RejectBatch, ReadTable, Report, Crash
  <2> QED
    BY <1>4, <2>1, <2>2, <2>3 DEF Step
<1> QED
  BY <1>2, <1>3, <1>4 DEF Next

(* The writer implements the insert-only log: no execution, however it ends,  *)
(* removes or replaces a row, adds a second one for a key, or leaves half of  *)
(* a batch behind.                                                            *)
THEOREM WriterImplementsLog == Spec => ImplementsInsertOnlyLog
<1>1. Init => Abstract!Init
  BY DEF Init, Abstract!Init, Log
<1> QED
  BY <1>1, InvariantHolds, StepsInsertOrStutter, PTL
  DEF Spec, ImplementsInsertOnlyLog, Abstract!Spec

-------------------------------------------------------------------------------
(* What a writer reports. *)

(* Every key of a batch is that of one of its first occurrences. *)
LEMMA FirstOccurrence ==
  ASSUME NEW b \in Batches, NEW i \in DOMAIN b
  PROVE  \E j \in Unique(b) : b[j].key = b[i].key
<1> DEFINE Same == {j \in DOMAIN b : b[j].key = b[i].key}
<1>1. \A j \in DOMAIN b : j \in 1..MaxBatch /\ j \in Nat
  BY BatchFacts, DeltaWriterAssumption
<1>2. PICK n \in 0..MaxBatch : b \in [1..n -> Row]
  BY DEF Batches
<1>3. n \in Nat /\ DOMAIN b = 1..n
  BY <1>2, DeltaWriterAssumption
<1>4. Same \in SUBSET Nat /\ i \in Same
  BY <1>1
<1>5. PICK j \in Same : \A k \in Same : ~ (k < j)
  <2> DEFINE Less == OpToRel(<, Nat)
  <2>1. IsWellFoundedOn(Less, Nat)
    BY NatLessThanWellFounded
  <2>2. \A x, y \in Nat : <<y, x>> \in Less <=> y < x
    BY DEF OpToRel
  <2> HIDE DEF Same, Less
  <2>3. \E j \in Same : \A k \in Same : ~ (<<k, j>> \in Less)
    BY <1>4, <2>1, WFMin
  <2> QED
    BY <1>4, <2>2, <2>3, Zenon
<1>6. First(b, j)
  <2> SUFFICES ASSUME NEW k \in 1..(j - 1), b[k].key = b[j].key PROVE FALSE
    BY DEF First
  <2>1. k \in DOMAIN b /\ k < j /\ k \in Nat /\ j \in Nat
    BY <1>1, <1>3, <1>5
  <2>2. k \in Same
    BY <2>1
  <2> QED
    BY <1>5, <2>1, <2>2
<1> QED
  BY <1>5, <1>6 DEF Unique

(* The new rows are finitely many, and no more than the batch has. *)
LEMMA NewRowsAreFew ==
  ASSUME NEW w \in Writers, batch[w] \in Batches
  PROVE  /\ IsFiniteSet(NewRows(w)) /\ Len(batch[w]) \in Nat
         /\ Cardinality(NewRows(w)) \in Nat /\ Cardinality(NewRows(w)) <= Len(batch[w])
<1> DEFINE b == batch[w]
           D == {j \in Unique(b) : b[j].key \notin keysRead[w]}
           f == [i \in D |-> [key |-> b[i].key, payload |-> b[i].payload, id |-> <<w, i>>]]
<1>1. PICK n \in 0..MaxBatch : b \in [1..n -> Row]
  BY DEF Batches
<1>2. n \in Nat /\ DOMAIN b = 1..n
  BY <1>1, DeltaWriterAssumption
<1>3. Len(b) = n
  <2>1. b \in Seq(Row)
    BY <1>1, <1>2
  <2> QED
    BY <1>2, <2>1
<1>4. IsFiniteSet(1..n) /\ Cardinality(1..n) = n
  BY <1>2, FS_Interval
<1>5. D \in SUBSET (1..n)
  BY <1>2 DEF Unique
<1>6. IsFiniteSet(D) /\ Cardinality(D) <= n /\ Cardinality(D) \in Nat
  BY <1>4, <1>5, FS_Subset, FS_CardinalityType
<1>7. f \in Surjection(D, NewRows(w))
  BY DEF NewRows, Surjection
<1> HIDE DEF f, D
<1>8. IsFiniteSet(NewRows(w)) /\ Cardinality(NewRows(w)) <= Cardinality(D)
  BY <1>6, <1>7, FS_Surjection
<1>9. Cardinality(NewRows(w)) \in Nat
  BY <1>8, FS_CardinalityType
<1> QED
  BY <1>2, <1>3, <1>6, <1>8, <1>9

(* What is true of one writer's report, and of what leads to it. *)
CountsOf(w) ==
  /\ phase[w] = "read" => before[w] = Cardinality(rows)
  /\ phase[w] \in {"written", "reported"} =>
       /\ inserted[w] + skipped[w] = Len(batch[w])
       /\ \A i \in DOMAIN batch[w] : batch[w][i].key \in KeysOf(rows)
  /\ phase[w] = "written" => Cardinality(rows) = before[w] + inserted[w]
  /\ phase[w] = "reported" => after[w] = before[w] + inserted[w]

ReportInv ==
  /\ IsFiniteSet(rows)
  /\ before \in [Writers -> Nat] /\ inserted \in [Writers -> Nat]
  /\ skipped \in [Writers -> Nat] /\ after \in [Writers -> Nat]
  /\ \A w \in Writers : CountsOf(w)

(* A step of w that only adds rows leaves every report of another writer true. *)
LEMMA OtherReportsStay ==
  ASSUME ReportInv, NEW v \in Writers, ~Active(v), rows \subseteq rows',
         phase'[v] = phase[v], batch'[v] = batch[v], before'[v] = before[v],
         inserted'[v] = inserted[v], skipped'[v] = skipped[v], after'[v] = after[v]
  PROVE  CountsOf(v)'
<1>1. phase[v] # "read" /\ phase[v] # "written"
  BY DEF Active
<1>2. CountsOf(v)
  BY DEF ReportInv
<1>3. \A k : k \in KeysOf(rows) => k \in KeysOf(rows')
  BY DEF KeysOf
<1> QED
  BY <1>1, <1>2, <1>3 DEF CountsOf

(* After its commit every key of w's batch is in the table, and the table has   *)
(* grown by the rows counted as inserted.                                       *)
LEMMA CommitStores ==
  ASSUME IInv, IsFiniteSet(rows), NEW w \in Writers, phase[w] = "read", Write(w)
  PROVE  /\ IsFiniteSet(rows') /\ rows \subseteq rows'
         /\ Cardinality(rows') = Cardinality(rows) + Cardinality(NewRows(w))
         /\ Cardinality(rows) \in Nat
         /\ \A i \in DOMAIN batch[w] : batch[w][i].key \in KeysOf(rows')
<1>1. rows' = rows \cup NewRows(w) /\ batch[w] \in Batches
  BY WriteExtends DEF IInv
<1>2. IsFiniteSet(NewRows(w)) /\ Cardinality(NewRows(w)) \in Nat /\ Cardinality(rows) \in Nat
  BY <1>1, NewRowsAreFew, FS_CardinalityType
<1>3. rows \cap NewRows(w) = {}
  BY NewRowsFacts
<1>4. Cardinality(rows \cap NewRows(w)) = 0
  BY <1>3, FS_EmptySet
<1>5. /\ IsFiniteSet(rows')
      /\ Cardinality(rows') = Cardinality(rows) + Cardinality(NewRows(w))
  <2> DEFINE new == NewRows(w)
  <2>1. IsFiniteSet(new) /\ Cardinality(rows \cap new) = 0 /\ Cardinality(new) \in Nat
    BY <1>2, <1>4
  <2> HIDE DEF new
  <2>2. /\ IsFiniteSet(rows \cup new)
        /\ Cardinality(rows \cup new) =
             Cardinality(rows) + Cardinality(new) - Cardinality(rows \cap new)
    BY <2>1, FS_Union, Zenon
  <2> QED
    BY <1>1, <1>2, <2>1, <2>2 DEF new
<1>6. ASSUME NEW i \in DOMAIN batch[w] PROVE batch[w][i].key \in KeysOf(rows')
  <2>1. PICK j \in Unique(batch[w]) : batch[w][j].key = batch[w][i].key
    BY <1>1, FirstOccurrence
  <2>2. CASE batch[w][j].key \in keysRead[w]
    BY <1>1, <2>1, <2>2 DEF IInv, ReadIsCurrent, KeysOf
  <2>3. CASE batch[w][j].key \notin keysRead[w]
    <3> DEFINE r == [key |-> batch[w][j].key, payload |-> batch[w][j].payload, id |-> <<w, j>>]
    <3>1. r \in NewRows(w)
      BY <2>3 DEF NewRows
    <3>2. r \in rows' /\ r.key = batch[w][i].key
      BY <1>1, <2>1, <3>1
    <3> QED
      BY <3>2 DEF KeysOf
  <2> QED
    BY <2>2, <2>3
<1> QED
  BY <1>1, <1>2, <1>5, <1>6

LEMMA InitReport == Init => ReportInv
<1> SUFFICES ASSUME Init PROVE ReportInv
  OBVIOUS
<1>1. IsFiniteSet(rows)
  BY FS_EmptySet DEF Init
<1> QED
  BY <1>1 DEF Init, ReportInv, CountsOf

(* A step of the one active writer w changes at most w's own record. *)
LEMMA ReportStep ==
  ASSUME IInv, ReportInv, NEW w \in Writers, Active(w),
         rows \subseteq rows', IsFiniteSet(rows'),
         NEW p \in Phases, phase' = [phase EXCEPT ![w] = p], UNCHANGED batch,
         NEW m \in Nat, before' = [before EXCEPT ![w] = m],
         NEW n \in Nat, inserted' = [inserted EXCEPT ![w] = n],
         NEW k \in Nat, skipped' = [skipped EXCEPT ![w] = k],
         NEW a \in Nat, after' = [after EXCEPT ![w] = a],
         p = "read" => m = Cardinality(rows'),
         p \in {"written", "reported"} =>
           /\ n + k = Len(batch[w])
           /\ \A i \in DOMAIN batch[w] : batch[w][i].key \in KeysOf(rows'),
         p = "written" => Cardinality(rows') = m + n,
         p = "reported" => a = m + n
  PROVE  ReportInv'
<1>1. /\ phase \in [Writers -> Phases]
      /\ before \in [Writers -> Nat] /\ inserted \in [Writers -> Nat]
      /\ skipped \in [Writers -> Nat] /\ after \in [Writers -> Nat]
  BY DEF IInv, ReportInv
<1>2. /\ before' \in [Writers -> Nat] /\ inserted' \in [Writers -> Nat]
      /\ skipped' \in [Writers -> Nat] /\ after' \in [Writers -> Nat]
  BY <1>1
<1>3. CountsOf(w)'
  <2>1. phase'[w] = p /\ before'[w] = m /\ inserted'[w] = n /\ skipped'[w] = k /\ after'[w] = a
    BY <1>1
  <2>2. batch' = batch
    OBVIOUS
  <2> QED
    BY <2>1, <2>2 DEF CountsOf, KeysOf
<1>4. ASSUME NEW v \in Writers, v # w PROVE CountsOf(v)'
  <2>1. ~Active(v)
    BY <1>4 DEF IInv, OneActive
  <2>2. /\ phase'[v] = phase[v] /\ batch'[v] = batch[v] /\ before'[v] = before[v]
        /\ inserted'[v] = inserted[v] /\ skipped'[v] = skipped[v] /\ after'[v] = after[v]
    BY <1>1, <1>4
  <2> QED
    BY <2>1, <2>2, OtherReportsStay
<1> QED
  BY <1>2, <1>3, <1>4 DEF ReportInv

(* A step that ends w's execution or leaves its counts alone. *)
LEMMA SilentStep ==
  ASSUME IInv, ReportInv, NEW w \in Writers, Active(w),
         UNCHANGED rows \/ (phase[w] = "read" /\ Write(w)),
         NEW p \in {"failed", "crashed"}, phase' = [phase EXCEPT ![w] = p],
         UNCHANGED <<batch, result>>
  PROVE  ReportInv'
<1>1. rows \subseteq rows' /\ IsFiniteSet(rows')
  BY CommitStores DEF ReportInv
<1>2. /\ before \in [Writers -> Nat] /\ inserted \in [Writers -> Nat]
      /\ skipped \in [Writers -> Nat] /\ after \in [Writers -> Nat]
  BY DEF ReportInv
<1>3. /\ before' = [before EXCEPT ![w] = before[w]] /\ inserted' = [inserted EXCEPT ![w] = inserted[w]]
      /\ skipped' = [skipped EXCEPT ![w] = skipped[w]] /\ after' = [after EXCEPT ![w] = after[w]]
  BY <1>2 DEF result
<1> QED
  BY <1>1, <1>2, <1>3, ReportStep DEF Phases

LEMMA CommitReports ==
  ASSUME IInv, ReportInv, NEW w \in Writers, Commit(w)
  PROVE  ReportInv'
<1> DEFINE n == Cardinality(NewRows(w))
           k == Len(batch[w]) - Cardinality(NewRows(w))
<1>1. phase[w] = "read" /\ Write(w) /\ Active(w)
  BY DEF Commit, Active
<1>2. /\ rows \subseteq rows' /\ IsFiniteSet(rows')
      /\ Cardinality(rows') = Cardinality(rows) + n
      /\ \A i \in DOMAIN batch[w] : batch[w][i].key \in KeysOf(rows')
  BY <1>1, CommitStores DEF ReportInv
<1>3. n \in Nat /\ k \in Nat /\ n + k = Len(batch[w])
  BY NewRowsAreFew DEF IInv
<1>4. before[w] = Cardinality(rows)
  BY <1>1 DEF ReportInv, CountsOf
<1>5. /\ before \in [Writers -> Nat] /\ after \in [Writers -> Nat]
      /\ before[w] \in Nat /\ after[w] \in Nat
  BY DEF ReportInv
<1>6. /\ phase' = [phase EXCEPT ![w] = "written"] /\ UNCHANGED batch
      /\ before' = [before EXCEPT ![w] = before[w]] /\ after' = [after EXCEPT ![w] = after[w]]
      /\ inserted' = [inserted EXCEPT ![w] = n] /\ skipped' = [skipped EXCEPT ![w] = k]
  BY <1>5 DEF Commit
<1> HIDE DEF n, k
<1>7. Cardinality(rows') = before[w] + n
  BY <1>2, <1>4
<1>8. "written" \in Phases
  BY DEF Phases
<1> QED
  BY <1>1, <1>2, <1>3, <1>5, <1>6, <1>7, <1>8, ReportStep

LEMMA NextKeepsReport == ASSUME IInv, ReportInv, [Next]_vars PROVE ReportInv'
<1>1. CASE UNCHANGED vars \/ AllEnded
  BY <1>1 DEF AllEnded, vars, table, result, ReportInv, CountsOf, KeysOf
<1>2. ASSUME NEW w \in Writers, Step(w) PROVE ReportInv'
  <2>0. /\ phase \in [Writers -> Phases]
        /\ before \in [Writers -> Nat] /\ inserted \in [Writers -> Nat]
        /\ skipped \in [Writers -> Nat] /\ after \in [Writers -> Nat]
        /\ IsFiniteSet(rows) /\ Cardinality(rows) \in Nat
    BY FS_CardinalityType DEF IInv, ReportInv
  <2>1. CASE Begin(w)
    <3>1. /\ \A v \in Writers : ~Active(v)
          /\ phase' = [phase EXCEPT ![w] = "begun"] /\ UNCHANGED <<rows, result>>
          /\ \E b \in Batches : batch' = [batch EXCEPT ![w] = b]
      BY <2>1 DEF Begin, SlotFree, table
    <3>2. CountsOf(w)'
      BY <2>0, <3>1 DEF CountsOf
    <3>3. ASSUME NEW v \in Writers, v # w PROVE CountsOf(v)'
      <4>1. phase'[v] = phase[v] /\ batch'[v] = batch[v] /\ rows' = rows
        BY <2>0, <3>1, <3>3 DEF IInv
      <4> QED
        BY <3>1, <4>1, OtherReportsStay DEF result
    <3> QED
      BY <3>1, <3>2, <3>3 DEF ReportInv, result
  <2>2. CASE RejectBatch(w)
    BY <2>2, SilentStep DEF RejectBatch, Fail, Active, table
  <2>3. CASE ReadTable(w)
    <3>1. /\ Active(w) /\ phase' = [phase EXCEPT ![w] = "read"] /\ UNCHANGED <<rows, batch>>
          /\ before' = [before EXCEPT ![w] = Cardinality(rows)]
          /\ inserted' = [inserted EXCEPT ![w] = inserted[w]]
          /\ skipped' = [skipped EXCEPT ![w] = skipped[w]]
          /\ after' = [after EXCEPT ![w] = after[w]]
      BY <2>0, <2>3 DEF ReadTable, table, Active
    <3>2. inserted[w] \in Nat /\ skipped[w] \in Nat /\ after[w] \in Nat /\ "read" \in Phases
      BY <2>0 DEF Phases
    <3> QED
      BY <2>0, <3>1, <3>2, ReportStep
  <2>4. CASE Commit(w)
    BY <2>4, CommitReports
  <2>5. CASE Report(w)
    <3>1. /\ Active(w) /\ phase' = [phase EXCEPT ![w] = "reported"] /\ UNCHANGED <<rows, batch>>
          /\ before' = [before EXCEPT ![w] = before[w]]
          /\ inserted' = [inserted EXCEPT ![w] = inserted[w]]
          /\ skipped' = [skipped EXCEPT ![w] = skipped[w]]
          /\ after' = [after EXCEPT ![w] = Cardinality(rows)]
      BY <2>0, <2>5 DEF Report, table, Active
    <3>2. /\ inserted[w] + skipped[w] = Len(batch[w])
          /\ \A i \in DOMAIN batch[w] : batch[w][i].key \in KeysOf(rows)
          /\ Cardinality(rows) = before[w] + inserted[w]
      BY <2>5 DEF Report, ReportInv, CountsOf
    <3>3. before[w] \in Nat /\ inserted[w] \in Nat /\ skipped[w] \in Nat /\ "reported" \in Phases
      BY <2>0 DEF Phases
    <3>4. rows \subseteq rows' /\ IsFiniteSet(rows') /\ rows' = rows
      BY <2>0, <3>1
    <3> QED
      BY <2>0, <3>1, <3>2, <3>3, <3>4, ReportStep
  <2>6. CASE LibraryFails(w)
    BY <2>6, SilentStep DEF LibraryFails, Fail, Active, table
  <2>7. CASE Crash(w)
    BY <2>7, SilentStep DEF Crash, table
  <2> QED
    BY <1>2, <2>1, <2>2, <2>3, <2>4, <2>5, <2>6, <2>7 DEF Step
<1> QED
  BY <1>1, <1>2 DEF Next

THEOREM ReportInvHolds == Spec => []ReportInv
BY InitReport, InvariantHolds, NextKeepsReport, PTL DEF Spec

(* The variables keep their types; that skipped never goes below zero is what  *)
(* needs the argument.                                                        *)
THEOREM TypeCorrect == Spec => []TypeOK
<1>1. IInv /\ ReportInv => TypeOK
  BY DEF IInv, ReportInv, TypeOK
<1> QED
  BY <1>1, InvariantHolds, ReportInvHolds, PTL

(* A successful report means that every key of the batch is in the table, now  *)
(* and whatever later writers do.                                             *)
THEOREM ReportedStays == Spec => []ReportedIsStored
<1>1. ReportInv => ReportedIsStored
  BY DEF ReportInv, CountsOf, ReportedIsStored
<1> QED
  BY <1>1, ReportInvHolds, PTL

(* The counts a writer reports add up to its batch and to the table's growth. *)
THEOREM CountsHold == Spec => []CountsAddUp
<1>1. ReportInv => CountsAddUp
  BY DEF ReportInv, CountsOf, CountsAddUp
<1> QED
  BY <1>1, ReportInvHolds, PTL

===============================================================================
