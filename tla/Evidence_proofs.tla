---------------------------- MODULE Evidence_proofs ----------------------------
(***************************************************************************)
(* For every chain, every set of windows the DAG is run for (on the hour   *)
(* or off it, of any length, overlapping or not), every threshold and      *)
(* whatever earlier versions left: what the notebook concludes while the   *)
(* DAG goes on writing is true of the history, a pair found usable is not  *)
(* called unusable later, and the scripts that write twice show a stable   *)
(* replay.                                                                 *)
(*                                                                         *)
(* The notebook reads the raw table and the database in two steps and      *)
(* concludes in a third. The invariant therefore speaks of the tables as   *)
(* they are (TableInv, UsableInv) and of what was read as it was when it   *)
(* was read (ReadInv); that tables only grow connects the two.             *)
(***************************************************************************)
EXTENDS Evidence, FiniteSetTheorems, FunctionTheorems, WellFoundedInduction, TLAPS

-------------------------------------------------------------------------------
(* Tables with one row for each key. *)

OneRowEach(table) == \A r, q \in table : r.key = q.key => r = q

(* A row for each natural key is what no duplicates means.                       *)
LEMMA NoDuplicates ==
  ASSUME NEW table, IsFiniteSet(table)
  PROVE  /\ IsFiniteSet(natural_keys(table))
         /\ Cardinality(table) \in Nat /\ Cardinality(natural_keys(table)) \in Nat
         /\ OneRowEach(table) <=> count_duplicate_natural_keys(table) = 0
<1> DEFINE f == [r \in table |-> r.key]
<1>1. f \in Surjection(table, natural_keys(table))
  BY DEF Surjection, natural_keys
<1>2. /\ IsFiniteSet(natural_keys(table))
      /\ Cardinality(natural_keys(table)) = Cardinality(table)
           <=> f \in Injection(table, natural_keys(table))
  BY <1>1, FS_Surjection
<1>3. f \in Injection(table, natural_keys(table)) <=> OneRowEach(table)
  BY <1>1 DEF Injection, IsInjective, Surjection, OneRowEach
<1>4. Cardinality(table) \in Nat /\ Cardinality(natural_keys(table)) \in Nat
  BY <1>2, FS_CardinalityType
<1> QED
  BY <1>2, <1>3, <1>4 DEF count_duplicate_natural_keys

(* The notebook counts the same duplicates in another way. *)
LEMMA NoDuplicateGroups ==
  ASSUME NEW table, OneRowEach(table)
  PROVE  DuplicateGroups(table) = 0
<1>1. ASSUME NEW k \in natural_keys(table)
      PROVE  ~(Cardinality(Copies(k, table)) > 1)
  <2>1. PICK r \in table : r.key = k
    BY DEF natural_keys
  <2>2. Copies(k, table) = {r}
    BY <2>1 DEF Copies, OneRowEach
  <2>3. Cardinality(Copies(k, table)) = 1
    BY <2>2, FS_Singleton
  <2> QED
    BY <2>3
<1>2. {k \in natural_keys(table) : Cardinality(Copies(k, table)) > 1} = {}
  BY <1>1
<1> QED
  BY <1>2, FS_EmptySet DEF DuplicateGroups

(* Inserting only what is missing makes no duplicates and leaves nothing out. *)
LEMMA InsertOnly ==
  ASSUME NEW table, IsFiniteSet(table), OneRowEach(table),
         NEW keys, IsFiniteSet(keys), NEW from
  PROVE  /\ IsFiniteSet(table \cup NewRows(keys, from, table))
         /\ OneRowEach(table \cup NewRows(keys, from, table))
         /\ natural_keys(table \cup NewRows(keys, from, table)) = natural_keys(table) \cup keys
<1> DEFINE new == keys \ natural_keys(table)
           f   == [k \in new |-> [key |-> k, label |-> from, copy |-> 0]]
<1>1. IsFiniteSet(new)
  BY FS_Difference
<1>2. f \in Surjection(new, NewRows(keys, from, table))
  BY DEF Surjection, NewRows
<1>3. IsFiniteSet(table \cup NewRows(keys, from, table))
  BY <1>1, <1>2, FS_Surjection, FS_Union
<1>4. \A r \in NewRows(keys, from, table) :
        r.key \in keys /\ r.key \notin natural_keys(table) /\ r = [key |-> r.key, label |-> from, copy |-> 0]
  BY DEF NewRows
<1>5. \A r \in table : r.key \in natural_keys(table)
  BY DEF natural_keys
<1>6. OneRowEach(table \cup NewRows(keys, from, table))
  BY <1>4, <1>5 DEF OneRowEach
<1>7. natural_keys(NewRows(keys, from, table)) = keys \ natural_keys(table)
  <2>1. ASSUME NEW k \in keys \ natural_keys(table)
        PROVE  k \in natural_keys(NewRows(keys, from, table))
    <3>1. [key |-> k, label |-> from, copy |-> 0] \in NewRows(keys, from, table)
      BY DEF NewRows
    <3>2. [key |-> k, label |-> from, copy |-> 0].key = k
      OBVIOUS
    <3> QED
      BY <3>1, <3>2 DEF natural_keys
  <2>2. \A k \in natural_keys(NewRows(keys, from, table)) : k \in keys \ natural_keys(table)
    BY <1>4 DEF natural_keys
  <2> QED
    BY <2>1, <2>2
<1>8. natural_keys(table \cup NewRows(keys, from, table))
        = natural_keys(table) \cup natural_keys(NewRows(keys, from, table))
  BY DEF natural_keys
<1> QED
  BY <1>3, <1>6, <1>7, <1>8

-------------------------------------------------------------------------------
(* The gap query. *)

LEMMA LeastNat ==
  ASSUME NEW T \in SUBSET Nat, T # {}
  PROVE  \E n \in T : \A m \in T : n <= m
<1>1. PICK n \in T : \A m \in T : ~(<<m, n>> \in OpToRel(<, Nat))
  BY WFMin, NatLessThanWellFounded
<1>2. \A m \in T : ~(m < n)
  BY <1>1 DEF OpToRel
<1> QED
  BY <1>2

(* Half hours lie in hours, in their order. *)
LEMMA HourFacts ==
  /\ \A s \in Slots : s \in Nat /\ s < 2 * NumHours /\ HourOf(s) \in Hours /\ HourOf(s) \in Nat
  /\ \A s, t \in Slots : s <= t => HourOf(s) <= HourOf(t)
  /\ \A h \in Hours : h \in Nat
<1>1. NumHours \in Nat
  BY EvidenceAssumption
<1>2. ASSUME NEW s \in Slots
      PROVE  s \in Nat /\ s < 2 * NumHours /\ HourOf(s) \in Hours /\ HourOf(s) \in Nat
  <2>1. s \in Int /\ 0 <= s /\ s <= 2 * NumHours - 1
    BY <1>1 DEF Slots
  <2>2. s \div 2 \in Int /\ 0 <= s \div 2 /\ s \div 2 < NumHours
    BY <1>1, <2>1
  <2> QED
    BY <1>1, <2>1, <2>2 DEF HourOf, Hours
<1>3. ASSUME NEW s \in Slots, NEW t \in Slots, s <= t
      PROVE  HourOf(s) <= HourOf(t)
  <2>1. s \in Int /\ t \in Int
    BY <1>1 DEF Slots
  <2> QED
    BY <1>3, <2>1 DEF HourOf
<1>4. \A h \in Hours : h \in Nat
  BY <1>1 DEF Hours
<1> QED
  BY <1>2, <1>3, <1>4

(* A label before another has a next label, ... *)
LEMMA NextLabelIsNext ==
  ASSUME NEW labels \in SUBSET Slots, NEW l \in Nat, \E k \in labels : k > l
  PROVE  /\ NextLabel(l, labels) \in labels /\ NextLabel(l, labels) > l
         /\ \A k \in labels : k > l => NextLabel(l, labels) <= k
<1> DEFINE later == {k \in labels : k > l}
<1>1. later \in SUBSET Nat /\ later # {}
  BY HourFacts
<1>2. \E n \in later : \A m \in later : n <= m
  BY <1>1, LeastNat
<1>3. Min(later) \in later /\ \A m \in later : Min(later) <= m
  BY <1>2 DEF Min
<1> QED
  BY <1>3 DEF NextLabel

(* ... and of the labels of earlier hours there is a last one. *)
LEMMA LastLabelBefore ==
  ASSUME NEW labels \in SUBSET Slots, NEW h \in Hours, \E k \in labels : HourOf(k) < h
  PROVE  \E a \in labels : HourOf(a) < h /\ \A k \in labels : HourOf(k) < h => k <= a
<1> DEFINE N == 2 * NumHours
           back == {N - k : k \in {k \in labels : HourOf(k) < h}}
<1>1. N \in Nat /\ \A k \in labels : k \in Nat /\ k < N
  BY HourFacts, EvidenceAssumption
<1> HIDE DEF N
<1>2. back \in SUBSET Nat /\ back # {}
  BY <1>1
<1>3. PICK n \in back : \A m \in back : n <= m
  BY <1>2, LeastNat
<1>4. PICK a \in labels : HourOf(a) < h /\ n = N - a
  BY <1>3
<1>5. ASSUME NEW k \in labels, HourOf(k) < h
      PROVE  k <= a
  <2>1. N - a <= N - k
    BY <1>3, <1>4, <1>5
  <2>2. N \in Int /\ a \in Int /\ k \in Int
    BY <1>1
  <2> QED
    BY <2>1, <2>2
<1> QED
  BY <1>4, <1>5

(* The gaps cover exactly the hours without a label between two labels' hours:   *)
(* each label is compared with the next one only, and that is enough.            *)
LEMMA GapsAreHoursWithoutLabel ==
  ASSUME NEW labels \in SUBSET Slots
  PROVE  UNION {Between(g) : g \in Gaps(labels)}
           = {h \in Hours : /\ \E a, b \in labels : HourOf(a) < h /\ h < HourOf(b)
                            /\ \A l \in labels : HourOf(l) # h}
<1> DEFINE Empty(h) == /\ \E a, b \in labels : HourOf(a) < h /\ h < HourOf(b)
                       /\ \A l \in labels : HourOf(l) # h
<1>1. ASSUME NEW g \in Gaps(labels), NEW h \in Between(g)
      PROVE  h \in Hours /\ Empty(h)
  <2>1. PICK a \in labels : /\ \E m \in labels : m > a
                            /\ g = [after |-> a, next |-> NextLabel(a, labels)]
    BY DEF Gaps
  <2> DEFINE b == NextLabel(a, labels)
  <2>2. b \in labels /\ b > a /\ \A k \in labels : k > a => b <= k
    BY <2>1, NextLabelIsNext, HourFacts
  <2>3. g.after = a /\ g.next = b
    BY <2>1
  <2> HIDE DEF b
  <2>4. /\ a \in Nat /\ b \in Nat /\ HourOf(a) \in Hours /\ HourOf(b) \in Hours
        /\ HourOf(a) \in Nat /\ HourOf(b) \in Nat
    BY <2>2, HourFacts
  <2>5. h \in Int /\ HourOf(a) < h /\ h < HourOf(b)
    BY <1>1, <2>3, <2>4 DEF Between
  <2>6. h \in Hours
    BY <2>4, <2>5, EvidenceAssumption DEF Hours
  <2>7. ASSUME NEW l \in labels
        PROVE  HourOf(l) # h
    <3>1. l \in Nat /\ HourOf(l) \in Nat
      BY HourFacts
    <3>2. CASE l <= a
      <4>1. HourOf(l) <= HourOf(a)
        BY <3>2, HourFacts
      <4> QED
        BY <2>4, <2>5, <3>1, <4>1
    <3>3. CASE l > a
      <4>1. b <= l
        BY <2>2, <3>3
      <4>2. HourOf(b) <= HourOf(l)
        BY <2>2, <4>1, HourFacts
      <4> QED
        BY <2>4, <2>5, <3>1, <4>2
    <3> QED
      BY <2>4, <3>1, <3>2, <3>3
  <2> QED
    BY <2>2, <2>5, <2>6, <2>7
<1>2. ASSUME NEW h \in Hours, Empty(h)
      PROVE  \E g \in Gaps(labels) : h \in Between(g)
  <2>1. PICK b \in labels : h < HourOf(b)
    BY <1>2
  <2>2. PICK a \in labels : HourOf(a) < h /\ \A k \in labels : HourOf(k) < h => k <= a
    BY <1>2, LastLabelBefore
  <2>3. /\ a \in Nat /\ b \in Nat /\ h \in Nat
        /\ HourOf(a) \in Nat /\ HourOf(b) \in Nat
    BY HourFacts
  <2>4. b > a
    <3>1. b <= a => HourOf(b) <= HourOf(a)
      BY HourFacts
    <3> QED
      BY <2>1, <2>2, <2>3, <3>1
  <2> DEFINE n == NextLabel(a, labels)
  <2>5. n \in labels /\ n > a
    BY <2>3, <2>4, NextLabelIsNext
  <2> DEFINE g == [after |-> a, next |-> n]
  <2>6. n \in Nat /\ HourOf(n) \in Nat
    BY <2>5, HourFacts
  <2>7. HourOf(n) > h
    <3>1. HourOf(n) < h => n <= a
      BY <2>2, <2>5
    <3>2. HourOf(n) # h
      BY <1>2, <2>5
    <3> QED
      BY <2>3, <2>5, <2>6, <3>1, <3>2
  <2>8. date_diff(a, n) > 1
    BY <2>2, <2>3, <2>6, <2>7 DEF date_diff
  <2>9. g \in Gaps(labels)
    BY <2>4, <2>8 DEF Gaps
  <2>10. h \in Between(g)
    BY <2>2, <2>3, <2>6, <2>7 DEF Between
  <2> QED
    BY <2>9, <2>10
<1> QED
  BY <1>1, <1>2

-------------------------------------------------------------------------------
(* The inductive invariant, in parts. *)

LiveRaw == pairs[live].raw

\* The live table has one row for each log it stores, labelled by a collected window
\* that holds the log, and all logs of the collected windows.
TableInv ==
  /\ content \in Contents /\ live \in Names /\ pairs \in [Names -> Pairs]
  /\ IsFiniteSet(LiveRaw) /\ OneRowEach(LiveRaw)
  /\ collected \subseteq Windows /\ Explains(collected, LiveRaw)

\* What a tool has seen of the live pair is still there.
UsableInv ==
  /\ seenUsable \in BOOLEAN
  /\ seenUsable => LiveRaw # {} /\ CoreOk(pairs[live])
  /\ inspector = "rows" => LiveRaw # {}
  /\ stage = "duckdbInventory" =>
       \A i \in DOMAIN inventory :
          inventory[i].pair.of = live /\ inventory[i].delta => LiveRaw # {}

\* What a reading of the live table shows is true of the history as of the reading.
TrueWhenRead(r) ==
  /\ r.rows \in SUBSET Rows /\ r.collected \subseteq Windows /\ Explains(r.collected, r.rows)
  /\ r.current => r.gaps = Gaps(Labels(r.rows))
  /\ r.duplicates = 0
  /\ r.usable => r.rows # {} /\ seenUsable

ReadInv ==
  /\ (stage \in {"downstream", "verdict"} /\ selected.of = live) => TrueWhenRead(raw)
  /\ (stage = "verdict" /\ selected.of = live /\ raw.usable) => CoreOk(downstream)

\* A script's second write finds all keys of the batch.
Reports ==
  [first_inserted : Nat, first_count : Nat, second_inserted : Nat, second_count : Nat,
   duplicates : Nat]

ReplayInv ==
  /\ step \in {"start", "clear", "first", "second", "ended"}
  /\ IsFiniteSet(batch) /\ IsFiniteSet(scratch) /\ OneRowEach(scratch)
  /\ step \in {"start", "clear", "first"} => report = None
  /\ step = "first" /\ script = "notebook03" => scratch = {}
  /\ step = "second" =>
       /\ natural_keys(batch) \subseteq natural_keys(scratch)
       /\ report \in Reports
       /\ report.first_count = Cardinality(scratch)
       /\ script = "notebook03" =>
            /\ report.first_inserted = Cardinality(natural_keys(batch))
            /\ report.first_count = report.first_inserted

IInv ==
  /\ TableInv /\ UsableInv /\ ReadInv /\ ContinuityIsReal /\ UsableStaysUsable
  /\ ReplayInv /\ ReplayIsStable

(* One step at most touches the tables, and none takes a row away from them. *)
Grows ==
  /\ live' = live /\ content' = content
  /\ LiveRaw \subseteq LiveRaw'
  /\ pairs[live].silver \subseteq pairs'[live].silver
  /\ pairs[live].gold \subseteq pairs'[live].gold
  /\ collected \subseteq collected'
  /\ seenUsable => seenUsable'

LEMMA PairFields ==
  ASSUME TableInv
  PROVE  /\ pairs[live] \in Pairs /\ live \in DOMAIN pairs
         /\ LiveRaw \in SUBSET Rows
<1>1. pairs[live] \in Pairs /\ live \in DOMAIN pairs
  BY DEF TableInv
<1>2. LiveRaw \in SUBSET Rows
  BY <1>1 DEF Pairs, LiveRaw
<1> QED
  BY <1>1, <1>2

LEMMA LogsFinite ==
  ASSUME NEW w
  PROVE  IsFiniteSet(Logs(w)) /\ Logs(w) \subseteq Slots
<1>1. 0 \in Int /\ 2 * NumHours - 1 \in Int
  BY EvidenceAssumption
<1>2. IsFiniteSet(Slots)
  BY <1>1, FS_Interval DEF Slots
<1>3. Logs(w) \subseteq Slots
  BY DEF Logs, Within
<1> QED
  BY <1>2, <1>3, FS_Subset

(* What the DAG writes for a window: the logs in it that are not stored yet. *)
LEMMA DagWritesOne ==
  ASSUME TableInv, DagWrites
  PROVE  \E w \in Windows :
           /\ collected' = collected \cup {w}
           /\ pairs' \in [Names -> Pairs]
           /\ pairs'[live].silver = pairs[live].silver
           /\ pairs'[live].gold = pairs[live].gold
           /\ pairs'[live].raw = LiveRaw \cup NewRows(Logs(w), w.from, LiveRaw)
<1>1. PICK w \in Triggered :
        /\ collected' = collected \cup {w}
        /\ pairs' = [pairs EXCEPT ![live].raw = @ \cup NewRows(Logs(w), w.from, @)]
  BY DEF DagWrites
<1>2. w \in Windows /\ w.from \in Slots
  BY <1>1, EvidenceAssumption DEF Windows
<1> DEFINE new == LiveRaw \cup NewRows(Logs(w), w.from, LiveRaw)
<1>3. pairs' = [pairs EXCEPT ![live].raw = new]
  BY <1>1 DEF LiveRaw
<1>4. NewRows(Logs(w), w.from, LiveRaw) \subseteq Rows
  BY <1>2, LogsFinite DEF NewRows, Rows
<1>5. new \in SUBSET Rows
  BY <1>4, PairFields
<1> HIDE DEF new
<1>6. /\ pairs' \in [Names -> Pairs]
      /\ pairs'[live].raw = new
      /\ pairs'[live].silver = pairs[live].silver /\ pairs'[live].gold = pairs[live].gold
  <2>1. pairs \in [Names -> Pairs] /\ live \in Names
    BY DEF TableInv
  <2>2. [pairs[live] EXCEPT !.raw = new] \in Pairs
    BY <1>5, PairFields DEF Pairs
  <2>3. pairs' = [pairs EXCEPT ![live] = [pairs[live] EXCEPT !.raw = new]]
    BY <1>3
  <2>4. pairs' \in [Names -> Pairs] /\ pairs'[live] = [pairs[live] EXCEPT !.raw = new]
    BY <2>1, <2>2, <2>3
  <2> QED
    BY <2>4, PairFields DEF Pairs
<1> QED
  BY <1>1, <1>2, <1>6 DEF new

(* dbt leaves the raw table alone, and adds to the models. *)
LEMMA DbtAdds ==
  ASSUME TableInv, DbtOpens \/ DbtBuilds \/ DbtFails
  PROVE  /\ pairs' \in [Names -> Pairs]
         /\ pairs'[live].raw = pairs[live].raw
         /\ pairs[live].silver \subseteq pairs'[live].silver
         /\ pairs[live].gold \subseteq pairs'[live].gold
<1>1. pairs \in [Names -> Pairs] /\ live \in Names /\ pairs[live] \in Pairs
  BY PairFields DEF TableInv
<1>2. CASE DbtOpens
  <2>1. CASE pairs' = [pairs EXCEPT ![live].there = TRUE]
    BY <1>1, <2>1 DEF Pairs
  <2>2. CASE pairs' = pairs
    BY <1>1, <2>2
  <2> QED
    BY <1>2, <2>1, <2>2 DEF DbtOpens
<1>3. CASE DbtBuilds
  <2> DEFINE si == SilverOf(pairs[live])
             go == pairs[live].gold \cup Counted(SilverOf(pairs[live]))
  <2>1. pairs[live].silver \in SUBSET Slots /\ pairs[live].gold \in SUBSET Hours
    BY <1>1 DEF Pairs
  <2>2. si \in SUBSET Slots /\ pairs[live].silver \subseteq si
    BY <2>1 DEF SilverOf, Within
  <2>3. go \in SUBSET Hours /\ pairs[live].gold \subseteq go
    BY <2>1, <2>2, HourFacts DEF Counted
  <2>4. pairs' = [pairs EXCEPT ![live].silver = si, ![live].gold = go]
    BY <1>3 DEF DbtBuilds
  <2> HIDE DEF si, go
  <2>5. pairs' \in [Names -> Pairs] /\ pairs'[live] = [pairs[live] EXCEPT !.silver = si, !.gold = go]
    BY <1>1, <2>2, <2>3, <2>4 DEF Pairs
  <2> QED
    BY <1>1, <2>2, <2>3, <2>5 DEF Pairs
<1>4. CASE DbtFails
  <2> DEFINE si == SilverOf(pairs[live])
  <2>1. pairs[live].silver \in SUBSET Slots
    BY <1>1 DEF Pairs
  <2>3. si \in SUBSET Slots /\ pairs[live].silver \subseteq si
    BY <2>1 DEF SilverOf, Within
  <2>4. pairs' = pairs \/ pairs' = [pairs EXCEPT ![live].silver = si]
    BY <1>4 DEF DbtFails
  <2> HIDE DEF si
  <2>5. CASE pairs' = [pairs EXCEPT ![live].silver = si]
    <3>1. pairs' \in [Names -> Pairs] /\ pairs'[live] = [pairs[live] EXCEPT !.silver = si]
      BY <1>1, <2>3, <2>5 DEF Pairs
    <3> QED
      BY <1>1, <2>3, <3>1 DEF Pairs
  <2> QED
    BY <1>1, <2>4, <2>5
<1> QED
  BY <1>2, <1>3, <1>4

(* The steps that leave the tables and the chain alone. *)
Others ==
  \/ DeltaInventory \/ DuckdbInventory \/ OpenRaw \/ OpenDuckdb \/ Conclude \/ KernelEnds
  \/ InspectorCounts \/ InspectorConnects \/ InspectorReads
  \/ Fetch \/ Clear \/ FirstWrite \/ SecondWrite \/ UNCHANGED vars

LEMMA OthersLeaveTables ==
  ASSUME Others
  PROVE  UNCHANGED <<chain, dagVars>>
<1>1. CASE DeltaInventory \/ DuckdbInventory \/ OpenRaw \/ OpenDuckdb \/ Conclude \/ KernelEnds
  BY <1>1 DEF DeltaInventory, DuckdbInventory, OpenRaw, OpenDuckdb, Conclude, KernelEnds
<1>2. CASE InspectorCounts \/ InspectorConnects \/ InspectorReads
  BY <1>2 DEF InspectorCounts, InspectorConnects, InspectorReads
<1>3. CASE Fetch \/ Clear \/ FirstWrite \/ SecondWrite
  BY <1>3 DEF Fetch, Clear, FirstWrite, SecondWrite
<1>4. CASE UNCHANGED vars
  BY <1>4 DEF vars
<1> QED
  BY <1>1, <1>2, <1>3, <1>4 DEF Others

(* What was written does not depend on what comes after. *)
LEMMA ExplainsStays ==
  ASSUME content' = content
  PROVE  \A ws, table : Explains(ws, table)' <=> Explains(ws, table)
BY DEF Explains, Logs

LEMMA InitTables ==
  ASSUME Init
  PROVE  TableInv
<1>1. /\ content \in Contents /\ live \in Names
      /\ \E old \in Inherited, other \in Leftovers :
           /\ pairs = [n \in Names |-> IF n = live THEN old ELSE other]
           /\ collected = old.windows
  BY DEF Init
<1>2. PICK old \in Inherited, other \in Leftovers :
        /\ pairs = [n \in Names |-> IF n = live THEN old ELSE other]
        /\ collected = old.windows
  BY <1>1
<1>3. /\ old \in Pairs /\ other \in Pairs /\ IsFiniteSet(old.raw)
      /\ count_duplicate_natural_keys(old.raw) = 0
      /\ Explains(old.windows, old.raw)
  BY <1>2, EvidenceAssumption DEF Inherited
<1>4. pairs[live] = old /\ pairs \in [Names -> Pairs]
  BY <1>1, <1>2, <1>3
<1>5. LiveRaw = old.raw
  BY <1>4 DEF LiveRaw
<1>6. OneRowEach(LiveRaw)
  BY <1>3, <1>5, NoDuplicates
<1>7. collected \subseteq Windows
  BY <1>2, <1>3 DEF Pairs
<1> QED
  BY <1>1, <1>2, <1>3, <1>4, <1>5, <1>6, <1>7 DEF TableInv

(* One more window, and its logs. *)
LEMMA InsertExplains ==
  ASSUME NEW ws, NEW table, Explains(ws, table), IsFiniteSet(table), OneRowEach(table), NEW w
  PROVE  Explains(ws \cup {w}, table \cup NewRows(Logs(w), w.from, table))
<1> DEFINE new == table \cup NewRows(Logs(w), w.from, table)
<1>1. natural_keys(new) = natural_keys(table) \cup Logs(w)
  BY LogsFinite, InsertOnly
<1>2. ASSUME NEW r \in new
      PROVE  \E v \in ws \cup {w} : r.label = v.from /\ r.key \in Logs(v)
  <2>1. CASE r \in table
    BY <2>1 DEF Explains
  <2>2. CASE r \in NewRows(Logs(w), w.from, table)
    BY <2>2 DEF NewRows
  <2> QED
    BY <2>1, <2>2
<1>3. ASSUME NEW v \in ws \cup {w}
      PROVE  Logs(v) \subseteq natural_keys(new)
  BY <1>1 DEF Explains
<1> HIDE DEF new
<1>4. Explains(ws \cup {w}, new)
  BY <1>2, <1>3 DEF Explains
<1> QED
  BY <1>4 DEF new

LEMMA DagWritesKeepsTables ==
  ASSUME TableInv, DagWrites
  PROVE  TableInv' /\ Grows
<1>1. PICK w \in Windows :
        /\ collected' = collected \cup {w}
        /\ pairs' \in [Names -> Pairs]
        /\ pairs'[live].silver = pairs[live].silver
        /\ pairs'[live].gold = pairs[live].gold
        /\ pairs'[live].raw = LiveRaw \cup NewRows(Logs(w), w.from, LiveRaw)
  BY DagWritesOne
<1>2. UNCHANGED <<content, live, seenUsable>>
  BY DEF DagWrites, chain
<1> DEFINE new == LiveRaw \cup NewRows(Logs(w), w.from, LiveRaw)
<1>3. LiveRaw' = new
  BY <1>1, <1>2 DEF LiveRaw
<1>4. IsFiniteSet(LiveRaw) /\ OneRowEach(LiveRaw) /\ Explains(collected, LiveRaw)
  BY DEF TableInv
<1>5. IsFiniteSet(new) /\ OneRowEach(new)
  BY <1>4, LogsFinite, InsertOnly
<1>6. Explains(collected \cup {w}, new)
  BY <1>4, InsertExplains
<1>7. LiveRaw \subseteq new
  OBVIOUS
<1> HIDE DEF new
<1>8. Explains(collected', LiveRaw')
  BY <1>1, <1>3, <1>6
<1>9. Explains(collected, LiveRaw)'
  BY <1>2, <1>8 DEF Explains, Logs
<1>10. collected' \subseteq Windows
  BY <1>1 DEF TableInv
<1> QED
  BY <1>1, <1>2, <1>3, <1>5, <1>7, <1>9, <1>10 DEF TableInv, Grows

LEMMA DbtKeepsTables ==
  ASSUME TableInv, DbtOpens \/ DbtBuilds \/ DbtFails
  PROVE  TableInv' /\ Grows
<1>1. UNCHANGED <<content, live, collected, seenUsable>>
  BY DEF DbtOpens, DbtBuilds, DbtFails, chain
<1>2. /\ pairs' \in [Names -> Pairs] /\ pairs'[live].raw = pairs[live].raw
      /\ pairs[live].silver \subseteq pairs'[live].silver
      /\ pairs[live].gold \subseteq pairs'[live].gold
  BY DbtAdds
<1>3. LiveRaw' = LiveRaw
  BY <1>1, <1>2 DEF LiveRaw
<1>4. IsFiniteSet(LiveRaw') /\ OneRowEach(LiveRaw')
  BY <1>3 DEF TableInv
<1>5. Explains(collected, LiveRaw)'
  BY <1>1, <1>3 DEF TableInv, Explains, Logs
<1> QED
  BY <1>1, <1>2, <1>3, <1>4, <1>5 DEF TableInv, Grows

(* The tables keep to the history, and only grow. *)
LEMMA NextKeepsTables ==
  ASSUME TableInv, [Next]_vars
  PROVE  TableInv' /\ Grows
<1>1. CASE TimePasses
  <2>1. UNCHANGED <<content, live, pairs, collected, seenUsable>>
    BY <1>1 DEF TimePasses, dagVars
  <2>2. LiveRaw' = LiveRaw
    BY <2>1 DEF LiveRaw
  <2>3. IsFiniteSet(LiveRaw') /\ OneRowEach(LiveRaw')
    BY <2>2 DEF TableInv
  <2>4. Explains(collected, LiveRaw)'
    BY <2>1, <2>2 DEF TableInv, Explains, Logs
  <2> QED
    BY <2>1, <2>2, <2>3, <2>4 DEF TableInv, Grows
<1>2. CASE DagWrites
  BY <1>2, DagWritesKeepsTables
<1>3. CASE DbtOpens \/ DbtBuilds \/ DbtFails
  BY <1>3, DbtKeepsTables
<1>4. CASE Others
  <2>1. UNCHANGED <<content, live, pairs, collected>>
    BY <1>4, OthersLeaveTables DEF chain, dagVars
  <2>2. LiveRaw' = LiveRaw
    BY <2>1 DEF LiveRaw
  <2>3. seenUsable => seenUsable'
    BY <1>4 DEF Others, DeltaInventory, DuckdbInventory, OpenRaw, OpenDuckdb, Conclude,
       KernelEnds, InspectorCounts, InspectorConnects, InspectorReads, Fetch, Clear,
       FirstWrite, SecondWrite, vars
  <2>4. IsFiniteSet(LiveRaw') /\ OneRowEach(LiveRaw')
    BY <2>2 DEF TableInv
  <2>5. Explains(collected, LiveRaw)'
    BY <2>1, <2>2 DEF TableInv, Explains, Logs
  <2> QED
    BY <2>1, <2>2, <2>3, <2>4, <2>5 DEF TableInv, Grows
<1> QED
  BY <1>1, <1>2, <1>3, <1>4 DEF Next, Others

-------------------------------------------------------------------------------
(* What was seen, read and concluded. *)

(* A DAG that goes on is no hindrance to what was seen before. *)
LEMMA GrowthKeepsSeen ==
  ASSUME Grows
  PROVE  /\ LiveRaw # {} => LiveRaw' # {}
         /\ CoreOk(pairs[live]) => CoreOk(pairs'[live'])
BY DEF Grows, CoreOk

LEMMA SomeRows ==
  ASSUME NEW table, count_rows(table) > 0
  PROVE  table # {}
BY FS_EmptySet DEF count_rows

(* The steps of the DAG and of time, and those of the scripts, read nothing. *)
NothingRead == UNCHANGED <<stage, inventory, selected, raw, downstream, verdict, inspector, seenUsable>>

LEMMA WhatReadsNothing ==
  ASSUME \/ TimePasses \/ DagWrites \/ DbtOpens \/ DbtBuilds \/ DbtFails
         \/ Fetch \/ Clear \/ FirstWrite \/ SecondWrite \/ UNCHANGED vars
  PROVE  NothingRead
<1>1. CASE TimePasses \/ DagWrites \/ DbtOpens \/ DbtBuilds \/ DbtFails
  BY <1>1 DEF TimePasses, DagWrites, DbtOpens, DbtBuilds, DbtFails, notebook, NothingRead
<1>2. CASE Fetch \/ Clear \/ FirstWrite \/ SecondWrite
  BY <1>2 DEF Fetch, Clear, FirstWrite, SecondWrite, notebook, NothingRead
<1>3. CASE UNCHANGED vars
  BY <1>3 DEF vars, notebook, NothingRead
<1> QED
  BY <1>1, <1>2, <1>3

LEMMA NextKeepsUsable ==
  ASSUME TableInv, Grows, UsableInv, [Next]_vars
  PROVE  UsableInv'
<1>0. /\ LiveRaw # {} => LiveRaw' # {}
      /\ CoreOk(pairs[live]) => CoreOk(pairs'[live'])
      /\ live' = live
  BY GrowthKeepsSeen DEF Grows
<1>1. CASE NothingRead
  BY <1>0, <1>1 DEF NothingRead, UsableInv
<1>2. CASE DeltaInventory
  <2>1. UNCHANGED <<seenUsable, inspector, live>>
    BY <1>2 DEF DeltaInventory, dagVars
  <2>2. ASSUME stage' = "duckdbInventory", NEW i \in DOMAIN inventory',
               inventory'[i].pair.of = live, inventory'[i].delta
        PROVE  LiveRaw # {}
    <3>1. inventory' = [k \in DOMAIN candidate_pairs |->
             [pair |-> candidate_pairs[k],
              delta |-> LET p == pairs[candidate_pairs[k].of]
                        IN  compare_schema_fields(p) /\ count_rows(p.raw) > 0]]
      BY <1>2, <2>2 DEF DeltaInventory
    <3> DEFINE of == candidate_pairs[i].of
    <3>2. i \in DOMAIN candidate_pairs
      BY <2>2, <3>1
    <3>3. inventory'[i] = [pair |-> candidate_pairs[i],
                           delta |-> compare_schema_fields(pairs[of]) /\ count_rows(pairs[of].raw) > 0]
      BY <3>1, <3>2
    <3>4. of = live
      BY <2>2, <3>3
    <3> HIDE DEF of
    <3>5. inventory'[i].delta = (compare_schema_fields(pairs[of]) /\ count_rows(pairs[of].raw) > 0)
      BY <3>3
    <3>6. count_rows(pairs[of].raw) > 0
      BY <2>2, <3>5
    <3> QED
      BY <3>4, <3>6, SomeRows DEF LiveRaw
  <2> QED
    BY <1>0, <2>1, <2>2 DEF UsableInv
<1>3. CASE DuckdbInventory
  <2>1. UNCHANGED <<pairs, inspector>> /\ stage = "duckdbInventory" /\ stage' = "raw"
    BY <1>3 DEF DuckdbInventory, dagVars
  <2>2. seenUsable' = (seenUsable \/ \E i \in {i \in DOMAIN inventory :
            LET n == inventory[i].pair.of
            IN  inventory[i].delta /\ Opens(n) /\ CoreOk(pairs[n])} : inventory[i].pair.of = live)
    BY <1>3 DEF DuckdbInventory
  <2>3. ASSUME NEW i \in DOMAIN inventory, inventory[i].delta,
               CoreOk(pairs[inventory[i].pair.of]), inventory[i].pair.of = live
        PROVE  LiveRaw # {} /\ CoreOk(pairs[live])
    BY <2>1, <2>3 DEF UsableInv
  <2>4. seenUsable' \in BOOLEAN /\ (seenUsable' => LiveRaw # {} /\ CoreOk(pairs[live]))
    BY <2>2, <2>3 DEF UsableInv
  <2> QED
    BY <1>0, <2>1, <2>4 DEF UsableInv
<1>4. CASE OpenRaw \/ OpenDuckdb \/ Conclude \/ KernelEnds
  <2>1. UNCHANGED <<seenUsable, inspector>> /\ stage' # "duckdbInventory"
    BY <1>4 DEF OpenRaw, OpenDuckdb, Conclude, KernelEnds
  <2> QED
    BY <1>0, <2>1 DEF UsableInv
<1>5. CASE InspectorCounts
  <2>1. UNCHANGED <<seenUsable, stage, inventory>>
    BY <1>5 DEF InspectorCounts, notebook
  <2>2. inspector' = "rows" => LiveRaw # {}
    BY <1>5, SomeRows DEF InspectorCounts, LiveRaw
  <2> QED
    BY <1>0, <2>1, <2>2 DEF UsableInv
<1>6. CASE InspectorConnects
  <2>1. UNCHANGED <<seenUsable, stage, inventory>> /\ inspector' \in {inspector, "idle"}
    BY <1>6 DEF InspectorConnects, notebook
  <2> QED
    BY <1>0, <2>1 DEF UsableInv
<1>7. CASE InspectorReads
  <2>1. /\ UNCHANGED <<stage, inventory>> /\ inspector' = "idle"
        /\ seenUsable' = (seenUsable \/ (inspector = "rows" /\ CoreOk(pairs[live])))
    BY <1>7 DEF InspectorReads, notebook
  <2>2. seenUsable' \in BOOLEAN /\ (seenUsable' => LiveRaw # {} /\ CoreOk(pairs[live]))
    BY <2>1 DEF UsableInv
  <2> QED
    BY <1>0, <2>1, <2>2 DEF UsableInv
<1> QED
  BY <1>1, <1>2, <1>3, <1>4, <1>5, <1>6, <1>7, WhatReadsNothing DEF Next

(* What the notebook reads of the live table, at the moment it reads it. *)
LEMMA OpenRawReadsTruly ==
  ASSUME TableInv, UsableInv, OpenRaw, stage' = "downstream", selected.of = live
  PROVE  TrueWhenRead(raw')
<1> DEFINE p == pairs[live]
<1>1. raw' = [rows |-> p.raw, duplicates |-> DuplicateGroups(p.raw),
              gaps |-> IF p.schema = "legacy" THEN None
                       ELSE fetch_records(p.schema # "text", Gaps(Labels(p.raw))),
              gap_error |-> p.schema \in {"legacy", "text"},
              current |-> compare_schema_fields(p), collected |-> collected, usable |-> seenUsable]
  BY DEF OpenRaw
<1>2. p.raw = LiveRaw
  BY DEF LiveRaw
<1> HIDE DEF p
<1>3. raw'.rows = LiveRaw /\ raw'.collected = collected
  BY <1>1, <1>2
<1>4. DuplicateGroups(p.raw) = 0
  BY <1>2, NoDuplicateGroups DEF TableInv
<1>5. raw'.duplicates = 0
  BY <1>1, <1>4
<1>6. raw'.current => raw'.gaps = Gaps(Labels(raw'.rows))
  <2>1. ASSUME raw'.current
        PROVE  p.schema # "legacy" /\ p.schema # "text"
    BY <1>1, <2>1 DEF compare_schema_fields
  <2> QED
    BY <1>1, <2>1 DEF fetch_records
<1>7. raw'.usable => seenUsable
  BY <1>1 DEF UsableInv
<1>8. LiveRaw \in SUBSET Rows
  BY PairFields
<1>9. Explains(raw'.collected, raw'.rows)
  BY <1>3 DEF TableInv
<1> QED
  BY <1>3, <1>5, <1>6, <1>7, <1>8, <1>9 DEF TrueWhenRead, TableInv, UsableInv

(* What was read stays true of the history: it is of the hours collected then. *)
LEMMA NextKeepsRead ==
  ASSUME TableInv, Grows, UsableInv, ReadInv, [Next]_vars
  PROVE  ReadInv'
<1>0. live' = live /\ content' = content /\ (seenUsable => seenUsable')
  BY DEF Grows
<1>1. \A r : TrueWhenRead(r) => TrueWhenRead(r)'
  BY <1>0, ExplainsStays DEF TrueWhenRead
<1>2. CASE UNCHANGED <<stage, selected, raw, downstream>>
  BY <1>0, <1>1, <1>2 DEF ReadInv, TrueWhenRead
<1>3. CASE DeltaInventory \/ DuckdbInventory \/ Conclude \/ KernelEnds
  <2>1. stage' \notin {"downstream", "verdict"}
    BY <1>3 DEF DeltaInventory, DuckdbInventory, Conclude, KernelEnds
  <2> QED
    BY <2>1 DEF ReadInv
<1>4. CASE OpenRaw
  <2>1. UNCHANGED <<selected, downstream>> /\ stage' \in {"stopped", "downstream"}
    BY <1>4 DEF OpenRaw
  <2>2. (stage' = "downstream" /\ selected'.of = live') => TrueWhenRead(raw')
    BY <1>0, <1>4, <2>1, OpenRawReadsTruly
  <2> QED
    BY <1>0, <2>1, <2>2 DEF ReadInv, TrueWhenRead, Explains, Logs
<1>5. CASE OpenDuckdb
  <2>1. UNCHANGED <<selected, raw, pairs, seenUsable>> /\ stage = "downstream"
    BY <1>5 DEF OpenDuckdb, dagVars
  <2>2. CASE stage' = "stopped"
    BY <2>2 DEF ReadInv
  <2>3. CASE stage' = "verdict"
    <3>1. downstream' = [silver |-> pairs[selected.of].silver, gold |-> pairs[selected.of].gold]
      BY <1>5, <2>3 DEF OpenDuckdb
    <3>2. ASSUME selected.of = live
          PROVE  TrueWhenRead(raw) /\ (raw.usable => CoreOk(downstream'))
      <4>1. TrueWhenRead(raw)
        BY <2>1, <3>2 DEF ReadInv
      <4>2. ASSUME raw.usable
            PROVE  CoreOk(pairs[live])
        BY <4>1, <4>2 DEF TrueWhenRead, UsableInv
      <4> QED
        BY <3>1, <3>2, <4>1, <4>2 DEF CoreOk
    <3> QED
      BY <1>0, <2>1, <2>3, <3>2 DEF ReadInv, TrueWhenRead, Explains, Logs
  <2> QED
    BY <1>5, <2>2, <2>3 DEF OpenDuckdb
<1>6. CASE NothingRead \/ InspectorCounts \/ InspectorConnects \/ InspectorReads
  <2>1. UNCHANGED <<stage, selected, raw, downstream>>
    BY <1>6 DEF NothingRead, InspectorCounts, InspectorConnects, InspectorReads, notebook
  <2> QED
    BY <1>2, <2>1
<1> QED
  BY <1>3, <1>4, <1>5, <1>6, WhatReadsNothing DEF Next

(* Windows of an hour on the hour hold all of it. *)
LEMMA WholeHourHolds ==
  ASSUME NEW w \in Windows, WholeHour(w), NEW s \in Slots, HourOf(s) = HourOf(w.from)
  PROVE  s \in Within(w)
<1>1. /\ w.from \in Int /\ s \in Int /\ w.from % 2 = 0 /\ w.to = w.from + 2
      /\ s \div 2 = w.from \div 2
  BY HourFacts DEF Windows, WholeHour, HourOf
<1>2. w.from <= s /\ s < w.from + 2
  BY <1>1
<1> QED
  BY <1>1, <1>2 DEF Within

(* What follows from a true reading, and from one without gaps. *)
TrueContinuity(r, verified) ==
  LET reported == UNION {Between(g) : g \in r.gaps}
  IN  /\ Inner(r) \ Begun(r) \subseteq reported
      /\ verified => Inner(r) \subseteq Begun(r)
      /\ \A w \in r.collected : HourOf(w.from) \in reported => BroughtNothing(w, r)
      /\ (verified /\ \A w \in r.collected : WholeHour(w)) => EverythingCollected(r)

LEMMA GapsOfReading ==
  ASSUME NEW r, TrueWhenRead(r), r.current, NEW verified \in BOOLEAN, verified => r.gaps = {}
  PROVE  TrueContinuity(r, verified)
<1> DEFINE labels == Labels(r.rows)
           reported == UNION {Between(g) : g \in r.gaps}
<1>1. /\ r.gaps = Gaps(labels) /\ r.rows \in SUBSET Rows /\ r.collected \subseteq Windows
      /\ Explains(r.collected, r.rows)
  BY DEF TrueWhenRead
<1>2. labels \in SUBSET Slots
  BY <1>1 DEF Labels, Rows
<1>3. \A l \in labels : \E w \in r.collected : w.from = l
  BY <1>1 DEF Labels, Explains
<1>4. reported = {h \in Hours : /\ \E a, b \in labels : HourOf(a) < h /\ h < HourOf(b)
                               /\ \A l \in labels : HourOf(l) # h}
  BY <1>1, <1>2, GapsAreHoursWithoutLabel
<1>5. Inner(r) = {h \in Hours : \E a, b \in labels : HourOf(a) < h /\ h < HourOf(b)}
  BY DEF Inner
<1> HIDE DEF labels, reported
<1>6. Inner(r) \ Begun(r) \subseteq reported
  <2>1. ASSUME NEW h \in Inner(r), h \notin Begun(r)
        PROVE  \A l \in labels : HourOf(l) # h
    BY <1>3, <2>1 DEF Begun
  <2> QED
    BY <1>4, <1>5, <2>1
<1>7. verified => Inner(r) \subseteq Begun(r)
  <2>1. verified => reported = {}
    BY DEF reported
  <2> QED
    BY <1>6, <2>1
<1>8. ASSUME NEW w \in r.collected, HourOf(w.from) \in reported
      PROVE  BroughtNothing(w, r)
  <2>1. ASSUME NEW s \in Logs(w)
        PROVE  \E q \in r.rows : q.key = s /\ HourOf(q.label) # HourOf(w.from)
    <3>1. PICK q \in r.rows : q.key = s
      BY <1>1, <1>8, <2>1 DEF Explains, natural_keys
    <3>2. q.label \in labels
      BY <3>1 DEF labels, Labels
    <3> QED
      BY <1>4, <1>8, <3>1, <3>2
  <2> QED
    BY <2>1 DEF BroughtNothing
<1>9. ASSUME verified, \A w \in r.collected : WholeHour(w)
      PROVE  EverythingCollected(r)
  <2>1. ASSUME NEW s \in Slots, NEW a \in labels, NEW b \in labels, a <= s, s <= b
        PROVE  \E w \in r.collected : s \in Within(w)
    <3>1. /\ HourOf(a) <= HourOf(s) /\ HourOf(s) <= HourOf(b)
          /\ HourOf(a) \in Nat /\ HourOf(s) \in Nat /\ HourOf(b) \in Nat /\ HourOf(s) \in Hours
      BY <1>2, <2>1, HourFacts
    <3>2. \E w \in r.collected : HourOf(w.from) = HourOf(s)
      <4>1. CASE HourOf(s) = HourOf(a) \/ HourOf(s) = HourOf(b)
        BY <1>3, <4>1
      <4>2. CASE HourOf(a) < HourOf(s) /\ HourOf(s) < HourOf(b)
        <5>1. HourOf(s) \in Inner(r)
          BY <1>5, <3>1, <4>2
        <5> QED
          BY <1>7, <1>9, <5>1 DEF Begun
      <4> QED
        BY <3>1, <4>1, <4>2
    <3> QED
      BY <1>1, <1>9, <3>2, WholeHourHolds
  <2> QED
    BY <2>1 DEF EverythingCollected, labels
<1> QED
  BY <1>6, <1>7, <1>8, <1>9 DEF TrueContinuity, reported

LEMMA Concludes ==
  ASSUME Conclude, verdict' # verdict
  PROVE  /\ stage = "verdict" /\ UNCHANGED <<live, content>>
         /\ verdict'.final = (IF HardFailure THEN "NOT VERIFIED" ELSE "PARTIALLY VERIFIED")
         /\ verdict'.continuity = (IF raw.gaps = {} THEN "VERIFIED" ELSE "PARTIALLY VERIFIED")
         /\ verdict'.extraction = (IF raw.current /\ raw.duplicates = 0 /\ raw.rows # {}
                                     THEN "VERIFIED" ELSE "PARTIALLY VERIFIED")
         /\ verdict'.summary = ACCUMULATION_SUMMARY
         /\ verdict'.of = selected.of /\ verdict'.raw = raw
<1> DEFINE fi == IF HardFailure THEN "NOT VERIFIED" ELSE "PARTIALLY VERIFIED"
           fr == IF Fresh /\ Aligned THEN "VERIFIED" ELSE "PARTIALLY VERIFIED"
           co == IF raw.gaps = {} THEN "VERIFIED" ELSE "PARTIALLY VERIFIED"
           ex == IF raw.current /\ raw.duplicates = 0 /\ raw.rows # {}
                   THEN "VERIFIED" ELSE "PARTIALLY VERIFIED"
<1>1. /\ stage = "verdict" /\ UNCHANGED <<live, content>>
      /\ \/ UNCHANGED verdict
         \/ verdict' = [final |-> fi, freshness |-> fr, continuity |-> co, extraction |-> ex,
                        summary |-> ACCUMULATION_SUMMARY, of |-> selected.of, raw |-> raw]
  BY Zenon DEF Conclude, chain, dagVars
<1> HIDE DEF fi, fr, co, ex
<1>2. /\ verdict'.final = fi /\ verdict'.continuity = co /\ verdict'.extraction = ex
      /\ verdict'.summary = ACCUMULATION_SUMMARY
      /\ verdict'.of = selected.of /\ verdict'.raw = raw
  BY <1>1
<1> QED
  BY <1>1, <1>2 DEF fi, co, ex

LEMMA ConcludeContinuity ==
  ASSUME TableInv, ReadInv, Conclude, verdict' # verdict
  PROVE  ContinuityIsReal'
<1>1. /\ stage = "verdict" /\ UNCHANGED <<live, content>>
      /\ verdict'.continuity = (IF raw.gaps = {} THEN "VERIFIED" ELSE "PARTIALLY VERIFIED")
      /\ verdict'.of = selected.of /\ verdict'.raw = raw
  BY Concludes
<1> DEFINE verified == verdict'.continuity = "VERIFIED"
           reported == UNION {Between(g) : g \in raw.gaps}
<1>2. verified => raw.gaps = {}
  BY <1>1
<1>3. SUFFICES ASSUME selected.of = live, raw.current
               PROVE  /\ Inner(raw) \ Begun(raw) \subseteq reported
                      /\ verified => Inner(raw) \subseteq Begun(raw)
                      /\ \A w \in raw.collected :
                            HourOf(w.from) \in reported => BroughtNothing(w, raw)
                      /\ (verified /\ \A w \in raw.collected : WholeHour(w)) =>
                            EverythingCollected(raw)
  <2> DEFINE r == verdict'.raw
             gaps == UNION {Between(g) : g \in r.gaps}
  <2>1. SUFFICES ASSUME verdict'.of = live', r.current
                 PROVE  /\ Inner(r) \ Begun(r) \subseteq gaps
                        /\ verified => Inner(r) \subseteq Begun(r)
                        /\ \A w \in r.collected : HourOf(w.from) \in gaps =>
                              \A s \in Logs(w)' : \E q \in r.rows :
                                 q.key = s /\ HourOf(q.label) # HourOf(w.from)
                        /\ (verified /\ \A w \in r.collected : WholeHour(w)) =>
                              EverythingCollected(r)
    BY DEF ContinuityIsReal, BroughtNothing
  <2>2. r = raw /\ gaps = reported
    BY <1>1
  <2>3. \A w : Logs(w)' = Logs(w)
    BY <1>1 DEF Logs
  <2> HIDE DEF r, gaps, reported, verified
  <2>4. selected.of = live /\ raw.current
    BY <1>1, <2>1, <2>2
  <2> QED
    BY <1>3, <2>2, <2>3, <2>4 DEF BroughtNothing
<1>4. TrueWhenRead(raw)
  BY <1>1, <1>3 DEF ReadInv
<1>5. TrueContinuity(raw, verified)
  BY <1>2, <1>3, <1>4, GapsOfReading
<1> QED
  BY <1>5 DEF TrueContinuity

LEMMA ConcludeUsable ==
  ASSUME ReadInv, Conclude, verdict' # verdict
  PROVE  UsableStaysUsable'
<1>1. /\ stage = "verdict" /\ UNCHANGED live
      /\ verdict'.final = (IF HardFailure THEN "NOT VERIFIED" ELSE "PARTIALLY VERIFIED")
      /\ verdict'.extraction = (IF raw.current /\ raw.duplicates = 0 /\ raw.rows # {}
                                  THEN "VERIFIED" ELSE "PARTIALLY VERIFIED")
      /\ verdict'.summary = ACCUMULATION_SUMMARY
      /\ verdict'.of = selected.of /\ verdict'.raw = raw
  BY Concludes
<1>2. SUFFICES ASSUME selected.of = live, raw.usable
               PROVE  /\ verdict'.final # "NOT VERIFIED"
                      /\ raw.current => verdict'.extraction = "VERIFIED"
                      /\ \A count \in {"rows", "duplicates", "silver", "gold"} :
                            verdict'.summary[count] = "PASS"
  BY <1>1 DEF UsableStaysUsable
<1>3. raw.rows # {} /\ raw.duplicates = 0 /\ CoreOk(downstream)
  BY <1>1, <1>2 DEF ReadInv, TrueWhenRead
<1>4. ~HardFailure
  BY <1>3 DEF HardFailure
<1>5. /\ ACCUMULATION_SUMMARY.rows = "PASS" /\ ACCUMULATION_SUMMARY.duplicates = "PASS"
      /\ ACCUMULATION_SUMMARY.silver = "PASS" /\ ACCUMULATION_SUMMARY.gold = "PASS"
  BY <1>3 DEF ACCUMULATION_SUMMARY, Status, CoreOk
<1> QED
  BY <1>1, <1>3, <1>4, <1>5

(* A conclusion is the last cell's, and the end of the kernel forgets it. *)
LEMMA NextKeepsVerdicts ==
  ASSUME TableInv, Grows, ReadInv, ContinuityIsReal, UsableStaysUsable, [Next]_vars
  PROVE  ContinuityIsReal' /\ UsableStaysUsable'
<1>1. CASE UNCHANGED verdict
  BY <1>1 DEF Grows, ContinuityIsReal, UsableStaysUsable, BroughtNothing, Logs
<1>2. CASE Conclude /\ verdict' # verdict
  BY <1>2, ConcludeContinuity, ConcludeUsable
<1>3. CASE KernelEnds
  <2>1. verdict' = None
    BY <1>3 DEF KernelEnds
  <2> QED
    BY <2>1 DEF ContinuityIsReal, UsableStaysUsable
<1>4. CASE DeltaInventory \/ DuckdbInventory \/ OpenRaw \/ OpenDuckdb
            \/ InspectorCounts \/ InspectorConnects \/ InspectorReads \/ NothingRead
  <2>1. UNCHANGED verdict
    BY <1>4 DEF DeltaInventory, DuckdbInventory, OpenRaw, OpenDuckdb, InspectorCounts,
       InspectorConnects, InspectorReads, NothingRead, notebook
  <2> QED
    BY <1>1, <2>1
<1> QED
  BY <1>1, <1>2, <1>3, <1>4, WhatReadsNothing DEF Next

-------------------------------------------------------------------------------
(* The scripts that write twice. *)

LEMMA KeysFinite ==
  ASSUME NEW table, IsFiniteSet(table)
  PROVE  IsFiniteSet(natural_keys(table)) /\ Cardinality(natural_keys(table)) \in Nat
<1> DEFINE f == [r \in table |-> r.key]
<1>1. f \in Surjection(table, natural_keys(table))
  BY DEF Surjection, natural_keys
<1> QED
  BY <1>1, FS_Surjection, FS_CardinalityType

(* What a write makes of the script's table, whatever was there before. *)
LEMMA WriteInserts ==
  ASSUME IsFiniteSet(batch), IsFiniteSet(scratch), OneRowEach(scratch)
  PROVE  /\ IsFiniteSet(Inserted) /\ OneRowEach(Inserted)
         /\ natural_keys(batch) \subseteq natural_keys(Inserted)
         /\ natural_keys(scratch) = {} =>
              Cardinality(Inserted) = Cardinality(natural_keys(batch))
         /\ Cardinality(NewKeys) \in Nat
<1>1. IsFiniteSet(natural_keys(batch))
  BY KeysFinite
<1>2. /\ IsFiniteSet(Inserted) /\ OneRowEach(Inserted)
      /\ natural_keys(Inserted) = natural_keys(scratch) \cup natural_keys(batch)
  <2>1. /\ IsFiniteSet(scratch \cup NewRows(natural_keys(batch), 0, scratch))
        /\ OneRowEach(scratch \cup NewRows(natural_keys(batch), 0, scratch))
        /\ natural_keys(scratch \cup NewRows(natural_keys(batch), 0, scratch))
             = natural_keys(scratch) \cup natural_keys(batch)
    BY <1>1, InsertOnly
  <2> QED
    BY <2>1 DEF Inserted
<1>3. Cardinality(Inserted) = Cardinality(natural_keys(Inserted))
  <2>1. /\ Cardinality(Inserted) \in Nat /\ Cardinality(natural_keys(Inserted)) \in Nat
        /\ count_duplicate_natural_keys(Inserted) = 0
    BY <1>2, NoDuplicates
  <2> QED
    BY <2>1 DEF count_duplicate_natural_keys
<1>4. Cardinality(NewKeys) \in Nat
  BY <1>1, FS_Difference, FS_CardinalityType DEF NewKeys
<1>5. natural_keys(scratch) = {} =>
        Cardinality(Inserted) = Cardinality(natural_keys(batch))
  BY <1>2, <1>3
<1> QED
  BY <1>2, <1>4, <1>5

(* A second write finds every key, and changes nothing. *)
LEMMA SecondInsertsNothing ==
  ASSUME natural_keys(batch) \subseteq natural_keys(scratch)
  PROVE  Cardinality(NewKeys) = 0 /\ Inserted = scratch
<1>1. NewKeys = {}
  BY DEF NewKeys
<1>2. NewRows(natural_keys(batch), 0, scratch) = {}
  BY DEF NewRows
<1> QED
  BY <1>1, <1>2, FS_EmptySet DEF Inserted

LEMMA InitReplay ==
  ASSUME Init
  PROVE  ReplayInv /\ ReplayIsStable
<1>1. /\ step = "start" /\ report = None
      /\ \/ batch = {} /\ scratch = {}
         \/ batch \in Batches /\ \E b \in Batches : scratch = NewRows(natural_keys(b), 0, {})
  BY DEF Init
<1>2. IsFiniteSet(batch)
  BY <1>1, EvidenceAssumption, FS_EmptySet
<1>3. IsFiniteSet(scratch) /\ OneRowEach(scratch)
  <2>1. IsFiniteSet({}) /\ OneRowEach({})
    BY FS_EmptySet DEF OneRowEach
  <2>2. ASSUME NEW b \in Batches, scratch = NewRows(natural_keys(b), 0, {})
        PROVE  IsFiniteSet(scratch) /\ OneRowEach(scratch)
    <3>1. IsFiniteSet(natural_keys(b))
      BY EvidenceAssumption, KeysFinite
    <3>2. /\ IsFiniteSet({} \cup NewRows(natural_keys(b), 0, {}))
          /\ OneRowEach({} \cup NewRows(natural_keys(b), 0, {}))
      BY <2>1, <3>1, InsertOnly
    <3>3. {} \cup NewRows(natural_keys(b), 0, {}) = scratch
      BY <2>2
    <3> QED
      BY <3>2, <3>3
  <2> QED
    BY <1>1, <2>1, <2>2
<1> QED
  BY <1>1, <1>2, <1>3 DEF ReplayInv, ReplayIsStable

LEMMA FirstWriteReports ==
  ASSUME ReplayInv, FirstWrite
  PROVE  ReplayInv' /\ ReplayIsStable'
<1> DEFINE n == Cardinality(Inserted)
           m == Cardinality(NewKeys)
<1>1. /\ step = "first" /\ UNCHANGED <<script, batch>> /\ scratch' = Inserted
      /\ report' = [first_inserted |-> m, first_count |-> n,
                    second_inserted |-> 0, second_count |-> n, duplicates |-> 0]
      /\ step' = IF script = "fixture" THEN "ended" ELSE "second"
  BY DEF FirstWrite, count_rows
<1>2. /\ IsFiniteSet(Inserted) /\ OneRowEach(Inserted)
      /\ natural_keys(batch) \subseteq natural_keys(Inserted)
      /\ natural_keys(scratch) = {} => n = Cardinality(natural_keys(batch))
      /\ m \in Nat /\ n \in Nat
  BY WriteInserts, FS_CardinalityType DEF ReplayInv
<1>3. script = "notebook03" => m = Cardinality(natural_keys(batch)) /\ n = m
  <2>1. ASSUME script = "notebook03"
        PROVE  natural_keys(scratch) = {}
    BY <1>1, <2>1 DEF ReplayInv, natural_keys
  <2>2. natural_keys(scratch) = {} => NewKeys = natural_keys(batch)
    BY DEF NewKeys
  <2> QED
    BY <1>2, <2>1, <2>2
<1> HIDE DEF n, m
<1>4. report'.first_inserted = m /\ report'.first_count = n /\ report' \in Reports
  BY <1>1, <1>2 DEF Reports
<1>5. Cardinality(scratch') = n
  BY <1>1 DEF n
<1>6. natural_keys(batch)' = natural_keys(batch) /\ natural_keys(scratch)' = natural_keys(Inserted)
  BY <1>1 DEF natural_keys
<1>7. OneRowEach(scratch') /\ IsFiniteSet(scratch')
  BY <1>1, <1>2
<1>8. IsFiniteSet(batch')
  BY <1>1 DEF ReplayInv
<1>9. natural_keys(batch') \subseteq natural_keys(scratch')
  BY <1>1, <1>2
<1>10. Cardinality(natural_keys(batch')) = Cardinality(natural_keys(batch))
  BY <1>1
<1> QED
  BY <1>1, <1>3, <1>4, <1>5, <1>7, <1>8, <1>9, <1>10 DEF ReplayInv, ReplayIsStable

LEMMA SecondWriteReports ==
  ASSUME ReplayInv, SecondWrite
  PROVE  ReplayInv' /\ ReplayIsStable'
<1>1. /\ step = "second" /\ step' = "ended" /\ UNCHANGED <<script, batch>>
      /\ scratch' = Inserted
      /\ report' = [report EXCEPT !.second_inserted = Cardinality(NewKeys),
                                  !.second_count = Cardinality(scratch'),
                                  !.duplicates = count_duplicate_natural_keys(scratch')]
  BY DEF SecondWrite, count_rows
<1>2. /\ natural_keys(batch) \subseteq natural_keys(scratch)
      /\ report \in Reports /\ report.first_count = Cardinality(scratch)
      /\ script = "notebook03" => /\ report.first_inserted = Cardinality(natural_keys(batch))
                                   /\ report.first_count = report.first_inserted
      /\ IsFiniteSet(batch) /\ IsFiniteSet(scratch) /\ OneRowEach(scratch)
  BY <1>1 DEF ReplayInv
<1>3. scratch' = scratch /\ Cardinality(NewKeys) = 0
  BY <1>1, <1>2, SecondInsertsNothing
<1>4. count_duplicate_natural_keys(scratch') = 0
  BY <1>2, <1>3, NoDuplicates
<1>5. report' = [report EXCEPT !.second_inserted = 0, !.second_count = Cardinality(scratch),
                               !.duplicates = 0]
  BY <1>1, <1>3, <1>4
<1>6. /\ report'.second_inserted = 0 /\ report'.second_count = Cardinality(scratch)
      /\ report'.duplicates = 0
      /\ report'.first_inserted = report.first_inserted /\ report'.first_count = report.first_count
  BY <1>2, <1>5 DEF Reports
<1>7. Cardinality(natural_keys(batch')) = Cardinality(natural_keys(batch))
  BY <1>1
<1>8. OneRowEach(scratch') /\ IsFiniteSet(scratch') /\ IsFiniteSet(batch')
  BY <1>1, <1>2, <1>3
<1>9. ReplayInv'
  BY <1>1, <1>8 DEF ReplayInv
<1>10. ReplayIsStable'
  BY <1>1, <1>2, <1>6, <1>7 DEF ReplayIsStable
<1> QED
  BY <1>9, <1>10

LEMMA NextKeepsReplay ==
  ASSUME ReplayInv, ReplayIsStable, [Next]_vars
  PROVE  ReplayInv' /\ ReplayIsStable'
<1>1. CASE UNCHANGED replay
  <2>1. UNCHANGED <<script, step, batch, scratch, report>>
    BY <1>1 DEF replay
  <2>2. OneRowEach(scratch') /\ IsFiniteSet(scratch') /\ IsFiniteSet(batch')
    BY <2>1 DEF ReplayInv
  <2>3. natural_keys(batch') = natural_keys(batch) /\ natural_keys(scratch') = natural_keys(scratch)
    BY <2>1
  <2> QED
    BY <2>1, <2>2, <2>3 DEF ReplayInv, ReplayIsStable
<1>2. CASE Fetch
  <2>1. /\ UNCHANGED <<script, batch, scratch, report>> /\ report = None
        /\ step' \in {"clear", "ended"}
    BY <1>2 DEF Fetch, ReplayInv
  <2>2. OneRowEach(scratch') /\ IsFiniteSet(scratch') /\ IsFiniteSet(batch')
    BY <2>1 DEF ReplayInv
  <2> QED
    BY <2>1, <2>2 DEF ReplayInv, ReplayIsStable
<1>3. CASE Clear
  <2>1. /\ UNCHANGED <<script, batch, report>> /\ report = None
        /\ step' \in {"first", "ended"} /\ scratch' \in {{}, scratch}
        /\ (script = "notebook03" /\ step' = "first") => scratch' = {}
    BY <1>3 DEF Clear, ReplayInv
  <2>2. OneRowEach(scratch') /\ IsFiniteSet(scratch') /\ IsFiniteSet(batch')
    BY <2>1, FS_EmptySet DEF ReplayInv, OneRowEach
  <2> QED
    BY <2>1, <2>2 DEF ReplayInv, ReplayIsStable
<1>4. CASE FirstWrite
  BY <1>4, FirstWriteReports
<1>5. CASE SecondWrite
  BY <1>5, SecondWriteReports
<1>6. CASE TimePasses \/ DagWrites \/ DbtOpens \/ DbtBuilds \/ DbtFails
  BY <1>1, <1>6 DEF TimePasses, DagWrites, DbtOpens, DbtBuilds, DbtFails
<1>7. CASE DeltaInventory \/ DuckdbInventory \/ OpenRaw \/ OpenDuckdb \/ Conclude \/ KernelEnds
  BY <1>1, <1>7 DEF DeltaInventory, DuckdbInventory, OpenRaw, OpenDuckdb, Conclude, KernelEnds
<1>8. CASE InspectorCounts \/ InspectorConnects \/ InspectorReads
  BY <1>1, <1>8 DEF InspectorCounts, InspectorConnects, InspectorReads
<1>9. CASE UNCHANGED vars
  BY <1>1, <1>9 DEF vars
<1> QED
  BY <1>2, <1>3, <1>4, <1>5, <1>6, <1>7, <1>8, <1>9 DEF Next

-------------------------------------------------------------------------------
(* The theorems. *)

LEMMA InitInvariant == Init => IInv
<1> SUFFICES ASSUME Init
             PROVE  IInv
  OBVIOUS
<1>1. /\ stage = "start" /\ verdict = None /\ inspector = "idle" /\ seenUsable = FALSE
  BY DEF Init
<1>2. UsableInv /\ ReadInv /\ ContinuityIsReal /\ UsableStaysUsable
  BY <1>1 DEF UsableInv, ReadInv, ContinuityIsReal, UsableStaysUsable
<1> QED
  BY <1>2, InitTables, InitReplay DEF IInv

LEMMA NextKeepsInvariant == IInv /\ [Next]_vars => IInv' /\ Grows
<1> SUFFICES ASSUME IInv, [Next]_vars
             PROVE  IInv' /\ Grows
  OBVIOUS
<1>1. TableInv' /\ Grows
  BY NextKeepsTables DEF IInv
<1>2. UsableInv'
  BY <1>1, NextKeepsUsable DEF IInv
<1>3. ReadInv'
  BY <1>1, NextKeepsRead DEF IInv
<1>4. ContinuityIsReal' /\ UsableStaysUsable'
  BY <1>1, NextKeepsVerdicts DEF IInv
<1>5. ReplayInv' /\ ReplayIsStable'
  BY NextKeepsReplay DEF IInv
<1> QED
  BY <1>1, <1>2, <1>3, <1>4, <1>5 DEF IInv

(* All parts of the invariant hold in every state of Evidence. *)
THEOREM EvidenceInvariant == Spec => []IInv
<1> QED
  BY InitInvariant, NextKeepsInvariant, PTL DEF Spec

(* What notebook 04 says of the continuity of the live table is true of the      *)
(* history of the table, while the DAG goes on writing, whichever windows it is  *)
(* run for: an hour in which no run's window begins is reported, a window that   *)
(* begins in a reported hour brought in nothing, and of runs for whole hours a   *)
(* "VERIFIED" means that everything between the labels was collected. That it    *)
(* means this of runs for other windows is false (VerifiedMeansCollected).       *)
THEOREM ContinuityHolds == Spec => []ContinuityIsReal
<1>1. IInv => ContinuityIsReal
  BY DEF IInv
<1> QED
  BY <1>1, EvidenceInvariant, PTL

(* Once a tool saw rows in the live pair's raw table and in both models, no run  *)
(* of the notebook on that pair calls it unusable, whatever the DAG does between *)
(* the reads of the two files.                                                   *)
THEOREM UsableHolds == Spec => []UsableStaysUsable
<1>1. IInv => UsableStaysUsable
  BY DEF IInv
<1> QED
  BY <1>1, EvidenceInvariant, PTL

(* A script that writes its batch twice reports a replay that changes nothing,   *)
(* whatever its table held and whichever rows the batch repeats.                 *)
THEOREM ReplayHolds == Spec => []ReplayIsStable
<1>1. IInv => ReplayIsStable
  BY DEF IInv
<1> QED
  BY <1>1, EvidenceInvariant, PTL

(* No step of the DAG, of dbt or of a tool takes a row from the live table or a  *)
(* row of a model away: the fact that makes two reads at two times comparable.   *)
THEOREM LivePairGrows == Spec => [][Grows]_vars
<1>1. IInv /\ [Next]_vars => [Grows]_vars
  BY NextKeepsInvariant
<1> QED
  BY <1>1, EvidenceInvariant, PTL DEF Spec
===============================================================================
