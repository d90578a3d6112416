------------------------------- MODULE Evidence -------------------------------
(***************************************************************************)
(* The tools that look at the tables while the DAG goes on writing them:   *)
(* notebook 04 (accumulated data and freshness), inspect_outputs.py and    *)
(* quality_checks.py; and the tools that write a table of their own twice  *)
(* to show that a replay changes nothing: run_rpc_smoke_validation.py,     *)
(* notebook 03 and, writing once, create_dbt_validation_fixture.py.        *)
(*                                                                         *)
(* A pair is a raw Delta table with a DuckDB file. The DAG writes to the   *)
(* live one, which may itself be from an earlier version and is then not   *)
(* written any more; the other is what such a version left behind. Time is *)
(* counted in half hours, each of which has at most one log that matters:  *)
(* "flow" is a treasury transfer, "token" another ERC-20 transfer, "other" *)
(* a log that is none (a fourth topic). A raw table is a set of rows: the  *)
(* natural key is the half hour of the log, the label (interval_start_utc) *)
(* the start of the window that brought it in, and a number tells apart    *)
(* those with the same key.                                                *)
(*                                                                         *)
(* DuckDB lets either one process write or several read a file.            *)
(***************************************************************************)
EXTENDS Integers, Sequences, FiniteSets, FiniteSetsExt

CONSTANTS NumHours,        \* bound: hours of the chain
          Start,           \* bound: the half hour in which a behaviour begins
          Contents,        \* bound: the chains, functions from half hours to logs
          Triggered,       \* bound: the windows DAG runs are for
          Threshold,       \* FRESHNESS_WARNING_HOURS (24 hours), in half hours
          Leftovers,       \* what the other pair may be
          Overrides,       \* bound: the pairs that the notebook's variables may name
          Batches,         \* bound: what a script writes, sets of rows
          None

Slots == 0..(2 * NumHours - 1)
Hours == 0..(NumHours - 1)
HourOf(s) == s \div 2

\* The schedule's windows and those of an Airflow data interval are whole hours, a
\* window of a run's conf is an hour long and may start at any time, and a
\* recent_finalized run takes any length and any distance from the finalized head.
Windows      == {w \in [from : Slots, to : 1..(2 * NumHours)] : w.from < w.to}
Within(w)    == {s \in Slots : w.from <= s /\ s < w.to}
WholeHour(w) == w.from % 2 = 0 /\ w.to = w.from + 2

Rows  == [key : Slots, label : Slots, copy : Nat]
Names == {"latest_v2_local", "canonical_default_local"}

\* schema: current; extra, with one more column; legacy, without interval_start_utc;
\* text, with one that is no timestamp; or unreadable.
Schemas == {"current", "extra", "legacy", "text", "unreadable"}
\* windows: those whose logs an earlier version wrote to the raw table.
Pairs   == [there : BOOLEAN, schema : Schemas, raw : SUBSET Rows, silver : SUBSET Slots,
            gold : SUBSET Hours, windows : SUBSET Windows]

ASSUME EvidenceAssumption ==
  /\ NumHours \in Nat /\ Start \in Nat /\ Threshold \in Nat
  /\ Contents \subseteq [Slots -> {"none", "flow", "token", "other"}]
  /\ Triggered \subseteq Windows /\ Overrides \subseteq Names
  /\ Leftovers \subseteq Pairs /\ \A l \in Leftovers : IsFiniteSet(l.raw)
  /\ \A b \in Batches : IsFiniteSet(b)

VARIABLES
  content,                \* the chain: the log of each half hour
  clock,
  live,                   \* name of the pair the DAG writes to
  pairs,                  \* name -> a member of Pairs
  dag, window,            \* what the DAG does, for which window
  collected,              \* history: the windows whose logs are in the live raw table
  readers,                \* processes with the live DuckDB file open for reading
  override,               \* the pair NOTEBOOK_DELTA_LOGS_PATH and _DUCKDB_PATH name
  stage, inventory, selected, raw, downstream, verdict,         \* notebook 04
  inspector,              \* inspect_outputs or quality_checks
  seenUsable,             \* history: a tool found the live pair usable
  script, step, batch, scratch, report       \* the scripts with a table of their own

chain    == <<content, clock>>
dagVars  == <<live, pairs, dag, window, collected>>
notebook == <<override, stage, inventory, selected, raw, downstream, verdict>>
replay   == <<script, step, batch, scratch, report>>
vars     == <<chain, dagVars, readers, notebook, inspector, seenUsable, replay>>

-------------------------------------------------------------------------------
(* What the tools count. *)

natural_keys(table) == {r.key : r \in table}
Labels(table)       == {r.label : r \in table}
Copies(k, table)    == {r \in table : r.key = k}

count_rows(table) == Cardinality(table)
count_duplicate_natural_keys(table) == Cardinality(table) - Cardinality(natural_keys(table))

\* The notebook counts the keys with more than one row.
DuplicateGroups(table) ==
  Cardinality({k \in natural_keys(table) : Cardinality(Copies(k, table)) > 1})

\* insert_only: a row for each key that the table has not; a stored row keeps its label.
NewRows(keys, from, table) ==
  {[key |-> k, label |-> from, copy |-> 0] : k \in keys \ natural_keys(table)}

\* RAW_GAP_RECORDS: each label with the next one, if more than one turn of the hour
\* lies between them (date_diff counts those, not the time that passed).
NextLabel(l, labels) == Min({m \in labels : m > l})
date_diff(a, b)      == HourOf(b) - HourOf(a)

\* Mutant: a gap of one missing hour is none.
GapsOfTwo(labels) ==
  {[after |-> l, next |-> NextLabel(l, labels)] :
     l \in {k \in labels : (\E m \in labels : m > k) /\ date_diff(k, NextLabel(k, labels)) > 2}}

Gaps(labels) ==
  {[after |-> l, next |-> NextLabel(l, labels)] :
     l \in {k \in labels : (\E m \in labels : m > k) /\ date_diff(k, NextLabel(k, labels)) > 1}}

\* downstream_core_ok, DB_DOWNSTREAM_CORE_OK
CoreOk(pair) == pair.silver # {} /\ pair.gold # {}

\* fetch_records: a query that fails returns no records, with an error to display.
fetch_records(succeeds, records) == IF succeeds THEN records ELSE {}

\* as_utc_datetime of SQL's max, hours_between: nothing stored has no time, and what
\* has no time no age.
Latest(times) == IF times = {} THEN None ELSE Max(times)
hours_between(later, earlier) == IF None \in {later, earlier} THEN None ELSE later - earlier

\* The notebook tolerates columns of which the writer knows nothing.
compare_schema_fields(pair) == pair.schema \in {"current", "extra"}
validate_schema(pair)       == pair.schema = "current"

-------------------------------------------------------------------------------
Missing ==
  [there |-> FALSE, schema |-> "current", raw |-> {}, silver |-> {}, gold |-> {}, windows |-> {}]

Logs(w) == {s \in Within(w) : content[s] # "none"}

\* A table has the logs of all windows written to it, each labelled by one that holds it.
Explains(windows, table) ==
  /\ \A r \in table : \E w \in windows : r.label = w.from /\ r.key \in Logs(w)
  /\ \A w \in windows : Logs(w) \subseteq natural_keys(table)

\* The DAG goes on with a table only if no database is there or the writer refuses it.
\* Nothing but the writer ever wrote to it, so no key is in it twice.
Inherited ==
  {l \in Leftovers :
     /\ ~l.there \/ ~validate_schema(l)
     /\ count_duplicate_natural_keys(l.raw) = 0
     /\ Explains(l.windows, l.raw)}

Init ==
  /\ content \in Contents
  /\ live \in Names
  /\ \E old \in Inherited, other \in Leftovers :
       /\ old.there => ~other.there
       /\ pairs = [n \in Names |-> IF n = live THEN old ELSE other]
       /\ collected = old.windows
  /\ dag = "idle" /\ window = None
  /\ readers = {}
  /\ override \in Overrides \cup {None}
  /\ stage = "start" /\ inventory = None /\ selected = None
  /\ raw = None /\ downstream = None /\ verdict = None
  /\ inspector = "idle"
  /\ seenUsable = FALSE
  /\ step = "start" /\ report = None
  /\ \/ script = None /\ clock = Start /\ batch = {} /\ scratch = {}
     \/ /\ script \in {"smoke", "notebook03", "fixture"} /\ clock = 0
        /\ \A n \in Names : pairs[n] = Missing
        /\ batch \in Batches /\ \E b \in Batches : scratch = NewRows(natural_keys(b), 0, {})

\* Bounds: time passes in hours. A script shares nothing with the others, and in a
\* behaviour that runs one time stands still.
TimePasses ==
  /\ clock < 2 * NumHours /\ script = None
  /\ clock' = clock + 2
  /\ UNCHANGED <<content, dagVars, readers, notebook, inspector, seenUsable, replay>>

-------------------------------------------------------------------------------
(* The DAG: any window that has ended, by schedule or by hand, again or not at all, and *)
(* overlapping others or not.                                                           *)

\* A table of another schema is refused, and left as it is.
DagWrites ==
  /\ dag = "idle"
  /\ validate_schema(pairs[live])
  /\ \E w \in Triggered :
       /\ w.to <= clock
       /\ window' = w
       /\ pairs' = [pairs EXCEPT ![live].raw = @ \cup NewRows(Logs(w), w.from, @)]
       /\ collected' = collected \cup {w}
  /\ dag' = "written"
  /\ UNCHANGED <<chain, live, readers, notebook, inspector, seenUsable, replay>>

\* dbt opens the file, which creates it, or fails because a reader has it open.
DbtOpens ==
  /\ dag = "written"
  /\ IF readers = {}
       THEN dag' = "building" /\ pairs' = [pairs EXCEPT ![live].there = TRUE]
       ELSE dag' = "idle" /\ UNCHANGED pairs
  /\ UNCHANGED <<chain, live, window, collected, readers, notebook, inspector, seenUsable, replay>>

\* Both models replace the rows of the window, gold by the hour: an hour is counted
\* again if there is something to count in the window.
SilverOf(pair) ==
  pair.silver \cup
    {s \in natural_keys(pair.raw) \cap Within(window) : content[s] \in {"flow", "token"}}
Counted(silver) == {HourOf(s) : s \in {s \in silver \cap Within(window) : content[s] = "flow"}}

\* Mutant: the gold model is rebuilt from the window alone.
DbtRebuilds ==
  /\ dag = "building"
  /\ pairs' = [pairs EXCEPT ![live].silver = SilverOf(pairs[live]),
                            ![live].gold = Counted(SilverOf(pairs[live]))]
  /\ dag' = "idle"
  /\ UNCHANGED <<chain, live, window, collected, readers, notebook, inspector, seenUsable, replay>>

DbtBuilds ==
  /\ dag = "building"
  /\ pairs' = [pairs EXCEPT ![live].silver = SilverOf(pairs[live]),
                            ![live].gold = @ \cup Counted(SilverOf(pairs[live]))]
  /\ dag' = "idle"
  /\ UNCHANGED <<chain, live, window, collected, readers, notebook, inspector, seenUsable, replay>>

\* dbt fails before the silver model is built or after it.
DbtFails ==
  /\ dag = "building"
  /\ pairs' \in {pairs, [pairs EXCEPT ![live].silver = SilverOf(pairs[live])]}
  /\ dag' = "idle"
  /\ UNCHANGED <<chain, live, window, collected, readers, notebook, inspector, seenUsable, replay>>

-------------------------------------------------------------------------------
(* Notebook 04, cell by cell. *)

\* Each name is looked for in the repository and below the two mounts.
first_existing(name) == pairs[name].there

\* candidate_pairs: the override first, then the two names, those that are there.
candidate_pairs ==
  SelectSeq((IF override # None THEN <<[name |-> "env_override", of |-> override]>> ELSE <<>>)
              \o <<[name |-> "latest_v2_local", of |-> "latest_v2_local"],
                   [name |-> "canonical_default_local", of |-> "canonical_default_local"]>>,
            LAMBDA p : first_existing(p.of))

\* candidate_pairs and delta_inventory.
DeltaInventory ==
  /\ stage = "start"
  /\ IF candidate_pairs = <<>>
       THEN stage' = "stopped" /\ UNCHANGED inventory
       ELSE /\ inventory' = [i \in DOMAIN candidate_pairs |->
                 [pair |-> candidate_pairs[i],
                  delta |-> LET p == pairs[candidate_pairs[i].of]
                            IN  compare_schema_fields(p) /\ count_rows(p.raw) > 0]]
            /\ stage' = "duckdbInventory"
  /\ UNCHANGED <<chain, dagVars, readers, override, selected, raw, downstream, verdict, inspector,
                 seenUsable, replay>>

\* A file that dbt is writing cannot be opened.
Opens(n) == ~(n = live /\ dag = "building")

\* duckdb_inventory and the selection.
DuckdbInventory ==
  /\ stage = "duckdbInventory"
  /\ LET usable == {i \in DOMAIN inventory :
            LET n == inventory[i].pair.of
            IN  inventory[i].delta /\ Opens(n) /\ CoreOk(pairs[n])}
     IN  /\ selected' = IF inventory[1].pair.name = "env_override" \/ usable = {}
                          THEN inventory[1].pair
                          ELSE inventory[Min(usable)].pair
         /\ seenUsable' = (seenUsable \/ \E i \in usable : inventory[i].pair.of = live)
  /\ inventory' = None
  /\ stage' = "raw"
  /\ UNCHANGED <<chain, dagVars, readers, override, raw, downstream, verdict, inspector, replay>>

\* The Delta table is opened again; the cells that follow read this version of it.
\* Without the interval column there is no gap query, RAW_INTERVAL_GAP_COUNT is None.
\* With one that is no timestamp the query fails, and its result is empty; gap_error
\* says so in both cases.
OpenRaw ==
  /\ stage = "raw"
  /\ LET p == pairs[selected.of]
     IN  IF p.schema = "unreadable"
           THEN stage' = "stopped" /\ UNCHANGED raw
           ELSE /\ raw' = [rows |-> p.raw, duplicates |-> DuplicateGroups(p.raw),
                           gaps |-> IF p.schema = "legacy" THEN None
                                    ELSE fetch_records(p.schema # "text", Gaps(Labels(p.raw))),
                           gap_error |-> p.schema \in {"legacy", "text"},
                           current |-> compare_schema_fields(p), collected |-> collected,
                           usable |-> seenUsable]
                /\ stage' = "downstream"
  /\ UNCHANGED <<chain, dagVars, readers, override, inventory, selected, downstream, verdict,
                 inspector, seenUsable, replay>>

\* ANALYTICS_CON is opened for reading, and never closed.
OpenDuckdb ==
  /\ stage = "downstream"
  /\ IF Opens(selected.of)
       THEN /\ downstream' = [silver |-> pairs[selected.of].silver,
                               gold   |-> pairs[selected.of].gold]
            /\ readers' = IF selected.of = live THEN readers \cup {"notebook"} ELSE readers
            /\ stage' = "verdict"
       ELSE stage' = "stopped" /\ UNCHANGED <<downstream, readers>>
  /\ UNCHANGED <<chain, dagVars, override, inventory, selected, raw, verdict, inspector, seenUsable,
                 replay>>

\* The freshness cell, which cannot compare a latest event of silver with none of
\* raw; the summary; the last cell.
FRESHNESS_RECORDS ==
  [event  |-> hours_between(clock, Latest(natural_keys(raw.rows))),
   silver |-> hours_between(clock, Latest(downstream.silver)),
   lag    |-> hours_between(Latest(natural_keys(raw.rows)), Latest(downstream.silver))]

Fresh   == FRESHNESS_RECORDS.event # None /\ FRESHNESS_RECORDS.event <= Threshold
Aligned == FRESHNESS_RECORDS.silver # None /\ FRESHNESS_RECORDS.lag <= 0

Status(passes, otherwise) == IF passes THEN "PASS" ELSE otherwise

ACCUMULATION_SUMMARY ==
  [rows       |-> Status(raw.rows # {}, "FAIL"),
   duplicates |-> Status(raw.duplicates = 0, "FAIL"),
   intervals  |-> Status(raw.gaps = {}, "PARTIALLY VERIFIED"),
   latest     |-> Status(Fresh, "PARTIALLY VERIFIED"),
   silver     |-> Status(downstream.silver # {}, "PARTIALLY VERIFIED"),
   gold       |-> Status(downstream.gold # {}, "PARTIALLY VERIFIED")]

HardFailure == raw.rows = {} \/ raw.duplicates # 0 \/ ~CoreOk(downstream)

Conclude ==
  /\ stage = "verdict"
  /\ IF downstream.silver # {} /\ raw.rows = {}
       THEN stage' = "stopped" /\ UNCHANGED verdict
       ELSE /\ verdict' = [final |-> IF HardFailure THEN "NOT VERIFIED" ELSE "PARTIALLY VERIFIED",
                           freshness  |-> IF Fresh /\ Aligned THEN "VERIFIED" ELSE "PARTIALLY VERIFIED",
                           continuity |-> IF raw.gaps = {} THEN "VERIFIED" ELSE "PARTIALLY VERIFIED",
                           extraction |-> IF raw.current /\ raw.duplicates = 0 /\ raw.rows # {}
                                            THEN "VERIFIED" ELSE "PARTIALLY VERIFIED",
                           summary |-> ACCUMULATION_SUMMARY, of |-> selected.of, raw |-> raw]
            /\ stage' = "concluded"
  /\ raw' = None /\ downstream' = None
  /\ UNCHANGED <<chain, dagVars, readers, override, inventory, selected, inspector, seenUsable,
                 replay>>

\* The kernel ends, and with it the connection; the notebook may be run again.
KernelEnds ==
  /\ stage \in {"concluded", "stopped"}
  /\ stage' = "start"
  /\ readers' = readers \ {"notebook"}
  /\ selected' = None /\ raw' = None /\ downstream' = None /\ verdict' = None
  /\ UNCHANGED <<chain, dagVars, override, inventory, inspector, seenUsable, replay>>

-------------------------------------------------------------------------------
(* inspect_outputs.py, and validate_raw_metrics with validate_analytics_metrics:  *)
(* the raw table is counted, then the DuckDB file read over a connection that is  *)
(* closed again. A file that is missing or cannot be opened ends the tool.        *)

InspectorCounts ==
  /\ inspector = "idle"
  /\ inspector' = IF /\ count_rows(pairs[live].raw) > 0
                    /\ count_duplicate_natural_keys(pairs[live].raw) = 0
                 THEN "rows" ELSE "no rows"
  /\ UNCHANGED <<chain, dagVars, readers, notebook, seenUsable, replay>>

InspectorConnects ==
  /\ inspector \in {"rows", "no rows"} /\ "inspector" \notin readers
  /\ IF pairs[live].there /\ Opens(live)
       THEN readers' = readers \cup {"inspector"} /\ UNCHANGED inspector
       ELSE inspector' = "idle" /\ UNCHANGED readers
  /\ UNCHANGED <<chain, dagVars, notebook, seenUsable, replay>>

InspectorReads ==
  /\ "inspector" \in readers
  /\ seenUsable' = (seenUsable \/ (inspector = "rows" /\ CoreOk(pairs[live])))
  /\ inspector' = "idle"
  /\ readers' = readers \ {"inspector"}
  /\ UNCHANGED <<chain, dagVars, notebook, replay>>

-------------------------------------------------------------------------------
(* The scripts that write a table of their own. *)

\* write_ethereum_logs_insert_only, as InsertOnlyLog has it.
NewKeys == natural_keys(batch) \ natural_keys(scratch)

\* Mutant: the writer appends without looking.
InsertedBlindly ==
  scratch \cup {[r EXCEPT !.copy = @ + Cardinality(Copies(r.key, scratch))] : r \in batch}

Inserted == scratch \cup NewRows(natural_keys(batch), 0, scratch)

\* The smoke script collects and decodes first; what it cannot decode ends it.
Fetch ==
  /\ step = "start" /\ script # None
  /\ step' \in {"clear"} \cup (IF script = "smoke" THEN {"ended"} ELSE {})
  /\ UNCHANGED <<chain, dagVars, readers, notebook, inspector, seenUsable, script, batch,
                 scratch, report>>

\* shutil.rmtree: two of the scripts ignore its errors and go on with what is left.
Clear ==
  /\ step = "clear"
  /\ \/ scratch' = {} /\ step' = "first"
     \/ script # "notebook03" /\ step' = "first" /\ UNCHANGED scratch
     \/ script = "notebook03" /\ step' = "ended" /\ UNCHANGED scratch
  /\ UNCHANGED <<chain, dagVars, readers, notebook, inspector, seenUsable, script, batch, report>>

FirstWrite ==
  /\ step = "first"
  /\ scratch' = Inserted
  /\ report' = [first_inserted |-> Cardinality(NewKeys), first_count |-> count_rows(scratch'),
                second_inserted |-> 0, second_count |-> count_rows(scratch'), duplicates |-> 0]
  /\ step' = IF script = "fixture" THEN "ended" ELSE "second"
  /\ UNCHANGED <<chain, dagVars, readers, notebook, inspector, seenUsable, script, batch>>

SecondWrite ==
  /\ step = "second"
  /\ scratch' = Inserted
  /\ report' = [report EXCEPT !.second_inserted = Cardinality(NewKeys),
                              !.second_count = count_rows(scratch'),
                              !.duplicates = count_duplicate_natural_keys(scratch')]
  /\ step' = "ended"
  /\ UNCHANGED <<chain, dagVars, readers, notebook, inspector, seenUsable, script, batch>>

-------------------------------------------------------------------------------
Next ==
  \/ TimePasses \/ DagWrites \/ DbtOpens \/ DbtBuilds \/ DbtFails
  \/ DeltaInventory \/ DuckdbInventory \/ OpenRaw \/ OpenDuckdb \/ Conclude \/ KernelEnds
  \/ InspectorCounts \/ InspectorConnects \/ InspectorReads
  \/ Fetch \/ Clear \/ FirstWrite \/ SecondWrite

Spec == Init /\ [][Next]_vars

-------------------------------------------------------------------------------
(* Properties. *)

\* What notebook 04 says of the continuity of the live table is true of the history,
\* whichever windows the DAG was run for, on the hour or off it, long or short.
\* (1) Every hour between the labels' in which no collected window begins is in a reported
\*     gap, and "VERIFIED" leaves none out.
\* (2) No window that begins in an hour of a reported gap brought in a log: each one it
\*     holds is stored under a label of another hour.
\* (3) If all windows were whole hours, as the schedule's are, "VERIFIED" means that
\*     everything between the first label and the last was collected.
\* (All of a table with the writer's columns.)
Between(g) == (HourOf(g.after) + 1)..(HourOf(g.next) - 1)
Inner(r) == {h \in Hours : \E a, b \in Labels(r.rows) : HourOf(a) < h /\ h < HourOf(b)}
Begun(r) == {HourOf(w.from) : w \in r.collected}
BroughtNothing(w, r) ==
  \A s \in Logs(w) : \E q \in r.rows : q.key = s /\ HourOf(q.label) # HourOf(w.from)
EverythingCollected(r) ==
  \A s \in Slots : (\E a, b \in Labels(r.rows) : a <= s /\ s <= b) =>
     \E w \in r.collected : s \in Within(w)

ContinuityIsReal ==
  (verdict # None /\ verdict.of = live /\ verdict.raw.current) =>
     LET r        == verdict.raw
         reported == UNION {Between(g) : g \in r.gaps}
     IN  /\ Inner(r) \ Begun(r) \subseteq reported
         /\ verdict.continuity = "VERIFIED" => Inner(r) \subseteq Begun(r)
         /\ \A w \in r.collected : HourOf(w.from) \in reported => BroughtNothing(w, r)
         /\ (verdict.continuity = "VERIFIED" /\ \A w \in r.collected : WholeHour(w)) =>
              EverythingCollected(r)

\* Cell 1 of notebook 04 says that it checks the continuity of the hourly series, and
\* the last cell calls it "VERIFIED". It does not hold: the gap query takes a row's
\* label for an hour that was collected, and a window that is shorter than the hour or
\* starts late in it leaves a label too.
VerifiedMeansCollected ==
  (verdict # None /\ verdict.of = live /\ verdict.raw.current /\ verdict.continuity = "VERIFIED") =>
     EverythingCollected(verdict.raw)

\* The last cell does not call a continuity "VERIFIED" that cannot be checked. It does
\* not hold: it looks at the number of gaps and not at gap_error, and a gap query that
\* fails returns none.
VerifiedMeansQueried ==
  (verdict # None /\ verdict.continuity = "VERIFIED") => ~verdict.raw.gap_error

\* Once the inventory, inspect_outputs or quality_checks found rows in the live raw
\* table, in erc20_transfers and in tether_treasury_flow, no later run of the notebook
\* on that pair ends "NOT VERIFIED" or with a summary that misses rows, and a raw
\* table with the writer's columns is "VERIFIED", whatever the DAG writes, rebuilds or
\* fails to build between the reads of the two files.
UsableStaysUsable ==
  (verdict # None /\ verdict.of = live /\ verdict.raw.usable) =>
    /\ verdict.final # "NOT VERIFIED"
    /\ verdict.raw.current => verdict.extraction = "VERIFIED"
    /\ \A count \in {"rows", "duplicates", "silver", "gold"} : verdict.summary[count] = "PASS"

\* A script that wrote the same rows twice shows what it is there to show: nothing
\* inserted the second time, as many rows as before, no natural key twice, and with an
\* emptied directory every key inserted the first time. Rows that an ignored error of
\* rmtree left behind do not change that.
ReplayIsStable ==
  (step = "ended" /\ report # None /\ script # "fixture") =>
    /\ report.second_inserted = 0
    /\ report.second_count = report.first_count
    /\ report.duplicates = 0
    /\ script = "notebook03" => /\ report.first_inserted = Cardinality(natural_keys(batch))
                                 /\ report.second_count = report.first_inserted

===============================================================================
