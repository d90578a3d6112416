------------------------------- MODULE Pipeline -------------------------------
(***************************************************************************)
(* The DAG ethereum_hourly_logs around run_interval: DAG runs start, their *)
(* one task is attempted, fails and is retried, and each attempt moves a   *)
(* UTC window through the raw Delta table, the silver model and the gold   *)
(* model, one commit per table.                                            *)
(*                                                                         *)
(* Time is counted in half hours, so that a one-hour window may start on   *)
(* the hour or between two hours. The chain has at most one event that     *)
(* matters in each half hour: "flow" is a USDT transfer to or from the     *)
(* treasury, "wide" a USDT transfer whose amount DECIMAL(38,0) cannot      *)
(* hold. The other components appear by what they guarantee: BlockRange    *)
(* (a finalized window is resolved to exactly its blocks), LogCollector    *)
(* (all of them or an error) and InsertOnlyLog (the raw table).            *)
(***************************************************************************)
EXTENDS Integers, FiniteSets, FiniteSetsExt

CONSTANTS NumHours,      \* bound: hours of the chain
          Retries,       \* retries of the task (5)
          MaxRuns,       \* bound: DAG runs
          ManualKinds,   \* what the operator triggers, besides the schedule
          None

ASSUME PipelineAssumption ==
  /\ NumHours \in Nat /\ Retries \in Nat /\ MaxRuns \in Nat
  /\ ManualKinds \subseteq {"hour", "shifted", "recent"}

Slots == 0..(2 * NumHours - 1)
Hours == 0..(NumHours - 1)
HourOf(s) == s \div 2
Windows == [from : 0..(2 * NumHours), to : 0..(2 * NumHours)]
Within(w) == {s \in Slots : w.from <= s /\ s < w.to}
GoldRows == [counted : SUBSET Slots, source : Int]
HourWindow(h) == [from |-> 2 * h, to |-> 2 * h + 2]

ASSUME NoneAssumption == None \notin GoldRows

VARIABLES
  content,                  \* the chain: the event of each half hour
  clock, finalized,         \* the present, and the finalized head's time
  raw, silver, gold,        \* the tables
  stage, kind, window,      \* the active DAG run and where its attempt is
  attempt,
  lastHour, runs,           \* latest hour scheduled; DAG runs started
  succeeded                 \* history: windows done

chain   == <<content, clock, finalized>>
tables  == <<raw, silver, gold>>
trigger == <<kind, window, lastHour, runs>>
vars    == <<chain, tables, stage, trigger, attempt, succeeded>>

Stages == {"idle", "waiting", "resolve", "collect", "write",
           "silver", "silverTests", "gold", "goldTests"}

TerminalErrors == {"BlockRangeError", "ConfigError", "DbtBuildError", "DeltaWriteError",
                   "LogCollectionError", "NormalizationError", "NonRetryableRpcError"}

-------------------------------------------------------------------------------
Init ==
  /\ content \in [Slots -> {"none", "flow", "wide"}]
  /\ clock = 0 /\ finalized = 0
  /\ raw = {} /\ silver = {} /\ gold = [h \in Hours |-> None]
  /\ stage = "idle" /\ kind = "hour" /\ window = [from |-> 0, to |-> 0]
  /\ attempt = 0
  /\ lastHour = -1 /\ runs = 0
  /\ succeeded = {}

(* External: time passes, and finality follows behind. *)
TimePasses ==
  /\ clock < 2 * NumHours
  /\ clock' = clock + 1
  /\ UNCHANGED <<content, finalized, tables, stage, trigger, attempt, succeeded>>

HeadFinalizes ==
  /\ finalized' \in (finalized + 1)..clock
  /\ UNCHANGED <<content, clock, tables, stage, trigger, attempt, succeeded>>

-------------------------------------------------------------------------------
(* DAG runs: one at a time (max_active_runs = 1), tried Retries + 1 times. *)

StartRun(k, w) ==
  /\ stage = "idle"
  /\ runs < MaxRuns
  /\ runs' = runs + 1
  /\ kind' = k /\ window' = w
  /\ attempt' = 0
  /\ stage' = "waiting"
  /\ UNCHANGED <<chain, tables, succeeded>>

\* catchup = False: only the latest complete hour is scheduled; the hours that
\* ended while another run was active are skipped.
LatestHour == (clock \div 2) - 1

Schedule ==
  /\ LatestHour > lastHour
  /\ lastHour' = LatestHour
  /\ StartRun("hour", HourWindow(LatestHour))

\* A window from the run's conf, which only has to be one hour long.
TriggerConf ==
  /\ \E s \in Slots :
       /\ s + 2 <= 2 * NumHours
       /\ (IF s % 2 = 0 THEN "hour" ELSE "shifted") \in ManualKinds
       /\ StartRun("conf", [from |-> s, to |-> s + 2])
  /\ UNCHANGED lastHour

\* ETH_AIRFLOW_MANUAL_RUN_MODE = recent_finalized: the window is not known yet.
TriggerRecent ==
  /\ "recent" \in ManualKinds
  /\ StartRun("recent", window)
  /\ UNCHANGED lastHour

\* Mutant: retries are not counted.
FailsForever(e) ==
  /\ stage' = IF e \in TerminalErrors THEN "idle" ELSE "waiting"
  /\ UNCHANGED attempt

\* The attempt ends with error e: the run is over if e is terminal or there is no
\* retry left.
Fails(e) ==
  IF e \in TerminalErrors \/ attempt >= Retries
    THEN stage' = "idle" /\ UNCHANGED attempt
    ELSE stage' = "waiting" /\ attempt' = attempt + 1

-------------------------------------------------------------------------------
(* One attempt: run_interval. *)

\* run_recent_finalized_interval takes the window from the finalized head, anew
\* in each attempt.
StartAttempt ==
  /\ stage = "waiting"
  /\ IF kind = "recent"
       THEN finalized > 0 /\ window' = [from |-> finalized - 1, to |-> finalized]
       ELSE window' = window
  /\ stage' = "resolve"
  /\ UNCHANGED <<chain, tables, kind, lastHour, runs, attempt, succeeded>>

\* Mutant: finality is not checked.
ResolveUnfinalized ==
  /\ stage = "resolve"
  /\ stage' = "collect"
  /\ UNCHANGED <<chain, tables, trigger, attempt, succeeded>>

Resolve ==
  /\ stage = "resolve"
  /\ window.to <= finalized
  /\ stage' = "collect"
  /\ UNCHANGED <<chain, tables, trigger, attempt, succeeded>>

NotFinalized ==
  /\ stage = "resolve"
  /\ finalized < window.to
  /\ Fails("NotFinalized")
  /\ UNCHANGED <<chain, tables, trigger, succeeded>>

Collect ==
  /\ stage = "collect"
  /\ stage' = "write"
  /\ UNCHANGED <<chain, tables, trigger, attempt, succeeded>>

\* The search for the window's blocks ends at the finalized head.
Fetched == {s \in Within(window) : s < finalized /\ content[s] # "none"}

\* Mutant: the start column is filled from the end.
RowsMislabelled == {[key |-> s, payload |-> window.to] : s \in Fetched}

\* A row keeps the start of the window that first brought it in.
Rows == {[key |-> s, payload |-> window.from] : s \in Fetched}
KeysOf(t) == {r.key : r \in t}

Insert == raw' = raw \cup {r \in Rows : r.key \notin KeysOf(raw)}

Write ==
  /\ stage = "write"
  /\ Insert
  /\ stage' = "silver"
  /\ UNCHANGED <<chain, silver, gold, trigger, attempt, succeeded>>

\* Mutant: silver selects by the interval a row came from, not by its time.
BuildSilverByInterval ==
  /\ stage = "silver"
  /\ silver' = silver \cup (KeysOf({r \in raw : r.payload = window.from}) \cap Within(window))
  /\ stage' = "silverTests"
  /\ UNCHANGED <<chain, raw, gold, trigger, attempt, succeeded>>

\* erc20_transfers, delete+insert by event.
BuildSilver ==
  /\ stage = "silver"
  /\ silver' = silver \cup (KeysOf(raw) \cap Within(window))
  /\ stage' = "silverTests"
  /\ UNCHANGED <<chain, raw, gold, trigger, attempt, succeeded>>

\* Mutant: the test is missing.
SilverUntested == TRUE

\* The dbt tests read the whole table, not the window.
SilverTestsHold == \A s \in silver : content[s] # "wide"

TestSilver ==
  /\ stage = "silverTests"
  /\ IF SilverTestsHold
       THEN stage' = "gold" /\ UNCHANGED attempt
       ELSE Fails("DbtBuildError")
  /\ UNCHANGED <<chain, tables, trigger, succeeded>>

\* tether_treasury_flow, delete+insert by hour: only the hours with an event in
\* the window have a new row, and that row counts the events in the window.
CountedIn(h) == {s \in silver \cap Within(window) : HourOf(s) = h /\ content[s] = "flow"}
FlowRow(c) ==
  [counted |-> c, source |-> Min({r.payload : r \in {r \in raw : r.key \in c}})]

\* Mutant: the model is materialized as a table, not incrementally.
BuildGoldAnew ==
  /\ stage = "gold"
  /\ gold' = [h \in Hours |-> IF CountedIn(h) = {} THEN None ELSE FlowRow(CountedIn(h))]
  /\ stage' = "goldTests"
  /\ UNCHANGED <<chain, raw, silver, trigger, attempt, succeeded>>

BuildGold ==
  /\ stage = "gold"
  /\ gold' = [h \in Hours |-> IF CountedIn(h) = {} THEN gold[h] ELSE FlowRow(CountedIn(h))]
  /\ stage' = "goldTests"
  /\ UNCHANGED <<chain, raw, silver, trigger, attempt, succeeded>>

Succeed ==
  /\ stage = "goldTests"
  /\ succeeded' = succeeded \cup {window}
  /\ stage' = "idle"
  /\ UNCHANGED <<chain, tables, trigger, attempt>>

\* The ways the RPC stages raise (run_interval reads its settings first: ConfigError).
ResolveRaises ==
  /\ stage = "resolve"
  /\ \E e \in {"ConfigError", "RetryableRpcError", "NonRetryableRpcError", "BlockRangeError"} : Fails(e)
  /\ UNCHANGED <<chain, tables, trigger, succeeded>>

\* LogCollectionError is what a busy provider ends in when eth_getLogs fails,
\* RetryableRpcError when eth_getBlockByNumber does.
CollectRaises ==
  /\ stage = "collect"
  /\ \E e \in {"LogCollectionError", "RetryableRpcError", "NonRetryableRpcError",
               "NormalizationError"} : Fails(e)
  /\ UNCHANGED <<chain, tables, trigger, succeeded>>

\* The library raises before or after the commit became visible.
WriteRaises ==
  /\ stage = "write"
  /\ Insert \/ UNCHANGED raw
  /\ Fails("DeltaWriteError")
  /\ UNCHANGED <<chain, silver, gold, trigger, succeeded>>

DbtRaises ==
  /\ stage \in {"silver", "silverTests", "gold", "goldTests"}
  /\ Fails("DbtBuildError")
  /\ UNCHANGED <<chain, tables, trigger, succeeded>>

\* The worker dies, or an exception that TERMINAL_PIPELINE_ERRORS does not list
\* escapes, such as the ValueError of a malformed payload.
AttemptBreaks ==
  /\ stage \notin {"idle", "waiting"}
  /\ Fails("OtherError")
  /\ UNCHANGED <<chain, tables, trigger, succeeded>>

Attempt ==
  \/ StartAttempt \/ Resolve \/ NotFinalized \/ Collect \/ Write
  \/ BuildSilver \/ TestSilver \/ BuildGold \/ Succeed
  \/ ResolveRaises \/ CollectRaises \/ WriteRaises \/ DbtRaises \/ AttemptBreaks

Finished == stage = "idle" /\ runs = MaxRuns /\ UNCHANGED vars

Next == TimePasses \/ HeadFinalizes \/ Schedule \/ TriggerConf \/ TriggerRecent
        \/ Attempt \/ Finished

Spec == Init /\ [][Next]_vars

\* Airflow starts every waiting attempt and the worker goes on; the clock and the
\* finalized head advance.
FairSpec == Spec /\ WF_vars(Attempt) /\ WF_vars(TimePasses) /\ WF_vars(HeadFinalizes)

-------------------------------------------------------------------------------
TypeOK ==
  /\ content \in [Slots -> {"none", "flow", "wide"}]
  /\ clock \in 0..(2 * NumHours) /\ finalized \in 0..clock
  /\ raw \subseteq [key : Slots, payload : 0..(2 * NumHours)]
  /\ silver \subseteq Slots
  /\ gold \in [Hours -> GoldRows \cup {None}]
  /\ stage \in Stages /\ kind \in {"hour", "conf", "recent"} /\ window \in Windows
  /\ attempt \in 0..Retries
  /\ lastHour \in Hours \cup {-1} /\ runs \in 0..MaxRuns
  /\ succeeded \subseteq Windows

Flows(h) == {s \in Slots : HourOf(s) = h /\ content[s] = "flow"}

\* Whatever fails, is retried or is run again, a gold row that can be read counts
\* every treasury transfer of its hour. (Windows on the hour only.)
NoPartialHour == \A h \in Hours : gold[h] # None => gold[h].counted = Flows(h)

\* A window that once succeeded is published, and stays so: a treasury transfer in
\* it is counted in the row of its hour. (Windows on the hour only.)
SucceededIsPublished ==
  \A w \in succeeded : \A s \in Within(w) :
    content[s] = "flow" => gold[HourOf(s)] # None /\ s \in gold[HourOf(s)].counted

\* A window that succeeded has all its events in the raw table and in silver,
\* whatever windows overlap it.
SucceededIsStored ==
  \A w \in succeeded : \A s \in Within(w) :
    content[s] # "none" => s \in KeysOf(raw) /\ s \in silver

\* tether_treasury_flow, lines 18-21: a USDT row without a numeric amount fails
\* the build, so no window that holds one succeeds.
WideNeverPasses == \A w \in succeeded : \A s \in Within(w) : content[s] # "wide"

\* The raw table is the insert-only log of InsertOnlyLog.
Raw == INSTANCE InsertOnlyLog
         WITH Keys <- Slots, Payloads <- 0..(2 * NumHours), log <- raw
RawIsInsertOnly == Raw!Spec

\* tether_treasury_flow, lines 10-12: a build replaces the results of its window
\* only. What was counted outside the window stays counted.
Counted(g, h) == IF g[h] = None THEN {} ELSE g[h].counted
OnlyTheWindowIsReplaced ==
  [][\A h \in Hours : Counted(gold, h) \ Within(window) \subseteq Counted(gold', h)]_vars

\* tether_treasury_flow_quality_summary, lines 3-4 and 10-12: the summary shows the
\* gold results of the window that has just been built. It finds them by the start
\* of the interval they come from, which is that of the run that first stored them.
\* (Windows on the hour only: a window that overlaps an earlier one does not find
\* what that one stored.)
SummaryShowsWindow ==
  stage = "goldTests" =>
    \A s \in Within(window) : content[s] = "flow" =>
      window.from <= gold[HourOf(s)].source /\ gold[HourOf(s)].source < window.to

\* Every DAG run ends, with success or without, so that max_active_runs = 1 lets
\* the next one start.
RunsEnd == stage # "idle" ~> stage = "idle"

===============================================================================
