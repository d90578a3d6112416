# Verification of the Ethereum log pipeline

TLA+ models of the hourly pipeline in this repository (`src/cryptoquant_pipeline`,
`airflow/dags/ethereum_hourly_logs.py`, `dbt/`), TLC configurations that check them on
small instances, and TLAPS proofs for every value of the constants. Paths below are those
of the repository; `package/` abbreviates `src/cryptoquant_pipeline/`.

    tlc -config MCBlockRange.cfg BlockRange      # model-check one module
    tlapm BlockRange_proofs.tla                  # check its proofs

## 1. The system

Once an hour Airflow starts a DAG run for the UTC hour `[start, end)`. Its one task calls
`run_interval`, a sequential program with no persistent state of its own, which moves that
hour through five stages. Each stage reads or writes something outside the process, and
the process may fail at each of them.

    Airflow --run--> resolve --> collect --> normalize --> write --> dbt build
                        |           |                        |          |
                      node        node                  Delta table   DuckDB

| Component | State | Operations | Correct when |
|---|---|---|---|
| Block range resolution, `package/block_range.py` | locals of two binary searches, the timestamp cache | look a block up by number; expand back from the finalized head; find the oldest block served after an HTTP 403; find the first block at or after a time | the range is exactly the blocks of the interval; an interval is refused only for the reason given; the search ends |
| Log collection, `package/log_collector.py`, `package/chunking.py` | the recursion over halved ranges, the logs so far | cut into chunks, ask, halve on `RetryableRpcError`, give up at one block | every block once, in order; bounded requests |
| JSON-RPC client, `package/rpc_client.py` | `_last_request_at`, the attempt | rate limit, POST, classify, back off, retry | the provider's rate is kept; only transient errors are retried, at most `max_retries` times |
| Raw table writer, `package/delta_writer.py` | the Delta table | validate, drop duplicates of the batch, read keys, append or create, count | one row per natural key whatever is run again; nothing stored is lost or replaced |
| Interval pipeline, `package/pipeline.py` | none between attempts | the five stages in order; `recent_finalized` chooses its own window | an error leaves a state from which running the window again succeeds |
| Airflow DAG, `airflow/dags/ethereum_hourly_logs.py` | DAG run, try number (in Airflow) | schedule, trigger with conf, retry, fail at once on a terminal error | one active run; every run ends; transient failures are retried |
| dbt models and tests, `dbt/` | silver, gold tables; summary view | delete+insert of a window, whole-table tests | a published gold row counts every treasury transfer of its hour |
| dbt runner, `package/dbt_runner.py` | the dbt process | hand settings and window over, start, time out, kill | any failure is `DbtBuildError`; a success is a finished build of this window with the settings that were validated |
| Log normalizer, `package/log_normalizer.py` | none | one RPC log to one raw row; decode a uint256 | every number survives every conversion, or the row is refused; a malformed log is counted, not skipped |
| Configuration and provider, `package/config.py`, `package/provider.py`, `dbt/dbt_project.yml` | the environment | read with default, blank and fallback; validate | both programs that read one variable make the same of it |
| Quality checks, scripts, notebooks, `package/quality_checks.py`, `scripts/`, `src/notebooks/` | what they have read so far | open raw table and database, count, conclude; collect a window and write it twice | a verdict is true of the history although the DAG writes meanwhile; a replay shows what the writer does |
| Deployment, `Dockerfile`, `docker-compose.yaml` | | | not modelled; see section 6 |

They interact by calls and, between runs, through the three tables. What is hard:

* **Failure between two commits.** Raw, silver and gold are committed one after the other.
  A worker may die, or a library may raise, before or after each commit is visible; the next
  attempt starts from the first stage, and a terminal error ends the run with the tables as
  they are until somebody runs the window again.
* **Replays and overlapping windows.** A window comes from the schedule, from a retry, from
  `conf`, or (`recent_finalized`) from the finalized head. The raw table keeps the first row
  of a key, silver replaces events, gold replaces *hours*.
* **Two layers of retry, and a splitting in between.** The client retries a request, the
  collector halves its range, Airflow retries the task. Which of them happens is decided by
  the class of the error, which is decided by words in the provider's message.
* **A moving outside.** The finalized head advances, and the provider's window of history
  slides forward while a search is running.
* **No locking.** The writer reads keys and appends without a transaction around them;
  `max_active_runs=1` is all that keeps a second writer out. DuckDB does lock its file: a dbt
  process that outlives its worker, or a notebook with the file open, keeps the next build out.
* **Two readers of everything.** The environment is read by `config.py` and by dbt, an amount is
  decoded by Python and by SQL, the tables are read by the DAG and by the notebooks, in two
  steps, while they change.

`PROJECT.json` lists each of these hazards at its line with the properties that cover it.

## 2. The modules

| Module | Models | Variables and what they are in the code |
|---|---|---|
| `BlockRange` | `resolve_interval_block_range` and everything it calls | `pc` where the function is; `step`, `newestOk`, `left`, `right`, `found` its locals; `cache` the `timestamp_cache`; `chain`, `finalized`, `oldest` the node |
| `LogCollector` | `collect_raw_logs`, `_collect_chunk`, `iter_block_chunks` | `pending` the recursion stack: the range asked for next and the right halves callers still hold; `chunkStart` the generator; `collected` the list returned |
| `RpcClient` | `EthereumJsonRpcClient._request` and its helpers | `lastRequestAt` is `_last_request_at`; `now` the monotonic clock; `phase`, `attempt` the loop; `errors`, `erroredAt`, `firstAt`, `posts` are history |
| `InsertOnlyLog` | abstract: what the raw table promises | `log`, a set of key and payload |
| `DeltaWriter` | `write_ethereum_logs_insert_only`, executed by several tasks one after another | `exists`, `rows` the table; `existed`, `keysRead` are `table_exists`, `existing_keys`; the rest is the `DeltaWriteResult` |
| `Pipeline` | the DAG, `run_interval`, silver and gold | `stage` where the attempt is; `window`, `attempt`, `lastHour` Airflow's; `raw`, `silver`, `gold` the tables; `succeeded` history |
| `FetchSession` | the RPC session of an attempt, of the smoke script, of notebooks 01 and 02: `LogCollector`, extended by the calls of an `RpcClient` | their variables, and `stage` the call to make next, `inFlight`; `logBlocks`, `timed` the two sides of `_load_block_timestamps`; `earlierPosts`, `earlierFirst` the client that was closed |
| `Normalizer` | `log_normalizer.py` and the writer's uint256 contract, as operators | none |
| `RowPath` | a log from the provider's answer to the gold total, and the dbt tests | `received`, `configs` each run's answer and settings; `rows` the run's normalized rows; `raw`, `silver`, `gold` the tables; `sample` what a script decoded |
| `Settings` | `config.py`, `provider.py`, the variables of the DAG and of `dbt_project.yml`, as operators | none |
| `Task` | a task from its trigger to the end of its dbt process | `env`, `trigger`; `mode`, `window`, `settings` locals of the attempt; `processes`, `child` the dbt processes; `built`, `written`, `reported` history |
| `Evidence` | notebook 04, `inspect_outputs.py`, `quality_checks.py` beside the running DAG; the scripts that write twice | `pairs` raw table and database of each name; `readers` DuckDB's lock; `inventory`, `selected`, `raw`, `downstream`, `verdict` the notebook's globals; `scratch` the scripts' table |
| `MCDeltaWriter`, `MCTask`, `MCEvidence` | | definitions of constants for TLC |
| `*_proofs` | theorems about the module of that name; those about `LogCollector` are in `FetchSession_proofs` | |

**BlockRange.** One action per lookup. A block number is looked up in the cache first, else
the node answers if the block is in its window (`Answered`), answers 403 (`Forbidden`), or
fails for good (`LookupFails`). `WindowSlides` moves the window between any two lookups. The
actions `Expand...`, `Oldest...`, `Probe...` are the branches of the three loops.

**LogCollector.** A block number stands for the logs of that block. `RequestAnswered`, `Split`,
`GiveUp` and `RequestRaises` are the four outcomes of one `eth_get_logs` call, after the
client's own retries. `Split` replaces the head of `pending` by its two halves, which is the
order in which the recursive calls run.

**RpcClient.** `SendPost` is `_rate_limit` with the POST behind it, `Answered` and `Failed` are
the outcomes of `_request_once`, `SleepBeforeRetry` the back-off. An error message is the set
of the marker words it contains, every set being possible, so that the order in which
`_classify_rpc_error` looks for them matters as it does in the code.

**DeltaWriter.** Reading keys (`ReadTable`) and appending (`Commit`) are separate steps. `Crash`
may come between any two; `LibraryFails` fails before or after the commit. `SlotFree` is
`max_active_runs = 1`. Validation is modelled as one kind of malformed row. Its refinement
mapping to `InsertOnlyLog` forgets which execution a row came from.

**Pipeline.** Time is counted in half hours, so a window of one hour can start on the hour or
not. Each half hour holds no event, a treasury transfer (`flow`), or a USDT transfer that
`DECIMAL(38,0)` cannot hold (`wide`). The stages are those of `run_interval`; `Resolve`,
`Collect` and `Write` do what `BlockRange`, `LogCollector` and `InsertOnlyLog` guarantee.
`ResolveRaises`, `CollectRaises`, `WriteRaises`, `DbtRaises` and `AttemptBreaks` raise what
these stages can raise (`AttemptBreaks`: a killed worker, or a library's own exception); `Fails` is the task's except clause and Airflow's retry. A manual
backfill of an hour, a cleared task and a `conf` window on the hour are all `TriggerConf`.

**FetchSession.** `StartCall` begins one call of the client, `CallGoesOn` is any step of
`RpcClient`, and the actions after them say what the caller does with the result: `LogsAnswered`,
`LogsFailed` and `LogsRefused` are steps of `LogCollector` with the outcome the client gave, so
`Split` and `GiveUp` happen for the error classes the client really raises. How many blocks the
resolution looks up and which range it finds is left open here; `BlockRange` has it. Seen without its client a
session is a behaviour of `LogCollector`, which is stated as a refinement (`ImplementsLogCollector`). The module
extends `LogCollector`, so `Init`, `Next` and `Spec` are the collector's there, and the session's are `SessionInit`,
`SessionNext` and `SessionSpec`.

**Normalizer, RowPath.** A log is a record of the distinctions the code makes: what `int(x, 16)`
and the prefix test say of a string, which topics there are, whether the data is a uint256 word. Its
amount is a number; texts are sequences of digits, and each conversion is defined by what it does:
`DecimalText` is Python's `str`, `Shift` the SQL that moves the decimal point inside the text, `Cast`
its cast, `Denoted` the number a text means; `TenTo` is a power of ten. The field `window` of an element stands
for its block number, of which only the run's range it lies in matters. An answer is any set of elements, at most
one thing odd about each. The properties compare gold with the *answer*, past all conversions.

**Settings, Task.** A variable is unset, empty, spaces, a number, NaN, a word; each reader is an
operator over it. `StartAttempt` is `_run_from_context`, `ReadSettings` is
`PipelineSettings.from_env`, `CollectAndWrite` is everything up to dbt in one step, `DbtReturned`,
`DbtTimesOut` and `DbtMissing` are the ends of `run_dbt_build`. A dbt process is an element
of `processes` and takes its own steps; `WorkerKilled` ends the attempt and may leave it behind.

**Evidence.** Each cell of notebook 04 that reads a file is an action, as are opening and closing a
database; between any two of them the DAG may take a step. Time is counted in half hours. `DagWrites` writes any
window that has ended: a whole hour, as the schedule and Airflow's data interval have it, an hour off the hour
(`conf`), or a window of any length (`recent_finalized`). A row is labelled (`interval_start_utc`) by the start of the
window that first brought it in, and the notebook's gap query (`Gaps`) sees the labels only. A pair of another
name may hold what an earlier version of the program left. A raw table is a set of rows, of which a
number tells apart those with the same natural key, so that duplicates can exist in what was left. The live
table may itself be inherited, then without duplicates, since only the insert-only writer ever wrote to it
(`Inherited`); a leftover says which windows were written to it, and those count as collected. The replay scripts share no file with the rest.

Definitions whose comment begins with *Mutant* are not part of a model. Each is a variant of
the definition that follows it, with a plausible bug; the project records, for each property,
a variant that makes TLC report that property violated.

## 3. What TLC checks

| Configuration | Instance | Shows |
|---|---|---|
| `MCBlockRange` | every chain of 6 blocks with timestamps 0..7, every finalized head, interval, and provider window | `RangeIsInterval`: a resolved range is exactly the interval's blocks. `RefusalsAreJustified`: unfinalized, empty and out-of-reach intervals are refused only when they are. `Terminates` |
| `MCLogCollector` | every range in 0..12, chunk sizes 0..11, every pattern of failures | `CollectedInOrder`, `RequestsAcceptable`, `RequestBudget` (fewer than two requests per block), `Terminates` |
| `MCRpcClient` | two calls, two retries each, every error body, every delay up to the bounds | `RateBounded` over the client's life, `RetryPolicy`, `BackoffHonoured`, `CallsEnd` |
| `MCRpcRateLimit` | same | violated: `RateLimitIsRetried` (section 5) |
| `MCDeltaWriter` | three executions, two keys, two payloads, batches of up to two rows, malformed rows | `NoDuplicateKeys`, `ReportedIsStored`, `CountsAddUp`, and `ImplementsInsertOnlyLog` as a refinement |
| `MCPipeline` | two hours, one retry, three DAG runs, windows on the hour | `NoPartialHour`, `SucceededIsPublished`, `SummaryShowsWindow`, `OnlyTheWindowIsReplaced` |
| `MCPipelineOverlap` | two hours, one retry, two runs, shifted and recent windows beside the schedule, with fairness | `SucceededIsStored`, `WideNeverPasses`: what overlapping windows do not disturb; `RunsEnd` |
| `MCFetchSession` | every range in 0..2, chunks of 2, two lookups, one retry, every error body, all five sessions | `PostBudget`: retries, halving and timestamps multiplied; `RateBounded` over two clients; `DoneIsComplete`; `GiveUpIsJustified`; `ImplementsLogCollector` as a refinement |
| `MCRowPath` | two runs, two elements in all, three decimal digits for 38 and two for 28, settings changed in between | `GoldIsExact`, `SucceededIsCounted`, `StoredIsWhole`, `DbtFailsForCause`, `SamplesAgree` |
| `MCTask` | 97 environments, ten triggers, two runs, one retry | `SuccessIsBuilt`, `BuildSeesWhatWasValidated`, `LockedOutByOrphanOnly` |
| `MCEvidence` | three hours, two chains, runs for two whole hours, a window off the hour and a recent one, two pairs, five leftovers | `ContinuityIsReal`, `UsableStaysUsable`, `ReplayIsStable` |
| `MCPipelineShifted` | two hours, whole hours and windows off the hour | violated: `OnlyTheWindowIsReplaced` (section 5) |

Four more configurations are counterexample searches for statements that the code does not keep. They are not among the
runs `PROJECT.json` records; each ends within seconds with a behaviour that section 5 describes:

    tlc -config MCPipelineSummary.cfg    Pipeline     # SummaryShowsWindow, with windows off the hour
    tlc -config MCRowPathInvalid.cfg     RowPath      # InvalidStoresNothing
    tlc -config MCEvidenceContinuity.cfg MCEvidence   # VerifiedMeansCollected
    tlc -config MCEvidenceGapError.cfg   MCEvidence   # VerifiedMeansQueried

`ContinuityIsReal` says what remains true of the notebook's "VERIFIED" for windows of every kind: an hour in which no
collected window begins is in a reported gap; every log of a window that begins in a reported hour is stored under
the label of another hour; and if every window was a whole hour, everything between the first label and the last was collected. It does
not say that of the other windows, for which it is false.

**Bounds.** Six blocks are enough for the exponential expansion to take three steps (1, 2, 4),
to overshoot block 0, to be cut short by a 403 at each of them, and for both binary searches
to have an even and an odd length; 0..7 leaves gaps before, inside and after an interval. A
chunk of up to 10 blocks is the real constant, and 13 blocks make a second chunk of every
size up to 3 or, with smaller chunks, more of them; halving 10 blocks reaches ranges of 5, 3,
2 and 1. In `RpcClient` the minimal interval is larger than the first back-off and than an
answer's latency, so that both the limiter and the back-off have to wait; two calls show that
the limiter spans calls. Three executions are a first writer, its retry, and a later one; with
two keys a batch can hold a duplicate, a conflict, or a new row beside a stored one. Two hours
are a window and its neighbour, with a shifted window covering half of each, and three runs
are a failure, a replay and a run for the other hour. In `FetchSession` one retry, two
lookups and three blocks give a range that is halved, a chunk that is not the last, a call
that follows one that failed, and a session of up to 24 POSTs. In `RowPath` two elements make two directions,
two transfers of one direction, a good beside a bad element, or one run each; 999 and 1000 sit on both sides of the
largest SQL number, two transfers of 999 add up to more, 7 and 0 are shorter than the decimals, and
both have more digits than `Precision`. In `Task` a run may be killed, leave its dbt behind and be
followed by a retry or another run, which may time out; the environments differ from the default in one
variable, or two that are read together. In `Evidence` three hours are the least with a gap
between two stored hours. A behaviour begins with two of them over (`Start`) and the third one ends in it, so that the
DAG has windows to write before a read and between two; `Triggered` has every kind of window, two that overlap, two that
begin in one hour, and one (`[1, 3)`) under whose label the next hour's log is stored; `Overrides` is the one path the
notebook's variables may name. No time passes in a behaviour that runs a script, since scripts share nothing with the
rest, and the live pair may start as the leftover of an earlier version only if the other pair is
missing. Deadlock is checked in every
configuration: each module has a stuttering action for the states in which the program has
finished. `LogCollector`, `FetchSession`, `DeltaWriter` and `Pipeline` state a `TypeOK` that is proved and not run. `MCDeltaWriter` uses symmetry in keys and payloads, which its model only compares
for equality; it checks no liveness.

**Fairness.** `BlockRange`, `LogCollector` and `RpcClient` have weak fairness of the program's
own steps: a sequential program whose requests return within their timeout. A call of the
client by its caller is not fair: nobody has to make one. `Pipeline`'s `FairSpec` (`MCPipelineOverlap`) assumes that
Airflow starts a waiting attempt and that the worker goes on or dies (`Attempt`), that the
clock advances and that the finalized head follows. Nothing is assumed about success.
`TimePasses` and `HeadFinalizes` stop at the last half hour; they are needed because a
`recent_finalized` run looks for a finalized block first. The other modules state no liveness and no fairness.

**Assumed of the outside.** Block timestamps strictly increase and blocks below the finalized
head do not change; an answer of `eth_getLogs` is complete; one Delta commit, and the
delete+insert of one dbt model, appears at once or not at all; Airflow honours
`max_active_runs` also for runs started by hand, and skips hours that ended during another
run because `catchup=False`. DuckDB lets one process write or several read a file, and a process
that finds it locked exits with an error. `Pipeline` assumes that a dead worker leaves no dbt process
behind; `Task` does not, and shows what then remains true.

## 4. What is proved

Each proof module has the same shape: the initial states satisfy an inductive invariant
`IInv`, every step preserves it (one step of the proof per action), it implies the property,
and PTL turns that into a statement about behaviours. Assumptions on the constants are the
named ones in the modules.

* `BlockRange_proofs`: `TypeCorrect`, `RangeCorrect`, `RefusalsCorrect` for every chain length,
  chain, interval and provider window; and `AdjacentIntervalsTile`: the ranges of
  `[a, b)` and `[b, c)` on one chain are adjacent, so no block is in both hours or in neither.
  `RangeIsInterval` speaks of the final state only. `IInv` adds, phase by phase, what the
  search has established: in `expand`, that a known block lies no further back than the step
  (`ExpandInv`); in `oldest`, that `found` is known, next to the right bound, and that every block
  left of the left bound is refused (`OldestInv`); in `first`, that every block left of `left` is
  before the goal and `found`, right of `right`, and all after it are not (`FirstInv`). The
  monotonicity of timestamps carries a fact about one probe to all blocks on its side.
* `RpcClient_proofs`: `TypeCorrect`, `RateHolds`, `RetryPolicyHolds` and `BackoffHolds` for every
  interval, retry count, back-off and delay. `IInv` ties the number of errors to `attempt` phase by
  phase. `DelayInv` adds, for the back-off, that a client which sleeps or has slept after an error does not
  post before the delay of that error is over; the delay is a natural number because jitter and back-off are.
* `DeltaWriter_proofs`: `InvariantHolds`, `TypeCorrect`, `NaturalKeyUnique`, `ReportedStays`, `CountsHold`,
  and `WriterImplementsLog` (`Spec => ImplementsInsertOnlyLog`) for every set of keys, payloads,
  executions and batches. `IInv` says that no two executions are active (`OneActive`) and that what the active one
  read is still true when it commits (`ReadIsCurrent`). The second needs the first, and the first is
  exactly `max_active_runs = 1`: without `SlotFree` these properties fail, and TLC shows how.
  `ReportInv` is the strengthening for the reports: what a finished execution wrote is in the table for good.
  It rests on two lemmas about the batch: the first row of each key exists and is unique
  (`FirstOccurrence`, by well-foundedness of the positions), and there are no more new rows than rows.
* `FetchSession_proofs`, first about `LogCollector` alone: `CollectionTypes`, `CollectionComplete`, `RequestsCorrect`
  and `CollectionBudgetHolds` for every range, every chunk size and every pattern of failures. `CollectedInOrder` is not
  inductive, because it does not say that the next
  range to be asked for begins where the collected blocks end. `PendingTiles` does: the pending
  ranges are adjacent and reach from the frontier to the end of the current chunk. `Charged` is the
  amortised count behind the budget: an answered range of n blocks pays 2n - 1 requests, and a split
  adds one pending range for the request it cost.
  Then about sessions: `GiveUpJustified`, `RateHolds`, `SessionCollects` with `SessionCollectsInOrder`, `SessionCalls`,
  `DoneCompletes`, `PostsBounded` and `SessionTypes` for every range, chunk size, rate, retry count and sequence of answers.
  `SessionCollects` is the refinement: a step of the session is a step of `LogCollector` or leaves the
  collection alone, because the client raises only classes the collector knows (`EveryFailureHasAClass`).
  `SessionCalls` says the same of the client, with the exception that it may be replaced by a new one; so the
  invariants of `RpcClient_proofs` do not carry over, while the collector's are the session's too, and `SessionCollectsInOrder`
  follows from the refinement.
  `CallInv` says what a call that raised has behind it:
  as many errors as attempts, and for a transient one all of them. `GiveUpInv` carries that past the end of the
  session: nothing runs after a failure. For the rate, `RateInv` keeps the account of the closed client next to
  that of the open one; they add up because the second client's first POST is not before the first one's
  last (`ClockInv`). The accounts meet with one interval missing for each client, which is the `Clients` in the property.
  `ProgressInv` says stage by stage what the session has: all blocks once collection is over, a timestamp for
  every block that is no longer asked for (it is the least one that is, `LeastUntimed`). For the budget, `CountInv`
  bounds the calls begun so far, stage by stage, where the calls of the collection are those `LogCollector`'s charge
  has paid for, and `CostInv` bounds the POSTs by `MaxRetries + 1` for each call begun. `EveryCallFits` concludes that the model's bound
  `MaxCalls` never keeps a session from a call.
* `Task_proofs`: `SuccessMeansBuilt`, `OnlyOrphansLock` and `BuildSeesValidated`, for every set of
  environments and triggers and any number of runs, retries and orphans. `AttemptInv` says what an attempt has
  settled at each stage, `ProcessInv` that the child of the attempt builds the attempt's window with what
  the attempt validated and that a process reported as built is in `built`; `OrphanInv` that without a killed worker there is
  no process but the attempt's child. The last is what makes the timeout's kill matter.
* `Pipeline_proofs`: for windows of every kind, `TypeCorrect`, `StoredHolds`, `WideStops`, and `RawLog`
  (the raw table of the whole pipeline implements `InsertOnlyLog`). `IInv` says, stage by stage, what the
  attempt has established: from "collect" on the window is finalized, from "silver" on its events are in the
  raw table, from "silverTests" on in silver, from "gold" on silver has passed its tests; and silver holds
  only what the raw table holds. For windows on the hour (`OnlyHours`: no shifted conf window, no
  `recent_finalized` run), `NoHourIsPartial`, `PublishedForGood`, `SummaryIsRight` and `ReplacesItsWindow`.
  `HourInv` adds that the window of an active run is an hour, that a raw row and a gold row come from the
  window of their own hour, and that a gold row counts its whole hour. `GoldFacts` is the core: the build
  writes the row of the window's hour with all its transfers, or nothing. The assumption is needed: without
  it TLC finds the violations of section 5.
* `RowPath_proofs`: `GoldCountsAndSumsExactly`, `NothingIsLeftOut`, `SuccessLeavesNoTransferOut`,
  `BuildsFailForCause` and `DecodersAgree` (and `RowPathInvariant`, which they follow from) for every set of amounts, addresses and
  tokens, every number of logs and runs, every width of the SQL types and every sequence of settings. The
  arithmetic comes first. A digit text and a sum are recursive functions, and the provers know neither that such a
  function exists nor how to do induction on it; `NatRecursion` and `SetRecursion` show the first, and a least
  counterexample (`LeastNat`) stands for the second. From them follow that the decimal text of a number denotes it
  (`DecimalTextMeans`), that the number of its digits is what the width test needs (`DigitsNeeded`), that shifting the
  point in the text and casting gives the amount back (`CastShift`), and that sums are the same along a bijection
  (`SumsMatch`). `IInv` then says of each table what it holds in terms of the *answers*: raw every object of
  an answer without a malformed log or nothing of it (`RawInv`), silver `SilverRow(e)` for each of the window's
  logs (`SilverInv`), gold the count and sum of the treasury's transfers (`GoldInv`, `ExactFlow`). One
  lemma per action keeps it; `FlowIsExact` is the core, where the rows a gold row sums are matched with the
  transfers of the answer. Assumed of the constants: there is a token, an amount, and an address besides the treasury,
  and `Decimals` and `Null` are as in the code.
* `Evidence_proofs`: `ContinuityHolds`, `UsableHolds`, `ReplayHolds` (and `EvidenceInvariant`, which they follow from) and
  `LivePairGrows`, for every chain, number of hours, set of windows the DAG is run for, threshold, leftover and batch. The
  notebook reads the raw table in one step and the database in a later one, and concludes in a third, while the DAG
  goes on; so the properties speak of tables that are no longer what was read. `IInv` has a part for the tables as they
  are (`TableInv`: one row for each key, and the table is explained by the windows collected, `Explains`: a row is labelled by a
  window that holds its log, and the logs of all of them are stored), one for what a tool has seen of them
  (`UsableInv`), and one for the reading as of its time (`ReadInv`). `Grows`, which `LivePairGrows` states of every step,
  connects them: no row of the live table or of a model is ever taken away, so what was seen stays true.
  `GapsAreHoursWithoutLabel` is the lemma behind the notebook's gap query: comparing each label with the next one finds
  all hours without a label between the first and the last, and only those (`NextLabelIsNext`, a least element). What a
  label says of the hour it is in follows from `Explains` (`GapsOfReading`), and only of whole hours that it
  was collected (`WholeHourHolds`). For the scripts `ReplayInv` says that the second write finds all keys of the
  batch, by `InsertOnly`: an insert keeps one row for each key. Assumed of the constants: the tables left behind and the
  batches are finite, and what the content of a half hour may be.

Only model-checked: the liveness properties (`Terminates` of `BlockRange` and of `LogCollector`, `CallsEnd`, `RunsEnd`).
They need fairness, and `ENABLED` with it, which the prover does not handle.
Only proved: `RawLog` (the raw table of `Pipeline` is insert-only), `SessionCalls`, `SessionCollectsInOrder`,
`EveryCallFits`, `AdjacentIntervalsTile`, `LivePairGrows`, and the `TypeOK` of `LogCollector`, `FetchSession`, `DeltaWriter` and
`Pipeline`. What the six configurations that find a violation show is a behaviour, and nothing is proved of it.

## 5. Where the code and its documents disagree

* **`rate_limit_message`.** `_classify_rpc_error` looks for "too many", and for "range" with
  "limit", before it looks for "rate limit". A throttling message that contains those words
  becomes `RpcTooManyResultsError` or `RpcRangeTooLargeError`, which the client does not retry;
  `docs/04` says a rate limit in a provider message is retryable.
* **`shifted_window`.** `_validate_hourly_interval` checks the length of a window and not that it
  starts on the hour. A `conf` window 10:30-11:30 replaces the gold rows of hours 10 and 11 by
  the counts of half of each; the model's header says only the window is replaced. With windows
  on the hour the property holds (`MCPipeline`).

* **`MCEvidenceContinuity`.** Notebook 04 takes a label (`interval_start_utc`) for an hour that was collected, and
  `date_diff('hour', ...)` counts turns of the hour. With hours 0 and 2 run, hour 1 skipped and a
  `recent_finalized` run at 01:35, which is what a manual run is by default (`docker-compose.yaml:26`), the labels 00:00,
  01:35 and 02:00 are one apart each, and the last cell calls the continuity "VERIFIED".
* **`MCEvidenceGapError`.** It does not look at `gap_error` either: a gap query that fails counts as no gaps, and the
  continuity is "VERIFIED", where a missing column makes it one that "cannot be checked".
* **`MCRowPathInvalid`.** `run_interval`'s docstring says that nothing reaches Delta when one source row is invalid.
  Elements of an answer that are no objects are dropped by the client before anything counts them.
  `StoredIsWhole` holds because it speaks of the objects only.
* **`MCPipelineSummary`.** The quality summary finds gold rows by `source_interval_start_utc`. A raw row keeps the
  interval of the run that first brought it in, so a window that overlaps an earlier one publishes a row that its own
  summary does not show. With windows on the hour it does (`MCPipeline`).

Each of these six has a configuration that shows it: the first two are recorded runs, the others the searches of section 3. The following were met while modelling; the models do what the
code does, and where a property had to make room for one, its comment says so.

* When `eth_getLogs` stays rate limited beyond the client's retries the range is split down to one block and
  `LogCollectionError` is raised, which the DAG treats as terminal. `docs/04`, line 13, says that Airflow's
  task retry is the outer retry for this case.
* The DAG's doc says that configuration errors fail without a retry. An address with a digit that is not hex
  (`config.py:248`) and a `conf` bound that is no time (`ethereum_hourly_logs.py:232`) raise `ValueError`,
  which is retried.
* `DBT_USDT_DECIMALS` set to blanks is 6 for `config.py` and 0 for dbt (`BuildSeesWhatWasValidated`
  excepts it). A primary variable of spaces hides its fallback for numbers and not for the provider's texts.
* `ETH_RPC_REQUESTS_PER_SECOND=nan` passes the check for at most 4 requests per second.
* The rate limiter belongs to a client. A `recent_finalized` run makes two clients, so the second one's first
  POST may follow at once; `RateBounded` of `FetchSession` allows one such POST per client.
* `docker-compose.yaml` makes `recent_finalized` the default of manual runs; the DAG's doc calls it a mode for
  development only and says that a manual run takes Airflow's data interval.
* The gold model's header says a change of configuration does not make results collide. They do not, but
  `treasury_flow_integrity` then fails on the older rows in every later build.
* Notebook 04 selects pairs in a fixed order, and says of the one it passed over that it is not the
  freshest. It keeps its connection to DuckDB open, which lets every dbt build fail until the kernel
  ends. It stops with a `TypeError` when silver has rows and raw has none. It calls a table with an extra column current,
  which the writer refuses.
* The smoke script asks for the chain id and does not compare it.

## 6. Not modelled

* `Dockerfile`, `docker-compose.yaml`: container configuration; the defaults that matter are in section 5.
* Lower-casing of addresses, the copying of optional fields, redaction of dbt's output: no property
  depends on them.
* `quality_checks.py`: the metrics that count nulls and ranges of values.
* The notebooks' displays, and notebook 00, which is an index. Notebook 04's daily and hourly series, which it
  displays and does not judge.
* The two dbt tests of unique keys and the summary's columns: the keys are kept unique by the delete+insert the
  models describe.
* `estimate_recent_search_low_block`: no caller.
* What the Delta and DuckDB libraries do inside a commit, among it a first commit that a crash cuts short.

## 7. Plan

Done, in this order, each module with its configuration first and its proofs second:

1. `BlockRange`: everything downstream rests on the range.
2. `LogCollector`, then `RpcClient`.
3. `InsertOnlyLog`, `DeltaWriter` and the refinement.
4. `Pipeline`: the composition, by what the components guarantee, with its proofs for windows of every
   kind and for windows on the hour.
5. `FetchSession`: collector and client composed, then the sessions of scripts and notebooks.
6. `Normalizer` and `RowPath`: the content of a row up to the gold total, and settings that change.
7. `Settings` and `Task`: what two programs make of one environment; orphaned dbt processes; proofs.
8. `Evidence`: readers beside the writer.
9. Proofs of `ReportedIsStored`, `CountsAddUp` and `BackoffHonoured`, then of `GiveUpIsJustified` and
   `RateBounded` for whole sessions.
10. Proofs of `PostBudget` and `DoneIsComplete`; the session as a refinement of `LogCollector`.
11. Proofs about `RowPath`, with the induction its texts and sums need.
12. Proofs about `Evidence`.
