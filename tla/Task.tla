--------------------------------- MODULE Task ---------------------------------
(***************************************************************************)
(* One task of the DAG from the outside: what the trigger and the          *)
(* environment make of it (ethereum_hourly_logs.py, config.py), and the    *)
(* dbt process it starts (dbt_runner.py). Resolving, collecting and        *)
(* writing are one step here; FetchSession and DeltaWriter have them.      *)
(*                                                                         *)
(* A worker that is killed may leave its dbt process running. Two of them  *)
(* meet at DuckDB's lock: the process that opened the database holds it    *)
(* until it exits, and one that finds it held exits with an error.         *)
(*                                                                         *)
(* Times are half hours.                                                   *)
(***************************************************************************)
EXTENDS Settings, FiniteSets

CONSTANTS MaxTime,      \* bound: half hours of the chain
          Retries,      \* retries of the task (5)
          MaxRuns,      \* bound: DAG runs
          Environments, \* what the operator may configure
          Triggers,     \* the schedule's runs and the operator's
          None

Windows == [from : Int, to : Int]
Bounds  == [form : {"unset", "word", "naive", "number"}, value : Int]

ASSUME TaskAssumption ==
  /\ Triggers \subseteq [manual : BOOLEAN, interval : Windows, start : Bounds, end : Bounds]
  /\ \A t \in Triggers : ~t.manual => t.start = Unset /\ t.end = Unset   \* no conf
  /\ \A e \in Environments : e.decimals \in [form : STRING, value : Int]
  /\ MaxTime \in Nat /\ Retries \in Nat /\ MaxRuns \in Nat
  /\ None \notin Int

Times == 0..MaxTime
Window(a, b) == [from |-> a, to |-> b]
Hour(w) == w.to - w.from = 2

VARIABLES
  env,                      \* the environment
  trigger, runs,            \* the active DAG run; runs started
  stage, attempt,           \* where its attempt is
  mode, window, settings,   \* what the attempt settled on, while it lasts
  written,                  \* windows whose logs are in a Delta table
  processes, child,         \* dbt processes; the attempt's own
  started,                  \* dbt processes started
  built,                    \* windows built to the end, from which table into which
  reported,                 \* history: attempts that ended with success
  orphaned, lockedOut       \* history: a worker left its dbt, a dbt met the lock

attemptVars == <<mode, window, settings>>
dbtVars     == <<processes, child, started, built, lockedOut>>
historyVars == <<written, reported, orphaned>>
vars == <<env, trigger, runs, stage, attempt, attemptVars, dbtVars, historyVars>>

TerminalErrors == {"ConfigError", "DbtBuildError", "DeltaWriteError"}

-------------------------------------------------------------------------------
Init ==
  /\ env \in Environments
  /\ trigger = None /\ runs = 0
  /\ stage = "idle" /\ attempt = 0
  /\ mode = "none" /\ window = None /\ settings = None
  /\ written = {} /\ processes = {} /\ child = 0 /\ started = 0
  /\ built = {} /\ reported = {}
  /\ orphaned = FALSE /\ lockedOut = FALSE

Forgets == mode' = "none" /\ window' = None /\ settings' = None

Fails(e) ==
  /\ Forgets
  /\ IF e \in TerminalErrors \/ attempt = Retries
       THEN stage' = "idle" /\ UNCHANGED attempt
       ELSE stage' = "waiting" /\ attempt' = attempt + 1

GoesOn(s) == stage' = s /\ UNCHANGED attempt

\* The schedule and the operator.
Trigger ==
  /\ stage = "idle" /\ runs < MaxRuns
  /\ trigger' \in Triggers
  /\ runs' = runs + 1
  /\ stage' = "waiting" /\ attempt' = 0
  /\ UNCHANGED <<env, attemptVars, dbtVars, historyVars>>

-------------------------------------------------------------------------------
(* _run_from_context *)

is_manual_run == trigger.manual
HasConf == trigger.start.form # "unset" \/ trigger.end.form # "unset"
ConfWindow == Window(trigger.start.value, trigger.end.value)

\* Both bounds, each a time with a zone, one hour apart; a text that is no time is
\* the ValueError of fromisoformat, in the order the bounds are read.
ConfError ==
  IF "unset" \in {trigger.start.form, trigger.end.form} THEN "ConfigError"
  ELSE IF trigger.start.form = "word" THEN "ValueError"
  ELSE IF trigger.start.form = "naive" THEN "ConfigError"
  ELSE IF trigger.end.form = "word" THEN "ValueError"
  ELSE IF trigger.end.form = "naive" \/ ~Hour(ConfWindow) THEN "ConfigError"
  ELSE "none"

\* _manual_run_mode: only an unset variable has a default.
ManualMode == env_var(env.manualMode, Text("data_interval")).form

RecentError ==
  IF ReadsInt(env.recentWindow, 120, 1) /\ ReadsInt(env.recentLag, 0, 0) THEN "none"
  ELSE "ConfigError"

ChooseMode ==
  IF HasConf THEN [mode |-> "conf_window", error |-> ConfError]
  ELSE IF is_manual_run /\ ManualMode \notin {"data_interval", "recent_finalized"}
    THEN [mode |-> "none", error |-> "ConfigError"]
  ELSE IF is_manual_run /\ ManualMode = "recent_finalized"
    THEN [mode |-> "recent_finalized", error |-> RecentError]
  ELSE [mode |-> "data_interval",
        error |-> IF Hour(trigger.interval) THEN "none" ELSE "ConfigError"]

StartAttempt ==
  /\ stage = "waiting"
  /\ IF ChooseMode.error # "none" THEN Fails(ChooseMode.error)
     ELSE /\ mode' = ChooseMode.mode
          /\ window' = CASE mode' = "conf_window"   -> ConfWindow
                         [] mode' = "data_interval" -> trigger.interval
                         [] OTHER                   -> None
          /\ GoesOn("settings")
          /\ UNCHANGED settings
  /\ UNCHANGED <<env, trigger, runs, dbtVars, historyVars>>

\* PipelineSettings.from_env, anew in each attempt.
ReadSettings ==
  /\ stage = "settings"
  /\ IF SettingsError(env) = "none"
       THEN settings' = from_env(env) /\ GoesOn("window") /\ UNCHANGED <<mode, window>>
       ELSE Fails(SettingsError(env))
  /\ UNCHANGED <<env, trigger, runs, dbtVars, historyVars>>

\* A recent window ends some time before the finalized head.
FindWindow ==
  /\ stage = "window"
  /\ IF mode = "recent_finalized"
       THEN \E a, b \in Times : a < b /\ window' = Window(a, b)
       ELSE UNCHANGED window
  /\ GoesOn("pipeline")
  /\ UNCHANGED <<env, trigger, runs, mode, settings, dbtVars, historyVars>>

-------------------------------------------------------------------------------
(* run_interval *)

CollectAndWrite ==
  /\ stage = "pipeline"
  /\ written' = written \cup {[delta |-> settings.delta, window |-> window]}
  /\ GoesOn("dbt")
  /\ UNCHANGED <<env, trigger, runs, attemptVars, dbtVars, reported, orphaned>>

PipelineRaises ==
  /\ stage = "pipeline"
  /\ \E e \in {"RetryableRpcError", "DeltaWriteError"} : Fails(e)
  /\ UNCHANGED <<env, trigger, runs, dbtVars, historyVars>>

StartDbt ==
  /\ stage = "dbt"
  /\ started' = started + 1 /\ child' = started'
  /\ processes' = processes \cup
       {[id |-> child', state |-> "starting", window |-> window, uses |-> BuildEnv(env),
         validated |-> settings, decimals |-> env.decimals]}
  /\ GoesOn("build")
  /\ UNCHANGED <<env, trigger, runs, attemptVars, built, lockedOut, historyVars>>

\* subprocess.run cannot start dbt_bin.
DbtMissing ==
  /\ stage = "dbt"
  /\ Fails("DbtBuildError")
  /\ UNCHANGED <<env, trigger, runs, dbtVars, historyVars>>

\* _result_payload: what an attempt that succeeds reports.
Payload == [trigger |-> trigger, mode |-> mode, window |-> window, settings |-> settings]

\* Mutant: the exit code is not looked at.
DbtIgnored ==
  /\ stage = "build"
  /\ \E p \in processes :
       /\ p.id = child /\ p.state \in {"built", "failed"}
       /\ processes' = processes \ {p}
  /\ reported' = reported \cup {Payload}
  /\ stage' = "idle" /\ Forgets /\ child' = 0
  /\ UNCHANGED <<env, trigger, runs, attempt, started, built, lockedOut, written,
                 orphaned>>

DbtReturned ==
  /\ stage = "build"
  /\ \E p \in processes :
       /\ p.id = child
       /\ processes' = processes \ {p}
       /\ \/ /\ p.state = "built"
             /\ reported' = reported \cup {Payload}
             /\ stage' = "idle" /\ Forgets /\ UNCHANGED attempt
          \/ p.state = "failed" /\ Fails("DbtBuildError") /\ UNCHANGED reported
  /\ child' = 0
  /\ UNCHANGED <<env, trigger, runs, started, built, lockedOut, written,
                 orphaned>>

\* Mutant: the process that takes too long is left alone.
DbtAbandoned ==
  /\ stage = "build"
  /\ \E p \in processes : p.id = child /\ p.state \in {"starting", "building"}
  /\ child' = 0
  /\ Fails("DbtBuildError")
  /\ UNCHANGED <<env, trigger, runs, processes, started, built, lockedOut,
                 historyVars>>

\* DBT_BUILD_TIMEOUT_SECONDS: subprocess.run kills the process before it raises.
DbtTimesOut ==
  /\ stage = "build"
  /\ \E p \in processes :
       p.id = child /\ p.state \in {"starting", "building"} /\ processes' = processes \ {p}
  /\ child' = 0
  /\ Fails("DbtBuildError")
  /\ UNCHANGED <<env, trigger, runs, started, built, lockedOut, historyVars>>

\* External: the worker dies. Its dbt process may outlive it.
WorkerKilled ==
  /\ stage \notin {"idle", "waiting"}
  /\ Fails("Killed")
  /\ child' = 0
  /\ \/ UNCHANGED processes /\ orphaned' = (orphaned \/ child # 0)
     \/ processes' = {p \in processes : p.id # child} /\ UNCHANGED orphaned
  /\ UNCHANGED <<env, trigger, runs, started, built, lockedOut, written,
                 reported>>

-------------------------------------------------------------------------------
(* A dbt process. *)

Locked(path) == \E p \in processes : p.state = "building" /\ p.uses.duckdb = path

\* An ended process is known to its parent only.
Becomes(p, state) ==
  processes' = (processes \ {p}) \cup
    IF state = "building" \/ p.id = child THEN {[p EXCEPT !.state = state]} ELSE {}

DbtOpens(p) ==
  /\ p.state = "starting"
  /\ IF Locked(p.uses.duckdb)
       THEN Becomes(p, "failed") /\ lockedOut' = TRUE
       ELSE Becomes(p, "building") /\ UNCHANGED lockedOut
  /\ UNCHANGED built

DbtBuilds(p) ==
  /\ p.state = "building"
  /\ Becomes(p, "built")
  /\ built' = built \cup {[delta |-> p.uses.delta, duckdb |-> p.uses.duckdb, window |-> p.window]}
  /\ UNCHANGED lockedOut

\* A model or a test fails, or the process dies.
DbtFails(p) ==
  /\ p.state \in {"starting", "building"}
  /\ Becomes(p, "failed")
  /\ UNCHANGED <<built, lockedOut>>

Dbt ==
  /\ \E p \in processes : DbtOpens(p) \/ DbtBuilds(p) \/ DbtFails(p)
  /\ UNCHANGED <<env, trigger, runs, stage, attempt, attemptVars, child, started,
                 historyVars>>

-------------------------------------------------------------------------------
Finished == stage = "idle" /\ runs = MaxRuns /\ UNCHANGED vars

Next ==
  \/ Trigger \/ StartAttempt \/ ReadSettings \/ FindWindow
  \/ CollectAndWrite \/ PipelineRaises \/ StartDbt \/ DbtMissing
  \/ DbtReturned \/ DbtTimesOut \/ WorkerKilled \/ Dbt
  \/ Finished

Spec == Init /\ [][Next]_vars

-------------------------------------------------------------------------------
\* The window a trigger asks for: a conf wins; a scheduled run takes its data
\* interval; a manual one that, or what the provider has finalized last. Only the
\* last may be other than an hour long.
Asks(t, m, w) ==
  IF t.start.form # "unset" \/ t.end.form # "unset"
    THEN m = "conf_window" /\ t.start = Number(w.from) /\ t.end = Number(w.to) /\ Hour(w)
    ELSE (m = "data_interval" /\ w = t.interval /\ Hour(w)) \/ (m = "recent_finalized" /\ t.manual)

\* A task that reports success has done what its trigger asked for: the logs of that
\* window are in the table the settings name, and a dbt build of that window, from
\* that table into the configured database, ran to its end, whatever builds other
\* attempts left behind.
SuccessIsBuilt ==
  \A r \in reported :
    /\ Asks(r.trigger, r.mode, r.window)
    /\ [delta |-> r.settings.delta, window |-> r.window] \in written
    /\ [delta |-> r.settings.delta, duckdb |-> r.settings.duckdb, window |-> r.window] \in built

\* Two programs read one environment: what config.py validated is what the dbt
\* process works with, except for decimals that are set to a blank text, for which
\* config.py takes 6 and dbt_project.yml 0.
BuildSeesWhatWasValidated ==
  \A p \in processes :
    /\ p.uses.delta = p.validated.delta /\ p.uses.duckdb = p.validated.duckdb
    /\ p.uses.token = p.validated.token /\ p.uses.treasury = p.validated.treasury
    /\ \/ Number(p.uses.decimals) = p.validated.decimals
       \/ p.decimals.form \in {"empty", "spaces"}

\* A build finds the database locked only by the dbt process of a worker that was
\* killed: a build that timed out or failed is gone before the next run starts.
LockedOutByOrphanOnly == lockedOut => orphaned

===============================================================================
