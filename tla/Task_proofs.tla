------------------------------ MODULE Task_proofs ------------------------------
(***************************************************************************)
(* For every environment, every trigger, every number of retries and       *)
(* however often workers die: a task that reports success has built what   *)
(* its trigger asked for, a dbt process works with what was validated, and *)
(* only the dbt process of a killed worker locks another one out.          *)
(***************************************************************************)
EXTENDS Task, TLAPS

Processes ==
  [id : Nat, state : {"starting", "building", "built", "failed"}, window : Windows,
   uses : {BuildEnv(env)}, validated : {from_env(env)}, decimals : {env.decimals}]

BuildOf(p) == [delta |-> p.uses.delta, duckdb |-> p.uses.duckdb, window |-> p.window]

(* What the attempt has settled on, stage by stage. *)
ModeInv ==
  IF mode = "recent_finalized" THEN ~HasConf /\ trigger.manual
  ELSE Asks(trigger, mode, window) /\ window \in Windows

AttemptInv ==
  /\ env \in Environments
  /\ stage # "idle" => trigger \in Triggers
  /\ stage \in {"settings", "window"} => ModeInv
  /\ stage \in {"window", "pipeline", "dbt", "build"} =>
       settings = from_env(env) /\ SettingsError(env) = "none"
  /\ stage \in {"pipeline", "dbt", "build"} => Asks(trigger, mode, window) /\ window \in Windows
  /\ stage \in {"dbt", "build"} => [delta |-> settings.delta, window |-> window] \in written

(* The dbt processes: their ids are in use, and the attempt's own works on its  *)
(* window.                                                                     *)
ProcessInv ==
  /\ started \in Nat
  /\ child = IF stage = "build" THEN started ELSE 0
  /\ stage = "build" => started > 0
  /\ processes \subseteq Processes
  /\ processes # {} => SettingsError(env) = "none"
  /\ \A p \in processes :
       /\ p.id > 0 /\ p.id <= started
       /\ p.id = child => p.window = window
       /\ p.state = "built" => BuildOf(p) \in built

(* As long as no worker has left one behind, there is at most one process.     *)
OrphanInv ==
  /\ orphaned \in BOOLEAN
  /\ ~orphaned => \A p, q \in processes : p = q /\ p.id = child
  /\ LockedOutByOrphanOnly

IInv == AttemptInv /\ ProcessInv /\ OrphanInv /\ SuccessIsBuilt

LEMMA InitInvariant == Init => IInv
<1> SUFFICES ASSUME Init PROVE IInv
  OBVIOUS
<1>1. AttemptInv
  BY DEF Init, AttemptInv
<1>2. ProcessInv
  BY DEF Init, ProcessInv
<1>3. OrphanInv /\ SuccessIsBuilt
  BY DEF Init, OrphanInv, LockedOutByOrphanOnly, SuccessIsBuilt
<1> QED
  BY <1>1, <1>2, <1>3 DEF IInv

-------------------------------------------------------------------------------
(* A step that ends the attempt, or leaves everything the attempt settled on   *)
(* alone, keeps AttemptInv.                                                    *)
LEMMA EndedAttempt ==
  ASSUME AttemptInv, stage' \in {"idle", "waiting"}, UNCHANGED env,
         trigger' \in Triggers \/ (UNCHANGED trigger /\ stage # "idle")
  PROVE  AttemptInv'
BY DEF AttemptInv

LEMMA FailsEnds == ASSUME NEW e, Fails(e) PROVE stage' \in {"idle", "waiting"}
BY DEF Fails

(* What was reported stays true: the sets it is about only grow.               *)
LEMMA ReportsStay ==
  ASSUME SuccessIsBuilt, UNCHANGED reported, written \subseteq written', built \subseteq built'
  PROVE  SuccessIsBuilt'
BY DEF SuccessIsBuilt, Asks, Hour

(* A step outside the build that starts no process keeps ProcessInv and        *)
(* OrphanInv.                                                                  *)
LEMMA ProcessesStay ==
  ASSUME IInv, UNCHANGED <<env, dbtVars, orphaned>>, stage # "build", stage' # "build"
  PROVE  ProcessInv' /\ OrphanInv'
<1>1. child = 0 /\ \A p \in processes : p.id > 0 /\ p.id # child
  BY DEF IInv, ProcessInv, Processes
<1>2. /\ processes' = processes /\ child' = child /\ started' = started /\ built' = built
      /\ lockedOut' = lockedOut /\ orphaned' = orphaned /\ env' = env
  BY DEF dbtVars
<1>3. ProcessInv'
  BY <1>1, <1>2 DEF IInv, ProcessInv, Processes, BuildOf
<1>4. OrphanInv'
  BY <1>2 DEF IInv, OrphanInv, LockedOutByOrphanOnly
<1> QED
  BY <1>3, <1>4

(* The attempt's process is gone from the list, whether it ended or was killed *)
(* with the worker.                                                            *)
LEMMA ProcessGone ==
  ASSUME IInv, UNCHANGED <<env, started, built, lockedOut>>, child' = 0, stage' # "build",
         processes' \subseteq processes,
         UNCHANGED orphaned /\ (orphaned \/ processes' = {})
  PROVE  ProcessInv' /\ OrphanInv'
<1>1. \A p \in processes : p.id > 0 /\ p.id # child' /\ p.id \in Nat
  BY DEF IInv, ProcessInv, Processes
<1>2. ProcessInv'
  BY <1>1 DEF IInv, ProcessInv, Processes, BuildOf
<1>3. OrphanInv'
  BY DEF IInv, OrphanInv, LockedOutByOrphanOnly
<1> QED
  BY <1>2, <1>3

-------------------------------------------------------------------------------
(* The steps of the attempt. *)

(* A trigger with a conf is taken by its conf, which is a whole hour.          *)
LEMMA ChooseModeAsks ==
  ASSUME trigger \in Triggers, ChooseMode.error = "none",
         mode' = ChooseMode.mode, UNCHANGED trigger,
         window' = CASE mode' = "conf_window"   -> ConfWindow
                     [] mode' = "data_interval" -> trigger.interval
                     [] OTHER                   -> None
  PROVE  ModeInv'
<1>1. /\ trigger.start \in Bounds /\ trigger.end \in Bounds /\ trigger.interval \in Windows
      /\ trigger.manual \in BOOLEAN
  BY TaskAssumption
<1>2. CASE HasConf
  <2>1. ChooseMode.mode = "conf_window" /\ ConfError = "none"
    BY <1>2 DEF ChooseMode
  <2>2. trigger.start.form = "number" /\ trigger.end.form = "number" /\ Hour(ConfWindow)
    BY <1>1, <2>1 DEF ConfError, Bounds
  <2>3. trigger.start = Number(trigger.start.value) /\ trigger.end = Number(trigger.end.value)
    BY <1>1, <2>2 DEF Bounds, Number
  <2>4. /\ ConfWindow \in Windows
        /\ ConfWindow.from = trigger.start.value /\ ConfWindow.to = trigger.end.value
    BY <1>1 DEF ConfWindow, Window, Windows, Bounds
  <2>5. mode' = "conf_window" /\ window' = ConfWindow /\ trigger' = trigger
    BY <2>1
  <2> QED
    BY <1>2, <2>2, <2>3, <2>4, <2>5 DEF ModeInv, Asks, HasConf, Hour
<1>3. CASE ~HasConf /\ is_manual_run /\ ManualMode = "recent_finalized"
  BY <1>3 DEF ChooseMode, ModeInv, HasConf, is_manual_run
<1>4. CASE ~HasConf /\ ~(is_manual_run /\ ManualMode = "recent_finalized")
  <2>1. ChooseMode.mode = "data_interval" /\ Hour(trigger.interval)
    BY <1>4 DEF ChooseMode
  <2> QED
    BY <1>1, <1>4, <2>1 DEF ModeInv, Asks, HasConf, Hour
<1> QED
  BY <1>2, <1>3, <1>4

LEMMA StartAttemptKeeps == ASSUME IInv, StartAttempt PROVE IInv'
<1>1. /\ stage = "waiting" /\ stage' # "build"
      /\ UNCHANGED <<env, trigger, dbtVars, written, reported, orphaned>>
  BY DEF StartAttempt, Fails, GoesOn, historyVars
<1>2. AttemptInv'
  <2>1. CASE ChooseMode.error # "none"
    BY <1>1, <2>1, FailsEnds, EndedAttempt DEF StartAttempt, IInv, AttemptInv
  <2>2. CASE ChooseMode.error = "none"
    <3>1. stage' = "settings" /\ trigger \in Triggers
      BY <1>1, <2>2 DEF StartAttempt, GoesOn, IInv, AttemptInv
    <3>2. ModeInv'
      BY <1>1, <2>2, <3>1, ChooseModeAsks DEF StartAttempt
    <3> QED
      BY <1>1, <3>1, <3>2 DEF IInv, AttemptInv
  <2> QED
    BY <2>1, <2>2
<1>3. ProcessInv' /\ OrphanInv'
  BY <1>1, ProcessesStay
<1>4. SuccessIsBuilt'
  BY <1>1, ReportsStay DEF IInv, dbtVars
<1> QED
  BY <1>2, <1>3, <1>4 DEF IInv

LEMMA ReadSettingsKeeps == ASSUME IInv, ReadSettings PROVE IInv'
<1>1. /\ stage = "settings" /\ stage' # "build"
      /\ UNCHANGED <<env, trigger, dbtVars, written, reported, orphaned>>
  BY DEF ReadSettings, Fails, GoesOn, historyVars
<1>2. AttemptInv'
  <2>1. CASE SettingsError(env) = "none"
    BY <1>1, <2>1 DEF ReadSettings, GoesOn, IInv, AttemptInv, ModeInv, HasConf
  <2>2. CASE SettingsError(env) # "none"
    BY <1>1, <2>2, FailsEnds, EndedAttempt DEF ReadSettings, IInv
  <2> QED
    BY <2>1, <2>2
<1>3. ProcessInv' /\ OrphanInv'
  BY <1>1, ProcessesStay
<1>4. SuccessIsBuilt'
  BY <1>1, ReportsStay DEF IInv, dbtVars
<1> QED
  BY <1>2, <1>3, <1>4 DEF IInv

LEMMA FindWindowKeeps == ASSUME IInv, FindWindow PROVE IInv'
<1>1. /\ stage = "window" /\ stage' = "pipeline" /\ UNCHANGED <<mode, settings>>
      /\ UNCHANGED <<env, trigger, dbtVars, written, reported, orphaned>>
  BY DEF FindWindow, GoesOn, historyVars
<1>2. Asks(trigger, mode, window') /\ window' \in Windows
  <2>1. CASE mode = "recent_finalized"
    <3>1. window' \in Windows
      BY <2>1, TaskAssumption DEF FindWindow, Window, Windows, Times
    <3> QED
      BY <1>1, <2>1, <3>1 DEF IInv, AttemptInv, ModeInv, HasConf, Asks
  <2>2. CASE mode # "recent_finalized"
    BY <1>1, <2>2 DEF FindWindow, IInv, AttemptInv, ModeInv
  <2> QED
    BY <2>1, <2>2
<1>3. AttemptInv'
  BY <1>1, <1>2 DEF IInv, AttemptInv
<1>4. ProcessInv' /\ OrphanInv'
  BY <1>1, ProcessesStay
<1>5. SuccessIsBuilt'
  BY <1>1, ReportsStay DEF IInv, dbtVars
<1> QED
  BY <1>3, <1>4, <1>5 DEF IInv

LEMMA PipelineKeeps ==
  ASSUME IInv, Trigger \/ CollectAndWrite \/ PipelineRaises \/ DbtMissing
  PROVE  IInv'
<1>1. /\ stage \in {"idle", "pipeline", "dbt"} /\ stage' # "build"
      /\ UNCHANGED <<env, dbtVars, reported, orphaned>> /\ written \subseteq written'
  BY DEF Trigger, CollectAndWrite, PipelineRaises, DbtMissing, Fails, GoesOn, historyVars
<1>2. AttemptInv'
  <2>1. CASE Trigger
    BY <1>1, <2>1, EndedAttempt DEF Trigger, IInv
  <2>2. CASE CollectAndWrite
    BY <2>2 DEF CollectAndWrite, GoesOn, attemptVars, IInv, AttemptInv
  <2>3. CASE PipelineRaises \/ DbtMissing
    BY <1>1, <2>3, FailsEnds, EndedAttempt DEF PipelineRaises, DbtMissing, IInv
  <2> QED
    BY <2>1, <2>2, <2>3
<1>3. ProcessInv' /\ OrphanInv'
  BY <1>1, ProcessesStay
<1>4. SuccessIsBuilt'
  BY <1>1, ReportsStay DEF IInv, dbtVars
<1> QED
  BY <1>2, <1>3, <1>4 DEF IInv

-------------------------------------------------------------------------------
(* The steps of the build. *)

LEMMA StartDbtKeeps == ASSUME IInv, StartDbt PROVE IInv'
<1> DEFINE new == [id |-> child', state |-> "starting", window |-> window, uses |-> BuildEnv(env),
                   validated |-> settings, decimals |-> env.decimals]
<1>1. /\ stage = "dbt" /\ stage' = "build" /\ started' = started + 1 /\ child' = started'
      /\ processes' = processes \cup {new}
      /\ UNCHANGED <<env, trigger, mode, window, settings, built, lockedOut>>
      /\ UNCHANGED <<written, reported, orphaned>>
  BY DEF StartDbt, GoesOn, attemptVars, historyVars
<1>2. /\ settings = from_env(env) /\ SettingsError(env) = "none" /\ window \in Windows
      /\ started \in Nat /\ child = 0
      /\ \A p \in processes : p \in Processes /\ p.id > 0 /\ p.id <= started /\ p.id \in Nat
  BY <1>1 DEF IInv, AttemptInv, ProcessInv, Processes
<1>3. new \in Processes /\ new.id = started + 1 /\ new.window = window /\ new.state = "starting"
  BY <1>1, <1>2 DEF Processes
<1> HIDE DEF new
<1>4. AttemptInv'
  BY <1>1 DEF IInv, AttemptInv
<1>5. ProcessInv'
  <2>1. processes' \subseteq Processes'
    BY <1>1, <1>2, <1>3 DEF Processes
  <2>2. ASSUME NEW p \in processes'
        PROVE  /\ p.id > 0 /\ p.id <= started'
               /\ p.id = child' => p.window = window'
               /\ p.state = "built" => BuildOf(p) \in built'
    <3>1. CASE p \in processes
      BY <1>1, <1>2, <3>1 DEF IInv, ProcessInv, BuildOf
    <3>2. CASE p = new
      BY <1>1, <1>2, <1>3, <3>2
    <3> QED
      BY <1>1, <3>1, <3>2
  <2> QED
    BY <1>1, <1>2, <2>1, <2>2 DEF ProcessInv, BuildOf
<1>6. OrphanInv'
  <2>1. ~orphaned => processes = {}
    BY <1>2 DEF IInv, OrphanInv
  <2>2. ~orphaned => \A p, q \in processes' : p = new /\ q = new
    BY <1>1, <2>1
  <2> QED
    BY <1>1, <1>3, <2>2 DEF IInv, OrphanInv, LockedOutByOrphanOnly
<1>7. SuccessIsBuilt'
  BY <1>1, ReportsStay DEF IInv
<1> QED
  BY <1>4, <1>5, <1>6, <1>7 DEF IInv

(* The build ended: the process is the attempt's own, so that what it built is *)
(* what the attempt reports.                                                   *)
LEMMA DbtReturnedKeeps == ASSUME IInv, DbtReturned PROVE IInv'
<1>1. PICK p \in processes :
        /\ p.id = child
        /\ processes' = processes \ {p}
        /\ \/ /\ p.state = "built"
              /\ reported' = reported \cup {Payload}
              /\ stage' = "idle"
           \/ Fails("DbtBuildError") /\ UNCHANGED reported
  BY DEF DbtReturned
<1>2. /\ stage = "build" /\ child' = 0 /\ stage' \in {"idle", "waiting"}
      /\ UNCHANGED <<env, trigger, started, built, lockedOut, written, orphaned>>
  BY <1>1, FailsEnds DEF DbtReturned
<1>3. AttemptInv'
  BY <1>2, EndedAttempt DEF IInv
<1>4. ~orphaned => processes' = {}
  BY <1>1 DEF IInv, OrphanInv
<1>5. ProcessInv' /\ OrphanInv'
  BY <1>1, <1>2, <1>4, ProcessGone DEF IInv, OrphanInv
<1>6. SuccessIsBuilt'
  <2>1. CASE UNCHANGED reported
    BY <1>2, <2>1, ReportsStay DEF IInv
  <2>2. CASE p.state = "built" /\ reported' = reported \cup {Payload}
    <3>1. BuildOf(p) \in built /\ p.window = window /\ p.uses = BuildEnv(env)
      BY <1>1, <2>2 DEF IInv, ProcessInv, Processes
    <3>2. settings = from_env(env) /\ Asks(trigger, mode, window)
          /\ [delta |-> settings.delta, window |-> window] \in written
      BY <1>2 DEF IInv, AttemptInv
    <3>3. p.uses.delta = settings.delta /\ p.uses.duckdb = settings.duckdb
      BY <3>1, <3>2 DEF BuildEnv
    <3>4. [delta |-> settings.delta, duckdb |-> settings.duckdb, window |-> window] \in built
      BY <3>1, <3>3 DEF BuildOf
    <3>5. /\ Payload.trigger = trigger /\ Payload.mode = mode
          /\ Payload.window = window /\ Payload.settings = settings
      BY DEF Payload
    <3> HIDE DEF Payload
    <3> SUFFICES ASSUME NEW r \in reported'
                 PROVE  /\ Asks(r.trigger, r.mode, r.window)
                        /\ [delta |-> r.settings.delta, window |-> r.window] \in written
                        /\ [delta |-> r.settings.delta, duckdb |-> r.settings.duckdb,
                            window |-> r.window] \in built
      BY <1>2 DEF SuccessIsBuilt, Asks, Hour
    <3>6. CASE r \in reported
      BY <3>6 DEF IInv, SuccessIsBuilt
    <3>7. CASE r = Payload
      BY <3>2, <3>4, <3>5, <3>7
    <3> QED
      BY <2>2, <3>6, <3>7
  <2> QED
    BY <1>1, <2>1, <2>2
<1> QED
  BY <1>3, <1>5, <1>6 DEF IInv

LEMMA DbtTimesOutKeeps == ASSUME IInv, DbtTimesOut PROVE IInv'
<1>1. PICK p \in processes : p.id = child /\ processes' = processes \ {p}
  BY DEF DbtTimesOut
<1>2. /\ stage = "build" /\ child' = 0 /\ stage' \in {"idle", "waiting"}
      /\ UNCHANGED <<env, trigger, started, built, lockedOut, written, reported, orphaned>>
  BY FailsEnds DEF DbtTimesOut, historyVars
<1>3. AttemptInv'
  BY <1>2, EndedAttempt DEF IInv
<1>4. ~orphaned => processes' = {}
  BY <1>1 DEF IInv, OrphanInv
<1>5. ProcessInv' /\ OrphanInv'
  BY <1>1, <1>2, <1>4, ProcessGone DEF IInv, OrphanInv
<1>6. SuccessIsBuilt'
  BY <1>2, ReportsStay DEF IInv
<1> QED
  BY <1>3, <1>5, <1>6 DEF IInv

LEMMA WorkerKilledKeeps == ASSUME IInv, WorkerKilled PROVE IInv'
<1>1. /\ stage # "idle" /\ child' = 0 /\ stage' \in {"idle", "waiting"}
      /\ UNCHANGED <<env, trigger, started, built, lockedOut, written, reported>>
  BY FailsEnds DEF WorkerKilled
<1>2. AttemptInv'
  BY <1>1, EndedAttempt DEF IInv
<1>3. SuccessIsBuilt'
  BY <1>1, ReportsStay DEF IInv
<1>4. CASE processes' = {p \in processes : p.id # child} /\ UNCHANGED orphaned
  <2>1. ~orphaned => processes' = {}
    BY <1>4 DEF IInv, OrphanInv
  <2>2. ProcessInv' /\ OrphanInv'
    BY <1>1, <1>4, <2>1, ProcessGone DEF IInv, OrphanInv
  <2> QED
    BY <1>2, <1>3, <2>2 DEF IInv
<1>5. CASE UNCHANGED processes /\ orphaned' = (orphaned \/ child # 0)
  <2>1. \A p \in processes : p.id > 0 /\ p.id # child' /\ p.id \in Nat
    BY <1>1 DEF IInv, ProcessInv, Processes
  <2>2. ProcessInv'
    BY <1>1, <1>5, <2>1 DEF IInv, ProcessInv, Processes, BuildOf
  <2>3. child = 0 => (~orphaned => processes = {})
    BY <2>1 DEF IInv, OrphanInv, ProcessInv
  <2>4. OrphanInv'
    BY <1>1, <1>5, <2>3 DEF IInv, OrphanInv, LockedOutByOrphanOnly
  <2> QED
    BY <1>2, <1>3, <2>2, <2>4 DEF IInv
<1> QED
  BY <1>4, <1>5 DEF WorkerKilled

-------------------------------------------------------------------------------
(* The steps of a dbt process. *)

(* Whatever a process becomes, it is the same process.                         *)
LEMMA BecomesKeeps ==
  ASSUME IInv, NEW p \in processes, NEW s \in {"building", "built", "failed"}, Becomes(p, s),
         UNCHANGED <<env, stage, window, child, started, orphaned>>, built \subseteq built',
         s = "built" => BuildOf(p) \in built'
  PROVE  /\ ProcessInv'
         /\ ~orphaned' => \A q, r \in processes' : q = r /\ q.id = child'
<1> DEFINE new == [p EXCEPT !.state = s]
<1>1. processes' \subseteq (processes \ {p}) \cup {new}
  BY DEF Becomes
<1>2. p \in Processes
  BY DEF IInv, ProcessInv
<1>3. /\ new \in Processes /\ new.id = p.id /\ new.window = p.window /\ new.uses = p.uses
      /\ new.state = s
  BY <1>2 DEF Processes
<1>4. BuildOf(new) = BuildOf(p)
  BY <1>3 DEF BuildOf
<1> HIDE DEF new
<1>5. ASSUME NEW q \in processes'
      PROVE  /\ q \in Processes
             /\ q.id > 0 /\ q.id <= started
             /\ q.id = child => q.window = window
             /\ q.state = "built" => BuildOf(q) \in built'
  <2>1. CASE q \in processes
    BY <2>1 DEF IInv, ProcessInv
  <2>2. CASE q = new
    BY <1>3, <1>4, <2>2 DEF IInv, ProcessInv
  <2> QED
    BY <1>1, <2>1, <2>2
<1>6. ProcessInv'
  BY <1>5 DEF IInv, ProcessInv, Processes, BuildOf
<1>7. ASSUME ~orphaned, NEW q \in processes', NEW r \in processes' PROVE q = r /\ q.id = child
  <2>1. \A t \in processes : t = p /\ p.id = child
    BY <1>7 DEF IInv, OrphanInv
  <2>2. q = new /\ r = new
    BY <1>1, <2>1
  <2> QED
    BY <1>3, <2>1, <2>2
<1> QED
  BY <1>6, <1>7

LEMMA DbtKeeps == ASSUME IInv, Dbt PROVE IInv'
<1>1. /\ UNCHANGED <<env, trigger, stage, mode, window, settings, child, started>>
      /\ UNCHANGED <<written, reported, orphaned>>
  BY DEF Dbt, attemptVars, historyVars
<1>2. AttemptInv'
  BY <1>1 DEF IInv, AttemptInv, ModeInv, HasConf, Asks, Hour
<1>3. PICK p \in processes : DbtOpens(p) \/ DbtBuilds(p) \/ DbtFails(p)
  BY DEF Dbt
<1>4. built \subseteq built'
  BY <1>3 DEF DbtOpens, DbtBuilds, DbtFails
<1>5. SuccessIsBuilt'
  BY <1>1, <1>4, ReportsStay DEF IInv
<1>6. ProcessInv' /\ (~orphaned' => \A q, r \in processes' : q = r /\ q.id = child')
  <2>1. CASE DbtOpens(p)
    BY <1>1, <1>4, <2>1, BecomesKeeps DEF DbtOpens
  <2>2. CASE DbtBuilds(p)
    BY <1>1, <1>4, <2>2, BecomesKeeps DEF DbtBuilds, BuildOf
  <2>3. CASE DbtFails(p)
    BY <1>1, <1>4, <2>3, BecomesKeeps DEF DbtFails
  <2> QED
    BY <1>3, <2>1, <2>2, <2>3
<1>7. LockedOutByOrphanOnly'
  <2>1. CASE UNCHANGED lockedOut
    BY <1>1, <2>1 DEF IInv, OrphanInv, LockedOutByOrphanOnly
  <2>2. CASE DbtOpens(p) /\ Locked(p.uses.duckdb)
    <3>1. PICK q \in processes : q.state = "building"
      BY <2>2 DEF Locked
    <3>2. q # p
      BY <2>2, <3>1 DEF DbtOpens
    <3> QED
      BY <1>1, <3>2 DEF IInv, OrphanInv, LockedOutByOrphanOnly
  <2> QED
    BY <1>3, <2>1, <2>2 DEF DbtOpens, DbtBuilds, DbtFails
<1>8. OrphanInv'
  BY <1>1, <1>6, <1>7 DEF IInv, OrphanInv
<1> QED
  BY <1>2, <1>5, <1>6, <1>8 DEF IInv

-------------------------------------------------------------------------------
LEMMA NextKeepsInvariant == ASSUME IInv, [Next]_vars PROVE IInv'
<1>1. CASE UNCHANGED vars \/ Finished
  BY <1>1 DEF Finished, vars, attemptVars, dbtVars, historyVars, IInv, AttemptInv, ProcessInv,
              OrphanInv, SuccessIsBuilt, LockedOutByOrphanOnly, ModeInv, HasConf, Asks, Hour,
              Processes, BuildOf
<1> QED
  BY <1>1, StartAttemptKeeps, ReadSettingsKeeps, FindWindowKeeps, PipelineKeeps, StartDbtKeeps,
     DbtReturnedKeeps, DbtTimesOutKeeps, WorkerKilledKeeps, DbtKeeps DEF Next

THEOREM InvariantHolds == Spec => []IInv
BY InitInvariant, NextKeepsInvariant, PTL DEF Spec

(* Success means that this trigger's window is stored and built, whatever the   *)
(* builds of other attempts did in between.                                    *)
THEOREM SuccessMeansBuilt == Spec => []SuccessIsBuilt
<1>1. IInv => SuccessIsBuilt
  BY DEF IInv
<1> QED
  BY <1>1, InvariantHolds, PTL

(* Only a killed worker's dbt process ever locks another one out.               *)
THEOREM OnlyOrphansLock == Spec => []LockedOutByOrphanOnly
<1>1. IInv => LockedOutByOrphanOnly
  BY DEF IInv, OrphanInv
<1> QED
  BY <1>1, InvariantHolds, PTL

(* Decimals that passed validation are a number, or blank.                      *)
LEMMA DecimalsAgree ==
  ASSUME NEW e \in Environments, SettingsError(e) = "none",
         e.decimals.form \notin {"empty", "spaces"}
  PROVE  Number(BuildEnv(e).decimals) = from_env(e).decimals
<1>1. read(e.decimals, 6).form = "number"
  BY DEF SettingsError, SettingsRead, ReadsInt
<1>2. e.decimals \in [form : STRING, value : Int]
  BY TaskAssumption
<1>3. CASE e.decimals.form = "unset"
  BY <1>3 DEF BuildEnv, from_env, env_var, read, blank, Number
<1>4. CASE e.decimals.form # "unset"
  <2>1. e.decimals.form = "number"
    BY <1>1, <1>4 DEF read, blank
  <2>2. Number(e.decimals.value) = e.decimals
    BY <1>2, <2>1 DEF Number
  <2> QED
    BY <1>4, <2>2 DEF BuildEnv, from_env, env_var, read, blank
<1> QED
  BY <1>3, <1>4

(* The dbt process works with the tables, the addresses and, unless they are    *)
(* blank, the decimals that config.py validated.                               *)
THEOREM BuildSeesValidated == Spec => []BuildSeesWhatWasValidated
<1>1. IInv => BuildSeesWhatWasValidated
  <2> SUFFICES ASSUME IInv, NEW p \in processes
               PROVE  /\ p.uses.delta = p.validated.delta /\ p.uses.duckdb = p.validated.duckdb
                      /\ p.uses.token = p.validated.token
                      /\ p.uses.treasury = p.validated.treasury
                      /\ \/ Number(p.uses.decimals) = p.validated.decimals
                         \/ p.decimals.form \in {"empty", "spaces"}
    BY DEF BuildSeesWhatWasValidated
  <2>1. /\ p.uses = BuildEnv(env) /\ p.validated = from_env(env) /\ p.decimals = env.decimals
        /\ SettingsError(env) = "none" /\ env \in Environments
    BY DEF IInv, AttemptInv, ProcessInv, Processes
  <2>2. /\ BuildEnv(env).delta = from_env(env).delta /\ BuildEnv(env).duckdb = from_env(env).duckdb
        /\ BuildEnv(env).token = from_env(env).token
        /\ BuildEnv(env).treasury = from_env(env).treasury
    BY DEF BuildEnv, from_env, env_var, Address
  <2>3. \/ Number(BuildEnv(env).decimals) = from_env(env).decimals
        \/ env.decimals.form \in {"empty", "spaces"}
    BY <2>1, DecimalsAgree
  <2> QED
    BY <2>1, <2>2, <2>3
<1> QED
  BY <1>1, InvariantHolds, PTL

===============================================================================
