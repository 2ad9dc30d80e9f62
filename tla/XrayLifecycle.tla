---------------------------- MODULE XrayLifecycle ----------------------------
(***************************************************************************)
(* The supervision of the Xray child process by the panel: how a change of *)
(* the database becomes the configuration Xray runs with.                  *)
(*                                                                         *)
(* HTTP handlers and jobs commit to the database and then raise a flag     *)
(* (SetToNeedRestart).  A cron job swaps the flag back and calls           *)
(* RestartXray(false); start-up, the access log switch and the Xray update *)
(* call RestartXray(true) directly.  RestartXray runs under one mutex: it  *)
(* reads the tables one query after another, tests the configuration,      *)
(* kills the running process without waiting for its death, starts the new *)
(* one, looks at it 300ms later, and starts the old configuration again    *)
(* when the new one did not survive.  A keepalive job raises the flag when *)
(* it finds no process twice in a row.                                     *)
(*                                                                         *)
(* Each goroutine has a program counter; a step between two program points *)
(* is what no other goroutine or child process can cut in two.             *)
(***************************************************************************)
EXTENDS Naturals

CONSTANTS
  Settings,     \* contents of the settings table (template, access log), switch excluded
  Inbounds,     \* contents of the inbounds table
  N5Rows,       \* contents of the N5 egress, pool, policy, rule and binding tables
  NoRows,       \* the N5 part of a configuration generated with the switch off
  Malformed,    \* the settings whose template does not parse
  Dangling,     \* the N5 rows no fragment can be generated from
  Rejected,     \* the configurations "xray run -test" refuses
  Broken,       \* the configurations that pass the test and make Xray exit
  Ticks,        \* goroutines of the 10s cron entry
  Admins,       \* goroutines of the handlers and jobs that change the database
  Web,          \* the goroutine of main: start, reload
  Procs,        \* xray.Process objects (bounds how many exist at once)
  None,         \* nil
  SilentTables, \* the tables changed through the settings page during the run
  FaultKinds,   \* the transient faults that may happen
  MaxFaults,    \* bound on their number
  MaxChanges    \* bound on the number of changes of the database

Goroutines == Ticks \cup Admins \cup {Web}

DbState == [settings : Settings, inbounds : Inbounds, switch : BOOLEAN, n5 : N5Rows]
Config == [settings : Settings, inbounds : Inbounds, switch : BOOLEAN,
           n5 : N5Rows \cup {NoRows}]
Tables == {"settings", "inbounds", "switch", "n5"}

\* The program points inside RestartXray while it holds the mutex: the four
\* reads, named after the table read, then the test, the swap of p, the start.
Reading == Tables
Critical == Reading \cup {"test", "swap", "launch", "settle", "relaunch", "resettle"}
PC == Critical \cup {"idle", "announce", "wait", "waitStop", "halted"}

AllFaults == {"db", "history", "test", "start", "exit", "panel"}

ASSUME ConfigAssumption ==
  /\ NoRows \notin N5Rows
  /\ Malformed \subseteq Settings
  /\ Dangling \subseteq N5Rows
  /\ Rejected \subseteq Config
  /\ Broken \subseteq Config

ASSUME GoroutineAssumption ==
  /\ Ticks \cap Admins = {}
  /\ Web \notin Ticks \cup Admins
  /\ None \notin Goroutines \cup Procs \cup Config

ASSUME BoundAssumption ==
  /\ SilentTables \subseteq {"settings", "switch"}
  /\ FaultKinds \subseteq AllFaults
  /\ MaxFaults \in Nat
  /\ MaxChanges \in Nat

VARIABLES
  db,         \* what the tables contain
  needRestart,\* isNeedXrayRestart
  pc,         \* program point of every goroutine
  lock,       \* holder of the mutex, or None
  gen,        \* xrayConfig: what the latest generation read from each table, or, when
              \* it failed, would have read of those it did not reach
  old,        \* oldConfig of the attempt under way, or None
  p,          \* the package variable p, or None
  rollback,   \* rollbackProcess of the attempt under way, or None
  procs,      \* state and configuration of every xray.Process
  checkTime,  \* CheckXrayRunningJob.checkTime, 2 standing for all above
  history,    \* the newest row of n5_xray_config_history
  faults,     \* transient faults so far
  changes,    \* changes of the database so far
  outcome,    \* history variable: how the latest attempt ended
  installed   \* history variable: the configuration of the latest attempt that succeeded

supervisor == <<old, p, rollback, procs, installed>>
bounds == <<faults, changes>>
vars == <<db, needRestart, pc, lock, gen, supervisor, checkTime, history, bounds, outcome>>

-----------------------------------------------------------------------------
(* Helpers *)

\* Process.IsRunning: cmd.Wait has not recorded the end of a started process.
IsRunning(q) == q # None /\ procs[q].st \in {"alive", "dying"}

Goto(g, point) == pc' = [pc EXCEPT ![g] = point]

NoFault == UNCHANGED faults
Fault(kind) == /\ kind \in FaultKinds
               /\ faults < MaxFaults
               /\ faults' = faults + 1

\* RestartXray(isForce): only the cron entry passes false.
IsForce(g) == g \notin Ticks

\* Objects NewProcess may return: never started, or dead and unreachable.
Unused(q) == procs[q].st = "gone" /\ q \notin {p, rollback}

\* Config.Equals: byte by byte, inbound by inbound, section by section.
Equals(c, d) == c = d

\* Mutant: does not compare the configurations.
UpToDateIfRunning(g) == ~IsForce(g) /\ IsRunning(p)

\* RestartXray has nothing to do: not forced, running, same configuration.
UpToDate(g) == ~IsForce(g) /\ IsRunning(p) /\ Equals(procs[p].cfg, gen)

\* Mutant: the old process is left to itself.
NotStopped == procs

\* Process.Stop on p: kill, and do not wait for cmd.Wait.
Stopped == IF IsRunning(p) THEN [procs EXCEPT ![p].st = "dying"] ELSE procs

\* Mutant: the verdict is ignored.
TestIgnored == TRUE

\* The verdict of "xray run -test" on the generated configuration.
TestPasses == gen \notin Rejected

\* Mutant: a validated row already counts as applied.
RecordEarly(status) ==
  LET s == IF status = "validated" THEN "applied" ELSE status
  IN  history' = IF gen.switch THEN [history EXCEPT !.status = s] ELSE history

\* updateMergeHistory: no row when the N5 extension is off (mergeResult is
\* nil); a failing UPDATE is only logged.
RecordStatus(status) ==
  \/ history' = IF gen.switch THEN [history EXCEPT !.status = status] ELSE history
  \/ "history" \in FaultKinds /\ history' = history

\* Mutant: the error paths forget to unlock.
ReturnLocked(g, res) ==
  /\ lock' = IF res = "ok" THEN None ELSE lock
  /\ Goto(g, "idle")
  /\ outcome' = res

\* RestartXray returns and its deferred Unlock runs.
Return(g, res) ==
  /\ lock' = None
  /\ Goto(g, "idle")
  /\ outcome' = res

\* Tables a generation at program point t has not read yet.
Remaining(t) == CASE t = "settings" -> Tables
                  [] t = "inbounds" -> {"inbounds", "switch", "n5"}
                  [] t = "switch"   -> {"switch", "n5"}
                  [] t = "n5"       -> {"n5"}
                  [] OTHER          -> {}

-----------------------------------------------------------------------------
(* Changes of the database *)

Change(new) == /\ changes < MaxChanges
               /\ changes' = changes + 1
               /\ db' = new

\* A handler or job commits inbounds or N5 rows in one transaction (deleting an
\* inbound cleans the N5 rows up in the same one), or the switch alone.
Commit(g) ==
  /\ g \in Admins /\ pc[g] = "idle"
  /\ \/ \E i \in Inbounds, r \in N5Rows : Change([db EXCEPT !.inbounds = i, !.n5 = r])
     \/ \E b \in BOOLEAN : Change([db EXCEPT !.switch = b])
  /\ Goto(g, "announce")
  /\ UNCHANGED <<needRestart, lock, gen, supervisor, checkTime, history, faults, outcome>>

\* ... and only then, in a second step, SetToNeedRestart.
SetToNeedRestart(g) ==
  /\ pc[g] = "announce"
  /\ needRestart' = TRUE
  /\ Goto(g, "idle")
  /\ UNCHANGED <<db, lock, gen, supervisor, checkTime, history, bounds, outcome>>

\* The settings page saves and raises no flag; an access log update that fails
\* half way leaves a settings row behind in the same way.
SaveSettings(g) ==
  /\ g \in Admins /\ pc[g] = "idle"
  /\ \/ "settings" \in SilentTables /\ \E s \in Settings : Change([db EXCEPT !.settings = s])
     \/ "switch" \in SilentTables /\ \E b \in BOOLEAN : Change([db EXCEPT !.switch = b])
  /\ UNCHANGED <<needRestart, pc, lock, gen, supervisor, checkTime, history, faults, outcome>>

\* The access log switch saves a setting and calls RestartXray(true) itself.
UpdateAccessLog(g) ==
  /\ g \in Admins /\ pc[g] = "idle"
  /\ \E s \in Settings : Change([db EXCEPT !.settings = s])
  /\ Goto(g, "wait")
  /\ UNCHANGED <<needRestart, lock, gen, supervisor, checkTime, history, faults, outcome>>

-----------------------------------------------------------------------------
(* Callers of RestartXray and StopXray *)

\* Mutant: a tick gives up when an attempt is under way.
TickUnlessBusy(g) ==
  /\ g \in Ticks /\ pc[g] = "idle"
  /\ needRestart
  /\ needRestart' = FALSE
  /\ Goto(g, IF lock = None THEN "wait" ELSE "idle")
  /\ UNCHANGED <<db, lock, gen, supervisor, checkTime, history, bounds, outcome>>

\* The cron entry: IsNeedRestartAndSetFalse, then RestartXray(false).  Its error
\* is only logged: nothing raises the flag again.
Tick(g) ==
  /\ g \in Ticks /\ pc[g] = "idle"
  /\ needRestart
  /\ needRestart' = FALSE
  /\ Goto(g, "wait")
  /\ UNCHANGED <<db, lock, gen, supervisor, checkTime, history, bounds, outcome>>

\* Mutant: counts the missing process and forgets to ask for a restart.
CheckXrayMissing ==
  /\ pc[Web] \in {"idle", "waitStop", "halted"}
  /\ checkTime' = IF IsRunning(p) THEN 0 ELSE IF checkTime < 2 THEN checkTime + 1 ELSE 2
  /\ UNCHANGED <<db, needRestart, pc, lock, gen, supervisor, history, bounds, outcome>>

\* CheckXrayRunningJob.Run.  The job is added to the cron after the boot restart.
CheckXrayRunning ==
  /\ pc[Web] \in {"idle", "waitStop", "halted"}
  /\ IF IsRunning(p)
       THEN checkTime' = 0 /\ UNCHANGED needRestart
       ELSE /\ checkTime' = IF checkTime < 2 THEN checkTime + 1 ELSE 2
            /\ needRestart' = (needRestart \/ checkTime' >= 2)
  /\ UNCHANGED <<db, pc, lock, gen, supervisor, history, bounds, outcome>>

\* UpdateXray reaches its StopXray; a SIGHUP makes main call Server.Stop.
RequestStop(g) ==
  /\ g \in Admins \cup {Web} /\ pc[g] = "idle"
  /\ changes < MaxChanges /\ changes' = changes + 1
  /\ Goto(g, "waitStop")
  /\ UNCHANGED <<db, needRestart, lock, gen, supervisor, checkTime, history, faults, outcome>>

\* StopXray: under the mutex, kill and do not wait.  UpdateXray goes on to its
\* deferred RestartXray(true); Server.Stop goes on to stop the cron.
StopXray(g) ==
  /\ pc[g] = "waitStop" /\ lock = None
  /\ procs' = Stopped
  /\ Goto(g, IF g = Web THEN "halted" ELSE "wait")
  /\ UNCHANGED <<db, needRestart, lock, gen, old, p, rollback, installed, checkTime,
                 history, bounds, outcome>>

\* The old server's cron is stopped, a new server starts a new one with a new
\* CheckXrayRunningJob, and startTask calls RestartXray(true).
StartServer ==
  /\ pc[Web] = "halted"
  /\ checkTime' = 0
  /\ Goto(Web, "wait")
  /\ UNCHANGED <<db, needRestart, lock, gen, supervisor, history, bounds, outcome>>

-----------------------------------------------------------------------------
(* RestartXray, under the mutex *)

Acquire(g) ==
  /\ pc[g] = "wait" /\ lock = None
  /\ lock' = g
  /\ Goto(g, "settings")
  /\ UNCHANGED <<db, needRestart, gen, supervisor, checkTime, history, bounds, outcome>>

\* getXrayConfigWithMeta, query by query: another goroutine may commit between
\* two of them.
Read(g) ==
  /\ \/ /\ pc[g] = "settings" /\ db.settings \notin Malformed
        /\ gen' = [gen EXCEPT !.settings = db.settings]
        /\ Goto(g, "inbounds")
     \/ /\ pc[g] = "inbounds"
        /\ gen' = [gen EXCEPT !.inbounds = db.inbounds]
        /\ Goto(g, "switch")
     \/ /\ pc[g] = "switch"
        /\ gen' = [gen EXCEPT !.switch = db.switch, !.n5 = IF db.switch THEN @ ELSE NoRows]
        /\ Goto(g, IF db.switch THEN "n5" ELSE "test")
  /\ UNCHANGED <<db, needRestart, lock, supervisor, checkTime, history, bounds, outcome>>

\* MergeWithMeta: the fragments, then the history row.
Merge(g) ==
  /\ pc[g] = "n5" /\ db.n5 \notin Dangling
  /\ gen' = [gen EXCEPT !.n5 = db.n5]
  /\ history' = [status |-> "generated", cfg |-> gen']
  /\ Goto(g, "test")
  /\ UNCHANGED <<db, needRestart, lock, supervisor, checkTime, bounds, outcome>>

\* A query or an INSERT fails, the template does not parse, or the rows give no
\* fragments: the error is returned and nothing was touched.  The request that
\* asked for this attempt is spent all the same.
GenerationFails(g) ==
  /\ pc[g] \in Reading
  /\ \/ Fault("db")
     \/ pc[g] = "settings" /\ db.settings \in Malformed /\ NoFault
     \/ pc[g] = "n5" /\ db.n5 \in Dangling /\ NoFault
  /\ LET Seen(t) == IF t \in Remaining(pc[g]) THEN db[t] ELSE gen[t]
     IN  gen' = [settings |-> Seen("settings"), inbounds |-> Seen("inbounds"),
                 switch |-> Seen("switch"), n5 |-> Seen("n5")]
  /\ Return(g, "error")
  /\ UNCHANGED <<db, needRestart, supervisor, checkTime, history, changes>>

\* TestConfig and the status it gives the row.
TestConfig(g) ==
  /\ pc[g] = "test"
  /\ \/ /\ TestPasses
        /\ RecordStatus("validated")
        /\ Goto(g, "swap")
        /\ NoFault
        /\ UNCHANGED <<lock, outcome>>
     \/ /\ (~TestPasses /\ NoFault) \/ Fault("test")
        /\ RecordStatus("failed")
        /\ Return(g, "error")
  /\ UNCHANGED <<db, needRestart, gen, supervisor, checkTime, changes>>

\* Mutant: the early return leaves the row as it is.
KeepRunningSilently(g) ==
  /\ pc[g] = "swap" /\ UpToDate(g)
  /\ Return(g, "ok")
  /\ UNCHANGED <<db, needRestart, gen, supervisor, checkTime, history, bounds>>

\* "not need to restart"
KeepRunning(g) ==
  /\ pc[g] = "swap" /\ UpToDate(g)
  /\ RecordStatus("applied")
  /\ Return(g, "ok")
  /\ UNCHANGED <<db, needRestart, gen, supervisor, checkTime, bounds>>

\* Mutant: oldConfig is read after p was replaced.
OldConfigAfterSwap == gen

\* oldConfig: what to roll back to, when something was running.
OldConfig == IF IsRunning(p) THEN procs[p].cfg ELSE None

\* p.Stop(); p = NewProcess(xrayConfig)
Swap(g) ==
  /\ pc[g] = "swap" /\ ~UpToDate(g)
  /\ old' = OldConfig
  /\ \E q \in Procs :
       /\ Unused(q)
       /\ p' = q
       /\ procs' = [Stopped EXCEPT ![q] = [st |-> "gone", cfg |-> gen]]
  /\ Goto(g, "launch")
  /\ UNCHANGED <<db, needRestart, lock, gen, rollback, installed, checkTime, history,
                 bounds, outcome>>

\* Mutant: rolls back even when there was no old process.
StartFailedNoCheck(g) ==
  /\ RecordStatus("failed")
  /\ Goto(g, "relaunch")
  /\ UNCHANGED <<lock, outcome>>

\* The new process did not start: roll back if there was an old one.
StartFailed(g) ==
  /\ RecordStatus("failed")
  /\ \/ /\ old # None
        /\ Goto(g, "relaunch")
        /\ UNCHANGED <<lock, outcome>>
     \/ /\ old = None
        /\ Return(g, "error")

\* Start: write config.json and fork ...
Launch(g) ==
  /\ pc[g] = "launch"
  /\ \/ /\ procs' = [procs EXCEPT ![p].st = "alive"]
        /\ Goto(g, "settle")
        /\ NoFault
        /\ UNCHANGED <<lock, history, outcome>>
     \/ /\ Fault("start")
        /\ StartFailed(g)
        /\ UNCHANGED procs
  /\ UNCHANGED <<db, needRestart, gen, old, p, rollback, installed, checkTime, changes>>

\* ... and look again 300ms later.
Settle(g) ==
  /\ pc[g] = "settle"
  /\ \/ /\ IsRunning(p)
        /\ RecordStatus("applied")
        /\ Return(g, "ok")
        /\ installed' = gen
        /\ old' = None
     \/ /\ ~IsRunning(p)
        /\ StartFailed(g)
        /\ UNCHANGED <<installed, old>>
  /\ UNCHANGED <<db, needRestart, gen, p, rollback, procs, checkTime, bounds>>

\* rollbackProcess := NewProcess(oldConfig); rollbackProcess.Start()
Relaunch(g) ==
  /\ pc[g] = "relaunch"
  /\ \/ \E q \in Procs :
          /\ Unused(q)
          /\ rollback' = q
          /\ procs' = [procs EXCEPT ![q] = [st |-> "alive", cfg |-> old]]
          /\ Goto(g, "resettle")
          /\ NoFault
          /\ UNCHANGED <<lock, outcome, old>>
     \/ /\ Fault("start")
        /\ Return(g, "error")
        /\ old' = None
        /\ UNCHANGED <<procs, rollback>>
  /\ UNCHANGED <<db, needRestart, gen, p, installed, checkTime, history, changes>>

\* Mutant: forgets p = rollbackProcess.
ResettleForgets(g) ==
  /\ pc[g] = "resettle"
  /\ rollback' = None
  /\ old' = None
  /\ Return(g, "error")
  /\ UNCHANGED <<db, needRestart, gen, p, installed, procs, checkTime, history, bounds>>

Resettle(g) ==
  /\ pc[g] = "resettle"
  /\ p' = IF IsRunning(rollback) THEN rollback ELSE p
  /\ rollback' = None
  /\ old' = None
  /\ Return(g, "error")
  /\ UNCHANGED <<db, needRestart, gen, installed, procs, checkTime, history, bounds>>

-----------------------------------------------------------------------------
(* The operating system *)

\* A process whose code is still inside the 300ms window of its Start.
Starting(q) == q = rollback \/ (q = p /\ \E g \in Goroutines : pc[g] = "settle")

\* Xray exits by itself: at any time under a broken configuration, and under a
\* good one when it is not lucky (the port still held by the killed process
\* while it starts, a crash later on).
Exit(q) ==
  /\ procs[q].st = "alive"
  /\ \/ procs[q].cfg \in Broken /\ NoFault
     \/ Fault(IF Starting(q) THEN "start" ELSE "exit")
  /\ procs' = [procs EXCEPT ![q].st = "dying"]
  /\ UNCHANGED <<db, needRestart, pc, lock, gen, old, p, rollback, installed, checkTime,
                 history, changes, outcome>>

\* cmd.Wait returns and records the ProcessState.
Reap(q) ==
  /\ procs[q].st = "dying"
  /\ procs' = [procs EXCEPT ![q].st = "gone"]
  /\ UNCHANGED <<db, needRestart, pc, lock, gen, old, p, rollback, installed, checkTime,
                 history, bounds, outcome>>

\* The panel dies and systemd kills its control group, Xray included; the
\* database stays.  The panel is started again and boots.
PanelCrash ==
  /\ Fault("panel")
  /\ needRestart' = FALSE
  /\ pc' = [g \in Goroutines |-> IF g = Web THEN "wait" ELSE "idle"]
  /\ lock' = None
  /\ old' = None /\ p' = None /\ rollback' = None
  /\ procs' = [q \in Procs |-> [procs[q] EXCEPT !.st = "gone"]]
  /\ installed' = None
  /\ checkTime' = 0
  /\ outcome' = "error"
  /\ UNCHANGED <<db, gen, history, changes>>

-----------------------------------------------------------------------------
\* The panel boots on some database; no goroutine runs and no row is written.
Init ==
  /\ db \in DbState
  /\ needRestart = FALSE
  /\ pc = [g \in Goroutines |-> IF g = Web THEN "wait" ELSE "idle"]
  /\ lock = None
  /\ gen = db
  /\ old = None /\ p = None /\ rollback = None
  /\ procs = [q \in Procs |-> [st |-> "gone", cfg |-> db]]
  /\ installed = None
  /\ checkTime = 0
  /\ history = [status |-> "none", cfg |-> db]
  /\ faults = 0 /\ changes = 0
  /\ outcome = "error"

\* The steps of a goroutine that is under way.
Step(g) ==
  \/ SetToNeedRestart(g) \/ Read(g) \/ Merge(g) \/ GenerationFails(g)
  \/ TestConfig(g) \/ KeepRunning(g) \/ Swap(g) \/ Launch(g) \/ Settle(g)
  \/ Relaunch(g) \/ Resettle(g)

Next ==
  \/ \E g \in Goroutines :
       \/ Commit(g) \/ SaveSettings(g) \/ UpdateAccessLog(g) \/ RequestStop(g)
       \/ Tick(g) \/ Acquire(g) \/ StopXray(g) \/ Step(g)
  \/ CheckXrayRunning \/ StartServer \/ PanelCrash
  \/ \E q \in Procs : Exit(q) \/ Reap(q)

Spec == Init /\ [][Next]_vars

\* The scheduler runs every goroutine that can run, Go's mutex starves nobody,
\* cron fires again and again, a killed process dies.  A broken configuration
\* need not make Xray exit, and no change, stop or fault has to happen.
Fairness ==
  /\ \A g \in Goroutines : WF_vars(Step(g)) /\ SF_vars(Acquire(g) \/ StopXray(g))
  /\ WF_vars(\E g \in Ticks : Tick(g))
  /\ WF_vars(CheckXrayRunning)
  /\ WF_vars(StartServer)
  /\ \A q \in Procs : WF_vars(Reap(q))

FairSpec == Spec /\ Fairness

-----------------------------------------------------------------------------
(* Properties *)

TypeOK ==
  /\ db \in DbState
  /\ needRestart \in BOOLEAN
  /\ pc \in [Goroutines -> PC]
  /\ lock \in Goroutines \cup {None}
  /\ gen \in Config
  /\ old \in Config \cup {None}
  /\ p \in Procs \cup {None}
  /\ rollback \in Procs \cup {None}
  /\ procs \in [Procs -> [st : {"gone", "alive", "dying"}, cfg : Config]]
  /\ checkTime \in 0..2
  /\ history \in [status : {"none", "generated", "validated", "applied", "failed"},
                  cfg : Config]
  /\ faults \in Nat /\ changes \in Nat
  /\ outcome \in {"ok", "error"}
  /\ installed \in Config \cup {None}

\* The next attempt, or the one under way, will still read table t.
Owed(t) == \/ needRestart
           \/ \E g \in Goroutines :
                \/ pc[g] \in {"announce", "wait", "waitStop", "halted"}
                \/ t \in Remaining(pc[g])

\* Does the latest generated configuration depend on table t?
Tracks(t) == t = "n5" => gen.switch

\* No request is lost between the database, the flag and the attempts: when the
\* latest attempt did not see the present content of a table, a later read of
\* it is already on its way, although handlers raise the flag in a second step,
\* ticks clear it before they wait for the mutex, and the tables are read at
\* different moments (inbound.go:44, xray.go:79-130).
NoRequestLost ==
  \A t \in Tables \ SilentTables : Tracks(t) /\ gen[t] # db[t] => Owed(t)

\* RestartXray reports success only when p runs, or ran, exactly the
\* configuration the attempt read (xray.go:238-253).
SuccessIsInstalled ==
  lock = None /\ outcome = "ok" => p # None /\ procs[p].cfg = gen

\* Whatever runs between two attempts is the configuration of the latest start
\* that succeeded: a failed attempt leaves the old process or its rollback, and
\* never the configuration that failed (xray.go:236-269).
FailureKeepsInstalled ==
  lock = None /\ IsRunning(p) => procs[p].cfg = installed

\* p is the only Xray that nobody has killed: replaced, rolled back and failed
\* processes leave no orphan behind the panel's back (xray.go:242-265).
NoOrphan ==
  \A q \in Procs : procs[q].st = "alive" => q \in {p, rollback}

\* The newest history row says "applied" only while p holds the configuration
\* of that row, or one generated later with the extension off, which writes no
\* row (xray.go:218-225,238-253).
AppliedIsInstalled ==
  history.status = "applied" /\ p # None =>
    procs[p].cfg = history.cfg \/ ~procs[p].cfg.switch

\* A configuration "xray run -test" refuses never reaches a process, not even
\* through a rollback or a torn read (xray.go:232-236).
OnlyTestedRuns ==
  \A q \in Procs : procs[q].st # "gone" => procs[q].cfg \notin Rejected

Startable(c) == /\ c.settings \notin Malformed
                /\ c.switch => c.n5 \notin Dangling
                /\ c \notin Rejected \cup Broken

\* What a generation that reads the present database gives.
Wanted == [db EXCEPT !.n5 = IF db.switch THEN @ ELSE NoRows]

\* Once changes and faults cease, Xray runs the present database, if that can
\* be run at all: the flag, the ticks, the keepalive job and the rollback
\* together converge (RUNTIME_APPLY_TRIGGER_REPORT section 4).
Convergence ==
  <>[](Startable(Wanted) =>
         /\ p # None /\ procs[p].st = "alive"
         /\ procs[p].cfg = Wanted)

\* Whoever waits for the mutex gets it and returns; nobody waits for ever.
EveryAttemptReturns ==
  \A g \in Goroutines : pc[g] \in {"wait", "waitStop"} ~> pc[g] = "idle"

\* A history row does not stay "generated" or "validated".
HistorySettles ==
  history.status \in {"generated", "validated"} ~> history.status \in {"applied", "failed"}

Reconciler == INSTANCE ConfigReconciler
                WITH DbStates <- DbState, Slots <- Procs, Refused <- Rejected,
                     Silent <- SilentTables, Switch <- "switch", Optional <- {"n5"},
                     Nothing <- NoRows,
                     owed <- {t \in Tables : Owed(t)},
                     running <- [q \in Procs |-> IF procs[q].st = "alive" THEN procs[q].cfg
                                                                       ELSE None],
                     trying <- \E g \in Goroutines : pc[g] = "settle",
                     kept <- installed

\* Seen from outside, the flag, the ticks, the mutex and the process objects are one
\* reconciler: no step drops what was asked for without a look at it, a configuration is
\* started only when no Xray runs, only if it is the one just read and tested or the one
\* that survived last, and it is given up only when it is dead (xray.go:213-270).
Reconciles == Reconciler!Spec

-----------------------------------------------------------------------------
(* What the report docs/N5_UI_RUNTIME_APPLY_TRIGGER_REPORT.md says beyond it *)

\* Section 7.1 on "database is locked": it does not affect the configuration
\* that ends up applied (lines 379-380).  But the cron entry has cleared the
\* flag before the generation fails, and only logs the error.
LockedDatabaseHarmless == Convergence
=============================================================================
