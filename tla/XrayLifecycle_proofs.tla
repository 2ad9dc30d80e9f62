------------------------ MODULE XrayLifecycle_proofs ------------------------
(***************************************************************************)
(* The safety invariants of XrayLifecycle hold for every set of            *)
(* goroutines, every bound, every choice of faults and of configurations.  *)
(*                                                                         *)
(* NoRequestLost is inductive once the types are known.  The others need   *)
(* what the mutex protects: which locals of RestartXray are meaningful at  *)
(* which program point, and what they have to do with p and its process.   *)
(***************************************************************************)
EXTENDS XrayLifecycle, TLAPS

\* The program points after the verdict, and after the swap of p.
Tested == {"swap", "launch", "settle", "relaunch", "resettle"}
Swapped == {"launch", "settle", "relaunch", "resettle"}

\* Where the attempt under way is.
Phase == IF lock = None THEN "idle" ELSE pc[lock]
At(points) == Phase \in points

\* Exactly the holder of the mutex is inside RestartXray.
MutexInv ==
  /\ lock # None => pc[lock] \in Critical
  /\ \A g \in Goroutines : pc[g] \in Critical => lock = g

\* What the locals of the attempt under way mean.
LocalsInv ==
  /\ At(Tested) => gen \notin Rejected
  /\ At(Swapped) => p # None /\ procs[p].cfg = gen
  /\ At({"launch", "relaunch", "resettle"}) => procs[p].st = "gone"
  /\ At({"relaunch", "resettle"}) => old # None
  /\ old # None => At(Swapped) /\ old = installed
  /\ rollback # None <=> At({"resettle"})
  /\ rollback # None => rollback # p /\ procs[rollback].cfg = old

\* What runs passed the test, and is what was installed last.
InstalledInv ==
  /\ installed # None => installed \notin Rejected
  /\ IsRunning(p) /\ ~At({"settle"}) => procs[p].cfg = installed
  /\ OnlyTestedRuns
  /\ NoOrphan
  /\ SuccessIsInstalled

\* What the newest row says, now and if the attempt under way rolls back.
Consistent(cfg) == cfg = history.cfg \/ ~cfg.switch

HistoryInv ==
  /\ gen.switch /\ At({"test"} \cup Tested) => history.cfg = gen
  /\ gen.switch /\ At({"test"} \cup Tested) => history.status # "applied"
  /\ history.status = "applied" =>
       /\ p # None => Consistent(procs[p].cfg)
       /\ old # None => Consistent(old)

IInv == TypeOK /\ MutexInv /\ LocalsInv /\ InstalledInv /\ HistoryInv

-----------------------------------------------------------------------------
(* Types *)

\* The initial states have their types.
LEMMA TypeInit == Init => TypeOK
<1> SUFFICES ASSUME Init PROVE TypeOK
  OBVIOUS
<1>1. db \in DbState /\ db \in Config
  BY DEF Init, DbState, Config
<1>2. pc \in [Goroutines -> PC]
  BY DEF Init, PC
<1>3. procs \in [Procs -> [st : {"gone", "alive", "dying"}, cfg : Config]]
  BY <1>1 DEF Init
<1>4. history \in [status : {"none", "generated", "validated", "applied", "failed"},
                  cfg : Config]
  BY <1>1 DEF Init
<1>5. gen \in Config
  BY <1>1 DEF Init
<1>6. needRestart \in BOOLEAN /\ outcome \in {"ok", "error"}
  BY DEF Init
<1>7. lock \in Goroutines \cup {None} /\ old \in Config \cup {None}
  BY DEF Init
<1>8. p \in Procs \cup {None} /\ rollback \in Procs \cup {None}
  BY DEF Init
<1>9. installed \in Config \cup {None}
  BY DEF Init
<1>10. checkTime \in 0..2 /\ faults \in Nat /\ changes \in Nat
  BY DEF Init
<1> QED
  BY <1>1, <1>2, <1>3, <1>4, <1>5, <1>6, <1>7, <1>8, <1>9, <1>10 DEF TypeOK

\* A rollback has something to roll back to.
RollbackHasConfig == \A g \in Goroutines : pc[g] = "relaunch" => old # None

\* Every step keeps the types, once a rollback has something to start.
LEMMA TypeNext == TypeOK /\ RollbackHasConfig /\ [Next]_vars => TypeOK'
<1> SUFFICES ASSUME TypeOK, RollbackHasConfig, [Next]_vars PROVE TypeOK'
  OBVIOUS
<1> USE ConfigAssumption, GoroutineAssumption, BoundAssumption
    DEF Goto, NoFault, Fault, Return, RecordStatus, PC, Critical, Reading, Tables
<1>1. ASSUME NEW g \in Goroutines, Commit(g) PROVE TypeOK'
  <2>1. db' \in DbState
    <3>1. ASSUME NEW i \in Inbounds, NEW r \in N5Rows
          PROVE  [db EXCEPT !.inbounds = i, !.n5 = r] \in DbState
      <4>1. [db EXCEPT !.inbounds = i] \in DbState
        BY DEF TypeOK, DbState
      <4>2. [[db EXCEPT !.inbounds = i] EXCEPT !.n5 = r] \in DbState
        BY <4>1 DEF DbState
      <4> QED
        BY <4>2
    <3>2. ASSUME NEW b \in BOOLEAN PROVE [db EXCEPT !.switch = b] \in DbState
      BY DEF TypeOK, DbState
    <3>3. CASE \E i \in Inbounds, r \in N5Rows : Change([db EXCEPT !.inbounds = i, !.n5 = r])
      BY <3>1, <3>3 DEF Change
    <3>4. CASE \E b \in BOOLEAN : Change([db EXCEPT !.switch = b])
      BY <3>2, <3>4 DEF Change
    <3> QED
      BY <1>1, <3>3, <3>4 DEF Commit
  <2>2. pc' \in [Goroutines -> PC]
    BY <1>1 DEF Commit, TypeOK
  <2>3. changes' \in Nat
    <3>1. changes' = changes + 1
      BY <1>1 DEF Commit, Change
    <3> QED
      BY <3>1 DEF TypeOK
  <2> QED
    BY <1>1, <2>1, <2>2, <2>3 DEF Commit, TypeOK, supervisor
<1>2. ASSUME NEW g \in Goroutines, SaveSettings(g) PROVE TypeOK'
  BY <1>2 DEF SaveSettings, Change, TypeOK, DbState, supervisor
<1>3. ASSUME NEW g \in Goroutines, UpdateAccessLog(g) PROVE TypeOK'
  BY <1>3 DEF UpdateAccessLog, Change, TypeOK, DbState, supervisor
<1>4. ASSUME NEW g \in Goroutines, RequestStop(g) PROVE TypeOK'
  BY <1>4 DEF RequestStop, TypeOK, supervisor
<1>5. ASSUME NEW g \in Goroutines, Tick(g) PROVE TypeOK'
  BY <1>5 DEF Tick, TypeOK, supervisor, bounds
<1>6. ASSUME NEW g \in Goroutines, Acquire(g) PROVE TypeOK'
  BY <1>6 DEF Acquire, TypeOK, supervisor, bounds
<1>7. ASSUME NEW g \in Goroutines, StopXray(g) PROVE TypeOK'
  BY <1>7 DEF StopXray, Stopped, IsRunning, TypeOK, bounds
<1>8. ASSUME NEW g \in Goroutines, SetToNeedRestart(g) PROVE TypeOK'
  BY <1>8 DEF SetToNeedRestart, TypeOK, supervisor, bounds
<1>9. ASSUME NEW g \in Goroutines, Read(g) PROVE TypeOK'
  <2>1. gen' \in Config
    <3>1. CASE gen' = [gen EXCEPT !.settings = db.settings]
      BY <3>1 DEF TypeOK, DbState, Config
    <3>2. CASE gen' = [gen EXCEPT !.inbounds = db.inbounds]
      BY <3>2 DEF TypeOK, DbState, Config
    <3>3. CASE gen' = [gen EXCEPT !.switch = db.switch, !.n5 = IF db.switch THEN @ ELSE NoRows]
      BY <3>3 DEF TypeOK, DbState, Config
    <3> QED
      BY <1>9, <3>1, <3>2, <3>3 DEF Read
  <2>2. pc' \in [Goroutines -> PC]
    BY <1>9 DEF Read, TypeOK
  <2> QED
    BY <1>9, <2>1, <2>2 DEF Read, TypeOK, supervisor, bounds
<1>10. ASSUME NEW g \in Goroutines, Merge(g) PROVE TypeOK'
  BY <1>10 DEF Merge, TypeOK, DbState, Config, supervisor, bounds
<1>11. ASSUME NEW g \in Goroutines, GenerationFails(g) PROVE TypeOK'
  BY <1>11 DEF GenerationFails, TypeOK, DbState, Config, supervisor
<1>12. ASSUME NEW g \in Goroutines, TestConfig(g) PROVE TypeOK'
  BY <1>12 DEF TestConfig, TypeOK, supervisor
<1>13. ASSUME NEW g \in Goroutines, KeepRunning(g) PROVE TypeOK'
  BY <1>13 DEF KeepRunning, TypeOK, supervisor, bounds
<1>14. ASSUME NEW g \in Goroutines, Swap(g) PROVE TypeOK'
  BY <1>14 DEF Swap, OldConfig, Stopped, IsRunning, TypeOK, bounds
<1>15. ASSUME NEW g \in Goroutines, Launch(g) PROVE TypeOK'
  BY <1>15 DEF Launch, StartFailed, TypeOK
<1>16. ASSUME NEW g \in Goroutines, Settle(g) PROVE TypeOK'
  BY <1>16 DEF Settle, StartFailed, TypeOK, bounds
<1>17. ASSUME NEW g \in Goroutines, Relaunch(g) PROVE TypeOK'
  <2>0. old \in Config
    BY <1>17 DEF Relaunch, RollbackHasConfig, TypeOK
  <2>1. ASSUME NEW q \in Procs,
               procs' = [procs EXCEPT ![q] = [st |-> "alive", cfg |-> old]]
        PROVE  procs' \in [Procs -> [st : {"gone", "alive", "dying"}, cfg : Config]]
    BY <2>0, <2>1 DEF TypeOK
  <2> QED
    BY <1>17, <2>1 DEF Relaunch, TypeOK
<1>18. ASSUME NEW g \in Goroutines, Resettle(g) PROVE TypeOK'
  BY <1>18 DEF Resettle, IsRunning, TypeOK, bounds
<1>19. CASE CheckXrayRunning
  <2>1. checkTime' \in 0..2
    BY <1>19 DEF CheckXrayRunning, TypeOK
  <2>2. needRestart' \in BOOLEAN
    BY <1>19, Zenon DEF CheckXrayRunning, TypeOK
  <2> QED
    BY <1>19, <2>1, <2>2 DEF CheckXrayRunning, TypeOK, supervisor, bounds
<1>20. CASE StartServer
  BY <1>20 DEF StartServer, TypeOK, supervisor, bounds, Goroutines
<1>21. CASE PanelCrash
  <2>1. procs' \in [Procs -> [st : {"gone", "alive", "dying"}, cfg : Config]]
    BY <1>21 DEF PanelCrash, TypeOK
  <2>2. pc' \in [Goroutines -> PC]
    BY <1>21 DEF PanelCrash
  <2>3. needRestart' \in BOOLEAN /\ outcome' \in {"ok", "error"}
    BY <1>21 DEF PanelCrash
  <2>4. lock' \in Goroutines \cup {None} /\ old' \in Config \cup {None}
    BY <1>21 DEF PanelCrash
  <2>5. /\ p' \in Procs \cup {None} /\ rollback' \in Procs \cup {None}
        /\ installed' \in Config \cup {None}
    BY <1>21 DEF PanelCrash
  <2>6. checkTime' \in 0..2 /\ faults' \in Nat /\ changes' \in Nat
    BY <1>21 DEF PanelCrash, TypeOK
  <2>7. db' \in DbState /\ gen' \in Config /\ UNCHANGED history
    BY <1>21 DEF PanelCrash, TypeOK
  <2> QED
    BY <2>1, <2>2, <2>3, <2>4, <2>5, <2>6, <2>7 DEF TypeOK
<1>22. ASSUME NEW q \in Procs, Exit(q) PROVE TypeOK'
  BY <1>22 DEF Exit, TypeOK
<1>23. ASSUME NEW q \in Procs, Reap(q) PROVE TypeOK'
  BY <1>23 DEF Reap, TypeOK, bounds
<1>24. CASE UNCHANGED vars
  BY <1>24 DEF vars, TypeOK, supervisor, bounds
<1> QED
  BY <1>1, <1>2, <1>3, <1>4, <1>5, <1>6, <1>7, <1>8, <1>9, <1>10, <1>11, <1>12, <1>13,
     <1>14, <1>15, <1>16, <1>17, <1>18, <1>19, <1>20, <1>21, <1>22, <1>23, <1>24
  DEF Next, Step

-----------------------------------------------------------------------------
(* NoRequestLost is inductive *)

Awaiting == {"announce", "wait", "waitStop", "halted"}

\* A flag, or a goroutine on its way to an attempt, owes every table.
LEMMA Raised ==
  ASSUME needRestart' \/ \E g \in Goroutines : pc'[g] \in Awaiting
  PROVE  NoRequestLost'
BY DEF NoRequestLost, Owed, Awaiting

\* A step of a goroutine that owes nothing, and touches neither the database
\* nor what was generated, loses nothing.
LEMMA Quiet ==
  ASSUME TypeOK, NoRequestLost, NEW g \in Goroutines, NEW point,
         pc[g] \notin Awaiting \cup Reading, pc' = [pc EXCEPT ![g] = point],
         UNCHANGED <<db, gen>>, needRestart => needRestart'
  PROVE  NoRequestLost'
<1> SUFFICES ASSUME NEW t \in Tables \ SilentTables, Tracks(t)', gen'[t] # db'[t]
             PROVE  Owed(t)'
  BY DEF NoRequestLost
<1>1. Owed(t)
  BY DEF NoRequestLost, Tracks
<1>2. CASE needRestart
  BY <1>2 DEF Owed
<1>3. ASSUME NEW h \in Goroutines, pc[h] \in Awaiting \/ t \in Remaining(pc[h])
      PROVE  Owed(t)'
  <2>1. h # g
    BY <1>3 DEF Awaiting, Remaining, Reading, Tables
  <2>2. pc'[h] = pc[h]
    BY <2>1 DEF TypeOK
  <2> QED
    BY <1>3, <2>2 DEF Owed, Awaiting, Remaining
<1> QED
  BY <1>1, <1>2, <1>3 DEF Owed, Awaiting

\* The same for a step that moves no goroutine.
LEMMA Still ==
  ASSUME NoRequestLost, UNCHANGED <<db, gen, pc>>, needRestart => needRestart'
  PROVE  NoRequestLost'
BY DEF NoRequestLost, Owed, Tracks, Remaining

\* A generation that reads table t, or gives up, leaves behind only requests
\* that other goroutines owe.
LEMMA Generating ==
  ASSUME TypeOK, NoRequestLost, NEW g \in Goroutines, NEW point \in PC,
         pc[g] \in Reading, pc' = [pc EXCEPT ![g] = point],
         UNCHANGED <<db, needRestart>>,
         \A t \in Tables :
           \/ t \in Remaining(point)
           \/ gen'[t] = db[t]
           \/ t = "n5" /\ ~gen'.switch
           \/ t # "n5" /\ t \notin Remaining(pc[g]) /\ gen'[t] = gen[t]
  PROVE  NoRequestLost'
<1> SUFFICES ASSUME NEW t \in Tables \ SilentTables, Tracks(t)', gen'[t] # db'[t]
             PROVE  Owed(t)'
  BY DEF NoRequestLost
<1>1. pc'[g] = point
  BY DEF TypeOK
<1>2. CASE t \in Remaining(point)
  BY <1>1, <1>2 DEF Owed, Remaining
<1>3. CASE t # "n5" /\ t \notin Remaining(pc[g]) /\ gen'[t] = gen[t]
  <2>1. Owed(t)
    BY <1>3 DEF NoRequestLost, Tracks
  <2>2. ASSUME NEW h \in Goroutines, pc[h] \in Awaiting \/ t \in Remaining(pc[h])
        PROVE  Owed(t)'
    <3>1. h # g
      BY <1>3, <2>2 DEF Awaiting, Reading, Tables
    <3>2. pc'[h] = pc[h]
      BY <3>1 DEF TypeOK
    <3> QED
      BY <2>2, <3>2 DEF Owed, Awaiting, Remaining
  <2> QED
    BY <2>1, <2>2 DEF Owed, Awaiting
<1> QED
  BY <1>2, <1>3 DEF Tracks

\* The boot restart owes every table at first.
LEMMA NoRequestLostInit == Init => NoRequestLost
BY DEF Init, NoRequestLost

\* Every step hands on what is owed, or pays it.
LEMMA NoRequestLostNext == TypeOK /\ NoRequestLost /\ [Next]_vars => NoRequestLost'
<1> SUFFICES ASSUME TypeOK, NoRequestLost, [Next]_vars PROVE NoRequestLost'
  OBVIOUS
<1>1. ASSUME NEW g \in Goroutines,
             Commit(g) \/ UpdateAccessLog(g) \/ RequestStop(g) \/ Tick(g) \/ StopXray(g)
      PROVE  NoRequestLost'
  <2>1. pc'[g] \in Awaiting
    BY <1>1 DEF Commit, UpdateAccessLog, RequestStop, Tick, StopXray, Goto, Awaiting, TypeOK
  <2> QED
    BY <2>1, Raised
<1>2. ASSUME NEW g \in Goroutines, SaveSettings(g) PROVE NoRequestLost'
  <2>1. \A t \in Tables \ SilentTables : db'[t] = db[t]
    <3>1. CASE "settings" \in SilentTables /\ \E s \in Settings : db' = [db EXCEPT !.settings = s]
      BY <3>1 DEF Tables, TypeOK, DbState
    <3>2. CASE "switch" \in SilentTables /\ \E b \in BOOLEAN : db' = [db EXCEPT !.switch = b]
      BY <3>2 DEF Tables, TypeOK, DbState
    <3> QED
      BY <1>2, <3>1, <3>2 DEF SaveSettings, Change
  <2>2. UNCHANGED <<gen, pc, needRestart>>
    BY <1>2 DEF SaveSettings
  <2> QED
    BY <2>1, <2>2 DEF NoRequestLost, Owed, Tracks, Remaining
<1>3. ASSUME NEW g \in Goroutines, SetToNeedRestart(g) PROVE NoRequestLost'
  BY <1>3, Raised DEF SetToNeedRestart
<1>4. ASSUME NEW g \in Goroutines, Acquire(g) PROVE NoRequestLost'
  <2>1. pc'[g] = "settings"
    BY <1>4 DEF Acquire, Goto, TypeOK
  <2>2. \A t \in Tables : t \in Remaining(pc'[g])
    BY <2>1 DEF Remaining
  <2> QED
    BY <2>2 DEF NoRequestLost, Owed
<1>5. ASSUME NEW g \in Goroutines, Read(g) PROVE NoRequestLost'
  <2>1. CASE pc[g] = "settings" /\ gen' = [gen EXCEPT !.settings = db.settings]
                                /\ Goto(g, "inbounds")
    BY <1>5, <2>1, Generating
    DEF Read, Goto, TypeOK, Config, DbState, Tables, Reading, PC, Critical, Remaining
  <2>2. CASE pc[g] = "inbounds" /\ gen' = [gen EXCEPT !.inbounds = db.inbounds]
                                /\ Goto(g, "switch")
    BY <1>5, <2>2, Generating
    DEF Read, Goto, TypeOK, Config, DbState, Tables, Reading, PC, Critical, Remaining
  <2>3. CASE /\ pc[g] = "switch"
             /\ gen' = [gen EXCEPT !.switch = db.switch, !.n5 = IF db.switch THEN @ ELSE NoRows]
             /\ Goto(g, IF db.switch THEN "n5" ELSE "test")
    BY <1>5, <2>3, Generating
    DEF Read, Goto, TypeOK, Config, DbState, Tables, Reading, PC, Critical, Remaining
  <2> QED
    BY <1>5, <2>1, <2>2, <2>3 DEF Read
<1>6. ASSUME NEW g \in Goroutines, Merge(g) PROVE NoRequestLost'
  BY <1>6, Generating
  DEF Merge, Goto, TypeOK, Config, DbState, Tables, Reading, PC, Critical, Remaining
<1>7. ASSUME NEW g \in Goroutines, GenerationFails(g) PROVE NoRequestLost'
  <2>1. pc[g] \in Reading /\ pc' = [pc EXCEPT ![g] = "idle"] /\ UNCHANGED <<db, needRestart>>
    BY <1>7 DEF GenerationFails, Return, Goto
  <2>2. \A t \in Tables : gen'[t] = IF t \in Remaining(pc[g]) THEN db[t] ELSE gen[t]
    BY <1>7 DEF GenerationFails, Tables
  <2>3. "n5" \in Remaining(pc[g])
    BY <2>1 DEF Reading, Tables, Remaining
  <2>4. "idle" \in PC
    BY DEF PC
  <2> QED
    BY <2>1, <2>2, <2>3, <2>4, Generating
<1>8. ASSUME NEW g \in Goroutines,
             \/ TestConfig(g) \/ KeepRunning(g) \/ Swap(g) \/ Launch(g) \/ Settle(g)
             \/ Relaunch(g) \/ Resettle(g)
      PROVE  NoRequestLost'
  <2>1. pc[g] \notin Awaiting \cup Reading /\ UNCHANGED <<db, gen, needRestart>>
    BY <1>8 DEF TestConfig, KeepRunning, Swap, Launch, Settle, Relaunch, Resettle, Awaiting,
                Reading, Tables
  <2>2. \E point \in PC : pc' = [pc EXCEPT ![g] = point]
    BY <1>8 DEF TestConfig, KeepRunning, Swap, Launch, Settle, Relaunch, Resettle, StartFailed,
                Return, Goto, PC, Critical
  <2> QED
    BY <2>1, <2>2, Quiet
<1>9. CASE CheckXrayRunning
  BY <1>9, Still DEF CheckXrayRunning
<1>10. CASE StartServer
  <2>1. pc'[Web] \in Awaiting /\ Web \in Goroutines
    BY <1>10 DEF StartServer, Goto, Awaiting, TypeOK, Goroutines
  <2> QED
    BY <2>1, Raised
<1>11. CASE PanelCrash
  <2>1. pc'[Web] \in Awaiting /\ Web \in Goroutines
    BY <1>11 DEF PanelCrash, Awaiting, Goroutines
  <2> QED
    BY <2>1, Raised
<1>12. ASSUME NEW q \in Procs, Exit(q) \/ Reap(q) PROVE NoRequestLost'
  BY <1>12, Still DEF Exit, Reap
<1>13. CASE UNCHANGED vars
  BY <1>13, Still DEF vars
<1> QED
  BY <1>1, <1>2, <1>3, <1>4, <1>5, <1>6, <1>7, <1>8, <1>9, <1>10, <1>11, <1>12, <1>13
  DEF Next, Step

-----------------------------------------------------------------------------
(* The mutex *)

\* The null value is none of the things it stands in for.
LEMMA NoneIsNothing == None \notin Goroutines /\ None \notin Procs /\ None \notin Config
BY GoroutineAssumption

\* Whoever is inside RestartXray holds the mutex, and is the attempt under way.
LEMMA Inside ==
  ASSUME MutexInv, NEW g \in Goroutines, pc[g] \in Critical
  PROVE  lock = g /\ lock # None /\ Phase = pc[g]
BY NoneIsNothing DEF MutexInv, Phase

\* The strengthened invariant gives TypeNext what it asks for.
LEMMA RollbackKnown == IInv => RollbackHasConfig
<1> SUFFICES ASSUME IInv, NEW g \in Goroutines, pc[g] = "relaunch" PROVE old # None
  BY DEF RollbackHasConfig
<1>1. pc[g] \in Critical
  BY DEF Critical
<1>2. Phase = "relaunch"
  BY <1>1, Inside DEF IInv
<1> QED
  BY <1>2 DEF IInv, LocalsInv, At

\* A step inside RestartXray keeps the mutex ...
LEMMA Stays ==
  ASSUME TypeOK, MutexInv, NEW g \in Goroutines, pc[g] \in Critical,
         NEW point \in Critical, pc' = [pc EXCEPT ![g] = point], lock' = lock
  PROVE  MutexInv' /\ Phase' = point
<1>1. lock = g /\ lock # None
  BY Inside
<1>2. pc'[g] = point /\ \A h \in Goroutines : h # g => pc'[h] = pc[h]
  BY DEF TypeOK
<1> QED
  BY <1>1, <1>2 DEF MutexInv, Phase

\* ... or returns and gives it back.
LEMMA Returns ==
  ASSUME TypeOK, MutexInv, NEW g \in Goroutines, pc[g] \in Critical, NEW res, Return(g, res)
  PROVE  MutexInv' /\ Phase' = "idle" /\ lock' = None /\ outcome' = res
<1>1. lock = g
  BY Inside
<1>2. pc'[g] = "idle" /\ \A h \in Goroutines : h # g => pc'[h] = pc[h]
  BY DEF TypeOK, Return, Goto
<1>3. lock' = None /\ outcome' = res
  BY DEF Return
<1>4. "idle" \notin Critical
  BY DEF Critical, Reading, Tables
<1> QED
  BY <1>1, <1>2, <1>3, <1>4 DEF MutexInv, Phase

\* A goroutine outside moves to a point outside.
LEMMA MovesOutside ==
  ASSUME TypeOK, MutexInv, NEW g \in Goroutines, pc[g] \notin Critical,
         NEW point, point \notin Critical, pc' = [pc EXCEPT ![g] = point], lock' = lock
  PROVE  MutexInv' /\ Phase' = Phase
<1>1. pc'[g] = point /\ \A h \in Goroutines : h # g => pc'[h] = pc[h]
  BY DEF TypeOK
<1>2. lock # None => lock \in Goroutines /\ lock # g
  BY DEF TypeOK, MutexInv
<1> QED
  BY <1>1, <1>2 DEF MutexInv, Phase

-----------------------------------------------------------------------------
(* The invariant of the attempts *)

AttemptInv == LocalsInv /\ InstalledInv /\ HistoryInv

\* It speaks of the attempt under way, the supervisor and the row only.
LEMMA Framed ==
  ASSUME AttemptInv, Phase' = Phase, UNCHANGED <<lock, gen, supervisor, history, outcome>>
  PROVE  AttemptInv'
BY DEF AttemptInv, LocalsInv, InstalledInv, HistoryInv, At, Consistent, supervisor, IsRunning,
       OnlyTestedRuns, NoOrphan, SuccessIsInstalled

\* Nothing runs and nobody is inside RestartXray at first.
LEMMA IInvInit == Init => IInv
<1> SUFFICES ASSUME Init PROVE IInv
  OBVIOUS
<1>1. TypeOK
  BY TypeInit
<1>2. MutexInv
  BY DEF Init, MutexInv, Critical, Reading, Tables
<1>3. Phase = "idle"
  BY DEF Init, Phase
<1>4. LocalsInv
  BY <1>3 DEF Init, LocalsInv, At, Tested, Swapped
<1>5. InstalledInv
  BY <1>3 DEF Init, InstalledInv, IsRunning, OnlyTestedRuns, NoOrphan, SuccessIsInstalled
<1>6. HistoryInv
  BY <1>3 DEF Init, HistoryInv, At, Tested
<1> QED
  BY <1>1, <1>2, <1>4, <1>5, <1>6 DEF IInv

\* A start that fails, with a dead new process, keeps the invariant.
LEMMA StartFails ==
  ASSUME IInv, NEW g \in Goroutines, pc[g] \in {"launch", "settle"}, ~IsRunning(p),
         StartFailed(g), UNCHANGED <<gen, old, p, rollback, procs, installed>>
  PROVE  MutexInv' /\ AttemptInv'
<1> USE DEF Goto, IInv
<1>1. pc[g] \in Critical /\ "relaunch" \in Critical
  BY DEF Critical
<1>2. lock # None /\ Phase = pc[g]
  BY <1>1, Inside
<1>3. /\ rollback = None /\ p # None /\ procs[p].st = "gone" /\ procs[p].cfg = gen
      /\ gen \notin Rejected
  BY <1>2 DEF LocalsInv, At, Tested, Swapped, IsRunning, TypeOK
<1>4. /\ history'.cfg = history.cfg
      /\ history'.status = "applied" => history.status = "applied"
  BY DEF StartFailed, RecordStatus, TypeOK
<1>5. CASE old # None /\ pc' = [pc EXCEPT ![g] = "relaunch"] /\ UNCHANGED <<lock, outcome>>
  <2>1. MutexInv' /\ Phase' = "relaunch"
    BY <1>1, <1>5, Stays
  <2>2. LocalsInv'
    BY <1>2, <1>3, <1>5, <2>1 DEF LocalsInv, At, Tested, Swapped
  <2>3. InstalledInv'
    BY <1>2, <1>3, <1>5, <2>1
    DEF InstalledInv, At, IsRunning, OnlyTestedRuns, NoOrphan, SuccessIsInstalled
  <2>4. HistoryInv'
    BY <1>2, <1>3, <1>4, <2>1 DEF HistoryInv, At, Tested, Consistent
  <2> QED
    BY <2>1, <2>2, <2>3, <2>4 DEF AttemptInv
<1>6. CASE old = None /\ Return(g, "error")
  <2>1. MutexInv' /\ Phase' = "idle" /\ outcome' = "error"
    BY <1>1, <1>6, Returns
  <2>2. LocalsInv'
    BY <1>3, <1>6, <2>1 DEF LocalsInv, At, Tested, Swapped
  <2>3. InstalledInv'
    BY <1>3, <2>1
    DEF InstalledInv, At, IsRunning, OnlyTestedRuns, NoOrphan, SuccessIsInstalled
  <2>4. HistoryInv'
    BY <1>3, <1>4, <2>1 DEF HistoryInv, At, Tested, Consistent
  <2> QED
    BY <2>1, <2>2, <2>3, <2>4 DEF AttemptInv
<1> QED
  BY <1>5, <1>6 DEF StartFailed

\* Every step keeps the mutex and what the locals, the processes and the row
\* say of the attempt under way.
LEMMA AttemptNext == IInv /\ TypeOK' /\ [Next]_vars => MutexInv' /\ AttemptInv'
<1> SUFFICES ASSUME IInv, TypeOK', [Next]_vars PROVE MutexInv' /\ AttemptInv'
  OBVIOUS
<1> USE DEF Goto, IInv
<1>0. AttemptInv
  BY DEF AttemptInv
<1>1. ASSUME NEW g \in Goroutines,
             \/ Commit(g) \/ SaveSettings(g) \/ UpdateAccessLog(g) \/ RequestStop(g)
             \/ Tick(g) \/ SetToNeedRestart(g)
      PROVE  MutexInv' /\ AttemptInv'
  <2>1. /\ pc[g] \in {"idle", "announce"}
        /\ \/ UNCHANGED pc
           \/ \E point \in {"idle", "announce", "wait", "waitStop"} : pc' = [pc EXCEPT ![g] = point]
    BY <1>1 DEF Commit, SaveSettings, UpdateAccessLog, RequestStop, Tick, SetToNeedRestart
  <2>2. UNCHANGED <<lock, gen, supervisor, history, outcome>>
    BY <1>1 DEF Commit, SaveSettings, UpdateAccessLog, RequestStop, Tick, SetToNeedRestart
  <2>3. {"idle", "announce", "wait", "waitStop"} \cap Critical = {}
    BY DEF Critical, Reading, Tables
  <2>4. MutexInv' /\ Phase' = Phase
    <3>1. CASE UNCHANGED pc
      BY <2>2, <3>1 DEF MutexInv, Phase
    <3>2. CASE \E point \in {"idle", "announce", "wait", "waitStop"} :
                 pc' = [pc EXCEPT ![g] = point]
      BY <2>1, <2>2, <2>3, <3>2, MovesOutside
    <3> QED
      BY <2>1, <3>1, <3>2
  <2> QED
    BY <1>0, <2>2, <2>4, Framed
<1>2. ASSUME NEW g \in Goroutines, Acquire(g) PROVE MutexInv' /\ AttemptInv'
  <2>1. Phase = "idle" /\ Phase' = "settings" /\ lock' # None
    BY <1>2, NoneIsNothing DEF Acquire, Phase, TypeOK
  <2>2. MutexInv'
    BY <1>2, NoneIsNothing DEF Acquire, MutexInv, TypeOK, Critical, Reading, Tables
  <2>3. UNCHANGED <<gen, supervisor, history, outcome>>
    BY <1>2 DEF Acquire
  <2>4. LocalsInv'
    BY <2>1, <2>3 DEF LocalsInv, At, Tested, Swapped, supervisor
  <2>5. InstalledInv'
    BY <2>1, <2>3 DEF InstalledInv, At, supervisor, IsRunning, OnlyTestedRuns, NoOrphan,
                      SuccessIsInstalled
  <2>6. HistoryInv'
    BY <2>1, <2>3 DEF HistoryInv, At, Tested, supervisor, Consistent
  <2> QED
    BY <2>2, <2>4, <2>5, <2>6 DEF AttemptInv
<1>3. ASSUME NEW g \in Goroutines, StopXray(g) PROVE MutexInv' /\ AttemptInv'
  <2>1. MutexInv' /\ Phase' = Phase /\ Phase = "idle"
    <3>1. pc[g] = "waitStop" /\ lock = None /\ lock' = None
      BY <1>3 DEF StopXray
    <3>2. {"waitStop", "halted", "wait"} \cap Critical = {}
      BY DEF Critical, Reading, Tables
    <3>3. pc' = [pc EXCEPT ![g] = IF g = Web THEN "halted" ELSE "wait"]
      BY <1>3 DEF StopXray
    <3> QED
      BY <3>1, <3>2, <3>3, MovesOutside DEF Phase
  <2>2. UNCHANGED <<lock, gen, old, p, rollback, installed, history, outcome>>
    BY <1>3 DEF StopXray
  <2>3. \A q \in Procs : /\ procs'[q].cfg = procs[q].cfg
                         /\ procs'[q].st # "gone" => procs[q].st # "gone"
                         /\ procs'[q].st = "alive" => procs[q].st = "alive"
    BY <1>3 DEF StopXray, Stopped, IsRunning, TypeOK
  <2>4. LocalsInv'
    BY <2>1, <2>2, <2>3 DEF LocalsInv, At, Tested, Swapped, TypeOK
  <2>5. InstalledInv'
    BY <2>1, <2>2, <2>3 DEF InstalledInv, At, IsRunning, OnlyTestedRuns, NoOrphan,
                            SuccessIsInstalled, TypeOK
  <2>6. HistoryInv'
    BY <2>1, <2>2, <2>3 DEF HistoryInv, At, Tested, Consistent, TypeOK
  <2> QED
    BY <2>1, <2>4, <2>5, <2>6 DEF AttemptInv
<1>4. ASSUME NEW g \in Goroutines, Read(g) PROVE MutexInv' /\ AttemptInv'
  <2>1. PICK point \in {"inbounds", "switch", "n5", "test"} :
          /\ pc' = [pc EXCEPT ![g] = point]
          /\ point = "test" => ~gen'.switch
    BY <1>4 DEF Read, TypeOK, Config, DbState
  <2>2. pc[g] \in {"settings", "inbounds", "switch"}
        /\ UNCHANGED <<lock, supervisor, history, outcome>>
    BY <1>4 DEF Read
  <2>3. pc[g] \in Critical /\ point \in Critical
    BY <2>1, <2>2 DEF Critical, Reading, Tables
  <2>4. lock # None /\ Phase = pc[g] /\ MutexInv' /\ Phase' = point
    BY <2>1, <2>2, <2>3, Inside, Stays
  <2>5. LocalsInv'
    BY <2>1, <2>2, <2>4 DEF LocalsInv, At, Tested, Swapped, supervisor
  <2>6. InstalledInv'
    BY <2>1, <2>2, <2>4 DEF InstalledInv, At, supervisor, IsRunning, OnlyTestedRuns, NoOrphan,
                            SuccessIsInstalled
  <2>7. HistoryInv'
    BY <2>1, <2>2, <2>4 DEF HistoryInv, At, Tested, supervisor, Consistent
  <2> QED
    BY <2>4, <2>5, <2>6, <2>7 DEF AttemptInv
<1>5. ASSUME NEW g \in Goroutines, Merge(g) PROVE MutexInv' /\ AttemptInv'
  <2>1. /\ pc[g] = "n5" /\ pc' = [pc EXCEPT ![g] = "test"]
        /\ history' = [status |-> "generated", cfg |-> gen']
        /\ UNCHANGED <<lock, supervisor, outcome>>
    BY <1>5 DEF Merge
  <2>2. pc[g] \in Critical /\ "test" \in Critical
    BY <2>1 DEF Critical, Reading, Tables
  <2>3. lock # None /\ Phase = "n5" /\ MutexInv' /\ Phase' = "test"
    <3>1. lock # None /\ Phase = "n5"
      BY <2>1, <2>2, Inside
    <3>2. MutexInv' /\ Phase' = "test"
      BY <2>1, <2>2, Stays
    <3> QED
      BY <3>1, <3>2
  <2>4. LocalsInv'
    BY <2>1, <2>3 DEF LocalsInv, At, Tested, Swapped, supervisor
  <2>5. InstalledInv'
    BY <2>1, <2>3 DEF InstalledInv, At, supervisor, IsRunning, OnlyTestedRuns, NoOrphan,
                      SuccessIsInstalled
  <2>6. HistoryInv'
    BY <2>1, <2>3 DEF HistoryInv, At, Tested, supervisor, Consistent
  <2> QED
    BY <2>3, <2>4, <2>5, <2>6 DEF AttemptInv
<1>6. ASSUME NEW g \in Goroutines, GenerationFails(g) PROVE MutexInv' /\ AttemptInv'
  <2>1. pc[g] \in Reading /\ Return(g, "error") /\ UNCHANGED <<supervisor, history>>
    BY <1>6 DEF GenerationFails
  <2>2. pc[g] \in Critical /\ pc[g] \notin Tested /\ "idle" \notin Tested
    BY <2>1 DEF Critical, Reading, Tables, Tested
  <2>3. Phase = pc[g] /\ MutexInv' /\ Phase' = "idle" /\ outcome' = "error"
    BY <2>1, <2>2, Inside, Returns
  <2>4. LocalsInv'
    BY <2>1, <2>2, <2>3 DEF LocalsInv, At, Tested, Swapped, supervisor
  <2>5. InstalledInv'
    BY <2>1, <2>2, <2>3 DEF InstalledInv, At, Tested, supervisor, IsRunning, OnlyTestedRuns,
                            NoOrphan, SuccessIsInstalled
  <2>6. HistoryInv'
    BY <2>1, <2>2, <2>3 DEF HistoryInv, At, Tested, supervisor, Consistent
  <2> QED
    BY <2>3, <2>4, <2>5, <2>6 DEF AttemptInv
<1>7. ASSUME NEW g \in Goroutines, TestConfig(g) PROVE MutexInv' /\ AttemptInv'
  <2>1. pc[g] = "test" /\ UNCHANGED <<gen, supervisor>>
    BY <1>7 DEF TestConfig
  <2>2. pc[g] \in Critical /\ "swap" \in Critical
    BY <2>1 DEF Critical
  <2>3. lock # None /\ Phase = "test"
    BY <2>1, <2>2, Inside
  <2>4. CASE TestPasses /\ RecordStatus("validated") /\ pc' = [pc EXCEPT ![g] = "swap"]
             /\ UNCHANGED <<lock, outcome>>
    <3>1. MutexInv' /\ Phase' = "swap"
      BY <2>2, <2>4, Stays
    <3>2. /\ history'.cfg = history.cfg
          /\ gen.switch => history'.status # "applied"
          /\ ~gen.switch => history' = history
      BY <2>3, <2>4 DEF RecordStatus, HistoryInv, At, TypeOK
    <3>3. LocalsInv'
      BY <2>1, <2>3, <2>4, <3>1 DEF LocalsInv, At, Tested, Swapped, supervisor, TestPasses
    <3>4. InstalledInv'
      BY <2>1, <2>3, <2>4, <3>1 DEF InstalledInv, At, supervisor, IsRunning, OnlyTestedRuns,
                                    NoOrphan, SuccessIsInstalled
    <3>5. HistoryInv'
      BY <2>1, <2>3, <3>1, <3>2 DEF HistoryInv, At, Tested, supervisor, Consistent
    <3> QED
      BY <3>1, <3>3, <3>4, <3>5 DEF AttemptInv
  <2>5. CASE RecordStatus("failed") /\ Return(g, "error")
    <3>1. MutexInv' /\ Phase' = "idle" /\ outcome' = "error"
      BY <2>2, <2>5, Returns
    <3>2. /\ history'.cfg = history.cfg
          /\ history'.status = "applied" => history.status = "applied"
      BY <2>5 DEF RecordStatus, TypeOK
    <3>3. LocalsInv'
      BY <2>1, <2>3, <3>1 DEF LocalsInv, At, Tested, Swapped, supervisor
    <3>4. InstalledInv'
      BY <2>1, <2>3, <3>1 DEF InstalledInv, At, supervisor, IsRunning, OnlyTestedRuns,
                              NoOrphan, SuccessIsInstalled
    <3>5. HistoryInv'
      BY <2>1, <2>3, <3>1, <3>2 DEF HistoryInv, At, Tested, supervisor, Consistent
    <3> QED
      BY <3>1, <3>3, <3>4, <3>5 DEF AttemptInv
  <2> QED
    BY <1>7, <2>4, <2>5 DEF TestConfig
<1>8. ASSUME NEW g \in Goroutines, KeepRunning(g) PROVE MutexInv' /\ AttemptInv'
  <2>1. /\ pc[g] = "swap" /\ UpToDate(g) /\ RecordStatus("applied") /\ Return(g, "ok")
        /\ UNCHANGED <<gen, supervisor>>
    BY <1>8 DEF KeepRunning
  <2>2. pc[g] \in Critical
    BY <2>1 DEF Critical
  <2>3. Phase = "swap" /\ MutexInv' /\ Phase' = "idle" /\ outcome' = "ok"
    <3>1. Phase = "swap"
      BY <2>1, <2>2, Inside
    <3>2. MutexInv' /\ Phase' = "idle" /\ outcome' = "ok"
      BY <2>1, <2>2, Returns
    <3> QED
      BY <3>1, <3>2
  <2>4. p # None /\ procs[p].cfg = gen
    BY <2>1 DEF UpToDate, Equals, IsRunning
  <2>5. old = None /\ (gen.switch => history.cfg = gen)
    BY <2>3 DEF LocalsInv, HistoryInv, At, Tested, Swapped
  <2>6. history'.cfg = history.cfg
    BY <2>1 DEF RecordStatus, TypeOK
  <2>7. LocalsInv'
    BY <2>1, <2>3 DEF LocalsInv, At, Tested, Swapped, supervisor
  <2>8. InstalledInv'
    BY <2>1, <2>3, <2>4 DEF InstalledInv, At, supervisor, IsRunning, OnlyTestedRuns, NoOrphan,
                            SuccessIsInstalled
  <2>9. HistoryInv'
    BY <2>1, <2>3, <2>4, <2>5, <2>6 DEF HistoryInv, At, Tested, supervisor, Consistent
  <2> QED
    BY <2>3, <2>7, <2>8, <2>9 DEF AttemptInv
<1>9. ASSUME NEW g \in Goroutines, Swap(g) PROVE MutexInv' /\ AttemptInv'
  <2>1. /\ pc[g] = "swap" /\ old' = OldConfig /\ pc' = [pc EXCEPT ![g] = "launch"]
        /\ UNCHANGED <<lock, gen, rollback, installed, history, outcome>>
    BY <1>9 DEF Swap
  <2>2. PICK q \in Procs : /\ Unused(q) /\ p' = q
                           /\ procs' = [Stopped EXCEPT ![q] = [st |-> "gone", cfg |-> gen]]
    BY <1>9 DEF Swap
  <2>3. pc[g] \in Critical /\ "launch" \in Critical
    BY <2>1 DEF Critical
  <2>4. lock # None /\ Phase = "swap"
    BY <2>1, <2>3, Inside
  <2>5. MutexInv' /\ Phase' = "launch"
    BY <2>1, <2>3, Stays
  <2>6. rollback = None /\ old = None /\ gen \notin Rejected
    BY <2>4 DEF LocalsInv, At, Tested, Swapped
  <2>7. /\ procs'[q] = [st |-> "gone", cfg |-> gen]
        /\ \A r \in Procs : r # q => /\ procs'[r].cfg = procs[r].cfg
                                     /\ procs'[r].st # "gone" => procs[r].st # "gone"
                                     /\ procs'[r].st # "alive"
    <3>1. CASE IsRunning(p)
      <4>1. Stopped = [procs EXCEPT ![p].st = "dying"] /\ p \in Procs
        BY <3>1 DEF Stopped, IsRunning, TypeOK
      <4>2. /\ Stopped \in [Procs -> [st : {"gone", "alive", "dying"}, cfg : Config]]
            /\ Stopped[p] = [st |-> "dying", cfg |-> procs[p].cfg]
            /\ \A r \in Procs : r # p => Stopped[r] = procs[r]
        BY <4>1 DEF TypeOK
      <4>3. procs[p].st # "gone"
        BY <3>1 DEF IsRunning
      <4>4. \A r \in Procs : r # p => procs[r].st # "alive"
        BY <2>6, NoneIsNothing DEF InstalledInv, NoOrphan
      <4> QED
        BY <2>2, <4>2, <4>3, <4>4 DEF TypeOK
    <3>2. CASE ~IsRunning(p)
      <4>1. Stopped = procs
        BY <3>2 DEF Stopped
      <4>2. \A r \in Procs : procs[r].st # "alive"
        BY <2>6, <3>2, NoneIsNothing DEF InstalledInv, NoOrphan, IsRunning
      <4> QED
        BY <2>2, <4>1, <4>2 DEF TypeOK
    <3> QED
      BY <3>1, <3>2
  <2>8. q # None /\ (old' # None => p # None /\ old' = procs[p].cfg /\ old' = installed)
    BY <2>1, <2>4, NoneIsNothing DEF OldConfig, IsRunning, InstalledInv, At
  <2>9. LocalsInv'
    BY <2>1, <2>2, <2>5, <2>6, <2>7, <2>8 DEF LocalsInv, At, Tested, Swapped
  <2>10. InstalledInv'
    BY <2>1, <2>2, <2>4, <2>5, <2>7, <2>8
    DEF InstalledInv, At, IsRunning, OnlyTestedRuns, NoOrphan, SuccessIsInstalled
  <2>11. HistoryInv'
    BY <2>1, <2>2, <2>4, <2>5, <2>7, <2>8 DEF HistoryInv, At, Tested, Consistent
  <2> QED
    BY <2>5, <2>9, <2>10, <2>11 DEF AttemptInv
<1>10. ASSUME NEW g \in Goroutines, Launch(g) PROVE MutexInv' /\ AttemptInv'
  <2>1. pc[g] = "launch" /\ UNCHANGED <<gen, old, p, rollback, installed>>
    BY <1>10 DEF Launch
  <2>2. pc[g] \in Critical /\ "settle" \in Critical
    BY <2>1 DEF Critical
  <2>3. lock # None /\ Phase = "launch"
    BY <2>1, <2>2, Inside
  <2>4. rollback = None /\ p \in Procs /\ procs[p] = [st |-> "gone", cfg |-> gen]
        /\ gen \notin Rejected
    BY <2>3 DEF LocalsInv, At, Tested, Swapped, TypeOK
  <2>5. CASE /\ procs' = [procs EXCEPT ![p].st = "alive"]
             /\ pc' = [pc EXCEPT ![g] = "settle"]
             /\ UNCHANGED <<lock, history, outcome>>
    <3>1. MutexInv' /\ Phase' = "settle"
      BY <2>2, <2>5, Stays
    <3>2. /\ procs'[p] = [st |-> "alive", cfg |-> gen]
          /\ \A q \in Procs : q # p => procs'[q] = procs[q]
      BY <2>4, <2>5 DEF TypeOK
    <3>3. LocalsInv'
      BY <2>1, <2>3, <2>4, <3>1, <3>2 DEF LocalsInv, At, Tested, Swapped
    <3>4. InstalledInv'
      BY <2>1, <2>3, <2>4, <2>5, <3>1, <3>2
      DEF InstalledInv, At, IsRunning, OnlyTestedRuns, NoOrphan, SuccessIsInstalled
    <3>5. HistoryInv'
      BY <2>1, <2>3, <2>4, <2>5, <3>1, <3>2 DEF HistoryInv, At, Tested, Consistent
    <3> QED
      BY <3>1, <3>3, <3>4, <3>5 DEF AttemptInv
  <2>6. CASE StartFailed(g) /\ UNCHANGED procs
    BY <2>1, <2>2, <2>3, <2>4, <2>6, StartFails DEF IsRunning
  <2> QED
    BY <1>10, <2>5, <2>6 DEF Launch
<1>11. ASSUME NEW g \in Goroutines, Settle(g) PROVE MutexInv' /\ AttemptInv'
  <2>1. pc[g] = "settle" /\ UNCHANGED <<gen, p, rollback, procs>>
    BY <1>11 DEF Settle
  <2>2. pc[g] \in Critical
    BY <2>1 DEF Critical
  <2>3. lock # None /\ Phase = "settle"
    BY <2>1, <2>2, Inside
  <2>4. rollback = None /\ p # None /\ procs[p].cfg = gen /\ gen \notin Rejected
    BY <2>3 DEF LocalsInv, At, Tested, Swapped
  <2>5. CASE RecordStatus("applied") /\ Return(g, "ok") /\ installed' = gen /\ old' = None
    <3>1. MutexInv' /\ Phase' = "idle" /\ outcome' = "ok"
      BY <2>2, <2>5, Returns
    <3>2. history'.cfg = history.cfg /\ (gen.switch => history.cfg = gen)
      BY <2>3, <2>5 DEF RecordStatus, TypeOK, HistoryInv, At, Tested
    <3>3. LocalsInv'
      BY <2>1, <2>4, <2>5, <3>1 DEF LocalsInv, At, Tested, Swapped
    <3>4. InstalledInv'
      BY <2>1, <2>4, <2>5, <3>1
      DEF InstalledInv, At, IsRunning, OnlyTestedRuns, NoOrphan, SuccessIsInstalled
    <3>5. HistoryInv'
      BY <2>1, <2>4, <2>5, <3>1, <3>2 DEF HistoryInv, At, Tested, Consistent
    <3> QED
      BY <3>1, <3>3, <3>4, <3>5 DEF AttemptInv
  <2>6. CASE ~IsRunning(p) /\ StartFailed(g) /\ UNCHANGED <<installed, old>>
    BY <2>1, <2>2, <2>3, <2>6, StartFails
  <2> QED
    BY <1>11, <2>5, <2>6 DEF Settle
<1>12. ASSUME NEW g \in Goroutines, Relaunch(g) PROVE MutexInv' /\ AttemptInv'
  <2>1. pc[g] = "relaunch" /\ UNCHANGED <<gen, p, installed, history>>
    BY <1>12 DEF Relaunch
  <2>2. pc[g] \in Critical /\ "resettle" \in Critical
    BY <2>1 DEF Critical
  <2>3. lock # None /\ Phase = "relaunch"
    BY <2>1, <2>2, Inside
  <2>4. /\ rollback = None /\ p # None /\ procs[p].st = "gone" /\ procs[p].cfg = gen
        /\ old # None /\ old = installed /\ old \notin Rejected /\ gen \notin Rejected
    BY <2>3 DEF LocalsInv, InstalledInv, At, Tested, Swapped
  <2>5. CASE /\ \E q \in Procs :
                  /\ Unused(q) /\ rollback' = q
                  /\ procs' = [procs EXCEPT ![q] = [st |-> "alive", cfg |-> old]]
             /\ pc' = [pc EXCEPT ![g] = "resettle"]
             /\ UNCHANGED <<lock, outcome, old>>
    <3>1. MutexInv' /\ Phase' = "resettle"
      BY <2>2, <2>5, Stays
    <3>2. PICK q \in Procs : /\ Unused(q) /\ rollback' = q
                             /\ procs' = [procs EXCEPT ![q] = [st |-> "alive", cfg |-> old]]
      BY <2>5
    <3>3. /\ q # p /\ q # None
          /\ procs'[q] = [st |-> "alive", cfg |-> old]
          /\ \A r \in Procs : r # q => procs'[r] = procs[r]
      BY <3>2, NoneIsNothing DEF Unused, TypeOK
    <3>4. p \in Procs /\ procs'[p] = procs[p]
      BY <2>4, <3>3 DEF TypeOK
    <3>5. LocalsInv'
      BY <2>1, <2>3, <2>4, <2>5, <3>1, <3>2, <3>3, <3>4 DEF LocalsInv, At, Tested, Swapped
    <3>6. InstalledInv'
      <4>1. OnlyTestedRuns'
        BY <2>4, <3>3 DEF InstalledInv, OnlyTestedRuns
      <4>2. NoOrphan'
        BY <2>1, <2>4, <3>2, <3>3, NoneIsNothing DEF InstalledInv, NoOrphan
      <4>3. ~IsRunning(p)'
        BY <2>1, <2>4, <3>4 DEF IsRunning
      <4> QED
        BY <2>1, <2>3, <2>4, <2>5, <4>1, <4>2, <4>3 DEF InstalledInv, SuccessIsInstalled
    <3>7. HistoryInv'
      BY <2>1, <2>3, <2>5, <3>1, <3>4 DEF HistoryInv, At, Tested, Consistent
    <3> QED
      BY <3>1, <3>5, <3>6, <3>7 DEF AttemptInv
  <2>6. CASE Return(g, "error") /\ old' = None /\ UNCHANGED <<procs, rollback>>
    <3>1. MutexInv' /\ Phase' = "idle" /\ outcome' = "error"
      BY <2>2, <2>6, Returns
    <3>2. LocalsInv'
      BY <2>1, <2>4, <2>6, <3>1 DEF LocalsInv, At, Tested, Swapped
    <3>3. InstalledInv'
      BY <2>1, <2>4, <2>6, <3>1
      DEF InstalledInv, At, IsRunning, OnlyTestedRuns, NoOrphan, SuccessIsInstalled
    <3>4. HistoryInv'
      BY <2>1, <2>6, <3>1 DEF HistoryInv, At, Tested, Consistent
    <3> QED
      BY <3>1, <3>2, <3>3, <3>4 DEF AttemptInv
  <2> QED
    BY <1>12, <2>5, <2>6 DEF Relaunch
<1>13. ASSUME NEW g \in Goroutines, Resettle(g) PROVE MutexInv' /\ AttemptInv'
  <2>1. /\ pc[g] = "resettle" /\ p' = IF IsRunning(rollback) THEN rollback ELSE p
        /\ rollback' = None /\ old' = None /\ Return(g, "error")
        /\ UNCHANGED <<gen, installed, procs, history>>
    BY <1>13 DEF Resettle
  <2>2. pc[g] \in Critical
    BY <2>1 DEF Critical
  <2>3. Phase = "resettle"
    BY <2>1, <2>2, Inside
  <2>4. MutexInv' /\ Phase' = "idle" /\ outcome' = "error"
    BY <2>1, <2>2, Returns
  <2>5. /\ rollback # None /\ procs[rollback].cfg = old /\ old = installed /\ old # None
        /\ procs[p].st = "gone" /\ p # None
    BY <2>3 DEF LocalsInv, At, Swapped
  <2>6. LocalsInv'
    BY <2>1, <2>4 DEF LocalsInv, At, Tested, Swapped
  <2>7. InstalledInv'
    BY <2>1, <2>4, <2>5
    DEF InstalledInv, At, IsRunning, OnlyTestedRuns, NoOrphan, SuccessIsInstalled
  <2>8. HistoryInv'
    BY <2>1, <2>4, <2>5 DEF HistoryInv, At, Tested, Consistent
  <2> QED
    BY <2>4, <2>6, <2>7, <2>8 DEF AttemptInv
<1>14. CASE CheckXrayRunning
  <2>1. UNCHANGED <<pc, lock, gen, supervisor, history, outcome>>
    BY <1>14 DEF CheckXrayRunning
  <2> QED
    BY <1>0, <2>1, Framed DEF MutexInv, Phase
<1>15. CASE StartServer
  <2>1. /\ Web \in Goroutines /\ pc[Web] = "halted" /\ pc' = [pc EXCEPT ![Web] = "wait"]
        /\ UNCHANGED <<lock, gen, supervisor, history, outcome>>
    BY <1>15 DEF StartServer, Goroutines
  <2>2. {"halted", "wait"} \cap Critical = {}
    BY DEF Critical, Reading, Tables
  <2>3. MutexInv' /\ Phase' = Phase
    BY <2>1, <2>2, MovesOutside
  <2> QED
    BY <1>0, <2>1, <2>3, Framed
<1>16. CASE PanelCrash
  <2>1. /\ lock' = None /\ old' = None /\ p' = None /\ rollback' = None /\ installed' = None
        /\ outcome' = "error"
        /\ \A g \in Goroutines : pc'[g] \in {"wait", "idle"}
        /\ \A q \in Procs : procs'[q].st = "gone"
        /\ UNCHANGED history
    BY <1>16 DEF PanelCrash, TypeOK
  <2>2. Phase' = "idle"
    BY <2>1 DEF Phase
  <2>3. MutexInv'
    BY <2>1 DEF MutexInv, Critical, Reading, Tables
  <2>4. LocalsInv'
    BY <2>1, <2>2 DEF LocalsInv, At, Tested, Swapped
  <2>5. InstalledInv'
    BY <2>1, <2>2
    DEF InstalledInv, At, IsRunning, OnlyTestedRuns, NoOrphan, SuccessIsInstalled
  <2>6. HistoryInv'
    BY <2>1, <2>2 DEF HistoryInv, At, Tested
  <2> QED
    BY <2>3, <2>4, <2>5, <2>6 DEF AttemptInv
<1>17. ASSUME NEW q \in Procs, Exit(q) \/ Reap(q) PROVE MutexInv' /\ AttemptInv'
  <2>1. UNCHANGED <<pc, lock, gen, old, p, rollback, installed, history, outcome>>
    BY <1>17 DEF Exit, Reap
  <2>2. \A r \in Procs : /\ procs'[r].cfg = procs[r].cfg
                         /\ procs'[r].st # "gone" => procs[r].st # "gone"
                         /\ procs'[r].st = "alive" => procs[r].st = "alive"
    BY <1>17 DEF Exit, Reap, TypeOK
  <2>3. MutexInv' /\ Phase' = Phase
    BY <2>1 DEF MutexInv, Phase
  <2>4. LocalsInv'
    BY <2>1, <2>2, <2>3 DEF LocalsInv, At, Tested, Swapped, TypeOK
  <2>5. InstalledInv'
    BY <2>1, <2>2, <2>3 DEF InstalledInv, At, IsRunning, OnlyTestedRuns, NoOrphan,
                            SuccessIsInstalled, TypeOK
  <2>6. HistoryInv'
    BY <2>1, <2>2, <2>3 DEF HistoryInv, At, Tested, Consistent, TypeOK
  <2> QED
    BY <2>3, <2>4, <2>5, <2>6 DEF AttemptInv
<1>18. CASE UNCHANGED vars
  <2>1. UNCHANGED <<pc, lock, gen, supervisor, history, outcome>>
    BY <1>18 DEF vars
  <2> QED
    BY <1>0, <2>1, Framed DEF MutexInv, Phase
<1> QED
  BY <1>1, <1>2, <1>3, <1>4, <1>5, <1>6, <1>7, <1>8, <1>9, <1>10, <1>11, <1>12, <1>13,
     <1>14, <1>15, <1>16, <1>17, <1>18
  DEF Next, Step

-----------------------------------------------------------------------------
(* The theorems *)

\* The strengthened invariant holds in every reachable state.
LEMMA Inductive == Spec => []IInv
<1>1. IInv /\ [Next]_vars => IInv'
  <2> SUFFICES ASSUME IInv, [Next]_vars PROVE IInv'
    OBVIOUS
  <2>1. TypeOK'
    BY RollbackKnown, TypeNext DEF IInv
  <2> QED
    BY <2>1, AttemptNext DEF IInv, AttemptInv
<1> QED
  BY <1>1, IInvInit, PTL DEF Spec

\* Every variable has its type in every reachable state; in particular a rollback
\* always has a configuration to roll back to (xray.go:257-269).
THEOREM TypeCorrect == Spec => []TypeOK
<1>1. IInv => TypeOK
  BY DEF IInv
<1> QED
  BY <1>1, Inductive, PTL

\* Between the database, the flag and the attempts no request is lost, for any
\* number of handlers, ticks and restarts (inbound.go:44, xray.go:79-130).
THEOREM RequestsSurvive == Spec => []NoRequestLost
<1>1. TypeOK /\ NoRequestLost /\ [Next]_vars => NoRequestLost'
  BY NoRequestLostNext
<1> QED
  BY <1>1, NoRequestLostInit, TypeCorrect, PTL DEF Spec

\* Success is reported only for the configuration p holds (xray.go:238-253).
THEOREM SuccessTold == Spec => []SuccessIsInstalled
<1>1. IInv => SuccessIsInstalled
  BY DEF IInv, InstalledInv
<1> QED
  BY <1>1, Inductive, PTL

\* A failed attempt leaves the last installed configuration running, or none
\* (xray.go:236-269).
THEOREM RollbackRestores == Spec => []FailureKeepsInstalled
<1>1. IInv => FailureKeepsInstalled
  BY DEF IInv, InstalledInv, FailureKeepsInstalled, At, Phase
<1> QED
  BY <1>1, Inductive, PTL

\* No Xray process escapes the supervisor (xray.go:242-265).
THEOREM NothingOrphaned == Spec => []NoOrphan
<1>1. IInv => NoOrphan
  BY DEF IInv, InstalledInv
<1> QED
  BY <1>1, Inductive, PTL

\* A row that says "applied" tells the truth (xray.go:218-225).
THEOREM HistoryTruthful == Spec => []AppliedIsInstalled
<1>1. IInv => AppliedIsInstalled
  BY DEF IInv, HistoryInv, AppliedIsInstalled, Consistent
<1> QED
  BY <1>1, Inductive, PTL

\* No refused configuration ever runs (xray.go:232-236).
THEOREM TestedOnly == Spec => []OnlyTestedRuns
<1>1. IInv => OnlyTestedRuns
  BY DEF IInv, InstalledInv
<1> QED
  BY <1>1, Inductive, PTL
=============================================================================
