----------------------- MODULE XrayReconciler_proofs -----------------------
(***************************************************************************)
(* XrayLifecycle implements ConfigReconciler, for every set of goroutines, *)
(* every bound and every choice of faults: each step of the program is one *)
(* step of the reconciler or none.  The invariant of XrayLifecycle_proofs  *)
(* says why: the mutex makes the holder's picture the reconciler's, and at *)
(* the two places where an Xray is started none is alive.                  *)
(***************************************************************************)
EXTENDS XrayLifecycle_proofs

\* The variables of the reconciler that XrayLifecycle has not.
OwedSet == {t \in Tables : Owed(t)}
RunningMap == [q \in Procs |-> IF procs[q].st = "alive" THEN procs[q].cfg ELSE None]
Trying == \E g \in Goroutines : pc[g] = "settle"

\* What a step of the program has to be.
Abstractly == Reconciler!Next \/ UNCHANGED Reconciler!vars

-----------------------------------------------------------------------------
(* The steps of the reconciler *)

\* Nothing the reconciler sees changes.
LEMMA IsStutter ==
  ASSUME UNCHANGED <<db, gen, installed>>, OwedSet' = OwedSet, RunningMap' = RunningMap,
         Trying' = Trying
  PROVE  Abstractly
  BY DEF Abstractly, Reconciler!vars, OwedSet, RunningMap, Trying

\* A change of the tables together with the request to look at them.
LEMMA IsChange ==
  ASSUME UNCHANGED <<gen, installed>>, db' \in DbState, OwedSet' = Tables,
         RunningMap' = RunningMap, Trying' = Trying
  PROVE  Abstractly
<1>1. Reconciler!Change
  BY DEF Reconciler!Change, OwedSet, RunningMap, Trying
<1> QED
  BY <1>1 DEF Abstractly, Reconciler!Next

\* A change nobody asks about.
LEMMA IsSilentChange ==
  ASSUME UNCHANGED <<gen, installed>>, db' \in DbState,
         \A t \in Tables \ SilentTables : db'[t] = db[t],
         OwedSet' = OwedSet, RunningMap' = RunningMap, Trying' = Trying
  PROVE  Abstractly
<1>1. Reconciler!ChangeSilently
  BY DEF Reconciler!ChangeSilently, OwedSet, RunningMap, Trying
<1> QED
  BY <1>1 DEF Abstractly, Reconciler!Next

\* A request without a change.
LEMMA IsAsk ==
  ASSUME UNCHANGED <<db, gen, installed>>, OwedSet' = Tables, RunningMap' = RunningMap,
         Trying' = Trying
  PROVE  Abstractly
<1>1. Reconciler!Ask
  BY DEF Reconciler!Ask, OwedSet, RunningMap, Trying
<1> QED
  BY <1>1 DEF Abstractly, Reconciler!Next

\* A picture of some tables; what is paid for was looked at.
LEMMA IsLook ==
  ASSUME UNCHANGED <<db, installed>>, RunningMap' = RunningMap, ~Trying, ~Trying',
         OwedSet' \subseteq OwedSet,
         \A t \in Tables : gen'[t] = gen[t] \/ Reconciler!Seen(gen', t),
         \A t \in OwedSet \ OwedSet' : Reconciler!Seen(gen', t)
  PROVE  Abstractly
<1>1. Reconciler!Look
  BY DEF Reconciler!Look, OwedSet, RunningMap, Trying
<1> QED
  BY <1>1 DEF Abstractly, Reconciler!Next

\* One slot is emptied.
LEMMA IsStop ==
  ASSUME UNCHANGED <<db, gen, installed>>, OwedSet' = OwedSet, Trying' = Trying,
         NEW q \in Procs, RunningMap' = [RunningMap EXCEPT ![q] = None]
  PROVE  Abstractly
<1>1. Reconciler!Stop(q)
  BY DEF Reconciler!Stop, OwedSet, RunningMap, Trying
<1> QED
  BY <1>1 DEF Abstractly, Reconciler!Next

\* The picture is started in one slot while all are empty.
LEMMA IsTry ==
  ASSUME UNCHANGED <<db, gen, installed>>, OwedSet' = OwedSet, ~Trying, Trying',
         \A q \in Procs : RunningMap[q] = None, gen \notin Rejected,
         NEW q \in Procs, RunningMap' = [RunningMap EXCEPT ![q] = gen]
  PROVE  Abstractly
<1>1. Reconciler!Try(q)
  BY DEF Reconciler!Try, Reconciler!Idle, OwedSet, RunningMap, Trying
<1> QED
  BY <1>1 DEF Abstractly, Reconciler!Next

\* The picture survived.
LEMMA IsKeep ==
  ASSUME UNCHANGED <<db, gen>>, OwedSet' = OwedSet, Trying, ~Trying', installed' = gen,
         RunningMap' = RunningMap
  PROVE  Abstractly
<1>1. Reconciler!Keep
  BY DEF Reconciler!Keep, OwedSet, RunningMap, Trying
<1> QED
  BY <1>1 DEF Abstractly, Reconciler!Next

\* The picture is dead.
LEMMA IsGiveUp ==
  ASSUME UNCHANGED <<db, gen, installed>>, OwedSet' = OwedSet, Trying, ~Trying',
         RunningMap' = RunningMap, \A q \in Procs : RunningMap[q] = None
  PROVE  Abstractly
<1>1. Reconciler!GiveUp
  BY DEF Reconciler!GiveUp, Reconciler!Idle, OwedSet, RunningMap, Trying
<1> QED
  BY <1>1 DEF Abstractly, Reconciler!Next

\* What was kept is started in one slot while all are empty.
LEMMA IsRestore ==
  ASSUME UNCHANGED <<db, gen, installed>>, OwedSet' = OwedSet, ~Trying, ~Trying',
         \A q \in Procs : RunningMap[q] = None, installed # None,
         NEW q \in Procs, RunningMap' = [RunningMap EXCEPT ![q] = installed]
  PROVE  Abstractly
<1>1. Reconciler!Restore(q)
  BY DEF Reconciler!Restore, Reconciler!Idle, OwedSet, RunningMap, Trying
<1> QED
  BY <1>1 DEF Abstractly, Reconciler!Next

\* All but the tables and the picture is lost.
LEMMA IsCrash ==
  ASSUME UNCHANGED <<db, gen>>, OwedSet' = Tables, ~Trying', installed' = None,
         RunningMap' = [q \in Procs |-> None]
  PROVE  Abstractly
<1>1. Reconciler!Crash
  BY DEF Reconciler!Crash, OwedSet, RunningMap, Trying
<1> QED
  BY <1>1 DEF Abstractly, Reconciler!Next

-----------------------------------------------------------------------------
(* What is owed, what is being tried and what runs, after a step *)

\* A flag, or a goroutine on its way to an attempt, owes every table.
LEMMA Asked ==
  ASSUME needRestart \/ \E g \in Goroutines : pc[g] \in Awaiting
  PROVE  OwedSet = Tables
  BY DEF OwedSet, Owed, Awaiting

\* The same after a step.
LEMMA AskedThen ==
  ASSUME needRestart' \/ \E g \in Goroutines : pc'[g] \in Awaiting
  PROVE  OwedSet' = Tables
  BY DEF OwedSet, Owed, Awaiting

\* A step that moves no goroutine and leaves the flag alone owes the same and
\* tries the same.
LEMMA StillOwed ==
  ASSUME UNCHANGED <<pc, needRestart>>
  PROVE  OwedSet' = OwedSet /\ Trying' = Trying
  BY DEF OwedSet, Owed, Remaining, Trying

\* A goroutine that owed nothing and owes nothing now changes no debt.
LEMMA QuietOwed ==
  ASSUME TypeOK, NEW g \in Goroutines, NEW point,
         pc[g] \notin Awaiting \cup Reading, point \notin Awaiting \cup Reading,
         pc' = [pc EXCEPT ![g] = point], UNCHANGED needRestart
  PROVE  OwedSet' = OwedSet
<1>1. Remaining(pc[g]) = {} /\ Remaining(point) = {}
  BY DEF Remaining, Reading, Tables
<1>2. \A h \in Goroutines : h # g => pc'[h] = pc[h]
  BY DEF TypeOK
<1>3. pc'[g] = point
  BY DEF TypeOK
<1> QED
  <2> SUFFICES ASSUME NEW t \in Tables PROVE Owed(t)' <=> Owed(t)
    BY DEF OwedSet
  <2>1. ASSUME NEW h \in Goroutines
        PROVE  \/ pc'[h] \in Awaiting
               \/ t \in Remaining(pc'[h])
               <=> pc[h] \in Awaiting \/ t \in Remaining(pc[h])
    BY <1>1, <1>2, <1>3
  <2> QED
    BY <2>1 DEF Owed, Awaiting, Remaining

\* A generation pays only for the tables between its two program points.
LEMMA ReadOwed ==
  ASSUME TypeOK, NEW g \in Goroutines, NEW point,
         pc[g] \in Reading, point \notin Awaiting, Remaining(point) \subseteq Remaining(pc[g]),
         pc' = [pc EXCEPT ![g] = point], UNCHANGED needRestart
  PROVE  /\ OwedSet' \subseteq OwedSet
         /\ \A t \in OwedSet \ OwedSet' : t \in Remaining(pc[g]) \ Remaining(point)
<1>1. \A h \in Goroutines : h # g => pc'[h] = pc[h]
  BY DEF TypeOK
<1>2. pc'[g] = point
  BY DEF TypeOK
<1>3. ASSUME NEW t \in Tables, Owed(t)' PROVE Owed(t)
  <2>1. CASE needRestart
    BY <2>1 DEF Owed
  <2>2. ASSUME NEW h \in Goroutines, pc'[h] \in Awaiting \/ t \in Remaining(pc'[h])
        PROVE  Owed(t)
    <3>1. pc[h] \in Awaiting \/ t \in Remaining(pc[h])
      BY <1>1, <1>2, <2>2
    <3> QED
      BY <3>1 DEF Owed, Awaiting
  <2> QED
    BY <1>3, <2>1, <2>2 DEF Owed, Awaiting, Remaining
<1>4. ASSUME NEW t \in Tables, Owed(t), ~Owed(t)'
      PROVE  t \in Remaining(pc[g]) \ Remaining(point)
  <2>1. \A h \in Goroutines : pc'[h] \notin Awaiting /\ t \notin Remaining(pc'[h])
    BY <1>4 DEF Owed, Awaiting, Remaining
  <2>2. PICK h \in Goroutines : pc[h] \in Awaiting \/ t \in Remaining(pc[h])
    BY <1>4 DEF Owed, Awaiting
  <2>3. h = g
    BY <1>1, <2>1, <2>2
  <2>4. pc[g] \notin Awaiting
    BY DEF Awaiting, Reading, Tables
  <2> QED
    BY <1>2, <2>1, <2>2, <2>3, <2>4
<1> QED
  BY <1>3, <1>4 DEF OwedSet

\* Outside RestartXray nothing is tried.
LEMMA TryingSame ==
  ASSUME TypeOK, NEW g \in Goroutines, NEW point, pc[g] # "settle", point # "settle",
         pc' = [pc EXCEPT ![g] = point]
  PROVE  Trying' = Trying
<1>1. \A h \in Goroutines : pc'[h] = "settle" <=> pc[h] = "settle"
  BY DEF TypeOK
<1> QED
  BY <1>1 DEF Trying

\* Inside it, the holder of the mutex alone may be trying.
LEMMA TryingIs ==
  ASSUME TypeOK, MutexInv, NEW g \in Goroutines, NEW point, pc[g] \in Critical,
         pc' = [pc EXCEPT ![g] = point]
  PROVE  (Trying <=> pc[g] = "settle") /\ (Trying' <=> point = "settle")
<1>1. ASSUME NEW h \in Goroutines, h # g PROVE pc[h] # "settle" /\ pc'[h] # "settle"
  BY <1>1 DEF TypeOK, MutexInv, Critical
<1>2. pc'[g] = point
  BY DEF TypeOK
<1> QED
  BY <1>1, <1>2 DEF Trying

\* A step between two points of RestartXray at neither of which anything is owed.
LEMMA InsideStep ==
  ASSUME TypeOK, MutexInv, NEW g \in Goroutines, NEW point, pc[g] \in Critical \ Reading,
         point \notin Awaiting \cup Reading, pc' = [pc EXCEPT ![g] = point],
         UNCHANGED needRestart
  PROVE  /\ OwedSet' = OwedSet
         /\ Trying <=> pc[g] = "settle"
         /\ Trying' <=> point = "settle"
<1>1. pc[g] \notin Awaiting
  BY DEF Critical, Awaiting, Reading, Tables
<1> QED
  BY <1>1, QuietOwed, TryingIs

\* Processes that are what they were run what they ran.
LEMMA StillRuns ==
  ASSUME UNCHANGED procs PROVE RunningMap' = RunningMap
  BY DEF RunningMap

\* When one process at most stops, and no other changes, the reconciler stops
\* what ran there or does nothing.
LEMMA Stopping ==
  ASSUME UNCHANGED <<db, gen, installed>>, OwedSet' = OwedSet, Trying' = Trying, NEW r,
         \A q \in Procs : procs'[q].st = "alive" =>
                            procs[q].st = "alive" /\ procs'[q].cfg = procs[q].cfg,
         \A q \in Procs : procs[q].st = "alive" => q = r \/ procs'[q].st = "alive"
  PROVE  Abstractly
<1>1. \A q \in Procs : q # r => RunningMap'[q] = RunningMap[q]
  BY DEF RunningMap
<1>2. CASE r \in Procs /\ RunningMap'[r] # RunningMap[r]
  <2>1. RunningMap'[r] = None
    BY <1>2 DEF RunningMap
  <2>2. RunningMap' = [RunningMap EXCEPT ![r] = None]
    BY <1>1, <1>2, <2>1 DEF RunningMap
  <2> QED
    BY <1>2, <2>2, IsStop
<1>3. CASE ~(r \in Procs /\ RunningMap'[r] # RunningMap[r])
  <2>1. \A q \in Procs : RunningMap'[q] = RunningMap[q]
    BY <1>1, <1>3
  <2>2. RunningMap' = RunningMap
    BY <2>1 DEF RunningMap
  <2> QED
    BY <2>2, IsStutter
<1> QED
  BY <1>2, <1>3

\* With no live process every slot of the reconciler is empty.
LEMMA NoneAlive ==
  ASSUME \A q \in Procs : procs[q].st # "alive"
  PROVE  \A q \in Procs : RunningMap[q] = None
  BY DEF RunningMap

\* Starting one process fills one slot.
LEMMA OneMore ==
  ASSUME NEW q \in Procs, procs'[q].st = "alive",
         \A r \in Procs : r # q => procs'[r] = procs[r]
  PROVE  RunningMap' = [RunningMap EXCEPT ![q] = procs'[q].cfg]
  BY DEF RunningMap

-----------------------------------------------------------------------------
(* Every step of the program is a step of the reconciler or none *)

\* The database changes, or somebody asks for an attempt.
LEMMA AskingSteps ==
  ASSUME TypeOK, TypeOK', NEW g \in Goroutines,
         \/ Commit(g) \/ UpdateAccessLog(g) \/ SaveSettings(g) \/ RequestStop(g)
         \/ Tick(g) \/ SetToNeedRestart(g) \/ Acquire(g)
  PROVE  Abstractly
<1>1. CASE Commit(g) \/ UpdateAccessLog(g)
  <2>1. PICK point \in Awaiting : pc' = [pc EXCEPT ![g] = point]
    BY <1>1 DEF Commit, UpdateAccessLog, Goto, Awaiting
  <2>2. OwedSet' = Tables
    <3>1. pc'[g] \in Awaiting
      BY <2>1 DEF TypeOK
    <3> QED
      BY <3>1, AskedThen
  <2>3. Trying' = Trying
    <3>1. pc[g] # "settle" /\ point # "settle"
      BY <1>1 DEF Commit, UpdateAccessLog, Awaiting
    <3> QED
      BY <2>1, <3>1, TryingSame
  <2>4. UNCHANGED <<gen, installed, procs>>
    BY <1>1 DEF Commit, UpdateAccessLog, supervisor
  <2>5. db' \in DbState
    BY DEF TypeOK
  <2> QED
    BY <2>2, <2>3, <2>4, <2>5, StillRuns, IsChange
<1>2. CASE SaveSettings(g)
  <2>1. \A t \in Tables \ SilentTables : db'[t] = db[t]
    <3>1. CASE "settings" \in SilentTables /\ \E s \in Settings : db' = [db EXCEPT !.settings = s]
      BY <3>1 DEF Tables, TypeOK, DbState
    <3>2. CASE "switch" \in SilentTables /\ \E b \in BOOLEAN : db' = [db EXCEPT !.switch = b]
      BY <3>2 DEF Tables, TypeOK, DbState
    <3> QED
      BY <1>2, <3>1, <3>2 DEF SaveSettings, Change
  <2>2. UNCHANGED <<gen, installed, procs, pc, needRestart>>
    BY <1>2 DEF SaveSettings, supervisor
  <2>3. db' \in DbState
    BY DEF TypeOK
  <2>4. OwedSet' = OwedSet /\ Trying' = Trying /\ RunningMap' = RunningMap
    BY <2>2, StillOwed, StillRuns
  <2> QED
    BY <2>1, <2>2, <2>3, <2>4, IsSilentChange
<1>3. CASE RequestStop(g) \/ Tick(g) \/ SetToNeedRestart(g) \/ Acquire(g)
  <2>1. PICK point : pc' = [pc EXCEPT ![g] = point]
    BY <1>3 DEF RequestStop, Tick, SetToNeedRestart, Acquire, Goto
  <2>2. pc'[g] = point
    BY <2>1 DEF TypeOK
  <2>3. OwedSet' = Tables
    <3>1. CASE RequestStop(g) \/ Tick(g)
      <4>1. pc'[g] \in Awaiting
        BY <3>1 DEF RequestStop, Tick, Goto, Awaiting, TypeOK
      <4> QED
        BY <4>1, AskedThen
    <3>2. CASE SetToNeedRestart(g)
      BY <3>2, AskedThen DEF SetToNeedRestart
    <3>3. CASE Acquire(g)
      <4>1. pc'[g] = "settings"
        BY <3>3 DEF Acquire, Goto, TypeOK
      <4>2. \A t \in Tables : t \in Remaining(pc'[g])
        BY <4>1 DEF Remaining
      <4> QED
        BY <4>2 DEF OwedSet, Owed
    <3> QED
      BY <1>3, <3>1, <3>2, <3>3
  <2>4. Trying' = Trying
    <3>1. pc[g] # "settle" /\ pc'[g] # "settle"
      BY <1>3 DEF RequestStop, Tick, SetToNeedRestart, Acquire, Goto, TypeOK
    <3> QED
      BY <2>1, <2>2, <3>1, TryingSame
  <2>5. UNCHANGED <<db, gen, installed, procs>>
    BY <1>3 DEF RequestStop, Tick, SetToNeedRestart, Acquire, supervisor, bounds
  <2> QED
    BY <2>3, <2>4, <2>5, StillRuns, IsAsk
<1> QED
  BY <1>1, <1>2, <1>3

\* A generation, whether it succeeds or not.
LEMMA LookingSteps ==
  ASSUME TypeOK, MutexInv, NEW g \in Goroutines, Read(g) \/ Merge(g) \/ GenerationFails(g)
  PROVE  Abstractly
<1>1. pc[g] \in Reading /\ UNCHANGED <<db, needRestart, installed, procs>>
  BY DEF Read, Merge, GenerationFails, Reading, Tables, supervisor, bounds
<1>2. ASSUME NEW point, point \notin Awaiting \cup {"settle"},
             Remaining(point) \subseteq Remaining(pc[g]),
             pc' = [pc EXCEPT ![g] = point],
             \A t \in Tables : gen'[t] = gen[t] \/ Reconciler!Seen(gen', t),
             \A t \in Tables : t \in Remaining(pc[g]) \ Remaining(point)
                                 => Reconciler!Seen(gen', t)
      PROVE  Abstractly
  <2>1. /\ OwedSet' \subseteq OwedSet
        /\ \A t \in OwedSet \ OwedSet' : t \in Remaining(pc[g]) \ Remaining(point)
    BY <1>1, <1>2, ReadOwed
  <2>2. ~Trying /\ ~Trying'
    <3>1. pc[g] \in Critical /\ pc[g] # "settle"
      BY <1>1 DEF Critical, Reading, Tables
    <3> QED
      BY <1>2, <3>1, TryingIs
  <2>3. \A t \in OwedSet \ OwedSet' : Reconciler!Seen(gen', t)
    BY <1>2, <2>1 DEF OwedSet
  <2> QED
    BY <1>1, <1>2, <2>1, <2>2, <2>3, StillRuns, IsLook
<1>3. CASE Read(g)
  <2>1. CASE pc[g] = "settings" /\ gen' = [gen EXCEPT !.settings = db.settings]
                                /\ Goto(g, "inbounds")
    BY <1>2, <2>1
    DEF Goto, TypeOK, Config, DbState, Tables, Awaiting, Remaining, Reconciler!Seen
  <2>2. CASE pc[g] = "inbounds" /\ gen' = [gen EXCEPT !.inbounds = db.inbounds]
                                /\ Goto(g, "switch")
    BY <1>2, <2>2
    DEF Goto, TypeOK, Config, DbState, Tables, Awaiting, Remaining, Reconciler!Seen
  <2>3. CASE pc[g] = "switch" /\ db.switch /\ gen' = [gen EXCEPT !.switch = db.switch]
                              /\ Goto(g, "n5")
    BY <1>2, <2>3
    DEF Goto, TypeOK, Config, DbState, Tables, Awaiting, Remaining, Reconciler!Seen
  <2>4. CASE pc[g] = "switch" /\ ~db.switch /\ Goto(g, "test")
                              /\ gen' = [gen EXCEPT !.switch = db.switch, !.n5 = NoRows]
    BY <1>2, <2>4
    DEF Goto, TypeOK, Config, DbState, Tables, Awaiting, Remaining, Reconciler!Seen
  <2> QED
    BY <1>3, <2>1, <2>2, <2>3, <2>4 DEF Read, TypeOK, Config, DbState
<1>4. CASE Merge(g)
  BY <1>2, <1>4
  DEF Merge, Goto, TypeOK, Config, DbState, Tables, Awaiting, Remaining, Reconciler!Seen
<1>5. CASE GenerationFails(g)
  <2>1. \A t \in Tables : gen'[t] = IF t \in Remaining(pc[g]) THEN db[t] ELSE gen[t]
    BY <1>5 DEF GenerationFails, Tables
  <2>2. pc' = [pc EXCEPT ![g] = "idle"]
    BY <1>5 DEF GenerationFails, Return, Goto
  <2>3. Remaining("idle") = {} /\ "idle" \notin Awaiting \cup {"settle"}
    BY DEF Remaining, Awaiting
  <2> QED
    BY <1>2, <2>1, <2>2, <2>3 DEF Reconciler!Seen
<1> QED
  BY <1>3, <1>4, <1>5

\* The points of RestartXray after the reads.
AfterReads == Critical \ Reading

\* The verdict, the early return, the swap of p and the end of a rollback start
\* nothing.
LEMMA PassingSteps ==
  ASSUME IInv, NEW g \in Goroutines,
         TestConfig(g) \/ KeepRunning(g) \/ Swap(g) \/ Resettle(g)
  PROVE  Abstractly
<1>1. TypeOK /\ MutexInv
  BY DEF IInv
<1>2. PICK point \in {"swap", "launch", "idle"} : pc' = [pc EXCEPT ![g] = point]
  BY DEF TestConfig, KeepRunning, Swap, Resettle, Return, Goto
<1>3. /\ pc[g] \in AfterReads /\ pc[g] # "settle"
      /\ UNCHANGED <<db, gen, needRestart, installed>>
  BY DEF TestConfig, KeepRunning, Swap, Resettle, AfterReads, Critical, Reading, Tables,
         supervisor
<1>4. point \notin Awaiting \cup Reading \cup {"settle"}
  BY <1>2 DEF Awaiting, Reading, Tables
<1>5. OwedSet' = OwedSet /\ Trying' = Trying
  <2>1. OwedSet' = OwedSet /\ ~Trying /\ ~Trying'
    BY <1>1, <1>2, <1>3, <1>4, InsideStep DEF AfterReads
  <2> QED
    BY <2>1, Zenon DEF Trying
<1>6. CASE TestConfig(g) \/ KeepRunning(g) \/ Resettle(g)
  <2>1. UNCHANGED procs
    BY <1>6 DEF TestConfig, KeepRunning, Resettle, supervisor
  <2> QED
    BY <1>3, <1>5, <2>1, StillRuns, IsStutter
<1>7. CASE Swap(g)
  <2>1. PICK q \in Procs : /\ Unused(q)
                           /\ procs' = [Stopped EXCEPT ![q] = [st |-> "gone", cfg |-> gen]]
    BY <1>7 DEF Swap
  <2>2. PICK r : r = p
    OBVIOUS
  <2>3. \A s \in Procs : /\ procs'[s].st = "alive" =>
                              procs[s].st = "alive" /\ procs'[s].cfg = procs[s].cfg
                         /\ procs[s].st = "alive" => s = r \/ procs'[s].st = "alive"
    BY <1>1, <2>1, <2>2 DEF Stopped, Unused, IsRunning, TypeOK
  <2> QED
    BY <1>3, <1>5, <2>3, Stopping
<1> QED
  BY <1>6, <1>7

\* Without p and rollbackProcess no Xray is alive.
LEMMA NothingAlive ==
  ASSUME NoOrphan, rollback = None, p # None => procs[p].st # "alive"
  PROVE  \A q \in Procs : RunningMap[q] = None
<1>1. \A q \in Procs : procs[q].st # "alive"
  BY NoneIsNothing DEF NoOrphan
<1> QED
  BY <1>1, NoneAlive

\* The start of p, the look at it and the rollback.
LEMMA StartingSteps ==
  ASSUME IInv, NEW g \in Goroutines, Launch(g) \/ Settle(g) \/ Relaunch(g)
  PROVE  Abstractly
<1>1. TypeOK /\ MutexInv /\ NoOrphan
  BY DEF IInv, InstalledInv
<1>2. /\ pc[g] \in {"launch", "settle", "relaunch"} /\ pc[g] \in AfterReads
      /\ pc[g] \in Critical /\ pc[g] \in Swapped
      /\ UNCHANGED <<db, gen, needRestart>>
  BY DEF Launch, Settle, Relaunch, AfterReads, Critical, Reading, Tables, Swapped
<1>3. Phase = pc[g]
  BY <1>1, <1>2, Inside
<1>4. PICK q \in Procs : q = p
  BY <1>2, <1>3 DEF IInv, LocalsInv, At, TypeOK
<1>5. procs[q].cfg = gen /\ gen \notin Rejected /\ rollback = None
  BY <1>2, <1>3, <1>4 DEF IInv, LocalsInv, At, Tested, Swapped
<1>6. ASSUME procs[q].st # "alive" PROVE \A r \in Procs : RunningMap[r] = None
  BY <1>1, <1>4, <1>5, <1>6, NothingAlive
<1>7. ASSUME NEW point \in {"settle", "relaunch", "resettle", "idle"},
             pc' = [pc EXCEPT ![g] = point]
      PROVE  /\ OwedSet' = OwedSet
             /\ Trying <=> pc[g] = "settle"
             /\ Trying' <=> point = "settle"
  <2>1. point \notin Awaiting \cup Reading
    BY <1>7 DEF Awaiting, Reading, Tables
  <2> QED
    BY <1>1, <1>2, <1>7, <2>1, InsideStep DEF AfterReads
<1>8. ASSUME StartFailed(g)
      PROVE  \E point \in {"relaunch", "idle"} : pc' = [pc EXCEPT ![g] = point]
  BY <1>8 DEF StartFailed, Return, Goto
<1>9. CASE Launch(g)
  <2>1. procs[q].st = "gone" /\ UNCHANGED installed /\ pc[g] = "launch"
    BY <1>3, <1>4, <1>9 DEF Launch, IInv, LocalsInv, At
  <2>2. CASE procs' = [procs EXCEPT ![p].st = "alive"] /\ Goto(g, "settle")
    <3>1. procs'[q].st = "alive" /\ procs'[q].cfg = gen
      BY <1>1, <1>4, <1>5, <2>2 DEF TypeOK
    <3>2. \A r \in Procs : r # q => procs'[r] = procs[r]
      BY <1>1, <1>4, <2>2 DEF TypeOK
    <3>3. RunningMap' = [RunningMap EXCEPT ![q] = gen]
      BY <3>1, <3>2, OneMore
    <3>4. OwedSet' = OwedSet /\ ~Trying /\ Trying'
      BY <1>7, <2>1, <2>2 DEF Goto
    <3>5. \A r \in Procs : RunningMap[r] = None
      BY <1>6, <2>1
    <3> QED
      BY <1>2, <1>5, <2>1, <3>3, <3>4, <3>5, IsTry
  <2>3. CASE StartFailed(g) /\ UNCHANGED procs
    <3>1. OwedSet' = OwedSet /\ ~Trying /\ ~Trying'
      BY <1>7, <1>8, <2>1, <2>3
    <3>2. Trying' = Trying
      BY <3>1, Zenon DEF Trying
    <3> QED
      BY <1>2, <2>1, <2>3, <3>1, <3>2, StillRuns, IsStutter
  <2> QED
    BY <1>9, <2>2, <2>3 DEF Launch
<1>10. CASE Settle(g)
  <2>1. pc[g] = "settle" /\ UNCHANGED procs
    BY <1>10 DEF Settle
  <2>2. CASE Return(g, "ok") /\ installed' = gen
    <3>1. OwedSet' = OwedSet /\ Trying /\ ~Trying'
      BY <1>7, <2>1, <2>2 DEF Return, Goto
    <3> QED
      BY <1>2, <2>1, <2>2, <3>1, StillRuns, IsKeep
  <2>3. CASE ~IsRunning(p) /\ StartFailed(g) /\ UNCHANGED installed
    <3>1. OwedSet' = OwedSet /\ Trying /\ ~Trying'
      BY <1>7, <1>8, <2>1, <2>3
    <3>2. procs[q].st # "alive"
      BY <1>4, <2>3, NoneIsNothing DEF IsRunning
    <3> QED
      BY <1>2, <1>6, <2>1, <2>3, <3>1, <3>2, StillRuns, IsGiveUp
  <2> QED
    BY <1>10, <2>2, <2>3 DEF Settle
<1>11. CASE Relaunch(g)
  <2>1. pc[g] = "relaunch" /\ UNCHANGED installed
    BY <1>11 DEF Relaunch
  <2>2. procs[q].st = "gone" /\ old # None /\ old = installed
    BY <1>3, <1>4, <2>1 DEF IInv, LocalsInv, At
  <2>3. ASSUME NEW r \in Procs, procs' = [procs EXCEPT ![r] = [st |-> "alive", cfg |-> old]],
               Goto(g, "resettle")
        PROVE  Abstractly
    <3>1. procs'[r].st = "alive" /\ procs'[r].cfg = installed
      BY <1>1, <2>2, <2>3 DEF TypeOK
    <3>2. \A s \in Procs : s # r => procs'[s] = procs[s]
      BY <1>1, <2>3 DEF TypeOK
    <3>3. RunningMap' = [RunningMap EXCEPT ![r] = installed]
      BY <3>1, <3>2, OneMore
    <3>4. OwedSet' = OwedSet /\ ~Trying /\ ~Trying'
      BY <1>7, <2>1, <2>3 DEF Goto
    <3>5. (\A s \in Procs : RunningMap[s] = None) /\ installed # None
      BY <1>6, <2>2
    <3> QED
      BY <1>2, <2>1, <3>3, <3>4, <3>5, IsRestore
  <2>4. CASE Return(g, "error") /\ UNCHANGED procs
    <3>1. OwedSet' = OwedSet /\ ~Trying /\ ~Trying'
      BY <1>7, <2>1, <2>4 DEF Return, Goto
    <3>2. Trying' = Trying
      BY <3>1, Zenon DEF Trying
    <3> QED
      BY <1>2, <2>1, <2>4, <3>1, <3>2, StillRuns, IsStutter
  <2> QED
    BY <1>11, <2>3, <2>4 DEF Relaunch
<1> QED
  BY <1>9, <1>10, <1>11

\* The keepalive job, the stops, the reload and the deaths of a process or of the panel.
LEMMA OutsideSteps ==
  ASSUME TypeOK,
         \/ \E g \in Goroutines : StopXray(g)
         \/ CheckXrayRunning \/ StartServer \/ PanelCrash
         \/ \E q \in Procs : Exit(q) \/ Reap(q)
  PROVE  Abstractly
<1>1. ASSUME NEW g \in Goroutines, StopXray(g) PROVE Abstractly
  <2>1. PICK point \in {"halted", "wait"} : pc' = [pc EXCEPT ![g] = point]
    BY <1>1 DEF StopXray, Goto
  <2>2. pc[g] = "waitStop" /\ UNCHANGED <<db, gen, installed>>
    BY <1>1 DEF StopXray, bounds
  <2>3. OwedSet' = OwedSet
    <3>1. pc[g] \in Awaiting /\ pc'[g] \in Awaiting
      BY <2>1, <2>2 DEF Awaiting, TypeOK
    <3> QED
      BY <3>1, Asked, AskedThen
  <2>4. Trying' = Trying
    BY <2>1, <2>2, TryingSame
  <2>5. PICK r : r = p
    OBVIOUS
  <2>6. \A s \in Procs : /\ procs'[s].st = "alive" =>
                              procs[s].st = "alive" /\ procs'[s].cfg = procs[s].cfg
                         /\ procs[s].st = "alive" => s = r \/ procs'[s].st = "alive"
    BY <1>1, <2>5 DEF StopXray, Stopped, IsRunning, TypeOK
  <2> QED
    BY <2>2, <2>3, <2>4, <2>6, Stopping
<1>2. CASE CheckXrayRunning
  <2>1. UNCHANGED <<db, gen, installed, procs, pc>> /\ (needRestart => needRestart')
    BY <1>2 DEF CheckXrayRunning, supervisor, bounds
  <2>2. Trying' = Trying
    BY <2>1 DEF Trying
  <2>3. CASE needRestart'
    BY <2>1, <2>2, <2>3, AskedThen, StillRuns, IsAsk
  <2>4. CASE ~needRestart'
    <3>1. ~needRestart
      BY <2>1, <2>4
    <3>2. OwedSet' = OwedSet
      BY <2>1, <2>4, <3>1 DEF OwedSet, Owed, Remaining
    <3> QED
      BY <2>1, <2>2, <3>2, StillRuns, IsStutter
  <2> QED
    BY <2>3, <2>4
<1>3. CASE StartServer
  <2>1. Web \in Goroutines
    BY DEF Goroutines
  <2>2. pc[Web] = "halted" /\ pc' = [pc EXCEPT ![Web] = "wait"]
        /\ UNCHANGED <<db, gen, installed, procs>>
    BY <1>3 DEF StartServer, Goto, supervisor, bounds
  <2>3. OwedSet' = Tables
    <3>1. pc'[Web] \in Awaiting
      BY <2>1, <2>2 DEF Awaiting, TypeOK
    <3> QED
      BY <2>1, <3>1, AskedThen
  <2>4. Trying' = Trying
    BY <2>1, <2>2, TryingSame
  <2> QED
    BY <2>2, <2>3, <2>4, StillRuns, IsAsk
<1>4. CASE PanelCrash
  <2>1. UNCHANGED <<db, gen>> /\ installed' = None
    BY <1>4 DEF PanelCrash
  <2>2. OwedSet' = Tables
    <3>1. Web \in Goroutines /\ pc'[Web] \in Awaiting
      BY <1>4 DEF PanelCrash, Awaiting, Goroutines
    <3> QED
      BY <3>1, AskedThen
  <2>3. ~Trying'
    BY <1>4 DEF PanelCrash, Trying
  <2>4. RunningMap' = [q \in Procs |-> None]
    <3>1. \A q \in Procs : procs'[q].st # "alive"
      BY <1>4 DEF PanelCrash, TypeOK
    <3> QED
      BY <3>1 DEF RunningMap
  <2> QED
    BY <2>1, <2>2, <2>3, <2>4, IsCrash
<1>5. ASSUME NEW q \in Procs, Exit(q) \/ Reap(q) PROVE Abstractly
  <2>1. UNCHANGED <<db, gen, installed, pc, needRestart>>
    BY <1>5 DEF Exit, Reap, bounds
  <2>2. \A s \in Procs : /\ procs'[s].st = "alive" =>
                              procs[s].st = "alive" /\ procs'[s].cfg = procs[s].cfg
                         /\ procs[s].st = "alive" => s = q \/ procs'[s].st = "alive"
    BY <1>5 DEF Exit, Reap, TypeOK
  <2> QED
    BY <2>1, <2>2, StillOwed, Stopping
<1> QED
  BY <1>1, <1>2, <1>3, <1>4, <1>5

\* Under the invariant a step of the program is a step of the reconciler or none.
LEMMA AbstractStep == IInv /\ TypeOK' /\ [Next]_vars => Abstractly
<1> SUFFICES ASSUME IInv, TypeOK', [Next]_vars PROVE Abstractly
  OBVIOUS
<1>1. TypeOK /\ MutexInv
  BY DEF IInv
<1>2. ASSUME NEW g \in Goroutines,
             \/ Commit(g) \/ SaveSettings(g) \/ UpdateAccessLog(g) \/ RequestStop(g)
             \/ Tick(g) \/ Acquire(g) \/ SetToNeedRestart(g)
      PROVE  Abstractly
  BY <1>1, <1>2, AskingSteps
<1>3. ASSUME NEW g \in Goroutines, Read(g) \/ Merge(g) \/ GenerationFails(g)
      PROVE  Abstractly
  BY <1>1, <1>3, LookingSteps
<1>4. ASSUME NEW g \in Goroutines,
             TestConfig(g) \/ KeepRunning(g) \/ Swap(g) \/ Resettle(g)
      PROVE  Abstractly
  BY <1>4, PassingSteps
<1>5. ASSUME NEW g \in Goroutines, Launch(g) \/ Settle(g) \/ Relaunch(g)
      PROVE  Abstractly
  BY <1>5, StartingSteps
<1>6. CASE \/ \E g \in Goroutines : StopXray(g)
           \/ CheckXrayRunning \/ StartServer \/ PanelCrash
           \/ \E q \in Procs : Exit(q) \/ Reap(q)
  BY <1>1, <1>6, OutsideSteps
<1>7. CASE UNCHANGED vars
  <2>1. UNCHANGED <<db, gen, installed, procs, pc, needRestart>>
    BY <1>7 DEF vars, supervisor
  <2> QED
    BY <2>1, StillOwed, StillRuns, IsStutter
<1> QED
  BY <1>2, <1>3, <1>4, <1>5, <1>6, <1>7 DEF Next, Step

\* The panel boots as the reconciler does: everything is to be looked at, nothing
\* runs, nothing was kept.
LEMMA AbstractInit == Init => Reconciler!Init
<1> SUFFICES ASSUME Init PROVE Reconciler!Init
  OBVIOUS
<1>1. OwedSet = Tables
  <2>1. Web \in Goroutines /\ pc[Web] \in Awaiting
    BY DEF Init, Goroutines, Awaiting
  <2> QED
    BY <2>1, Asked
<1>2. RunningMap = [q \in Procs |-> None]
  BY DEF Init, RunningMap
<1>3. ~Trying
  BY DEF Init, Trying
<1>4. db \in DbState /\ gen = db /\ installed = None
  BY DEF Init
<1> QED
  BY <1>1, <1>2, <1>3, <1>4, Zenon DEF Reconciler!Init, OwedSet, RunningMap, Trying

-----------------------------------------------------------------------------
(* The refinement *)

\* XrayLifecycle implements ConfigReconciler: for any number of goroutines, any
\* interleaving with the cron, the children and the faults, nothing asked for is
\* dropped without a look at it, and an Xray is started only when none is alive
\* (xray.go:213-270).
THEOREM ImplementsReconciler == Spec => Reconciles
<1>1. IInv /\ TypeOK' /\ [Next]_vars => [Reconciler!Next]_(Reconciler!vars)
  BY AbstractStep DEF Abstractly
<1> QED
  BY <1>1, AbstractInit, Inductive, TypeCorrect, PTL DEF Spec, Reconciles, Reconciler!Spec
=============================================================================
