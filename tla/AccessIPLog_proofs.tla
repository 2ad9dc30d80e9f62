------------------------- MODULE AccessIPLog_proofs -------------------------
(***************************************************************************)
(* The safety invariants of AccessIPLog hold for every number of lines,    *)
(* pages, requests and faults.                                             *)
(*                                                                         *)
(* A line before the saved offset is only accounted for because the same   *)
(* holds of the position a reader has reached, less what it has buffered;  *)
(* a line is only counted once because a line that may still be read has   *)
(* been counted at most as often as something failed.                      *)
(***************************************************************************)
EXTENDS AccessIPLog, TLAPS

\* Where the holder of the mutex is.
Phase == IF mu = None THEN "idle" ELSE pc[mu]
Reading == Phase \in {"scan", "save"}

\* A request that changes the settings holds what it read and wants.
FormInv ==
  \A p \in Workers :
    /\ form[p] # None => p \in Admins /\ pc[p] \in {"log", "agg", "skip", "save", "restart"}
    /\ pc[p] \in {"log", "agg", "skip", "restart"} => form[p] # None

\* How far the one update under way has come.
SwitchInv ==
  ~excused =>
    /\ \A a, b \in Admins : form[a] # None /\ form[b] # None => a = b
    /\ \A a \in Admins : form[a] # None =>
         IF pc[a] = "log"
           THEN setLog = form[a].cur.log /\ xrayLog = setLog
           ELSE /\ setLog = form[a].want.log
                /\ form[a].cur.log = form[a].want.log => xrayLog = setLog
    /\ LogSwitchFollowed

\* The locals of the holder.  When the file is shorter than the position reached
\* it was truncated, and what is buffered is not in it any more.
ScanInv ==
  /\ Phase \in {"idle", "stat"} => scan = NoScan
  /\ scan.next <= scan.last + 1
  /\ scan.last <= written /\ scan.last <= start + scan.pos
  /\ size < scan.pos => scan.last <= start
  /\ Phase \in {"save", "dump"} => scan.next > scan.last

Accounted(l) == hits[l] > 0 \/ l \in forgotten \/ l \in overtaken

\* A line before the position reached is accounted for, or still buffered.
CoverInv ==
  /\ NothingSkipped
  /\ Reading => \A l \in InFile :
       l <= start + scan.pos => Accounted(l) \/ l \in scan.next .. scan.last

\* Lines that may be counted from now on, if nothing fails.
Here == IF Reading THEN scan.pos ELSE offset
Pending(l) == \/ l \in scan.next .. scan.last
              \/ l > start + Here
              \/ size < Here /\ l > start

Times(l) == hits[l] + (IF l \in forgotten THEN 1 ELSE 0)

CountInv ==
  /\ \A l \in Lines : l > written => Times(l) = 0
  /\ \A l \in Lines : Pending(l) => Times(l) <= faults
  /\ \A l \in Lines : Times(l) <= 1 + faults

IInv == TypeOK /\ FormInv /\ SwitchInv /\ ScanInv /\ CoverInv /\ CountInv

-----------------------------------------------------------------------------
(* Operators *)

\* The larger of two positions.
LEMMA MaxOfTwo ==
  ASSUME NEW m \in Nat, NEW n \in Nat, NEW k \in Int
  PROVE  k < Max({m, n}) <=> k < m \/ k < n
<1>1. \E x \in {m, n} : \A y \in {m, n} : x >= y
  <2>1. CASE m >= n
    BY <2>1
  <2>2. CASE ~(m >= n)
    BY <2>2
  <2> QED
    BY <2>1, <2>2
<1>2. /\ Max({m, n}) \in {m, n}
      /\ \A y \in {m, n} : Max({m, n}) >= y
  BY <1>1 DEF Max
<1> QED
  BY <1>2

-----------------------------------------------------------------------------
(* Types *)

\* The mutex and the program points.
MutexType ==
  /\ mu \in Workers \cup {None}
  /\ pc \in [Workers -> Critical \cup
               {"idle", "read", "clear", "skip", "log", "agg", "restart"}]
  /\ \A p \in Workers : pc[p] \in Critical <=> mu = p

\* The file, the offset, the counts and the bounds.
FileType ==
  /\ written \in 0..MaxLines /\ start \in 0..written /\ offset \in 0..MaxLines
  /\ hits \in [Lines -> Nat] /\ summary \in [Lines -> Nat]
  /\ forgotten \subseteq Lines /\ overtaken \subseteq Lines
  /\ requests \in 0..MaxRequests /\ faults \in 0..MaxFaults

ScanType == scan \in [next : 1..MaxLines + 1, last : 0..MaxLines, pos : 0..MaxLines]

SettingsType ==
  /\ setLog \in BOOLEAN /\ setAgg \in BOOLEAN /\ xrayLog \in BOOLEAN
  /\ form \in [Workers -> [cur : Settings, want : Settings] \cup {None}]
  /\ excused \in BOOLEAN

\* The parts are all of it.
LEMMA TypeParts == TypeOK <=> MutexType /\ FileType /\ ScanType /\ SettingsType
  BY Zenon DEF TypeOK, MutexType, FileType, ScanType, SettingsType

\* The same, after a step.
LEMMA TypePartsPrime == TypeOK' <=> MutexType' /\ FileType' /\ ScanType' /\ SettingsType'
  BY Zenon DEF TypeOK, MutexType, FileType, ScanType, SettingsType

Points == Critical \cup {"idle", "read", "clear", "skip", "log", "agg", "restart"}

\* Lock: the goroutine gets the mutex.
LEMMA Acquires ==
  ASSUME MutexType, NEW p \in Workers, NEW point \in Critical,
         Lock(p), Goto(p, point)
  PROVE  MutexType' /\ Phase' = point
  BY WorkerAssumption DEF MutexType, Lock, Goto, Phase, Workers

\* The holder goes on inside.
LEMMA Inside ==
  ASSUME MutexType, NEW p \in Workers, NEW point \in Critical,
         pc[p] \in Critical, Goto(p, point), UNCHANGED mu
  PROVE  MutexType' /\ Phase = pc[p] /\ Phase' = point
  BY WorkerAssumption DEF MutexType, Goto, Phase, Workers

\* The holder unlocks.
LEMMA Releases ==
  ASSUME MutexType, NEW p \in Workers, NEW point \in Points \ Critical,
         pc[p] \in Critical, Goto(p, point), mu' = None
  PROVE  MutexType' /\ Phase = pc[p] /\ Phase' = "idle"
  BY WorkerAssumption DEF MutexType, Goto, Phase, Workers, Points

\* A goroutine moves that has no mutex and needs none.
LEMMA Outside ==
  ASSUME MutexType, NEW p \in Workers, NEW point \in Points \ Critical,
         pc[p] \notin Critical, Goto(p, point), UNCHANGED mu
  PROVE  MutexType' /\ Phase' = Phase
  BY WorkerAssumption DEF MutexType, Goto, Phase, Workers, Points

\* The initial state has its types.
LEMMA TypeInit == Init => TypeOK
<1> SUFFICES ASSUME Init PROVE TypeOK
  OBVIOUS
<1>1. MutexType
  BY WorkerAssumption DEF Init, MutexType, Critical, Workers
<1>2. FileType
  BY BoundAssumption DEF Init, FileType
<1>3. ScanType
  BY BoundAssumption DEF Init, ScanType, NoScan
<1>4. SettingsType
  BY DEF Init, SettingsType
<1> QED
  BY <1>1, <1>2, <1>3, <1>4, TypeParts

\* Steps that neither hold the mutex nor take it.
Quiet(p) ==
  \/ Disabled(p) \/ ProcessAccessLog(p) \/ ClearAccessIPRecords(p) \/ UpdateConfig(p)
  \/ SaveLog(p) \/ SaveAgg(p) \/ RestartIfChanged(p) \/ UpdateFails(p)

\* Which goroutine holds the mutex, and where it is, before and after each step.
LEMMA Moves ==
  ASSUME MutexType, NEW p \in Workers
  PROVE  /\ Quiet(p) => MutexType' /\ Phase' = Phase
         /\ Open(p) => MutexType' /\ Phase = "idle" /\ Phase' = "scan"
         /\ NoFile(p) => MutexType' /\ Phase = "idle" /\ Phase' = "dump"
         /\ Fill(p) \/ UpsertRecord(p) => MutexType' /\ Phase = "scan" /\ Phase' = "scan"
         /\ EndOfFile(p) => MutexType' /\ Phase = "scan" /\ Phase' = "save"
         /\ SaveState(p) => /\ MutexType' /\ Phase = "save"
                            /\ Phase' = IF form[p] = None THEN "dump" ELSE "idle"
         /\ DumpSummary(p) => MutexType' /\ Phase = "dump" /\ Phase' = "idle"
         /\ DeleteRecords(p) => MutexType' /\ Phase = "idle" /\ Phase' = "stat"
         /\ Stat(p) => MutexType' /\ Phase = "stat" /\ Phase' = "save"
         /\ SkipCurrentAccessLog(p) => MutexType' /\ Phase = "idle" /\ Phase' = "save"
         /\ Fail(p) => MutexType' /\ Phase' = "idle"
<1> USE DEF Points, Critical
<1>1. ASSUME Quiet(p) PROVE MutexType' /\ Phase' = Phase
  <2>1. CASE Disabled(p)
    BY <2>1 DEF Disabled, vars, MutexType, Phase
  <2>2. CASE ~Disabled(p)
    <3>1. /\ pc[p] \in {"idle", "log", "agg", "restart"} /\ UNCHANGED mu
          /\ \E point \in {"read", "clear", "log", "agg", "skip", "restart", "idle"} :
               Goto(p, point)
      BY <1>1, <2>2 DEF Quiet, ProcessAccessLog, ClearAccessIPRecords, UpdateConfig, SaveLog,
                        SaveAgg, RestartIfChanged, UpdateFails, Request
    <3> QED
      BY <3>1, Outside
  <2> QED
    BY <2>1, <2>2
<1>2. ASSUME Open(p) PROVE MutexType' /\ Phase = "idle" /\ Phase' = "scan"
  BY <1>2, Acquires DEF Open, Lock, Phase
<1>11. ASSUME NoFile(p) PROVE MutexType' /\ Phase = "idle" /\ Phase' = "dump"
  BY <1>11, Acquires DEF NoFile, Lock, Phase
<1>3. ASSUME Fill(p) \/ UpsertRecord(p) PROVE MutexType' /\ Phase = "scan" /\ Phase' = "scan"
  <2>1. pc[p] = "scan" /\ UNCHANGED <<mu, pc>>
    BY <1>3 DEF Fill, UpsertRecord
  <2> QED
    BY <2>1, WorkerAssumption DEF MutexType, Phase, Workers
<1>4. ASSUME EndOfFile(p) PROVE MutexType' /\ Phase = "scan" /\ Phase' = "save"
  BY <1>4, Inside DEF EndOfFile
<1>5. ASSUME SaveState(p)
      PROVE  /\ MutexType' /\ Phase = "save"
             /\ Phase' = IF form[p] = None THEN "dump" ELSE "idle"
  <2>1. CASE form[p] = None
    BY <1>5, <2>1, Inside DEF SaveState
  <2>2. CASE form[p] # None
    BY <1>5, <2>2, Releases DEF SaveState
  <2> QED
    BY <2>1, <2>2
<1>6. ASSUME DumpSummary(p) PROVE MutexType' /\ Phase = "dump" /\ Phase' = "idle"
  BY <1>6, Releases DEF DumpSummary
<1>7. ASSUME DeleteRecords(p) PROVE MutexType' /\ Phase = "idle" /\ Phase' = "stat"
  BY <1>7, Acquires DEF DeleteRecords, Lock, Phase
<1>8. ASSUME Stat(p) PROVE MutexType' /\ Phase = "stat" /\ Phase' = "save"
  BY <1>8, Inside DEF Stat
<1>9. ASSUME SkipCurrentAccessLog(p)
      PROVE  MutexType' /\ Phase = "idle" /\ Phase' = "save"
  BY <1>9, Acquires DEF SkipCurrentAccessLog, Lock, Phase
<1>10. ASSUME Fail(p) PROVE MutexType' /\ Phase' = "idle"
  <2>1. pc[p] \in Critical /\ Goto(p, "idle") /\ mu' = None
    BY <1>10 DEF Fail, MutexType
  <2> QED
    BY <2>1, Releases
<1> QED
  BY <1>1, <1>2, <1>3, <1>4, <1>5, <1>6, <1>7, <1>8, <1>9, <1>10, <1>11

\* The mutex and the program points keep their types.
LEMMA MutexTypeNext == MutexType /\ [Next]_vars => MutexType'
<1> SUFFICES ASSUME MutexType, [Next]_vars PROVE MutexType'
  OBVIOUS
<1>1. CASE Crash
  BY <1>1, WorkerAssumption DEF Crash, MutexType, Critical, Workers
<1>2. CASE Write \/ Rotate \/ RestartXray \/ UNCHANGED vars
  BY <1>2 DEF Write, Rotate, RestartXray, vars, MutexType
<1>3. ASSUME NEW p \in Workers, Quiet(p) \/ Step(p) \/ Fail(p) PROVE MutexType'
  BY <1>3, Moves DEF Step, Quiet, SaveLog, SaveAgg, RestartIfChanged
<1> QED
  BY <1>1, <1>2, <1>3 DEF Next, Quiet, Workers

\* The counts, the offset and the bounds keep their types.
LEMMA FileTypeNext == TypeOK /\ [Next]_vars => FileType'
<1> SUFFICES ASSUME TypeOK, [Next]_vars PROVE FileType'
  OBVIOUS
<1>0. FileType /\ ScanType
  BY TypeParts
<1> USE DEF logfile, counts
<1>1. CASE Write \/ Rotate
  <2>1. written + 1 \in Lines \/ ~Write
    BY <1>0, BoundAssumption DEF FileType, Lines, Write
  <2> QED
    BY <1>0, <1>1, <2>1, BoundAssumption DEF Write, Rotate, FileType, ScanType
<1>2. CASE RestartXray \/ UNCHANGED vars
  BY <1>0, <1>2 DEF RestartXray, vars, FileType
<1>3. ASSUME NEW p \in Workers, Quiet(p) \/ Fail(p) PROVE FileType'
  BY <1>0, <1>3, BoundAssumption
  DEF FileType, Quiet, Disabled, ProcessAccessLog, ClearAccessIPRecords, UpdateConfig, SaveLog,
      SaveAgg, RestartIfChanged, UpdateFails, Fail, Request, vars
<1>4. CASE Crash
  BY <1>0, <1>4, BoundAssumption DEF Crash, FileType
<1>5. ASSUME NEW p \in Workers,
             \/ Open(p) \/ NoFile(p) \/ Fill(p) \/ EndOfFile(p) \/ SaveState(p)
             \/ DumpSummary(p)
      PROVE  FileType'
  BY <1>0, <1>5 DEF Open, NoFile, Fill, EndOfFile, SaveState, DumpSummary, FileType, ScanType
<1>6. ASSUME NEW p \in Workers, UpsertRecord(p) PROVE FileType'
  <2>1. scan.next \in Lines
    BY <1>0, <1>6, BoundAssumption DEF ScanType, UpsertRecord, Lines
  <2>2. hits' \in [Lines -> Nat]
    BY <1>0, <1>6, <2>1 DEF FileType, UpsertRecord
  <2> QED
    BY <1>0, <1>6, <2>2 DEF UpsertRecord, FileType
<1>7. ASSUME NEW p \in Workers, DeleteRecords(p) \/ Stat(p) \/ SkipCurrentAccessLog(p)
      PROVE  FileType'
  <2>1. InFile \subseteq Lines
    BY <1>0, BoundAssumption DEF FileType, InFile, Lines
  <2> QED
    BY <1>0, <1>7, <2>1
    DEF DeleteRecords, Stat, SkipCurrentAccessLog, Skip, FileType
<1> QED
  BY <1>1, <1>2, <1>3, <1>4, <1>5, <1>6, <1>7 DEF Next, Step, Quiet, Workers

\* What a reader buffers are lines, at positions of the file.
LEMMA ScanTypeNext == TypeOK /\ [Next]_vars => ScanType'
<1> SUFFICES ASSUME TypeOK, [Next]_vars PROVE ScanType'
  OBVIOUS
<1>0. FileType /\ ScanType
  BY TypeParts
<1>1. NoScan \in [next : 1..MaxLines + 1, last : 0..MaxLines, pos : 0..MaxLines]
  BY BoundAssumption DEF NoScan
<1>2. size \in 0..MaxLines
  BY <1>0, BoundAssumption DEF FileType, size
<1>3. CASE UNCHANGED scan
  BY <1>0, <1>3 DEF ScanType
<1>4. ASSUME NEW q \in 0..MaxLines, scan' = [NoScan EXCEPT !.pos = q] PROVE ScanType'
  BY <1>1, <1>4 DEF ScanType
<1>5. CASE scan' = NoScan
  BY <1>1, <1>5 DEF ScanType
<1>6. ASSUME NEW p \in Workers, Open(p) PROVE ScanType'
  BY <1>0, <1>4, <1>6, BoundAssumption DEF Open, FileType
<1>7. ASSUME NEW p \in Workers, Fill(p) PROVE ScanType'
  <2>1. start + scan.pos + 1 \in 1..MaxLines + 1 /\ written \in 0..MaxLines
    BY <1>0, <1>7, BoundAssumption DEF FileType, ScanType, Fill, size
  <2> QED
    BY <1>2, <1>7, <2>1 DEF Fill, ScanType
<1>8. ASSUME NEW p \in Workers, UpsertRecord(p) PROVE ScanType'
  BY <1>0, <1>8, BoundAssumption DEF UpsertRecord, ScanType
<1>9. ASSUME NEW p \in Workers, Stat(p) \/ SkipCurrentAccessLog(p) PROVE ScanType'
  BY <1>2, <1>4, <1>9 DEF Stat, SkipCurrentAccessLog
<1>10. ASSUME NEW p \in Workers,
              \/ NoFile(p) \/ EndOfFile(p) \/ SaveState(p) \/ DumpSummary(p)
              \/ DeleteRecords(p) \/ Fail(p)
       PROVE  UNCHANGED scan \/ scan' = NoScan
  BY <1>10 DEF NoFile, EndOfFile, SaveState, DumpSummary, DeleteRecords, Fail
<1>11. ASSUME NEW p \in Workers, Quiet(p) PROVE UNCHANGED scan
  BY <1>11 DEF Quiet, Disabled, ProcessAccessLog, ClearAccessIPRecords, UpdateConfig, SaveLog,
               SaveAgg, RestartIfChanged, UpdateFails, vars
<1>12. CASE Write \/ Rotate \/ RestartXray \/ Crash \/ UNCHANGED vars
  BY <1>3, <1>5, <1>12 DEF Write, Rotate, RestartXray, Crash, vars
<1> QED
  BY <1>3, <1>5, <1>6, <1>7, <1>8, <1>9, <1>10, <1>11, <1>12 DEF Next, Step, Quiet, Workers

\* What a request that changes the settings remembers of them.
LEMMA FormOpened ==
  ASSUME TypeOK, NEW a \in Admins, UpdateConfig(a)
  PROVE  \E f \in [cur : Settings, want : Settings] :
           form' = [form EXCEPT ![a] = f] /\ f.cur.log = setLog
<1> DEFINE cur == [log |-> setLog, agg |-> setAgg]
<1>1. cur \in Settings /\ [cur EXCEPT !.log = ~@] \in Settings
                       /\ [cur EXCEPT !.agg = ~@] \in Settings
  BY TypeParts DEF SettingsType, Settings
<1>2. PICK want \in {[cur EXCEPT !.log = ~@], [cur EXCEPT !.agg = ~@]} :
        form' = [form EXCEPT ![a] = [cur |-> cur, want |-> want]]
  BY DEF UpdateConfig
<1>3. [cur |-> cur, want |-> want] \in [cur : Settings, want : Settings]
  BY <1>1
<1> QED
  BY <1>2, <1>3

\* The settings, stored and wanted, keep their types.
LEMMA SettingsTypeNext == TypeOK /\ FormInv /\ [Next]_vars => SettingsType'
<1> SUFFICES ASSUME TypeOK, FormInv, [Next]_vars PROVE SettingsType'
  OBVIOUS
<1>0. SettingsType
  BY TypeParts
<1> USE DEF settings
<1>1. ASSUME NEW a \in Workers, form[a] # None
      PROVE  form[a].cur \in Settings /\ form[a].want \in Settings
  BY <1>0, <1>1 DEF SettingsType
<1>2. ASSUME NEW a \in Admins, UpdateConfig(a) PROVE SettingsType'
  <2>1. form' \in [Workers -> [cur : Settings, want : Settings] \cup {None}]
    BY <1>0, <1>2, FormOpened DEF SettingsType
  <2> QED
    BY <1>0, <1>2, <2>1 DEF SettingsType, UpdateConfig
<1>3. ASSUME NEW a \in Workers, SaveLog(a) \/ SaveAgg(a) PROVE SettingsType'
  <2>1. form[a] # None
    BY <1>3 DEF SaveLog, SaveAgg, FormInv
  <2>2. form[a].want.log \in BOOLEAN /\ form[a].want.agg \in BOOLEAN
    BY <1>1, <2>1 DEF Settings
  <2> QED
    BY <1>0, <1>3, <2>2 DEF SettingsType, SaveLog, SaveAgg
<1>4. ASSUME NEW a \in Workers, RestartIfChanged(a) \/ UpdateFails(a) \/ Fail(a)
      PROVE  SettingsType'
  BY <1>0, <1>4 DEF SettingsType, RestartIfChanged, UpdateFails, Fail
<1>5. CASE RestartXray \/ Crash
  BY <1>0, <1>5 DEF SettingsType, RestartXray, Crash
<1>6. CASE Write \/ Rotate \/ UNCHANGED vars
  BY <1>0, <1>6 DEF SettingsType, Write, Rotate, vars
<1>7. ASSUME NEW p \in Workers,
             \/ Disabled(p) \/ ProcessAccessLog(p) \/ ClearAccessIPRecords(p)
             \/ Open(p) \/ NoFile(p) \/ Fill(p) \/ UpsertRecord(p) \/ EndOfFile(p) \/ SaveState(p)
             \/ DumpSummary(p) \/ DeleteRecords(p) \/ Stat(p) \/ SkipCurrentAccessLog(p)
      PROVE  SettingsType'
  BY <1>0, <1>7
  DEF SettingsType, Disabled, ProcessAccessLog, ClearAccessIPRecords, Open, NoFile, Fill,
      UpsertRecord,
      EndOfFile, SaveState, DumpSummary, DeleteRecords, Stat, SkipCurrentAccessLog, vars
<1> QED
  BY <1>2, <1>3, <1>4, <1>5, <1>6, <1>7 DEF Next, Step, Workers

-----------------------------------------------------------------------------
(* The settings *)

\* A form is held from the first read of the settings to the restart.
LEMMA FormNext == TypeOK /\ FormInv /\ [Next]_vars => FormInv'
<1> SUFFICES ASSUME TypeOK, FormInv, [Next]_vars PROVE FormInv'
  OBVIOUS
<1>0. /\ MutexType
      /\ form \in [Workers -> [cur : Settings, want : Settings] \cup {None}]
  BY TypeParts DEF SettingsType
<1> USE DEF FormInv, Goto, settings
<1>1. ASSUME NEW a \in Admins, UpdateConfig(a) PROVE FormInv'
  <2>1. form'[a] \in [cur : Settings, want : Settings]
    BY <1>0, <1>1, FormOpened DEF Workers
  <2> QED
    BY <1>0, <1>1, <2>1, WorkerAssumption DEF UpdateConfig, MutexType, Workers
<1>2. ASSUME NEW a \in Admins,
             \/ RestartIfChanged(a) \/ UpdateFails(a) \/ ClearAccessIPRecords(a)
             \/ SaveLog(a) \/ SaveAgg(a)
      PROVE  FormInv'
  BY <1>0, <1>2
  DEF RestartIfChanged, UpdateFails, ClearAccessIPRecords, SaveLog, SaveAgg, Request, MutexType,
      Workers
<1>3. ASSUME NEW p \in Workers, ProcessAccessLog(p) PROVE FormInv'
  BY <1>0, <1>3 DEF ProcessAccessLog, MutexType
<1>4. ASSUME NEW p \in Workers, Fail(p) PROVE FormInv'
  <2>1. pc[p] \in Critical
    BY <1>0, <1>4 DEF Fail, MutexType
  <2> QED
    BY <1>0, <1>4, <2>1 DEF Fail, MutexType, Critical
<1>5. ASSUME NEW p \in Workers,
             \/ Open(p) \/ NoFile(p) \/ EndOfFile(p) \/ SaveState(p) \/ DumpSummary(p)
             \/ DeleteRecords(p) \/ Stat(p) \/ SkipCurrentAccessLog(p)
      PROVE  FormInv'
  BY <1>0, <1>5
  DEF Open, NoFile, EndOfFile, SaveState, DumpSummary, DeleteRecords, Stat, SkipCurrentAccessLog,
      MutexType, Workers
<1>6. CASE Crash
  BY <1>0, <1>6 DEF Crash
<1>7. ASSUME UNCHANGED <<pc, form>> PROVE FormInv'
  BY <1>7
<1>8. ASSUME \/ Write \/ Rotate \/ RestartXray \/ UNCHANGED vars
             \/ \E p \in Workers : Disabled(p) \/ Fill(p) \/ UpsertRecord(p)
      PROVE  UNCHANGED <<pc, form>>
  BY <1>8 DEF Write, Rotate, RestartXray, Disabled, Fill, UpsertRecord, vars
<1>9. ASSUME NEW p \in Workers, SaveLog(p) \/ SaveAgg(p) \/ RestartIfChanged(p)
      PROVE  p \in Admins
  BY <1>9 DEF SaveLog, SaveAgg, RestartIfChanged
<1> QED
  BY <1>1, <1>2, <1>3, <1>4, <1>5, <1>6, <1>7, <1>8, <1>9 DEF Next, Step

\* The one update under way, if none failed or overlapped, leaves Xray to follow
\* the switch: what it stores differs from what runs only until it restarts.
LEMMA SwitchNext == TypeOK /\ FormInv /\ SwitchInv /\ [Next]_vars => SwitchInv'
<1> SUFFICES ASSUME TypeOK, FormInv, SwitchInv, [Next]_vars, ~excused'
             PROVE  SwitchInv'
  BY DEF SwitchInv
<1>0. MutexType /\ SettingsType
  BY TypeParts
<1> USE DEF SwitchInv, LogSwitchFollowed, Goto, settings
<1>1. ASSUME NEW a \in Admins, UpdateConfig(a) PROVE SwitchInv'
  <2>1. ~excused /\ \A b \in Admins : form[b] = None
    BY <1>1 DEF UpdateConfig
  <2>2. xrayLog = setLog /\ xrayLog' = setLog /\ setLog' = setLog
    BY <1>1, <2>1 DEF UpdateConfig
  <2>3. form'[a].cur.log = setLog /\ pc'[a] = "log"
    BY <1>0, <1>1 DEF UpdateConfig, SettingsType, MutexType, Workers
  <2>4. \A b \in Admins : b # a => form'[b] = None
    BY <1>1, <2>1 DEF UpdateConfig
  <2>5. form'[a] # None
    BY <1>1, <2>3, FormNext DEF FormInv, Workers
  <2> QED
    BY <2>2, <2>3, <2>4, <2>5
<1>2. ASSUME NEW a \in Workers, SaveLog(a) PROVE SwitchInv'
  <2>1. a \in Admins /\ form[a] # None
    BY <1>2 DEF SaveLog, FormInv
  <2>2. ~excused /\ setLog = form[a].cur.log /\ xrayLog = setLog
    BY <1>2, <2>1 DEF SaveLog
  <2>3. \A b \in Admins : b # a => form[b] = None
    BY <2>1, <2>2
  <2>4. pc'[a] = "agg" /\ setLog' = form[a].want.log /\ xrayLog' = xrayLog /\ form' = form
    BY <1>0, <1>2 DEF SaveLog, MutexType
  <2> QED
    BY <2>1, <2>2, <2>3, <2>4
<1>3. ASSUME NEW a \in Workers, SaveAgg(a) PROVE SwitchInv'
  <2>1. /\ a \in Admins /\ pc[a] = "agg" /\ pc'[a] # "log"
        /\ \A b \in Workers : b # a => pc'[b] = pc[b]
    BY <1>0, <1>3 DEF SaveAgg, FormInv, MutexType
  <2> QED
    BY <1>3, <2>1 DEF SaveAgg, Workers
<1>4. ASSUME NEW a \in Workers, RestartIfChanged(a) PROVE SwitchInv'
  <2>1. a \in Admins /\ form[a] # None /\ ~excused
    BY <1>4 DEF RestartIfChanged, FormInv
  <2>2. /\ setLog = form[a].want.log
        /\ form[a].cur.log = form[a].want.log => xrayLog = setLog
    BY <1>4, <2>1 DEF RestartIfChanged
  <2>3. \A b \in Admins : form'[b] = None
    BY <1>0, <1>4, <2>1 DEF RestartIfChanged, SettingsType, Workers
  <2>4. xrayLog' = setLog /\ setLog' = setLog
    BY <1>4, <2>2 DEF RestartIfChanged
  <2> QED
    BY <2>3, <2>4
<1>5. CASE RestartXray
  BY <1>5 DEF RestartXray
<1>6. CASE Crash
  BY <1>0, <1>6 DEF Crash, Workers
<1>7. ASSUME NEW a \in Admins, UpdateFails(a) PROVE FALSE
  BY <1>7 DEF UpdateFails
<1>8. ASSUME NEW p \in Workers, Fail(p) PROVE SwitchInv'
  <2>1. pc[p] \in Critical
    BY <1>0, <1>8 DEF Fail, MutexType
  <2>2. form' = form /\ ~excused /\ UNCHANGED <<setLog, xrayLog>>
    BY <1>8 DEF Fail
  <2>3. \A b \in Workers : pc'[b] = "log" <=> pc[b] = "log"
    BY <1>0, <1>8, <2>1 DEF Fail, MutexType, Critical
  <2> QED
    BY <2>2, <2>3 DEF Workers
<1>9. ASSUME UNCHANGED settings, \A b \in Workers : pc'[b] = "log" <=> pc[b] = "log"
      PROVE  SwitchInv'
  BY <1>9 DEF Workers
<1>10. ASSUME NEW p \in Workers,
              \/ Disabled(p) \/ ProcessAccessLog(p) \/ ClearAccessIPRecords(p)
              \/ Open(p) \/ NoFile(p) \/ Fill(p) \/ UpsertRecord(p) \/ EndOfFile(p) \/ SaveState(p)
              \/ DumpSummary(p) \/ DeleteRecords(p) \/ Stat(p) \/ SkipCurrentAccessLog(p)
       PROVE  UNCHANGED settings /\ \A b \in Workers : pc'[b] = "log" <=> pc[b] = "log"
  BY <1>0, <1>10
  DEF Disabled, ProcessAccessLog, ClearAccessIPRecords, Open, NoFile, Fill, UpsertRecord,
      EndOfFile,
      SaveState, DumpSummary, DeleteRecords, Stat, SkipCurrentAccessLog, Request, MutexType, vars
<1>11. CASE Write \/ Rotate \/ UNCHANGED vars
  BY <1>9, <1>11 DEF Write, Rotate, vars
<1> QED
  BY <1>1, <1>2, <1>3, <1>4, <1>5, <1>6, <1>7, <1>8, <1>9, <1>10, <1>11 DEF Next, Step, Workers

-----------------------------------------------------------------------------
(* The lines *)

\* The parts of the invariant that are about the lines and who reads them.
LinesInv == ScanInv /\ CoverInv /\ CountInv

\* What the steps below need of the types.
Numbers ==
  /\ written \in Nat /\ start \in Nat /\ start <= written /\ offset \in Nat
  /\ scan.next \in Nat /\ scan.last \in Nat /\ scan.pos \in Nat
  /\ faults \in Nat /\ hits \in [Lines -> Nat]
  /\ InFile \subseteq Lines

\* What the arithmetic below is about are numbers.
LEMMA TypesAreNumbers == TypeOK => Numbers
<1> SUFFICES ASSUME TypeOK PROVE Numbers
  OBVIOUS
<1>1. FileType /\ ScanType
  BY TypeParts
<1> QED
  BY <1>1, BoundAssumption DEF FileType, ScanType, Numbers, InFile, Lines

\* A step that leaves the lines and their readers alone.
LEMMA Framed ==
  ASSUME LinesInv, Numbers, UNCHANGED <<written, start, offset, hits, forgotten, overtaken, scan>>,
         faults' \in Nat, faults' >= faults, Phase' = Phase
  PROVE  LinesInv'
<1> USE DEF LinesInv
<1>1. ScanInv'
  BY DEF ScanInv, size, NoScan
<1>2. CoverInv'
  BY DEF CoverInv, NothingSkipped, Accounted, InFile, Reading
<1>3. \A l \in Lines : Times(l)' = Times(l) /\ Times(l) \in Nat
  BY DEF Times, Numbers
<1>4. \A l \in Lines : Pending(l)' => Pending(l)
  BY DEF Pending, Here, Reading, size
<1>5. CountInv'
  BY <1>3, <1>4 DEF CountInv, Numbers
<1> QED
  BY <1>1, <1>2, <1>5

\* A failure or a crash while the lines are read: what was counted behind the
\* offset is pending again, and has one more fault to account for it.
LEMMA Dropped ==
  ASSUME LinesInv, Numbers, UNCHANGED <<written, start, offset, hits, forgotten, overtaken>>,
         scan' = NoScan, faults' = faults + 1, Phase' = "idle"
  PROVE  LinesInv'
<1> USE DEF LinesInv
<1>1. ScanInv'
  BY DEF ScanInv, size, NoScan, Numbers
<1>2. CoverInv'
  BY DEF CoverInv, NothingSkipped, Accounted, InFile, Reading
<1>3. \A l \in Lines : Times(l)' = Times(l) /\ Times(l) \in Nat
  BY DEF Times, Numbers
<1>4. CountInv'
  BY <1>3 DEF CountInv, Numbers
<1> QED
  BY <1>1, <1>2, <1>4

\* A line is written.
LEMMA WriteNext ==
  ASSUME LinesInv, Numbers, Write, Phase' = Phase
  PROVE  LinesInv'
<1> USE DEF LinesInv, Numbers
<1>0. /\ written' = written + 1
      /\ UNCHANGED <<start, offset, hits, forgotten, scan, faults>>
      /\ overtaken \subseteq overtaken'
      /\ size < offset \/ size < scan.pos => written + 1 \in overtaken'
  BY MaxOfTwo DEF Write, counts, size
<1>1. ScanInv'
  BY <1>0 DEF ScanInv, size, NoScan
<1>2. \A l \in InFile' : l \in InFile \/ l = written + 1
  BY <1>0 DEF InFile
<1>3. CoverInv'
  <2>1. \A l \in InFile : Accounted(l) => Accounted(l)'
    BY <1>0 DEF Accounted
  <2>2. ASSUME NEW l \in InFile', l = written + 1,
               l <= start + offset \/ l <= start + scan.pos
        PROVE  Accounted(l)'
    BY <1>0, <2>2 DEF Accounted, size
  <2>3. NothingSkipped'
    BY <1>0, <1>2, <2>1, <2>2 DEF CoverInv, NothingSkipped, Accounted
  <2>4. ASSUME Reading', NEW l \in InFile', (l <= start + scan.pos)'
        PROVE  (Accounted(l) \/ l \in scan.next .. scan.last)'
    <3>1. l <= start + scan.pos /\ Reading
      BY <1>0, <2>4 DEF Reading
    <3> QED
      BY <1>0, <1>2, <2>1, <2>2, <3>1 DEF CoverInv
  <2> QED
    BY <2>3, <2>4 DEF CoverInv
<1>4. \A l \in Lines : Times(l)' = Times(l)
  BY <1>0 DEF Times
<1>5. \A l \in Lines : Pending(l)' => Pending(l)
  BY <1>0 DEF Pending, Here, Reading, size
<1>6. CountInv'
  BY <1>0, <1>4, <1>5 DEF CountInv, Lines
<1> QED
  BY <1>1, <1>3, <1>6

\* The file is truncated under a reader.
LEMMA RotateNext ==
  ASSUME LinesInv, Numbers, Rotate, Phase' = Phase
  PROVE  LinesInv'
<1> USE DEF LinesInv, Numbers
<1>0. start' = written /\ start < written
      /\ UNCHANGED <<written, offset, hits, forgotten, scan, faults>>
  BY DEF Rotate, counts
<1>1. ScanInv'
  BY <1>0 DEF ScanInv, size, NoScan
<1>2. CoverInv'
  BY <1>0 DEF CoverInv, NothingSkipped, InFile
<1>3. \A l \in Lines : Times(l)' = Times(l)
  BY <1>0 DEF Times
<1>4. \A l \in Lines : Pending(l)' => Pending(l) \/ l > written
  <2>1. Here \in Nat /\ Here' = Here
    BY <1>0 DEF Here, Reading
  <2> QED
    BY <1>0, <2>1 DEF Pending, size, Lines
<1>5. CountInv'
  BY <1>0, <1>3, <1>4 DEF CountInv, Lines
<1> QED
  BY <1>1, <1>2, <1>5

\* A reader begins at the offset, or at the beginning of a file that was truncated.
LEMMA OpenNext ==
  ASSUME LinesInv, Numbers, NEW p \in Workers, Open(p), Phase = "idle", Phase' = "scan"
  PROVE  LinesInv'
<1> USE DEF LinesInv, Numbers
<1>0. /\ UNCHANGED <<written, start, offset, hits, forgotten, overtaken, faults>>
      /\ scan'.next = 1 /\ scan'.last = 0
      /\ scan'.pos = IF size < offset THEN 0 ELSE offset
  BY DEF Open, logfile, counts, NoScan
<1>1. ScanInv'
  BY <1>0 DEF ScanInv, size
<1>2. CoverInv'
  <2>1. NothingSkipped' /\ NothingSkipped
    BY <1>0 DEF CoverInv, NothingSkipped, InFile
  <2>2. ASSUME NEW l \in InFile', (l <= start + scan.pos)' PROVE Accounted(l)'
    <3>1. l \in InFile /\ l <= start + offset
      BY <1>0, <2>2 DEF InFile
    <3> QED
      BY <1>0, <2>1, <3>1 DEF NothingSkipped, Accounted
  <2> QED
    BY <2>1, <2>2 DEF CoverInv
<1>3. \A l \in Lines : Times(l)' = Times(l)
  BY <1>0 DEF Times
<1>4. \A l \in Lines : Pending(l)' => Pending(l)
  BY <1>0 DEF Pending, Here, Reading, size, Lines
<1>5. CountInv'
  BY <1>0, <1>3, <1>4 DEF CountInv
<1> QED
  BY <1>1, <1>2, <1>5

\* The scanner fills its buffer: what it passes, it holds.
LEMMA FillNext ==
  ASSUME LinesInv, Numbers, NEW p \in Workers, Fill(p), Phase = "scan", Phase' = "scan"
  PROVE  LinesInv'
<1> USE DEF LinesInv, Numbers
<1>0. /\ UNCHANGED <<written, start, offset, hits, forgotten, overtaken, faults>>
      /\ scan.next > scan.last /\ scan.pos < size
      /\ scan'.next = start + scan.pos + 1 /\ scan'.last = written /\ scan'.pos = size
  BY DEF Fill, logfile, counts
<1>1. ScanInv'
  BY <1>0 DEF ScanInv, size
<1>2. CoverInv'
  <2>1. NothingSkipped'
    BY <1>0 DEF CoverInv, NothingSkipped, InFile
  <2>2. ASSUME NEW l \in InFile'
        PROVE  (Accounted(l) \/ l \in scan.next .. scan.last)'
    <3>1. CASE l <= start + scan.pos
      <4>1. Accounted(l)
        BY <1>0, <2>2, <3>1 DEF CoverInv, InFile, Reading
      <4> QED
        BY <1>0, <4>1 DEF Accounted
    <3>2. CASE l > start + scan.pos
      BY <1>0, <2>2, <3>2 DEF InFile
    <3> QED
      BY <1>0, <2>2, <3>1, <3>2 DEF InFile
  <2> QED
    BY <2>1, <2>2 DEF CoverInv
<1>3. \A l \in Lines : Times(l)' = Times(l)
  BY <1>0 DEF Times
<1>4. \A l \in Lines : Pending(l)' => Pending(l)
  BY <1>0 DEF Pending, Here, Reading, size, Lines
<1>5. CountInv'
  BY <1>0, <1>3, <1>4 DEF CountInv
<1> QED
  BY <1>1, <1>2, <1>5

\* A line is counted, and will not be counted again unless something fails.
LEMMA UpsertNext ==
  ASSUME LinesInv, Numbers, NEW p \in Workers, UpsertRecord(p),
         ScanType, scan.next \in Lines, Phase = "scan", Phase' = "scan"
  PROVE  LinesInv'
<1> USE DEF LinesInv, Numbers
<1>0. /\ UNCHANGED <<written, start, offset, forgotten, overtaken, faults>>
      /\ scan.next <= scan.last
      /\ hits' = [hits EXCEPT ![scan.next] = @ + 1]
      /\ scan' = [scan EXCEPT !.next = @ + 1]
  BY DEF UpsertRecord, logfile
<1>a. scan'.next = scan.next + 1 /\ scan'.last = scan.last /\ scan'.pos = scan.pos
  BY <1>0 DEF ScanType
<1>1. ScanInv'
  BY <1>0, <1>a DEF ScanInv, size
<1>2. \A l \in Lines : hits'[l] = IF l = scan.next THEN hits[l] + 1 ELSE hits[l]
  BY <1>0
<1>3. CoverInv'
  <2>1. \A l \in InFile : Accounted(l) => Accounted(l)'
    BY <1>0, <1>2 DEF Accounted
  <2>2. InFile' = InFile
    BY <1>0 DEF InFile
  <2>3. NothingSkipped'
    BY <1>0, <2>1, <2>2 DEF CoverInv, NothingSkipped, Accounted
  <2>4. ASSUME NEW l \in InFile, l <= start + scan.pos
        PROVE  Accounted(l)' \/ l \in scan'.next .. scan'.last
    <3>1. CASE l = scan.next
      BY <1>2, <3>1 DEF Accounted
    <3>2. CASE l # scan.next
      BY <1>0, <1>a, <2>1, <2>4, <3>2 DEF CoverInv, Reading, InFile
    <3> QED
      BY <3>1, <3>2
  <2> QED
    BY <1>0, <1>a, <2>2, <2>3, <2>4 DEF CoverInv
<1>4. Pending(scan.next) /\ Times(scan.next) <= faults
  BY <1>0 DEF Pending, CountInv
<1>5. \A l \in Lines : /\ Times(l) \in Nat
                       /\ Times(l)' = IF l = scan.next THEN Times(l) + 1 ELSE Times(l)
  BY <1>0, <1>2 DEF Times
<1>6. \A l \in Lines : Pending(l)' => Pending(l) /\ l # scan.next
  BY <1>0, <1>a DEF Pending, Here, Reading, size, Lines, ScanInv
<1>7. scan.next <= written
  BY <1>0 DEF ScanInv
<1>8. CountInv'
  BY <1>0, <1>4, <1>5, <1>6, <1>7 DEF CountInv
<1> QED
  BY <1>1, <1>3, <1>8

\* At the end of the file the reader goes on to save its position.
LEMMA EndOfFileNext ==
  ASSUME LinesInv, Numbers, NEW p \in Workers, EndOfFile(p), Phase = "scan", Phase' = "save"
  PROVE  LinesInv'
<1> USE DEF LinesInv
<1>0. /\ UNCHANGED <<written, start, offset, hits, forgotten, overtaken, faults, scan>>
      /\ scan.next > scan.last
  BY DEF EndOfFile, logfile, counts
<1>1. ScanInv'
  BY <1>0 DEF ScanInv, size
<1>2. CoverInv'
  BY <1>0 DEF CoverInv, NothingSkipped, Accounted, InFile, Reading
<1>3. \A l \in Lines : Times(l)' = Times(l) /\ (Pending(l)' => Pending(l))
  BY <1>0 DEF Times, Pending, Here, Reading, size
<1>4. CountInv'
  BY <1>0, <1>3 DEF CountInv
<1> QED
  BY <1>1, <1>2, <1>4

\* The position becomes the offset: nothing is buffered any more, so all lines
\* before it are accounted for.
LEMMA SaveNext ==
  ASSUME LinesInv, Numbers, NEW p \in Workers, SaveState(p), Phase = "save",
         Phase' \in {"dump", "idle"}, Phase' = "dump" <=> form[p] = None
  PROVE  LinesInv'
<1> USE DEF LinesInv, Numbers
<1>0. /\ UNCHANGED <<written, start, hits, forgotten, overtaken, faults>>
      /\ offset' = scan.pos /\ scan.next > scan.last
      /\ IF Phase' = "dump" THEN UNCHANGED scan ELSE scan' = NoScan
  BY DEF SaveState, logfile, ScanInv
<1>1. ScanInv'
  BY <1>0 DEF ScanInv, size, NoScan
<1>2. \A l \in InFile : l <= start + scan.pos => Accounted(l)
  BY <1>0 DEF CoverInv, Reading, InFile
<1>3. CoverInv'
  BY <1>0, <1>2 DEF CoverInv, NothingSkipped, Accounted, InFile, Reading
<1>4. \A l \in Lines : Times(l)' = Times(l) /\ (Pending(l)' => Pending(l))
  BY <1>0 DEF Times, Pending, Here, Reading, size, Lines, NoScan
<1>5. CountInv'
  BY <1>0, <1>4 DEF CountInv
<1> QED
  BY <1>1, <1>3, <1>5

\* The summary is written and the mutex released; or there is no file to read before it.
LEMMA DumpNext ==
  ASSUME LinesInv, Numbers, NEW p \in Workers,
         \/ DumpSummary(p) /\ Phase = "dump" /\ Phase' = "idle"
         \/ NoFile(p) /\ Phase = "idle" /\ Phase' = "dump"
  PROVE  LinesInv'
<1> USE DEF LinesInv, Numbers
<1>0. /\ UNCHANGED <<written, start, offset, hits, forgotten, overtaken, faults>>
      /\ scan' = NoScan
  BY DEF DumpSummary, NoFile, logfile, counts
<1>1. ScanInv'
  BY <1>0 DEF ScanInv, size, NoScan
<1>2. CoverInv'
  BY <1>0 DEF CoverInv, NothingSkipped, Accounted, InFile, Reading
<1>3. \A l \in Lines : Times(l)' = Times(l) /\ (Pending(l)' => Pending(l))
  BY <1>0 DEF Times, Pending, Here, Reading, size, Lines, NoScan
<1>4. CountInv'
  BY <1>0, <1>3 DEF CountInv
<1> QED
  BY <1>1, <1>2, <1>4

\* The records are deleted: a count turns into a line forgotten.
LEMMA DeleteNext ==
  ASSUME LinesInv, Numbers, NEW p \in Workers, DeleteRecords(p), Phase = "idle", Phase' = "stat"
  PROVE  LinesInv'
<1> USE DEF LinesInv, Numbers
<1>0. /\ UNCHANGED <<written, start, offset, overtaken, faults, scan>>
      /\ hits' = [l \in Lines |-> 0]
      /\ forgotten' = forgotten \cup {l \in Lines : hits[l] > 0}
  BY DEF DeleteRecords, logfile
<1>1. ScanInv'
  BY <1>0 DEF ScanInv, size
<1>2. CoverInv'
  <2>1. \A l \in InFile : Accounted(l) => Accounted(l)'
    BY <1>0 DEF Accounted
  <2> QED
    BY <1>0, <2>1 DEF CoverInv, NothingSkipped, Accounted, InFile, Reading
<1>3. \A l \in Lines : /\ Times(l) \in Nat /\ Times(l)' \in Nat /\ Times(l)' <= Times(l)
  BY <1>0 DEF Times
<1>4. \A l \in Lines : Pending(l)' => Pending(l)
  BY <1>0 DEF Pending, Here, Reading, size
<1>5. CountInv'
  BY <1>0, <1>3, <1>4 DEF CountInv
<1> QED
  BY <1>1, <1>2, <1>5

\* The lines of the file are skipped: those that were not counted are forgotten.
LEMMA SkipNext ==
  ASSUME LinesInv, Numbers, NEW p \in Workers, Stat(p) \/ SkipCurrentAccessLog(p),
         Phase' = "save"
  PROVE  LinesInv'
<1> USE DEF LinesInv, Numbers
<1>0. /\ UNCHANGED <<written, start, offset, hits, overtaken, faults>>
      /\ scan'.next = 1 /\ scan'.last = 0 /\ scan'.pos = size
      /\ forgotten' = forgotten \cup {l \in InFile : hits[l] = 0}
  BY DEF Stat, SkipCurrentAccessLog, Skip, logfile, NoScan
<1>1. ScanInv'
  BY <1>0 DEF ScanInv, size
<1>2. \A l \in InFile : Accounted(l)'
  BY <1>0 DEF Accounted
<1>3. CoverInv'
  BY <1>0, <1>2 DEF CoverInv, NothingSkipped, Accounted, InFile
<1>4. \A l \in Lines : /\ Times(l) \in Nat /\ Times(l)' \in Nat
                       /\ Times(l)' <= 1 \/ Times(l)' = Times(l)
                       /\ l > written => Times(l)' = Times(l)
  BY <1>0 DEF Times, InFile
<1>5. \A l \in Lines : Pending(l)' => l > written
  BY <1>0 DEF Pending, Here, Reading, size
<1>6. CountInv'
  BY <1>0, <1>4, <1>5 DEF CountInv
<1> QED
  BY <1>1, <1>3, <1>6

\* The lines stay accounted for, whatever happens.
LEMMA LinesNext == TypeOK /\ LinesInv /\ [Next]_vars => LinesInv'
<1> SUFFICES ASSUME TypeOK, LinesInv, [Next]_vars PROVE LinesInv'
  OBVIOUS
<1>0. MutexType /\ ScanType /\ Numbers
  BY TypeParts, TypesAreNumbers
<1> USE DEF logfile, counts
<1>1. CASE Write
  BY <1>0, <1>1, WriteNext DEF Write, Phase
<1>2. CASE Rotate
  BY <1>0, <1>2, RotateNext DEF Rotate, Phase
<1>3. CASE RestartXray \/ UNCHANGED vars
  BY <1>0, <1>3, Framed DEF RestartXray, vars, Phase, Numbers
<1>4. CASE Crash
  BY <1>0, <1>4, Dropped DEF Crash, Phase
<1>5. ASSUME NEW p \in Workers, Quiet(p) PROVE LinesInv'
  <2>1. /\ UNCHANGED <<written, start, offset, hits, forgotten, overtaken, scan>>
        /\ faults' = faults \/ faults' = faults + 1
    BY <1>5 DEF Quiet, Disabled, ProcessAccessLog, ClearAccessIPRecords, UpdateConfig, SaveLog,
                SaveAgg, RestartIfChanged, UpdateFails, vars
  <2>2. Phase' = Phase
    BY <1>0, <1>5, Moves
  <2> QED
    BY <1>0, <2>1, <2>2, Framed DEF Numbers
<1>6. ASSUME NEW p \in Workers, Fail(p) PROVE LinesInv'
  <2>1. Phase' = "idle"
    BY <1>0, <1>6, Moves
  <2> QED
    BY <1>0, <1>6, <2>1, Dropped DEF Fail
<1>7. ASSUME NEW p \in Workers, Open(p) PROVE LinesInv'
  BY <1>0, <1>7, Moves, OpenNext
<1>8. ASSUME NEW p \in Workers, Fill(p) PROVE LinesInv'
  BY <1>0, <1>8, Moves, FillNext
<1>9. ASSUME NEW p \in Workers, UpsertRecord(p) PROVE LinesInv'
  <2>1. scan.next \in Lines
    BY <1>0, <1>9, BoundAssumption DEF ScanType, UpsertRecord, Lines
  <2> QED
    BY <1>0, <1>9, <2>1, Moves, UpsertNext
<1>10. ASSUME NEW p \in Workers, EndOfFile(p) PROVE LinesInv'
  BY <1>0, <1>10, Moves, EndOfFileNext
<1>11. ASSUME NEW p \in Workers, SaveState(p) PROVE LinesInv'
  <2>1. Phase = "save" /\ Phase' = IF form[p] = None THEN "dump" ELSE "idle"
    BY <1>0, <1>11, Moves
  <2> QED
    BY <1>0, <1>11, <2>1, SaveNext
<1>12. ASSUME NEW p \in Workers, DumpSummary(p) \/ NoFile(p) PROVE LinesInv'
  BY <1>0, <1>12, Moves, DumpNext
<1>13. ASSUME NEW p \in Workers, DeleteRecords(p) PROVE LinesInv'
  BY <1>0, <1>13, Moves, DeleteNext
<1>14. ASSUME NEW p \in Workers, Stat(p) \/ SkipCurrentAccessLog(p) PROVE LinesInv'
  BY <1>0, <1>14, Moves, SkipNext
<1> QED
  BY <1>1, <1>2, <1>3, <1>4, <1>5, <1>6, <1>7, <1>8, <1>9, <1>10, <1>11, <1>12, <1>13, <1>14
  DEF Next, Step, Quiet, Workers

-----------------------------------------------------------------------------
(* The theorems *)

\* The strengthened invariant holds at the start.
LEMMA IInvInit == Init => IInv
<1> SUFFICES ASSUME Init PROVE IInv
  OBVIOUS
<1>1. FormInv /\ SwitchInv
  BY DEF Init, FormInv, SwitchInv, LogSwitchFollowed, Workers
<1>2. ScanInv
  BY DEF Init, ScanInv, NoScan, size
<1>3. CoverInv
  BY BoundAssumption DEF Init, CoverInv, NothingSkipped, InFile, Reading, Phase
<1>4. CountInv
  BY BoundAssumption DEF Init, CountInv, Times, Lines
<1> QED
  BY <1>1, <1>2, <1>3, <1>4, TypeInit DEF IInv

\* It holds in every reachable state.
LEMMA Inductive == Spec => []IInv
<1>1. IInv /\ [Next]_vars => IInv'
  <2> SUFFICES ASSUME IInv, [Next]_vars PROVE IInv'
    OBVIOUS
  <2> USE DEF IInv, LinesInv
  <2>1. TypeOK'
    BY TypeParts, TypePartsPrime, MutexTypeNext, FileTypeNext, ScanTypeNext, SettingsTypeNext
  <2>2. FormInv' /\ SwitchInv'
    BY FormNext, SwitchNext
  <2>3. LinesInv'
    BY LinesNext
  <2> QED
    BY <2>1, <2>2, <2>3
<1> QED
  BY <1>1, IInvInit, PTL DEF Spec

\* Every variable has its type, and exactly the holder of the mutex is between Lock
\* and Unlock (access_ip.go:69, 182, 374).
THEOREM TypeCorrect == Spec => []TypeOK
<1>1. IInv => TypeOK
  BY DEF IInv
<1> QED
  BY <1>1, Inductive, PTL

\* No line is lost behind the offset, whatever fails, and however often the file is
\* truncated, but for lines written at a place already passed.
THEOREM NoLineSkipped == Spec => []NothingSkipped
<1>1. IInv => NothingSkipped
  BY DEF IInv, CoverInv
<1> QED
  BY <1>1, Inductive, PTL

\* No line is counted twice, but for the failures between a count and the offset.
THEOREM NoLineTwice == Spec => []CountedOnce
<1>1. IInv => CountedOnce
  BY DEF IInv, CountInv, CountedOnce, Times
<1> QED
  BY <1>1, Inductive, PTL

\* Xray writes the log as the setting says, for any number of requests that do not
\* overlap.
THEOREM SwitchObeyed == Spec => []LogSwitchFollowed
<1>1. IInv => LogSwitchFollowed
  <2> SUFFICES ASSUME IInv, \A a \in Admins : form[a] = None, ~excused
               PROVE  xrayLog = setLog
    BY DEF LogSwitchFollowed
  <2> QED
    BY DEF IInv, SwitchInv, LogSwitchFollowed
<1> QED
  BY <1>1, Inductive, PTL
=============================================================================
