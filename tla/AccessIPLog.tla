----------------------------- MODULE AccessIPLog -----------------------------
(***************************************************************************)
(* The access log of Xray and the visitors that the panel counts from it.  *)
(*                                                                         *)
(* Xray appends lines; logrotate empties the file with copytruncate.  A    *)
(* job and the page read the lines behind an offset kept in a file, count  *)
(* them in the database one by one, save the offset and write a summary.   *)
(* Clearing the records, or switching the counting off, moves the offset   *)
(* to the end.  A mutex keeps these apart, a failure or a crash does not.  *)
(*                                                                         *)
(* Lines are numbered as they are written; the record of an address is the *)
(* sum of what its lines were counted, so hits stands for all records.     *)
(***************************************************************************)
EXTENDS Integers, FiniteSetsExt

CONSTANTS
  Admins,       \* goroutines that serve the page, numbered
  Job,          \* the goroutine of AccessIPJob
  None,
  MaxLines,     \* bound on the lines written
  MaxRequests,  \* bound on the requests of the page
  MaxFaults     \* bound on failures and crashes

Settings == [log : BOOLEAN, agg : BOOLEAN]

ASSUME WorkerAssumption ==
  /\ Admins \subseteq Nat /\ Job \notin Admins
  /\ None \notin Admins \cup {Job} \cup [cur : Settings, want : Settings]
ASSUME BoundAssumption ==
  MaxLines \in Nat /\ MaxRequests \in Nat /\ MaxFaults \in Nat

VARIABLES
  written, start,    \* lines written so far; those that rotation took away
  offset,            \* access-ip-state.json, in lines
  hits, summary,     \* how often each line is counted: records, summary file
  setLog, setAgg,    \* accessLogEnabled, accessIPAggregationEnabled
  xrayLog,           \* the running Xray writes the access log
  mu,                \* who holds accessIPMu
  pc, form,          \* what each goroutine does next; settings read and wanted
  scan,              \* locals of the holder: lines buffered, position in the file
  forgotten,         \* history: lines whose count was deleted, or skipped
  overtaken,         \* history: lines of the file written before a position already
                     \* passed
  excused,           \* history: an update of the settings failed or overlapped
  requests, faults

vars == <<written, start, offset, hits, summary, setLog, setAgg, xrayLog, mu, pc,
          form, scan, forgotten, overtaken, excused, requests, faults>>

logfile == <<written, start, overtaken>>
counts == <<offset, hits, summary, forgotten>>
settings == <<setLog, setAgg, xrayLog, form, excused>>

Workers == Admins \cup {Job}
Lines == 1..MaxLines
size == written - start
InFile == start + 1 .. written
NoScan == [next |-> 1, last |-> 0, pos |-> 0]

Goto(p, point) == pc' = [pc EXCEPT ![p] = point]

\* The page's next request is served by the first goroutine that is free.
Request(a) ==
  /\ pc[a] = "idle" /\ \A b \in Admins : b < a => pc[b] # "idle"
  /\ requests < MaxRequests /\ requests' = requests + 1

-----------------------------------------------------------------------------
(* The file *)

\* A line lands at a position that a reader, or the offset, has already passed
\* when the file was truncated under it.
Write ==
  /\ xrayLog /\ written < MaxLines
  /\ written' = written + 1
  /\ overtaken' = IF size < Max({offset, scan.pos}) THEN overtaken \cup {written + 1}
                                                    ELSE overtaken
  /\ UNCHANGED <<start, counts, settings, mu, pc, scan, requests, faults>>

\* copytruncate.
Rotate ==
  /\ start < written /\ start' = written /\ overtaken' = {}
  /\ UNCHANGED <<written, counts, settings, mu, pc, scan, requests, faults>>

-----------------------------------------------------------------------------
(* ProcessAccessLog, by the job and by the page that lists the records *)

\* The switch is tested before the mutex is waited for.
Disabled(p) == pc[p] = "idle" /\ ~setAgg /\ UNCHANGED vars

ProcessAccessLog(p) ==
  /\ pc[p] = "idle" /\ setAgg
  /\ IF p = Job THEN UNCHANGED requests
                ELSE Request(p)
  /\ Goto(p, "read")
  /\ UNCHANGED <<logfile, counts, settings, mu, scan, faults>>

Lock(p) == mu = None /\ mu' = p

\* Mutant: a file shorter than the offset is taken for one without news.
OpenAtOffset(p) ==
  /\ pc[p] = "read" /\ Lock(p) /\ Goto(p, "scan")
  /\ scan' = [NoScan EXCEPT !.pos = offset]
  /\ UNCHANGED <<logfile, counts, settings, requests, faults>>

\* loadState, Open, Stat, Seek.
Open(p) ==
  /\ pc[p] = "read" /\ Lock(p) /\ Goto(p, "scan")
  /\ scan' = [NoScan EXCEPT !.pos = IF size < offset THEN 0 ELSE offset]
  /\ UNCHANGED <<logfile, counts, settings, requests, faults>>

\* There is no file, as when Xray has written nothing yet: only the summary is written.
NoFile(p) ==
  /\ pc[p] = "read" /\ size = 0 /\ Lock(p) /\ Goto(p, "dump")
  /\ scan' = NoScan
  /\ UNCHANGED <<logfile, counts, settings, requests, faults>>

\* The scanner reads what there is into its buffer.
Fill(p) ==
  /\ pc[p] = "scan" /\ scan.next > scan.last /\ scan.pos < size
  /\ scan' = [next |-> start + scan.pos + 1, last |-> written, pos |-> size]
  /\ UNCHANGED <<logfile, counts, settings, mu, pc, requests, faults>>

\* upsertRecord: a transaction of its own for each line.
UpsertRecord(p) ==
  /\ pc[p] = "scan" /\ scan.next <= scan.last
  /\ hits' = [hits EXCEPT ![scan.next] = @ + 1]
  /\ scan' = [scan EXCEPT !.next = @ + 1]
  /\ UNCHANGED <<logfile, offset, summary, forgotten, settings, mu, pc, requests, faults>>

\* Mutant: nothing is written to the summary when no line was read.
EndOfFileNoNews(p) ==
  /\ pc[p] = "scan" /\ scan.next > scan.last /\ scan.pos >= size
  /\ IF scan.pos = offset
       THEN Goto(p, "idle") /\ mu' = None /\ scan' = NoScan
       ELSE Goto(p, "save") /\ UNCHANGED <<mu, scan>>
  /\ UNCHANGED <<logfile, counts, settings, requests, faults>>

EndOfFile(p) ==
  /\ pc[p] = "scan" /\ scan.next > scan.last /\ scan.pos >= size
  /\ Goto(p, "save")
  /\ UNCHANGED <<logfile, counts, settings, mu, scan, requests, faults>>

\* Mutant: the size of the file is saved, not the position that was reached.
SaveSize(p) ==
  /\ pc[p] = "save"
  /\ offset' = size
  /\ IF form[p] = None THEN Goto(p, "dump") /\ UNCHANGED <<mu, scan>>
                       ELSE Goto(p, "restart") /\ mu' = None /\ scan' = NoScan
  /\ UNCHANGED <<logfile, hits, summary, forgotten, settings, requests, faults>>

\* saveState, with a rename; skipCurrentAccessLog ends here.
SaveState(p) ==
  /\ pc[p] = "save"
  /\ offset' = scan.pos
  /\ IF form[p] = None THEN Goto(p, "dump") /\ UNCHANGED <<mu, scan>>
                       ELSE Goto(p, "restart") /\ mu' = None /\ scan' = NoScan
  /\ UNCHANGED <<logfile, hits, summary, forgotten, settings, requests, faults>>

\* dumpSummary, with a rename; the mutex is released.
DumpSummary(p) ==
  /\ pc[p] = "dump" /\ Goto(p, "idle")
  /\ summary' = hits /\ mu' = None /\ scan' = NoScan
  /\ UNCHANGED <<logfile, offset, hits, forgotten, settings, requests, faults>>

\* Mutant: the mutex stays locked.
FailLocked(p) ==
  /\ mu = p /\ faults < MaxFaults /\ faults' = faults + 1
  /\ Goto(p, "idle") /\ scan' = NoScan
  /\ form' = IF p \in Admins THEN [form EXCEPT ![p] = None] ELSE form
  /\ excused' = (excused \/ form' # form)
  /\ UNCHANGED <<logfile, counts, setLog, setAgg, xrayLog, mu, requests>>

\* Any of the calls under the mutex fails, and the rest is left out.
Fail(p) ==
  /\ mu = p /\ faults < MaxFaults /\ faults' = faults + 1
  /\ mu' = None /\ Goto(p, "idle") /\ scan' = NoScan
  /\ form' = IF p \in Admins THEN [form EXCEPT ![p] = None] ELSE form
  /\ excused' = (excused \/ form' # form)
  /\ UNCHANGED <<logfile, counts, setLog, setAgg, xrayLog, requests>>

-----------------------------------------------------------------------------
(* ClearAccessIPRecords *)

ClearAccessIPRecords(a) ==
  /\ Request(a)
  /\ Goto(a, "clear")
  /\ UNCHANGED <<logfile, counts, settings, mu, scan, faults>>

DeleteRecords(a) ==
  /\ pc[a] = "clear" /\ Lock(a) /\ Goto(a, "stat")
  /\ hits' = [l \in Lines |-> 0]
  /\ forgotten' = forgotten \cup {l \in Lines : hits[l] > 0}
  /\ UNCHANGED <<logfile, offset, summary, settings, scan, requests, faults>>

Skip == forgotten' = forgotten \cup {l \in InFile : hits[l] = 0}

\* Mutant: the state that is saved has no offset.
StatForgotten(a) ==
  /\ pc[a] = "stat" /\ Goto(a, "save")
  /\ scan' = NoScan /\ Skip
  /\ UNCHANGED <<logfile, offset, hits, summary, settings, mu, requests, faults>>

\* The new offset is the size of the file: what was not counted is skipped.
Stat(a) ==
  /\ pc[a] = "stat" /\ Goto(a, "save")
  /\ scan' = [NoScan EXCEPT !.pos = size] /\ Skip
  /\ UNCHANGED <<logfile, offset, hits, summary, settings, mu, requests, faults>>

\* skipCurrentAccessLog; SaveState ends it.
SkipCurrentAccessLog(a) ==
  /\ pc[a] = "skip" /\ Lock(a) /\ Goto(a, "save")
  /\ scan' = [NoScan EXCEPT !.pos = size] /\ Skip
  /\ UNCHANGED <<logfile, offset, hits, summary, settings, requests, faults>>

-----------------------------------------------------------------------------
(* The settings *)

\* UpdateConfig: GetConfig, then the two settings are saved one after the other.
\* The page has two switches and sends what it shows with one of them changed.
UpdateConfig(a) ==
  /\ Request(a)
  /\ LET cur == [log |-> setLog, agg |-> setAgg]
     IN  \E want \in {[cur EXCEPT !.log = ~@], [cur EXCEPT !.agg = ~@]} :
           form' = [form EXCEPT ![a] = [cur |-> cur, want |-> want]]
  /\ excused' = (excused \/ \E b \in Admins : form[b] # None)
  /\ Goto(a, "log")
  /\ UNCHANGED <<logfile, counts, setLog, setAgg, xrayLog, mu, scan, faults>>

SaveLog(a) ==
  /\ pc[a] = "log" /\ Goto(a, "agg")
  /\ setLog' = form[a].want.log
  /\ UNCHANGED <<logfile, counts, setAgg, xrayLog, form, excused, mu, scan, requests, faults>>

SaveAgg(a) ==
  /\ pc[a] = "agg"
  /\ setAgg' = form[a].want.agg
  /\ Goto(a, IF form[a].cur.agg /\ ~form[a].want.agg THEN "skip" ELSE "restart")
  /\ UNCHANGED <<logfile, counts, setLog, xrayLog, form, excused, mu, scan, requests, faults>>

\* Mutant: the saved setting is compared with the wanted one.
RestartIfStored(a) ==
  /\ pc[a] = "restart" /\ Goto(a, "idle")
  /\ xrayLog' = IF setLog # form[a].want.log THEN setLog ELSE xrayLog
  /\ form' = [form EXCEPT ![a] = None]
  /\ UNCHANGED <<logfile, counts, setLog, setAgg, excused, mu, scan, requests, faults>>

\* RestartXray(true) when the log's switch was changed, as far as this request
\* knows; the new Xray has the setting stored by then.
RestartIfChanged(a) ==
  /\ pc[a] = "restart" /\ Goto(a, "idle")
  /\ xrayLog' = IF form[a].cur.log # form[a].want.log THEN setLog ELSE xrayLog
  /\ form' = [form EXCEPT ![a] = None]
  /\ UNCHANGED <<logfile, counts, setLog, setAgg, excused, mu, scan, requests, faults>>

\* A setting cannot be saved, or the restart fails.
UpdateFails(a) ==
  /\ pc[a] \in {"log", "agg", "restart"} /\ faults < MaxFaults /\ faults' = faults + 1
  /\ Goto(a, "idle") /\ form' = [form EXCEPT ![a] = None] /\ excused' = TRUE
  /\ UNCHANGED <<logfile, counts, setLog, setAgg, xrayLog, mu, scan, requests>>

\* Something else restarts Xray.
RestartXray ==
  /\ xrayLog # setLog /\ xrayLog' = setLog
  /\ UNCHANGED <<logfile, counts, setLog, setAgg, form, excused, mu, pc, scan, requests, faults>>

\* The panel dies; on its start it restarts Xray.
Crash ==
  /\ faults < MaxFaults /\ faults' = faults + 1
  /\ pc' = [p \in Workers |-> "idle"] /\ form' = [a \in Workers |-> None]
  /\ mu' = None /\ scan' = NoScan /\ xrayLog' = setLog
  /\ UNCHANGED <<logfile, counts, setLog, setAgg, excused, requests>>

-----------------------------------------------------------------------------
Init ==
  /\ written = 0 /\ start = 0 /\ offset = 0
  /\ hits = [l \in Lines |-> 0] /\ summary = hits
  /\ setLog = TRUE /\ setAgg = TRUE /\ xrayLog = TRUE
  /\ mu = None /\ pc = [p \in Workers |-> "idle"] /\ form = [a \in Workers |-> None]
  /\ scan = NoScan
  /\ forgotten = {} /\ overtaken = {} /\ excused = FALSE
  /\ requests = 0 /\ faults = 0

\* A goroutine that has begun goes on.
Step(p) ==
  \/ Open(p) \/ NoFile(p) \/ Fill(p) \/ UpsertRecord(p) \/ EndOfFile(p)
  \/ SaveState(p) \/ DumpSummary(p)
  \/ DeleteRecords(p) \/ Stat(p) \/ SkipCurrentAccessLog(p)
  \/ SaveLog(p) \/ SaveAgg(p) \/ RestartIfChanged(p)

Next ==
  \/ Write \/ Rotate \/ RestartXray \/ Crash
  \/ \E p \in Workers : Disabled(p) \/ ProcessAccessLog(p) \/ Step(p) \/ Fail(p)
  \/ \E a \in Admins : ClearAccessIPRecords(a) \/ UpdateConfig(a) \/ UpdateFails(a)

\* Cron starts the job for ever and a goroutine that has begun goes on.  Nobody has
\* to open the page, Xray has to write nothing, and of the mutex only this is used:
\* whoever waits gets it if nobody else does.
Spec ==
  /\ Init /\ [][Next]_vars
  /\ WF_vars(ProcessAccessLog(Job))
  /\ \A p \in Workers : WF_vars(Step(p))

-----------------------------------------------------------------------------
(* Properties *)

Critical == {"scan", "save", "dump", "stat"}

\* The mutex is held by the one goroutine that is between Lock and Unlock, and
\* by nobody else: it is released on every way out, the failing ones included.
TypeOK ==
  /\ written \in 0..MaxLines /\ start \in 0..written /\ offset \in 0..MaxLines
  /\ hits \in [Lines -> Nat] /\ summary \in [Lines -> Nat]
  /\ setLog \in BOOLEAN /\ setAgg \in BOOLEAN /\ xrayLog \in BOOLEAN
  /\ mu \in Workers \cup {None}
  /\ pc \in [Workers -> Critical \cup
               {"idle", "read", "clear", "skip", "log", "agg", "restart"}]
  /\ \A p \in Workers : pc[p] \in Critical <=> mu = p
  /\ form \in [Workers -> [cur : Settings, want : Settings] \cup {None}]
  /\ scan \in [next : 1..MaxLines + 1, last : 0..MaxLines, pos : 0..MaxLines]
  /\ forgotten \subseteq Lines /\ overtaken \subseteq Lines /\ excused \in BOOLEAN
  /\ requests \in 0..MaxRequests /\ faults \in 0..MaxFaults

\* A line before the saved offset was counted, unless its count was cleared, it
\* was skipped on purpose, or it was written at a place already passed because
\* the file was truncated and had outgrown the offset before anybody looked.
NothingSkipped ==
  \A l \in InFile :
    l <= start + offset => hits[l] > 0 \/ l \in forgotten \/ l \in overtaken

\* A line that was counted, cleared or skipped is not counted again, but for
\* the failures and crashes between a count and the offset that covers it.
CountedOnce ==
  \A l \in Lines : hits[l] + (IF l \in forgotten THEN 1 ELSE 0) <= 1 + faults

\* When no update is under way Xray writes the log as the setting says, unless
\* an update failed half-way or two of them overlapped.
LogSwitchFollowed == (\A a \in Admins : form[a] = None) /\ ~excused => xrayLog = setLog

\* As long as counting stays on the records catch up with the file and the
\* summary with the records, whatever failed before: a truncated file is read from
\* its beginning, and a summary that could not be written is written later.
Uncounted ==
  {l \in InFile : hits[l] = 0 /\ l \notin forgotten /\ ~(l \in overtaken /\ size >= offset)}

UpToDate == Uncounted = {} /\ hits = summary

CatchesUp == ~UpToDate ~> UpToDate \/ ~setAgg
=============================================================================
