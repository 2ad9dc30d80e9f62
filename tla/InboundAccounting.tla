-------------------------- MODULE InboundAccounting --------------------------
(***************************************************************************)
(* Inbounds, the traffic they are charged with and the quota that switches *)
(* them off.                                                               *)
(*                                                                         *)
(* Xray counts bytes by tag, and a tag is made from the port.  A job reads *)
(* and resets Xray's counters and adds them to the rows; another switches  *)
(* off the rows that have used up their quota or have expired and asks for *)
(* a restart, with which Xray starts counting from zero.  Meanwhile        *)
(* administrators save forms that were filled from an earlier state of the *)
(* row, its counters included.  The supervisor is reduced to Apply here:   *)
(* XrayLifecycle has its steps, and shows that the flag leads to an        *)
(* attempt.  An attempt may fail, and then nobody asks for another one.    *)
(***************************************************************************)
EXTENDS Integers, FiniteSets

CONSTANTS
  Ids,          \* row ids of the inbounds
  Ports,        \* ports, and with them the tags "inbound-<port>"
  None,
  Admins,       \* goroutines that serve the inbounds page
  Limits,       \* what the inbounds of this run may be limited by
  Quota,        \* the bytes that a limited inbound may use
  MaxBytes,     \* bound on the bytes that Xray carries
  MaxRequests,  \* bound on the requests of the inbounds page
  MaxFaults     \* bound on lost answers, failed transactions and attempts, exits, crashes

\* "bytes": total > 0; "date": expiry_time > 0.  up and down are one counter.
Row == [port : Ports, used : Nat, limit : Limits, enabled : BOOLEAN]

ASSUME InboundAssumption ==
  /\ Ids # {} /\ Ports # {}
  /\ None \notin Ids /\ None \notin Row
  /\ None \notin [Ports -> Nat] /\ \A S \in SUBSET Ports : S # None
ASSUME LimitAssumption == Limits \subseteq {"none", "bytes", "date"}
ASSUME NumberAssumption ==
  /\ Quota \in Nat \ {0}
  /\ MaxBytes \in Nat /\ MaxRequests \in Nat /\ MaxFaults \in Nat

VARIABLES
  rows,         \* the table of inbounds, None for an id without a row
  late,         \* the expiry date of the dated inbounds has passed
  xray,         \* the ports that Xray serves, None when it does not run
  stats,        \* Xray's counters
  needRestart,  \* isNeedXrayRestart
  read,         \* the traffic job: the counters it holds, None between runs
  expiry,       \* the expiry job: "idle", or "flag" before SetToNeedRestart
  pc, form,     \* administrators: what they do next, the row id and the form
  missed,       \* history: the last attempt failed and Xray runs as it did before
  carried,      \* history: bytes that Xray has carried
  requests, faults

vars == <<rows, late, xray, stats, needRestart, read, expiry, pc, form,
          missed, carried, requests, faults>>

panel == <<needRestart, expiry, pc, form, requests>>
budget == <<carried, requests, faults>>

Zero == [q \in Ports |-> 0]
Blank == [id |-> None, row |-> None]

-----------------------------------------------------------------------------
(* Reading the table *)

Rows == {i \in Ids : rows[i] # None}

\* checkPortExist; Port and Tag are unique columns, so that a Save checks again.
PortTaken(q, i) == \E j \in Rows \ {i} : rows[j].port = q

\* The WHERE of DisableInvalidInbounds.
Due(row) == \/ row.limit = "bytes" /\ row.used >= Quota
            \/ row.limit = "date" /\ late

\* The inbounds that getXrayConfigWithMeta puts into the configuration.
Wanted == {rows[i].port : i \in {j \in Rows : rows[j].enabled}}

-----------------------------------------------------------------------------
(* Xray *)

Carry ==
  /\ xray # None /\ carried < MaxBytes
  /\ \E q \in xray : stats' = [stats EXCEPT ![q] = @ + 1]
  /\ carried' = carried + 1
  /\ UNCHANGED <<rows, late, xray, read, panel, missed, faults>>

\* It ends by itself.
Exit ==
  /\ xray # None /\ faults < MaxFaults
  /\ xray' = None /\ stats' = Zero /\ faults' = faults + 1
  /\ missed' = FALSE
  /\ UNCHANGED <<rows, late, read, panel, carried>>

\* The keepalive job finds that it does not run, in one run or in two.
CheckXrayRunning ==
  /\ xray = None /\ ~needRestart
  /\ needRestart' = TRUE
  /\ UNCHANGED <<rows, late, xray, stats, read, expiry, pc, form, missed, budget>>

\* RestartXray keeps the process when the configuration is the same.  The
\* configuration does not hold the ids of the inbounds.
Restarted ==
  /\ IF xray = Wanted THEN UNCHANGED <<xray, stats>>
                      ELSE xray' = Wanted /\ stats' = Zero
  /\ missed' = FALSE /\ UNCHANGED faults

\* The database is locked or Xray refuses the configuration, and the process goes
\* on; or the new one does not start, and the old configuration is started again
\* or nothing runs.
RestartFails ==
  /\ faults < MaxFaults /\ faults' = faults + 1
  /\ \/ UNCHANGED <<xray, stats>>
     \/ xray # Wanted /\ xray' \in {xray, None} /\ stats' = Zero
  /\ missed' = (xray' # None)

\* The cron entry takes the flag back and tries once; an error is only logged.
Apply ==
  /\ needRestart
  /\ needRestart' = FALSE
  /\ Restarted \/ RestartFails
  /\ UNCHANGED <<rows, late, read, expiry, pc, form, carried, requests>>

-----------------------------------------------------------------------------
(* The traffic job *)

\* Mutant: GetTraffic(false), the counters go on.
GetXrayTrafficKeeping ==
  /\ xray # None /\ read = None
  /\ read' = stats
  /\ UNCHANGED <<rows, late, xray, stats, panel, missed, carried, faults>>

\* GetXrayTraffic: QueryStats with reset.  The answer may be lost with the
\* counters already reset.
GetXrayTraffic ==
  /\ xray # None /\ read = None
  /\ stats' = Zero
  /\ \/ read' = stats /\ UNCHANGED faults
     \/ faults < MaxFaults /\ faults' = faults + 1 /\ UNCHANGED read
  /\ UNCHANGED <<rows, late, xray, panel, missed, carried>>

\* AddTraffic: one transaction, UPDATE ... SET up = up + ? WHERE tag = ?.  A tag
\* that no row has any more is charged to nobody; a failure is only logged.
AddTraffic ==
  /\ read # None
  /\ read' = None
  /\ \/ /\ rows' = [i \in Ids |-> IF i \in Rows
                                    THEN [rows[i] EXCEPT !.used = @ + read[rows[i].port]]
                                    ELSE None]
        /\ UNCHANGED faults
     \/ faults < MaxFaults /\ faults' = faults + 1 /\ UNCHANGED rows
  /\ UNCHANGED <<late, xray, stats, panel, missed, carried>>

-----------------------------------------------------------------------------
(* The expiry job *)

DateComes ==
  /\ ~late /\ late' = TRUE
  /\ UNCHANGED <<rows, xray, stats, read, panel, missed, carried, faults>>

Disabled(S) ==
  [i \in Ids |-> IF i \in S THEN [rows[i] EXCEPT !.enabled = FALSE] ELSE rows[i]]

\* Mutant: no restart is asked for.
DisableInvalidInboundsOnly ==
  /\ expiry = "idle"
  /\ LET S == {i \in Rows : Due(rows[i]) /\ rows[i].enabled}
     IN  S # {} /\ rows' = Disabled(S)
  /\ UNCHANGED <<late, xray, stats, read, panel, missed, carried, faults>>

\* DisableInvalidInbounds is one UPDATE; a run that finds no row is no step.
DisableInvalidInbounds ==
  /\ expiry = "idle"
  /\ LET S == {i \in Rows : Due(rows[i]) /\ rows[i].enabled}
     IN  S # {} /\ rows' = Disabled(S)
  /\ expiry' = "flag"
  /\ UNCHANGED <<late, xray, stats, needRestart, read, pc, form, missed, budget>>

FlagDisabled ==
  /\ expiry = "flag"
  /\ expiry' = "idle" /\ needRestart' = TRUE
  /\ UNCHANGED <<rows, late, xray, stats, read, pc, form, missed, budget>>

-----------------------------------------------------------------------------
(* The inbounds page *)

Go(a, point, f) == pc' = [pc EXCEPT ![a] = point] /\ form' = [form EXCEPT ![a] = f]

Outside == <<late, xray, stats, read, expiry, missed, carried, faults>>

\* addInbound: a new row, enabled, with the tag of its port.  Its id is a free one,
\* which a deleted row may have had.
AddInbound(a) ==
  /\ pc[a] = "idle" /\ requests < MaxRequests
  /\ \E i \in Ids \ Rows, q \in Ports, limit \in Limits :
       /\ ~PortTaken(q, i)
       /\ rows' = [rows EXCEPT ![i] = [port |-> q, used |-> 0, limit |-> limit,
                                       enabled |-> TRUE]]
  /\ Go(a, "flag", Blank) /\ requests' = requests + 1
  /\ UNCHANGED <<Outside, needRestart>>

\* delInbound.
DelInbound(a) ==
  /\ pc[a] = "idle" /\ requests < MaxRequests
  /\ \E i \in Rows : rows' = [rows EXCEPT ![i] = None]
  /\ Go(a, "flag", Blank) /\ requests' = requests + 1
  /\ UNCHANGED <<Outside, needRestart>>

\* What the page can make of a row it shows: the form for port and limits, the
\* switch, and "reset traffic".  The counters shown go along.
Edits(row) ==
  {[row EXCEPT !.port = to[1], !.limit = to[2]] : to \in Ports \X Limits}
  \cup {[row EXCEPT !.enabled = ~@], [row EXCEPT !.used = 0]}

\* The page shows the rows and an administrator edits one of them.
OpenForm(a) ==
  /\ pc[a] = "idle" /\ requests < MaxRequests
  /\ \E i \in Rows : \E row \in Edits(rows[i]) : Go(a, "save", [id |-> i, row |-> row])
  /\ requests' = requests + 1
  /\ UNCHANGED <<Outside, rows, needRestart>>

\* Mutant: neither the query nor the index compares the new port with the others.
UpdateInboundUnchecked(a) ==
  /\ pc[a] = "save"
  /\ rows' = [rows EXCEPT ![form[a].id] = form[a].row]
  /\ Go(a, "flag", Blank)
  /\ UNCHANGED <<Outside, requests, needRestart>>

\* UpdateInbound.  Save writes the whole row, the counters of the form included.
\* The request is refused when the port is taken, at its query or by the index,
\* or when the row is gone; but a row deleted after it was read is inserted again.
UpdateInbound(a) ==
  /\ pc[a] = "save"
  /\ \/ /\ ~PortTaken(form[a].row.port, form[a].id)
        /\ rows' = [rows EXCEPT ![form[a].id] = form[a].row]
        /\ Go(a, "flag", Blank)
     \/ /\ PortTaken(form[a].row.port, form[a].id) \/ form[a].id \notin Rows
        /\ UNCHANGED rows
        /\ Go(a, "idle", Blank)
  /\ UNCHANGED <<Outside, requests, needRestart>>

\* SetToNeedRestart, after the change is committed.
Flag(a) ==
  /\ pc[a] = "flag"
  /\ needRestart' = TRUE /\ Go(a, "idle", Blank)
  /\ UNCHANGED <<Outside, rows, requests>>

\* The panel dies, and Xray with it; it starts again from the table, if it can.
PanelCrash ==
  /\ faults < MaxFaults /\ faults' = faults + 1
  /\ xray' \in {Wanted, None} /\ stats' = Zero /\ missed' = FALSE
  /\ needRestart' = FALSE /\ read' = None /\ expiry' = "idle"
  /\ pc' = [a \in Admins |-> "idle"] /\ form' = [a \in Admins |-> Blank]
  /\ UNCHANGED <<rows, late, carried, requests>>

-----------------------------------------------------------------------------
\* The panel has just started Xray on one inbound; which id and which port it has
\* makes no difference.
Init ==
  LET first == CHOOSE i \in Ids : TRUE
      q == CHOOSE p \in Ports : TRUE
  IN
  /\ \E limit \in Limits :
       rows = [i \in Ids |-> IF i = first THEN [port |-> q, used |-> 0, limit |-> limit,
                                               enabled |-> TRUE] ELSE None]
  /\ xray = {q}
  /\ late = FALSE /\ stats = Zero /\ needRestart = FALSE
  /\ read = None /\ expiry = "idle"
  /\ pc = [a \in Admins |-> "idle"] /\ form = [a \in Admins |-> Blank]
  /\ missed = FALSE /\ carried = 0 /\ requests = 0 /\ faults = 0

Admin(a) == \/ AddInbound(a) \/ DelInbound(a) \/ OpenForm(a) \/ UpdateInbound(a)
            \/ Flag(a)

Next == \/ Carry \/ Exit \/ CheckXrayRunning \/ Apply
        \/ GetXrayTraffic \/ AddTraffic
        \/ DateComes \/ DisableInvalidInbounds \/ FlagDisabled
        \/ \E a \in Admins : Admin(a)
        \/ PanelCrash

\* Cron runs its entries for ever, and a handler that has begun goes on.  Nobody
\* has to open a page, and no byte has to be carried.
Spec ==
  /\ Init /\ [][Next]_vars
  /\ WF_vars(Apply) /\ WF_vars(CheckXrayRunning)
  /\ WF_vars(DisableInvalidInbounds) /\ WF_vars(FlagDisabled)
  /\ \A a \in Admins : WF_vars(UpdateInbound(a) \/ Flag(a))

-----------------------------------------------------------------------------
(* Properties *)

TypeOK ==
  /\ rows \in [Ids -> Row \cup {None}]
  /\ \A i, j \in Rows : i # j => rows[i].port # rows[j].port
  /\ late \in BOOLEAN /\ missed \in BOOLEAN
  /\ xray \in (SUBSET Ports) \cup {None}
  /\ stats \in [Ports -> 0..MaxBytes]
  /\ needRestart \in BOOLEAN
  /\ read \in [Ports -> 0..MaxBytes] \cup {None}
  /\ expiry \in {"idle", "flag"}
  /\ pc \in [Admins -> {"idle", "save", "flag"}]
  /\ form \in [Admins -> [id : Ids \cup {None}, row : Row \cup {None}]]
  /\ \A i \in Rows : rows[i].used <= MaxBytes
  /\ \A a \in Admins : form[a].row # None => form[a].row.used <= MaxBytes
  /\ carried \in 0..MaxBytes /\ requests \in 0..MaxRequests /\ faults \in 0..MaxFaults

\* One element for every byte that a row is charged with, the traffic job holds or
\* Xray has still to report.
Counted ==
  LET OfRow(i) == {<<"row", i, n>> : n \in 1..rows[i].used}
      OfRead(q) == IF read = None THEN {} ELSE {<<"read", q, n>> : n \in 1..read[q]}
      OfStats(q) == {<<"stats", q, n>> : n \in 1..stats[q]}
  IN  UNION ({OfRow(i) : i \in Rows} \cup {OfRead(q) \cup OfStats(q) : q \in Ports})

\* No byte is charged twice: what the rows are charged with, what the traffic
\* job holds and what Xray has still to report never exceed what was carried,
\* whatever fails between the reset and the transaction, and whatever older
\* counters are saved with a form.
NeverOvercounted == Cardinality(Counted) <= carried

\* Somebody is about to have Xray restarted: the flag is up, or the expiry job or
\* a handler is between its commit and the flag.
Owed == needRestart \/ expiry = "flag" \/ \E a \in Admins : pc[a] = "flag"

\* Xray serves the inbounds that are switched on, unless somebody still owes it a
\* restart, or the last attempt failed: its flag was taken back before it, and the
\* error is only logged (src/web/controller/inbound.go:44-48).
ServedOrOwed == xray = Wanted \/ xray = None \/ Owed \/ missed

\* An inbound that has used up its quota or has expired is cut off, or given more,
\* whoever switches it on again meanwhile and whatever exits or crashes; but not
\* when the attempt has failed and nobody asks for another one, for the expiry job
\* finds no row to switch off any more.
CutOff ==
  \A i \in Ids :
    i \in Rows /\ Due(rows[i])
      ~> \/ i \notin Rows \/ ~Due(rows[i])
         \/ xray # None /\ rows[i].port \notin xray
         \/ missed /\ ~Owed
=============================================================================
