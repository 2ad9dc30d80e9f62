# n5-ui in TLA+

n5-ui is a web panel that manages one Xray child process.  Administrators edit
inbounds, N5 egresses, pools, traffic policies and simple rules in a SQLite
database; the panel generates one Xray configuration from the tables, tests it,
and keeps a process running with it.  This directory models the parts of the
panel where order, failure and shared state matter, checks them with TLC and
proves the safety of the core with TLAPS.

## Inventory

| part | state | operations | interacts with | what makes it correct |
|---|---|---|---|---|
| Xray supervisor (`web/service/xray.go`, `xray/process.go`) | `p`, `lock`, `isNeedXrayRestart`, the children | RestartXray, StopXray, SetToNeedRestart, Start, Stop | cron, handlers, main, the database | no request is lost; success means installed; a failure rolls back; no orphan; only tested configurations run; the panel converges |
| Restart triggers (`web/controller/**`, `web/job/*`) | `checkTime`, the flag | commit then flag, cron entry (10s), keepalive (30s), expiry (30s) | supervisor | every change that generation reads reaches an attempt |
| Panel start, reload, stop (`main.go`, `web/web.go`) | server, cron | Start, Stop, SIGHUP | supervisor, jobs | a reload does not lose the process |
| Configuration generation (`xray.go`, `n5/xray_merge.go`, `n5/xray_ext.go`) | history rows | getXrayConfigWithMeta, MergeWithMeta, fragments | all tables | fragments exist for what the forms accept; rules in priority order |
| N5 policy store (`n5/egress.go`, `egress_pool.go`, `traffic_policy.go`) | n5_egresses, pools, members, policies, rules, bindings | CRUD, bind, reorder | generation, simple mode, inbounds | no dangling reference; one binding per inbound |
| Simple mode (`n5/simple/rule.go`, `traffic_rule_group.go`) | execution policies and the metadata in their remark | create, update, delete, toggle rules; groups | policy store | metadata and rules agree; all or nothing |
| Egress probe (`n5/egress_probe.go`) | n5_egress_test, last_* columns | Test | egress CRUD, pools | a result belongs to what was tested |
| Inbounds (`web/service/inbound.go`) | inbounds | add, update, delete, AddTraffic, DisableInvalidInbounds | stats API, policy store | no traffic is lost or counted twice |
| Access IP (`web/service/access_ip.go`) | offset file, access_ip rows | ProcessAccessLog, UpdateConfig, Clear | the log Xray writes | each line counted once |
| Process output (`xray/process.go`) | ring of 100 lines, `result` | two readers, GetResult | child process | never blocks the child |
| Settings, sessions, users | settings, users | save, login | all | |
| Subscription, share links, egress codec | | pure formatting and parsing | inbounds | |
| Port limit sync, certificates, reality keys | files, external scripts | run, parse | | |
| Web front end, installers, vendored xray-core | | | | |

Hard behaviours: goroutines of the cron and of the handlers share a process
variable and a flag; `RestartXray` holds a mutex over tests, forks and sleeps;
the tables are read one query at a time; a kill is not waited for; the panel or
Xray may die between any two steps.

## XrayLifecycle

`XrayLifecycle.tla` models the supervisor with everything that calls it.

| code | model |
|---|---|
| tables | `db`: settings, inbounds, the N5 switch, the N5 rows, each one value |
| `isNeedXrayRestart`, `lock`, `p`, `checkTime` | `needRestart`, `lock`, `p`, `checkTime` |
| locals of RestartXray | `gen` (xrayConfig), `old` (oldConfig), `rollback` |
| `xray.Process` objects | `procs`: `gone` (not started or reaped), `alive`, `dying` (killed or exited, cmd.Wait not returned) |
| newest history row | `history` |
| goroutines | `pc`, one program counter each |

Where another goroutine can cut in, a step ends: commit and flag; swapping the
flag back and waiting for the mutex; the reads of the settings, the inbounds and
the N5 switch; the merge; the test; the kill and the swap of `p`; the fork; the
look after 300ms; the rollback.  `outcome` and `installed` are history variables.

Two simplifications.  `Merge` reads the N5 tables at one moment, where the code makes
about nine queries (`xray_ext.go:23-133`, `xray_merge.go:98,111`): a picture that
mixes two states of those tables is not among the model's.  For the promise that
no request is lost it makes no difference (a change committed between two of the
queries raises the flag afterwards), for what is generated it does.  And every change
of the N5 rows raises the flag after its commit, which the code's handlers do but
for three: the controller of the rule groups (`traffic_rule_group.go:86-203`; groups
only matter once copied), the creation of a pool (`pool.go:70-82`; nothing names
it yet) and the probe of an egress (`egress.go:169-183`), whose result changes the
members of a balancer only at the next generation that something else asks for.

`ConfigReconciler.tla` says what all of that amounts to for somebody who sees
neither flag nor mutex nor process objects: one reconciler that owes looks at
tables (`owed`), has a picture of them (`gen`), tries it in an empty slot
(`Try`), keeps it when it survived (`Keep`, `kept`), and otherwise starts what it
kept last, again only when nothing runs (`GiveUp`, `Restore`).  `Reconciles` maps it to
XrayLifecycle: `owed` is what the flag, the handlers before their flag, the ticks
after theirs and the reads still to come will look at; `running` is the
configuration of every live process; `trying` is the 300ms window.  Two tables may
still be read at different moments, and a look may fail after it paid: the
abstraction keeps both, because the code has both.

### Runs

| run | question | bounds |
|---|---|---|
| lifecycle_safety | do the seven invariants hold? | two cron goroutines that may overlap, one handler, two live process objects, two changes, one transient fault of the kinds history, start, exit, panel |
| lifecycle_live | does the panel converge after changes, a death of Xray or a crash of the panel, as ConfigReconciler would? | one tick, two changes, one exit or crash |
| lifecycle_mutex | does everybody who waits return and every history row get its final status, whichever step fails, and is it still ConfigReconciler that fails? | one change or silent save of settings that may not parse, one fault of db, test, start |
| lifecycle_locked | a statement of `docs/N5_UI_RUNTIME_APPLY_TRIGGER_REPORT.md` the code does not keep | smallest that shows it |

Two goroutines of the cron are what robfig/cron can overlap (a restart takes
longer than ten seconds when tests are slow); a third would repeat the second,
since the mutex leaves at most one inside.  Two process objects are p and the
one that replaces it; a reaped object can be used again.  Two changes are needed
for a change that falls into the generation of the one before.

Fairness: goroutines that can step do (`WF`), the mutex starves nobody (Go's
mutex hands over after 1ms of starvation, hence `SF` on taking it), cron fires
for ever, killed processes die.  No change, fault or stop has to happen.

## PolicyStore

`PolicyStore.tla` models the tables of the N5 extension and the requests that
change them at the same time.  There are no foreign keys: a handler looks with
queries of its own at what it refers to or deletes, and then writes.

| code | model |
|---|---|
| n5_egresses, pools and members, policies, rules, bindings, inbounds | the fields of `db`; an id without a row maps to `None` |
| remark of a policy | `owner` (ordinary; `n5-simple-group`: built-in or custom group; `n5-simple-exec`; `n5-simple`) and `items`: per kind of traffic the ids of its rows |
| ids of new policies and rules | `NewId`, `NewRules`: those after the largest present one |
| a handler between two statements | `pc[h]` and its locals `loc[h]` |
| unique index on `inbound_id` | bindings are a function |
| `db.Transaction(...)` | one step |
| gorm's `Save` | writes the whole row the handler read, inserting it again if it has gone |
| ids that requests under way hold, or rows name | `Named`; `reissued` remembers that a simple creation was given one of them |

A transaction is one step because SQLite (rollback journal, deferred BEGIN) lets
nobody commit between its first read and its commit; a second writer gets
"database is locked" and rolls back, which is `Fails`.  Simple requests read the
inbound and the egress before their transaction and again inside it
(RebindInboundPolicy, validateTarget), so only the second reading matters.
Consecutive checks of one row that nothing can change in between are merged.

**Ids.**  `go.mod:23` pins `gorm.io/driver/sqlite` v1.1.4.  It creates the primary
keys as plain `INTEGER PRIMARY KEY` (the tags of `models.go:96,111` do not change
that), and SQLite then gives a new row the id after the largest one present: when
the newest policy or rule is deleted, the next one gets its id.  An advanced
request tests the owner of an id and writes by that id in a later statement.  If
the row is deleted in between and the simple page creates the next one, the write
hits simple state (run store_reissue).  So the three properties of simple state say what
holds *until* that happens: `reissued` becomes true when the simple page gets an id
that a request under way holds or a row left behind still names, and from then on
they promise nothing.  They do promise that this is the only way: as long as no such id
is handed out, no gap between a check and a write lets an advanced request reach
simple state, and ids that nobody names may be reused freely.  The runs with these
properties end a behaviour at that point (`Bounded`).  `TypeOK` and the runs store_serial,
store_delete and store_reissue have no such condition.  New egresses, pools and
inbounds get any free id, the reissued ones included.

Rule groups are policies of their own, which the advanced pages take for
ordinary ones.  Their requests check the remark (`getGroupPolicy`) and go on
through the functions that the advanced requests use, so `Points` are shared;
only the seeding of a built-in group (`EnsureBuiltinGroups`, one statement per
rule, undone when one fails) and the domain rules have steps of their own.  One
built-in type stands for the three.  How many rows a simple rule copies from a
group is left open (1 to `MaxSnapshot`): a group may be large, or half seeded.

`SimpleRouting.tla` is what the simple page promises: per inbound a table from
kinds of traffic to egresses, changed entry by entry or cleared.
`SimpleIsAtomic` says that PolicyStore implements it, mapping the table to what
ListSimpleRules shows (except that the page leaves out a line whose egress has gone,
`rule.go:383-387`, and the table still has it).

### Runs

| run | question | bounds |
|---|---|---|
| store_serial | do single requests keep all references, and every simple policy within reach of its page? | one handler, one egress, one pool, two policies, three rules, two inbounds, all requests but templates and groups |
| store_rules | can a request on rules, rule groups or templates get at simple state through the gap between its check and its write, unless an id it holds is reissued? | two handlers, one inbound, two policies, two rules, two egresses |
| store_bindings | can one on policies or bindings? do races with the deletion of an inbound leave a simple table half changed, or touch another inbound's? | two handlers, two inbounds, two policies, two rules |
| store_delete | `docs/history/02_P1_HARDENING.md:22-23` against a reference committed during a deletion | two handlers |
| store_reissue | the same document, lines 64-65, against an id that is reissued between check and write | two handlers, one inbound, policies and simple rules |

A table is never larger than the ids it has: two policies let an inbound go from a
simple policy to an ordinary one and back, two rules a group with two rows or two
items, three both.  Init has the empty database and
one left by an older version with a policy in the older format, which every run
may convert.  Two handlers are enough because every gap has one check on one
side and one write on the other.  store_rules and store_bindings start with all
egresses, and with all inbounds where no request of the run changes them.

`TargetsExist`, `NoOrphanRows` and `SimpleReachable` hold for requests that come
one after the other and fail with two at a time (store_delete shows the first;
AddRule against DeletePolicy and RebindInboundPolicyFromAdvanced against
CreateSimpleRule are the others), so they say nothing about interleavings.
`SimpleReachable` also fails, with one request at a time, when a template replaces
the binding of a simple policy (`traffic_template.go:151`).
`SimpleConsistent`, `SimpleUntouched` and `SimpleIsAtomic` hold for any number
of handlers.  `SimpleIsAtomic` alone lets anybody clear entries of a table; that the
advanced pages do not do that to a policy which stays bound is `SimpleUntouched`.

## RoutingOrder

`RoutingOrder.tla` models the simple rules of one inbound, with their matchers,
and which of them a visit follows.  Two functions written at different places
rank the same rules, each with a table of its own: the generation when it sorts
the rows (`simpleRoutingItemPriority`; `DomainPriority`, `GroupPriority`), and the
preview that tells the administrator which of two overlapping rules will win
(`simpleBusinessPriority`; `BusinessDomain`, `BusinessGroup`).

| code | model |
|---|---|
| remark of the policy | `items`, in order of creation: a custom domain with its row, or a group with the rows it had when chosen |
| rows of the policy | `rules`: matcher and egress |
| the rule for all traffic | `default` |
| `sortedRoutingRulesForPolicy`, the loop over the rules | `Rank`, `RankBefore`, `Route`: Xray takes the first rule that matches |
| `CheckSimpleRuleConflicts` | `Conflicts`, `Overlap`, `Direction` |
| the item's key, `removeExecutionItem` | `Key`: two items with one key would go together and leave rows behind (`TypeOK`) |

Requests are single steps here; PolicyStore has their interleavings.  What a
matcher matches is given by two constants: which name lies under which, and
which names a pattern matches.  The rules of a group are a constant, too: a preview
made from a group that has changed since it was copied (`rule.go:1632-1667`) is not
covered.  Ids are handed out in order; that SQLite may reissue the largest one
changes no order, since no request here holds an id across statements.

| run | question | bounds |
|---|---|---|
| routing | does a visit follow the documented order, does the preview tell the truth, is nobody else re-routed? | a name and its parent domain, one pattern for keywords and regular expressions, one group of every type (the custom one with two rules), three items, four row ids, two egresses |

Three items are a rule, one that overlaps it and one that is deleted or edited
between; two egresses tell two routes apart.  `BestClassWins` takes the order
of classes from `docs/history/01_FIX_01_10.md:107-117`, not from the code.
Inside one class the older item wins (`xray_ext.go:283`), the narrower suffix
does not; the preview says so ("same").

## InboundAccounting

`InboundAccounting.tla` models the inbounds, the bytes Xray counts for them and
the quota that switches them off.

| code | model |
|---|---|
| table of inbounds | `rows`: port, counters (up and down as one), limit, switch |
| Xray's counters by tag `inbound-<port>` | `stats`, zero after every start |
| `XrayTrafficJob` | `GetXrayTraffic` (reset on reading; the answer may be lost), then `AddTraffic` (one transaction; may fail) |
| `CheckInboundJob` | `DisableInvalidInbounds`, then `FlagDisabled` |
| a form of the inbounds page | `form[a]`: the row as shown, counters included, with one edit |
| `UpdateInbound` | saves the whole form, or refuses it when the port is taken or the row gone |
| the cron entry (`inbound.go:43-50`) | `Apply`: the flag is taken back, then the attempt succeeds (`Restarted`) or fails (`RestartFails`) |
| the keepalive job, the supervisor | `CheckXrayRunning` (only raises the flag), `Exit`; XrayLifecycle has the details |

| run | question | bounds |
|---|---|---|
| accounting | is any byte charged twice, is anything served that is off, and is the quota enforced in the end? | two inbounds, two ports, two administrators, one byte, a quota of one, two requests, two faults or crashes |

One byte is enough because counters are only added up and compared with the
quota; two ports let one change hands.  `NeverOvercounted` is an inequality on
purpose: bytes are lost when an answer or the transaction fails, when Xray
restarts before it is asked, and when a stale form overwrites the row.  Bytes
counted for a port that changes hands within the ten seconds of the job are
charged to the new owner.  A new inbound may get the id of a deleted one, whose
stale form then overwrites it.

`Apply` takes the flag back before the attempt, and a failing attempt is only logged.
Xray then goes on with the old configuration and nobody asks again: the expiry
job finds no enabled row to switch off any more, so an inbound over its quota stays
served until something else raises the flag.  lifecycle_locked shows that loss on
its own.  `missed` marks this state, `Owed` says that somebody will ask again, and
`ServedOrOwed` and `CutOff` name it as their one exception: no interleaving of jobs,
handlers, exits and crashes does the same without a failed attempt, and after the
next request that gets through they hold again.  Two faults let an attempt fail after
Xray has exited or an answer was lost, and let the next one fail too.

`CutOff` assumes weak fairness of the cron entries
and of handlers that have begun; an administrator who switches an expired
inbound on again can do so only as often as `MaxRequests`, and the expiry job
comes after.

## AccessIPLog

`AccessIPLog.tla` models the access log, the offset file, the records of
visitors and the summary file.

| code | model |
|---|---|
| `access.log` | the lines `start + 1 .. written`; `Rotate` is logrotate's copytruncate |
| `access-ip-state.json`, records, summary | `offset` in lines; `hits` and `summary` per line |
| `accessIPMu` | `mu` |
| `ProcessAccessLog` | `ProcessAccessLog`, `Open` (or `NoFile`: only the summary, the offset stays), `Fill`, `UpsertRecord`, `EndOfFile`, `SaveState`, `DumpSummary`; `Fail` at any of them |
| `ClearAccessIPRecords` | `DeleteRecords`, `Stat`, `SaveState`, `DumpSummary` |
| `UpdateConfig` and its handler | `UpdateConfig`, `SaveLog`, `SaveAgg`, `SkipCurrentAccessLog`, `RestartIfChanged` |

| run | question | bounds |
|---|---|---|
| accesslog | is a line skipped or counted twice, does the mutex survive failures, do the records catch up, does Xray's log follow its switch? | the job, one goroutine of the page with two requests, three lines, one failure or crash |

Three lines let the file be truncated, outgrow the offset and be read again.
The history variables name the excuses: `forgotten` (cleared, or skipped when
counting was switched off), `overtaken` (written to a truncated file at a place
the offset has already passed: those are lost), `excused` (an update of the
settings that failed or overlapped another; what such an update leaves behind is
therefore not covered by `LogSwitchFollowed`).  Fairness: cron starts the job,
and a goroutine that has begun goes on; Xray need not write and nobody need
open the page.

Left out: a line read before it was completely written, and a line longer than
the scanner's buffer of 1 MiB, which makes every later run fail at the same place.

## What is proved

The theorems hold for every value of the constants that meets the named
assumptions of the module: any number of handlers, goroutines, rows, lines,
bytes and retries.  Each `_proofs` module states an inductive invariant `IInv`,
proves that Init implies it and every action keeps it, and derives the
properties from it.

**XrayLifecycle_proofs**: the seven invariants of lifecycle_safety, from
`ConfigAssumption` (which configurations are malformed, refused or make Xray
exit), `GoroutineAssumption` (the sets of goroutines and process objects are
disjoint and do not contain the null values) and `BoundAssumption` (bounds are
naturals).

- `RequestsSurvive`: `NoRequestLost` is inductive together with `TypeOK`: a
  table that differs from what the last generation read is owed by the flag, by
  a tick that has swapped the flag, by an attempt that has not read the table
  yet, or by a handler before its flag.
- `SuccessTold`, `RollbackRestores`, `NothingOrphaned`, `HistoryTruthful` and
  `TestedOnly` follow from `IInv`: `TypeOK`, the mutex (`MutexInv`: only its
  holder is inside an attempt), what the locals mean at every step
  (`LocalsInv`: `p` is stopped when it is swapped, `old` is what ran before),
  what runs (`InstalledInv`) and what the history row says (`HistoryInv`).  None of
  the five is inductive alone: that a rollback restores the old configuration
  needs to know that nobody touched `p` since it was remembered, which needs the
  mutex.
- `TypeCorrect` carries `RollbackHasConfig`: a rollback always has a
  configuration to start.

**XrayReconciler_proofs**: `ImplementsReconciler`, the refinement `Reconciles`, from
the `IInv` above and the same assumptions.  One lemma per abstract action says which
changes of `owed`, `running` and `trying` make it (`IsChange` ... `IsCrash`); then
each concrete action is shown to be one of them or a stutter.  Only `IInv` tells
why: the mutex excludes that two goroutines are in the 300ms window, or that one
looks while another tries; `NoOrphan` and the swapped `p` being `gone` give that
no Xray is alive at the two starts; `old = installed` makes the rollback a `Restore`.

**PolicyStore_proofs**: `SimpleConsistent`, `SimpleUntouched` and the
refinement `SimpleIsAtomic`, from `IdAssumption` (the ids of policies and rules are
numbers, the tables' ids are disjoint, and none is the null value).

- `IInv` is `StoreInv` of the database (types; every simple policy is bound at most
  once and its remark lists its own rows, each once) and `HandlersInv`: what a
  handler has learnt from its queries still holds when it writes.  An id it looked
  up may have lost its row, but if there is one it is not a simple policy's:
  a policy only becomes a simple one when it is created, and a creation that is given
  an id somebody holds sets `reissued`.  What is inductive is therefore
  `~reissued => IInv`, and each theorem has the condition its property states.
- Every step of a request of the other pages is then `Harmless` (it changes no
  simple policy, none of its rows and no binding of one, save to take the
  binding away), every step of the simple page `Own` (it changes one).
  `SimpleUntouched` is the first; for `SimpleIsAtomic` each kind of step has an
  `Effect` on the table of routes: none, one entry, one line cleared, or all of
  an inbound's.

**PolicyStoreTypes_proofs**: `TypeOK` without that condition.  `TypeInv` knows of the
tables only that they are typed and that pools are never deleted, and of a handler
the type of what it holds at each statement, so a stale write is a write of a row.

**PolicyStoreSerial_proofs**: `TargetsExist`, `NoOrphanRows` and
`SimpleReachable` when requests do not overlap, the three that races break
(store_delete shows one).  `OneHandler` says so and is an assumption of the
theorems, not of the module; `NothingDangles` also needs that no request is
about rule groups, whose rules have no target and stay when the group becomes an
ordinary policy, and `AlwaysReachable` that no template replaces a binding.  Each
exception is assumed where it is needed only: `NoRowOrphaned` holds for all requests.

- `SInv` adds to `IInv` that the tables are `Whole` and what the only handler has
  `Learnt` at each statement: between two counts of a deletion that the tables
  counted so far do not name the egress, before a write that the target is
  there, the policy has its row, and the binding to be replaced is nobody's or
  an ordinary policy's.  With two handlers `Learnt` is exactly what the other one
  destroys, so this shows that the gaps between the statements are the only
  cause of dangling rows: no test is missing and no deletion forgets a table.
- Ids are reused here, too, but never while they are named: the only handler has
  returned, no row names a policy that has gone (`SerialNamed`), so no creation sets
  `reissued` (`SerialIssuesNone`) and `IInv` holds throughout.

**AccessIPLog_proofs**: `TypeOK`, `NothingSkipped`, `CountedOnce` and
`LogSwitchFollowed`, from `WorkerAssumption` (the goroutines of the page are
numbered, the job is another, none is the null value) and `BoundAssumption`.
`IInv` adds to the types what the locals of a
run mean (`FormInv`), who may overlap with an update of the settings
(`SwitchInv`), how far the scanner has come (`ScanInv`), which lines lie behind
the offset (`CoverInv`) and how often each was counted (`CountInv`).
The mutex is what makes the last two inductive: nobody else moves the offset
while a run holds the one it has read.

**InboundAccounting_proofs**: `TypeOK`, `NeverOvercounted` and `ServedOrOwed`,
from `InboundAssumption` and `NumberAssumption`.  A sum over a function would
need an induction, so bytes are the elements of a set, `Units`: one for each
that a row is charged with *or would be if an open form were saved*, that the
job holds, or that Xray has counted.  `UnitsInv` says that there are at most as
many as bytes carried.  Reading the counters and charging the rows are
injections of the new set into the old (the second because ports are unique),
carrying a byte adds one element, every other step only removes some.  The
forms belong to the invariant because saving one restores older counters.
`ServedOrOwed` is inductive together with the types: every commit is followed by
a flag that somebody owes, and whoever takes the flag back either serves the
table or has `missed` it.

**RoutingOrder_proofs**: all four properties of the routing run, from
`RelationAssumption`, `GroupAssumption`, `IdAssumption` and `MaxAssumption`.  `IInv`
says that every row has one place in the metadata and every place its row, that
ids to come are larger than those in use, that a custom domain has one row and
that keys are unique, without which a deletion would take two items and the
rows of one.  Ranks are then different and strictly ordered, a visit has one
winner (least elements exist because `<` is well-founded), and its class is the
best since the code's priorities are ten times the documented places
(`DocumentedOrder`); the preview's numbers are equal to them, entry by entry
(`PreviewTells`).  A
request maps the places of the rows it leaves alone without exchanging two
(`Ordered`), so who won before wins after (`OthersStay`).

Model-checked only: liveness, which is out of the prover's reach (`Convergence`,
`HistorySettles`, `EveryAttemptReturns`, `CutOff`, `CatchesUp`), and what the
three runs that expect a violation show.

## Where code and documents disagree

| run | statement | code |
|---|---|---|
| lifecycle_locked | "database is locked" does not affect the configuration that ends up applied | the flag is cleared before the generation fails, and nothing raises it again |
| store_delete | the delete API introduces no missing egress target | counts and DELETE are separate statements |
| store_reissue | advanced APIs reject changes to simple-managed policies, rules and bindings | they test an id and write by it later; a simple policy that was given the id meanwhile is changed or deleted |

Also met, without a run: the template page replaces any binding and leaves a simple policy
unbound (`traffic_template.go:151`), against the same sentence of
`docs/history/02_P1_HARDENING.md:64-65`; a failing UPDATE of the history row leaves it
"validated" for ever (`xray.go:223`); `AddRule` against `DeletePolicy` leaves an
orphan rule (`traffic_policy.go:214-263`).  The N5 switch of the settings page
does not enter the apply queue (`setting.go:49-58` raises no flag), although
`docs/N5_UI_RUNTIME_APPLY_TRIGGER_REPORT.md:360-362` says it is the same setting
as on the N5 page and does.  Lines written while counting of visitors is off are
counted once it is on again, and a job that has passed its test still counts
after the switch-off (`access_ip.go:61-69`), although the page says that records
do not grow meanwhile (`access_ips.html`).  The preview misses a keyword that
occurs in a name below a suffix (`rule.go:1786-1800`) and stops at five
conflicts.

## What is not modelled

- Contents: names, protocols, JSON, and the enabled flags beyond the inbounds'
  and the N5 switch.  Matchers and the order of rules are in RoutingOrder only,
  for simple policies; ReorderRules orders ordinary ones.  The test's verdict on
  a configuration is a constant set.
- What the driver does with ids is taken from its pinned version; its source is not
  part of the repository.
- Groups whose remark an administrator types by hand on the advanced page; the
  form can only turn a group into an ordinary policy there.
- The components PROJECT.json lists as not modelled: text processing
  (share links, subscription, codecs), external scripts (port limits,
  certificates), one-shot commands, the front end, vendored code.

## Plan

Done: the modules above, and the proofs of all their invariants, action
properties and refinements.  Left, in this order:

1. Egress probe (`egress_probe.go`) against edits of the egress and against the
   generation that drops a failed member from its pool.
2. Output capture (`process.go:252`): the ring of lines and its two readers.
