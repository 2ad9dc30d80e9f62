--------------------------- MODULE ConfigReconciler ---------------------------
(***************************************************************************)
(* What the supervision of Xray promises, without program counters, mutex, *)
(* flag or process objects.                                                *)
(*                                                                         *)
(* A change of the tables and the request to look at them are one step.    *)
(* The reconciler makes a picture of the tables, one table after the       *)
(* other, and a request about a table is answered by a look at that table  *)
(* only.  It tries the picture when nothing runs any more, keeps it when   *)
(* it survives, and otherwise starts what it kept last.  Nothing else ever *)
(* runs, and never two at a time.                                          *)
(***************************************************************************)
CONSTANTS
  Tables,    \* names of the tables
  DbStates,  \* what the tables may contain
  Slots,     \* where an Xray may run
  Refused,   \* the pictures the test refuses
  Silent,    \* tables that may change without a request
  Switch,    \* the table that says whether the optional ones matter
  Optional,  \* ... and those
  Nothing,   \* the picture of a table that does not matter
  None

VARIABLES
  db,      \* what the tables contain
  owed,    \* tables somebody will look at yet
  gen,     \* the picture
  running, \* what runs in each slot, or None
  trying,  \* the picture was started and is being watched
  kept     \* the last picture that survived, or None

\* The picture c of table t is true.
Seen(c, t) == c[t] = db[t] \/ (t \in Optional /\ ~db[Switch] /\ c[t] = Nothing)

Idle == \A q \in Slots : running[q] = None

Init ==
  /\ db \in DbStates
  /\ owed = Tables
  /\ gen = db
  /\ running = [q \in Slots |-> None]
  /\ trying = FALSE
  /\ kept = None

\* The tables change, and it is known that somebody has to look at them.
Change ==
  /\ db' \in DbStates
  /\ owed' = Tables
  /\ UNCHANGED <<gen, running, trying, kept>>

ChangeSilently ==
  /\ db' \in DbStates
  /\ \A t \in Tables \ Silent : db'[t] = db[t]
  /\ UNCHANGED <<owed, gen, running, trying, kept>>

\* Somebody asks for a look without a change.
Ask ==
  /\ owed' = Tables
  /\ UNCHANGED <<db, gen, running, trying, kept>>

\* Some tables are looked at; only what was asked about them may count as done.
Look ==
  /\ ~trying
  /\ owed' \subseteq owed
  /\ \A t \in Tables : gen'[t] = gen[t] \/ Seen(gen', t)
  /\ \A t \in owed \ owed' : Seen(gen', t)
  /\ UNCHANGED <<db, running, trying, kept>>

\* An Xray is killed, or ends by itself.
Stop(q) ==
  /\ running' = [running EXCEPT ![q] = None]
  /\ UNCHANGED <<db, owed, gen, trying, kept>>

Try(q) ==
  /\ Idle /\ ~trying
  /\ gen \notin Refused
  /\ running' = [running EXCEPT ![q] = gen]
  /\ trying' = TRUE
  /\ UNCHANGED <<db, owed, gen, kept>>

\* It has survived the look at it: this is what the panel answers for from now on.
Keep ==
  /\ trying /\ trying' = FALSE
  /\ kept' = gen
  /\ UNCHANGED <<db, owed, gen, running>>

\* It did not.
GiveUp ==
  /\ trying /\ Idle /\ trying' = FALSE
  /\ UNCHANGED <<db, owed, gen, running, kept>>

Restore(q) ==
  /\ Idle /\ ~trying /\ kept # None
  /\ running' = [running EXCEPT ![q] = kept]
  /\ UNCHANGED <<db, owed, gen, trying, kept>>

\* Everything but the tables is lost, and a new reconciler starts to look.
Crash ==
  /\ owed' = Tables
  /\ running' = [q \in Slots |-> None]
  /\ trying' = FALSE
  /\ kept' = None
  /\ UNCHANGED <<db, gen>>

Next ==
  \/ Change \/ ChangeSilently \/ Ask \/ Look \/ Keep \/ GiveUp \/ Crash
  \/ \E q \in Slots : Stop(q) \/ Try(q) \/ Restore(q)

vars == <<db, owed, gen, running, trying, kept>>

Spec == Init /\ [][Next]_vars
=============================================================================
