---------------------- MODULE InboundAccounting_proofs ----------------------
(***************************************************************************)
(* No byte is charged twice, and what is switched on is served but after a *)
(* failed attempt, for any number of inbounds, ports, bytes and            *)
(* administrators.                                                         *)
(*                                                                         *)
(* Sums are out of reach here, so bytes are counted as the elements of a   *)
(* set (Units): one for every byte that a counter stands for.  A step that *)
(* moves or forgets bytes is an injection from the new set into the old.   *)
(***************************************************************************)
EXTENDS InboundAccounting, FiniteSetTheorems, TLAPS

\* The types without the bounds on the counters, which need the argument below.
Types ==
  /\ rows \in [Ids -> Row \cup {None}]
  /\ \A i, j \in Rows : i # j => rows[i].port # rows[j].port
  /\ late \in BOOLEAN /\ missed \in BOOLEAN
  /\ xray \in (SUBSET Ports) \cup {None}
  /\ stats \in [Ports -> Nat]
  /\ needRestart \in BOOLEAN
  /\ read \in [Ports -> Nat] \cup {None}
  /\ expiry \in {"idle", "flag"}
  /\ pc \in [Admins -> {"idle", "save", "flag"}]
  /\ form \in [Admins -> [id : Ids \cup {None}, row : Row \cup {None}]]
  /\ carried \in 0..MaxBytes /\ requests \in 0..MaxRequests /\ faults \in 0..MaxFaults

\* A form that is about to be saved is one of a row, and only such a form has one.
FormInv ==
  \A a \in Admins : /\ pc[a] = "save" => form[a].row \in Row
                    /\ form[a].row # None => form[a].id \in Ids

\* The n-th byte with which id i is charged, or would be if a form that somebody has
\* open were saved.
Chargeable(i, n) ==
  \/ rows[i] # None /\ n <= rows[i].used
  \/ \E a \in Admins : form[a].id = i /\ form[a].row # None /\ n <= form[a].row.used

Units ==
  {u \in {"row", "read", "stats"} \X (Ids \cup Ports) \X (Nat \ {0}) :
     \/ u[1] = "row" /\ u[2] \in Ids /\ Chargeable(u[2], u[3])
     \/ u[1] = "read" /\ u[2] \in Ports /\ read # None /\ u[3] <= read[u[2]]
     \/ u[1] = "stats" /\ u[2] \in Ports /\ u[3] <= stats[u[2]]}

UnitsInv == IsFiniteSet(Units) /\ Cardinality(Units) <= carried

IInv == Types /\ FormInv /\ UnitsInv

-----------------------------------------------------------------------------
(* Types *)

\* The start: one inbound, enabled, nothing read, nothing counted.
LEMMA TypesInit == ASSUME Init PROVE Types /\ FormInv
<1> DEFINE first == CHOOSE i \in Ids : TRUE
           q == CHOOSE p \in Ports : TRUE
<1>1. first \in Ids /\ q \in Ports
  BY InboundAssumption
<1> HIDE DEF first, q
<1>2. PICK limit \in Limits :
        rows = [i \in Ids |-> IF i = first THEN [port |-> q, used |-> 0, limit |-> limit,
                                                 enabled |-> TRUE] ELSE None]
  BY DEF Init, first, q
<1>3. rows \in [Ids -> Row \cup {None}]
  BY <1>1, <1>2 DEF Row
<1>4. \A i, j \in Rows : i = j
  BY <1>2 DEF Rows
<1>5. /\ xray = {q}
      /\ missed = FALSE /\ late = FALSE /\ stats = Zero /\ needRestart = FALSE
      /\ read = None /\ expiry = "idle"
      /\ pc = [a \in Admins |-> "idle"] /\ form = [a \in Admins |-> Blank]
      /\ carried = 0 /\ requests = 0 /\ faults = 0
  BY DEF Init, first, q
<1>6. Types
  <2>1. stats \in [Ports -> Nat] /\ read \in [Ports -> Nat] \cup {None}
        /\ xray \in (SUBSET Ports) \cup {None}
    BY <1>1, <1>5 DEF Zero
  <2>2. /\ pc \in [Admins -> {"idle", "save", "flag"}]
        /\ form \in [Admins -> [id : Ids \cup {None}, row : Row \cup {None}]]
    BY <1>5 DEF Blank
  <2>3. carried \in 0..MaxBytes /\ requests \in 0..MaxRequests /\ faults \in 0..MaxFaults
    BY <1>5, NumberAssumption
  <2> QED
    BY <1>3, <1>4, <1>5, <2>1, <2>2, <2>3 DEF Types
<1>7. FormInv
  BY <1>5 DEF FormInv, Blank
<1> QED
  BY <1>6, <1>7

\* The rows that are switched on have ports.
LEMMA WantedTyped == ASSUME Types PROVE Wanted \in SUBSET Ports
  BY DEF Types, Wanted, Rows, Row

\* A table that has the same rows with the same ports keeps its types when the rows do.
LEMMA SamePorts ==
  ASSUME Types, rows' \in [Ids -> Row \cup {None}],
         \A i \in Ids : rows'[i] # None => rows[i] # None /\ rows'[i].port = rows[i].port
  PROVE  \A i, j \in Rows' : i # j => rows'[i].port # rows'[j].port
<1>1. \A i \in Rows' : i \in Rows /\ rows'[i].port = rows[i].port
  BY DEF Rows
<1> QED
  BY <1>1 DEF Types

\* Saving a row whose port no other row has keeps the ports apart.
LEMMA RowSaved ==
  ASSUME Types, NEW i \in Ids, NEW row \in Row, ~PortTaken(row.port, i),
         rows' = [rows EXCEPT ![i] = row]
  PROVE  /\ rows' \in [Ids -> Row \cup {None}]
         /\ \A j, k \in Rows' : j # k => rows'[j].port # rows'[k].port
<1>1. rows' \in [Ids -> Row \cup {None}]
  BY DEF Types
<1>2. \A j \in Rows' : j \in Ids /\ (j = i => rows'[j] = row)
                       /\ (j # i => j \in Rows /\ rows'[j] = rows[j])
  BY DEF Rows, Types
<1>3. \A j \in Rows \ {i} : rows[j].port # row.port
  BY DEF PortTaken
<1>4. ASSUME NEW j \in Rows', NEW k \in Rows', j # k PROVE rows'[j].port # rows'[k].port
  BY <1>2, <1>3, <1>4 DEF Types
<1> QED
  BY <1>1, <1>4

\* The steps of Xray, of the supervisor and of the jobs.
LEMMA JobsTyped ==
  ASSUME Types, FormInv,
         \/ Carry \/ Exit \/ CheckXrayRunning \/ Apply \/ GetXrayTraffic \/ AddTraffic
         \/ DateComes \/ DisableInvalidInbounds \/ FlagDisabled \/ PanelCrash
  PROVE  Types' /\ FormInv'
<1> USE NumberAssumption
<1>1. CASE Carry
  <2>1. stats' \in [Ports -> Nat]
    <3>1. PICK q \in xray : stats' = [stats EXCEPT ![q] = @ + 1]
      BY <1>1 DEF Carry
    <3>2. q \in Ports /\ stats \in [Ports -> Nat] /\ stats[q] + 1 \in Nat
      BY <1>1 DEF Carry, Types
    <3> QED
      BY <3>1, <3>2
  <2>2. carried' \in 0..MaxBytes
    <3>1. carried \in 0..MaxBytes /\ carried < MaxBytes /\ carried' = carried + 1
      BY <1>1 DEF Carry, Types
    <3> QED
      BY <3>1
  <2> QED
    BY <1>1, <2>1, <2>2 DEF Carry, panel, Types, FormInv, Rows
<1>2. CASE Exit
  <2>1. stats' \in [Ports -> Nat] /\ xray' = None /\ missed' = FALSE
    BY <1>2 DEF Exit, Zero
  <2>2. faults' \in 0..MaxFaults
    BY <1>2 DEF Exit, Types
  <2> QED
    <3>1. UNCHANGED <<rows, late, read, needRestart, expiry, pc, form, requests, carried>>
      BY <1>2 DEF Exit, panel
    <3>2. FormInv' /\ Rows' = Rows
      BY <3>1 DEF FormInv, Rows
    <3> QED
      BY <2>1, <2>2, <3>1, <3>2 DEF Types
<1>3. CASE CheckXrayRunning
  BY <1>3 DEF CheckXrayRunning, budget, Types, FormInv, Rows
<1>4. CASE Apply
  <2>1. CASE RestartFails
    <3>1. faults' \in 0..MaxFaults /\ missed' \in BOOLEAN
      BY <2>1 DEF RestartFails, Types
    <3>2. xray' \in {xray, None} /\ stats' \in [Ports -> Nat]
      BY <2>1 DEF RestartFails, Types, Zero
    <3> QED
      BY <1>4, <3>1, <3>2 DEF Apply, Types, FormInv, Rows
  <2>2. CASE Restarted
    <3>1. /\ xray' \in (SUBSET Ports) \cup {None} /\ stats' \in [Ports -> Nat]
          /\ missed' = FALSE /\ faults' = faults
      BY <2>2, WantedTyped DEF Restarted, Types, Zero
    <3> QED
      BY <1>4, <3>1 DEF Apply, Types, FormInv, Rows
  <2> QED
    BY <1>4, <2>1, <2>2 DEF Apply
<1>5. CASE GetXrayTraffic
  <2>1. stats' \in [Ports -> Nat] /\ read' \in [Ports -> Nat] \cup {None}
        /\ faults' \in 0..MaxFaults
    BY <1>5 DEF GetXrayTraffic, Types, Zero
  <2> QED
    BY <1>5, <2>1 DEF GetXrayTraffic, panel, Types, FormInv, Rows
<1>6. CASE AddTraffic
  <2>1. /\ rows' \in [Ids -> Row \cup {None}]
        /\ \A i \in Ids : rows'[i] # None => rows[i] # None /\ rows'[i].port = rows[i].port
    <3>1. CASE UNCHANGED rows
      BY <3>1 DEF Types
    <3>2. CASE rows' = [i \in Ids |-> IF i \in Rows
                                        THEN [rows[i] EXCEPT !.used = @ + read[rows[i].port]]
                                        ELSE None]
      <4>1. ASSUME NEW i \in Rows
            PROVE  /\ i \in Ids /\ rows[i] \in Row /\ rows[i] # None
                   /\ [rows[i] EXCEPT !.used = @ + read[rows[i].port]] \in Row
                   /\ [rows[i] EXCEPT !.used = @ + read[rows[i].port]].port = rows[i].port
        <5>1. i \in Ids /\ rows[i] \in Row /\ rows[i] # None
          BY DEF Rows, Types
        <5>2. read[rows[i].port] \in Nat
          BY <1>6, <5>1 DEF AddTraffic, Types, Row
        <5> QED
          BY <5>1, <5>2 DEF Row
      <4> QED
        BY <3>2, <4>1
    <3> QED
      BY <1>6, <3>1, <3>2 DEF AddTraffic
  <2>2. faults' \in 0..MaxFaults /\ read' = None
    BY <1>6 DEF AddTraffic, Types
  <2> QED
    BY <1>6, <2>1, <2>2, SamePorts DEF AddTraffic, panel, Types, FormInv
<1>7. CASE DateComes
  BY <1>7 DEF DateComes, panel, Types, FormInv, Rows
<1>8. CASE DisableInvalidInbounds
  <2>1. PICK S \in SUBSET Rows : rows' = Disabled(S)
    BY <1>8 DEF DisableInvalidInbounds
  <2>2. ASSUME NEW i \in Ids
        PROVE  /\ rows'[i] \in Row \cup {None}
               /\ rows'[i] # None => rows[i] # None /\ rows'[i].port = rows[i].port
    BY <2>1 DEF Disabled, Types, Row, Rows
  <2>3. rows' \in [Ids -> Row \cup {None}]
    BY <2>1, <2>2 DEF Disabled
  <2> QED
    BY <1>8, <2>2, <2>3, SamePorts DEF DisableInvalidInbounds, budget, Types, FormInv
<1>9. CASE FlagDisabled
  BY <1>9 DEF FlagDisabled, budget, Types, FormInv, Rows
<1>10. CASE PanelCrash
  <2>1. FormInv'
    BY <1>10 DEF PanelCrash, FormInv, Blank
  <2>2. stats' \in [Ports -> Nat] /\ xray' \in (SUBSET Ports) \cup {None} /\ missed' = FALSE
    BY <1>10, WantedTyped DEF PanelCrash, Zero
  <2>3. faults' \in 0..MaxFaults
    BY <1>10 DEF PanelCrash, Types
  <2>4. /\ pc' \in [Admins -> {"idle", "save", "flag"}]
        /\ form' \in [Admins -> [id : Ids \cup {None}, row : Row \cup {None}]]
    BY <1>10 DEF PanelCrash, Blank
  <2> QED
    BY <1>10, <2>1, <2>2, <2>3, <2>4 DEF PanelCrash, Types, Rows
<1> QED
  BY <1>1, <1>2, <1>3, <1>4, <1>5, <1>6, <1>7, <1>8, <1>9, <1>10

\* What a handler of the page goes on with.
LEMMA GoTyped ==
  ASSUME Types, FormInv, NEW a \in Admins, NEW point \in {"idle", "save", "flag"},
         NEW f \in [id : Ids \cup {None}, row : Row \cup {None}],
         point = "save" => f.row \in Row, f.row # None => f.id \in Ids,
         Go(a, point, f)
  PROVE  /\ pc' \in [Admins -> {"idle", "save", "flag"}]
         /\ form' \in [Admins -> [id : Ids \cup {None}, row : Row \cup {None}]]
         /\ FormInv'
<1>1. pc' = [pc EXCEPT ![a] = point] /\ form' = [form EXCEPT ![a] = f]
  BY DEF Go
<1>2. pc' \in [Admins -> {"idle", "save", "flag"}]
      /\ form' \in [Admins -> [id : Ids \cup {None}, row : Row \cup {None}]]
  BY <1>1 DEF Types
<1>3. \A b \in Admins : pc'[b] = (IF b = a THEN point ELSE pc[b])
                        /\ form'[b] = (IF b = a THEN f ELSE form[b])
  BY <1>1 DEF Types
<1> QED
  BY <1>2, <1>3 DEF FormInv

\* Whatever the page makes of a row is a row, with the counters shown or with none.
LEMMA EditsTyped ==
  ASSUME NEW old \in Row, NEW new, new \in Edits(old)
  PROVE  new \in Row /\ new.used \in {old.used, 0}
<1>1. \/ \E to \in Ports \X Limits : new = [old EXCEPT !.port = to[1], !.limit = to[2]]
      \/ new = [old EXCEPT !.enabled = ~@]
      \/ new = [old EXCEPT !.used = 0]
  BY DEF Edits
<1>2. CASE \E to \in Ports \X Limits : new = [old EXCEPT !.port = to[1], !.limit = to[2]]
  BY <1>2 DEF Row
<1>3. CASE new = [old EXCEPT !.enabled = ~@]
  BY <1>3 DEF Row
<1>4. CASE new = [old EXCEPT !.used = 0]
  BY <1>4 DEF Row
<1> QED
  BY <1>1, <1>2, <1>3, <1>4

\* The steps of the page.
LEMMA AdminTyped ==
  ASSUME Types, FormInv, NEW a \in Admins, Admin(a)
  PROVE  Types' /\ FormInv'
<1> USE NumberAssumption
<1>0. Blank \in [id : Ids \cup {None}, row : Row \cup {None}] /\ Blank.row = None
  BY DEF Blank
<1>1. CASE AddInbound(a)
  <2>1. PICK i \in Ids \ Rows, q \in Ports, limit \in Limits :
          /\ ~PortTaken(q, i)
          /\ rows' = [rows EXCEPT ![i] = [port |-> q, used |-> 0, limit |-> limit,
                                          enabled |-> TRUE]]
    BY <1>1 DEF AddInbound
  <2> DEFINE row == [port |-> q, used |-> 0, limit |-> limit, enabled |-> TRUE]
  <2>2. i \in Ids /\ row \in Row /\ row.port = q
    BY <2>1 DEF Types, Row
  <2> HIDE DEF row
  <2>3. /\ rows' \in [Ids -> Row \cup {None}]
        /\ \A j, k \in Rows' : j # k => rows'[j].port # rows'[k].port
    BY <2>1, <2>2, RowSaved DEF row
  <2>4. requests' \in 0..MaxRequests
    BY <1>1 DEF AddInbound, Types
  <2>5. /\ pc' \in [Admins -> {"idle", "save", "flag"}]
        /\ form' \in [Admins -> [id : Ids \cup {None}, row : Row \cup {None}]]
        /\ FormInv'
    BY <1>0, <1>1, GoTyped DEF AddInbound
  <2> QED
    BY <1>1, <2>3, <2>4, <2>5 DEF AddInbound, Outside, Types
<1>2. CASE DelInbound(a)
  <2>1. PICK i \in Rows : rows' = [rows EXCEPT ![i] = None]
    BY <1>2 DEF DelInbound
  <2>2. /\ rows' \in [Ids -> Row \cup {None}]
        /\ \A j \in Ids : rows'[j] # None => rows[j] # None /\ rows'[j].port = rows[j].port
    BY <2>1 DEF Types, Rows
  <2>3. /\ pc' \in [Admins -> {"idle", "save", "flag"}]
        /\ form' \in [Admins -> [id : Ids \cup {None}, row : Row \cup {None}]]
        /\ FormInv'
    BY <1>0, <1>2, GoTyped DEF DelInbound
  <2>4. requests' \in 0..MaxRequests
    BY <1>2 DEF DelInbound, Types
  <2> QED
    BY <1>2, <2>2, <2>3, <2>4, SamePorts DEF DelInbound, Outside, Types
<1>3. CASE OpenForm(a)
  <2>1. PICK i \in Rows : \E row \in Edits(rows[i]) : Go(a, "save", [id |-> i, row |-> row])
    BY <1>3 DEF OpenForm
  <2>2. PICK row \in Edits(rows[i]) : Go(a, "save", [id |-> i, row |-> row])
    BY <2>1
  <2>3. i \in Ids /\ row \in Row
    BY <2>1, <2>2, EditsTyped DEF Types, Rows
  <2> DEFINE f == [id |-> i, row |-> row]
  <2>4. f \in [id : Ids \cup {None}, row : Row \cup {None}] /\ f.id \in Ids /\ f.row \in Row
    BY <2>3
  <2> HIDE DEF f
  <2>5. /\ pc' \in [Admins -> {"idle", "save", "flag"}]
        /\ form' \in [Admins -> [id : Ids \cup {None}, row : Row \cup {None}]]
        /\ FormInv'
    BY <2>2, <2>4, GoTyped DEF f
  <2>6. requests' \in 0..MaxRequests
    BY <1>3 DEF OpenForm, Types
  <2> QED
    BY <1>3, <2>5, <2>6 DEF OpenForm, Outside, Types, Rows
<1>4. CASE UpdateInbound(a)
  <2>1. form[a].id \in Ids /\ form[a].row \in Row
    BY <1>4, InboundAssumption DEF UpdateInbound, FormInv
  <2>2. /\ pc' \in [Admins -> {"idle", "save", "flag"}]
        /\ form' \in [Admins -> [id : Ids \cup {None}, row : Row \cup {None}]]
        /\ FormInv'
    BY <1>0, <1>4, GoTyped DEF UpdateInbound
  <2>3. /\ rows' \in [Ids -> Row \cup {None}]
        /\ \A j, k \in Rows' : j # k => rows'[j].port # rows'[k].port
    <3>1. CASE UNCHANGED rows
      BY <3>1 DEF Types, Rows
    <3>2. CASE ~UNCHANGED rows
      BY <1>4, <2>1, <3>2, RowSaved DEF UpdateInbound
    <3> QED
      BY <3>1, <3>2
  <2> QED
    BY <1>4, <2>2, <2>3 DEF UpdateInbound, Outside, Types
<1>5. CASE Flag(a)
  <2>1. /\ pc' \in [Admins -> {"idle", "save", "flag"}]
        /\ form' \in [Admins -> [id : Ids \cup {None}, row : Row \cup {None}]]
        /\ FormInv'
    BY <1>0, <1>5, GoTyped DEF Flag
  <2> QED
    BY <1>5, <2>1 DEF Flag, Outside, Types, Rows
<1> QED
  BY <1>1, <1>2, <1>3, <1>4, <1>5 DEF Admin

-----------------------------------------------------------------------------
(* The set of bytes *)

\* Bytes that are moved or forgotten: when there is an injection of the new set into
\* the old one, and nothing was carried, the bound is kept.
LEMMA Smaller ==
  ASSUME Types, UnitsInv, carried' = carried,
         NEW f, f \in [Units' -> Units], \A u, v \in Units' : f[u] = f[v] => u = v
  PROVE  UnitsInv'
<1> DEFINE S == Units'  T == Units
<1>1. f \in [S -> T] /\ \A u, v \in S : f[u] = f[v] => u = v
  OBVIOUS
<1>2. IsFiniteSet(T) /\ Cardinality(T) <= carried
  BY DEF UnitsInv
<1> HIDE DEF S, T
<1>3. f \in Injection(S, T)
  BY <1>1 DEF Injection, IsInjective
<1>4. IsFiniteSet(S) /\ Cardinality(S) <= Cardinality(T)
  BY <1>2, <1>3, FS_Injection
<1>5. Cardinality(S) \in Nat /\ Cardinality(T) \in Nat /\ carried \in Nat
  BY <1>2, <1>4, FS_CardinalityType, NumberAssumption DEF Types
<1>6. Cardinality(S) <= carried
  BY <1>2, <1>4, <1>5
<1> QED
  BY <1>4, <1>6 DEF UnitsInv, S

\* The same when no byte is moved.
LEMMA Fewer ==
  ASSUME Types, UnitsInv, carried' = carried, Units' \subseteq Units
  PROVE  UnitsInv'
<1> DEFINE S == Units'  T == Units
<1>1. S \in SUBSET T
  OBVIOUS
<1>2. IsFiniteSet(T) /\ Cardinality(T) <= carried
  BY DEF UnitsInv
<1> HIDE DEF S, T
<1>3. IsFiniteSet(S) /\ Cardinality(S) <= Cardinality(T)
  BY <1>1, <1>2, FS_Subset
<1>4. Cardinality(S) \in Nat /\ Cardinality(T) \in Nat /\ carried \in Nat
  BY <1>2, <1>3, FS_CardinalityType, NumberAssumption DEF Types
<1>5. Cardinality(S) <= carried
  BY <1>2, <1>3, <1>4
<1> QED
  BY <1>3, <1>5 DEF UnitsInv, S

\* No byte comes into being when no row and no form is charged with more, and the
\* counters of the job and of Xray stay or are forgotten.
LEMMA NothingNew ==
  ASSUME Types,
         \A i \in Ids, n \in Nat \ {0} : Chargeable(i, n)' => Chargeable(i, n),
         read' \in {read, None}, stats' \in {stats, Zero}
  PROVE  Units' \subseteq Units
<1> SUFFICES ASSUME NEW u \in Units' PROVE u \in Units
  OBVIOUS
<1>1. u \in {"row", "read", "stats"} \X (Ids \cup Ports) \X (Nat \ {0})
  BY DEF Units
<1>2. \/ u[1] = "row" /\ u[2] \in Ids /\ Chargeable(u[2], u[3])'
      \/ u[1] = "read" /\ u[2] \in Ports /\ read' # None /\ u[3] <= read'[u[2]]
      \/ u[1] = "stats" /\ u[2] \in Ports /\ u[3] <= stats'[u[2]]
  BY DEF Units
<1>3. u[3] \in Nat \ {0}
  BY <1>1
<1>4. CASE u[1] = "row" /\ u[2] \in Ids /\ Chargeable(u[2], u[3])'
  BY <1>1, <1>3, <1>4 DEF Units
<1>5. CASE u[1] = "read" /\ u[2] \in Ports /\ read' # None /\ u[3] <= read'[u[2]]
  BY <1>1, <1>5 DEF Units
<1>6. CASE u[1] = "stats" /\ u[2] \in Ports /\ u[3] <= stats'[u[2]]
  <2>1. stats' = stats
    BY <1>3, <1>6 DEF Zero
  <2> QED
    BY <1>1, <1>6, <2>1 DEF Units
<1> QED
  BY <1>2, <1>4, <1>5, <1>6

\* No byte at the start.
LEMMA UnitsInit == ASSUME Init PROVE UnitsInv
<1>1. \A i \in Ids : rows[i] # None => rows[i].used = 0
  <2> DEFINE first == CHOOSE i \in Ids : TRUE
             q == CHOOSE p \in Ports : TRUE
  <2>1. PICK limit \in Limits :
          rows = [i \in Ids |-> IF i = first THEN [port |-> q, used |-> 0, limit |-> limit,
                                                   enabled |-> TRUE] ELSE None]
    BY DEF Init
  <2> HIDE DEF first, q
  <2> QED
    BY <2>1
<1>2. /\ \A a \in Admins : form[a].row = None
      /\ read = None /\ stats = [q \in Ports |-> 0] /\ carried = 0
  BY DEF Init, Blank, Zero
<1>3. Units = {}
  <2> SUFFICES ASSUME NEW u \in Units PROVE FALSE
    OBVIOUS
  <2>1. u[3] \in Nat \ {0}
    BY DEF Units
  <2> QED
    BY <1>1, <1>2, <2>1 DEF Units, Chargeable
<1> QED
  BY <1>2, <1>3, FS_EmptySet DEF UnitsInv

\* One more byte is carried: it is the next of Xray's counter of its port.
LEMMA CarryCounts == ASSUME Types, UnitsInv, Carry PROVE UnitsInv'
<1>1. PICK q \in xray : stats' = [stats EXCEPT ![q] = @ + 1]
  BY DEF Carry
<1>2. q \in Ports /\ carried' = carried + 1 /\ rows' = rows /\ form' = form /\ read' = read
  BY DEF Carry, panel, Types
<1>3. \A p \in Ports : stats'[p] = IF p = q THEN stats[p] + 1 ELSE stats[p]
  BY <1>1, <1>2 DEF Types
<1> DEFINE x == <<"stats", q, stats[q] + 1>>
           S == Units'
           T == Units
<1>4. S \subseteq T \cup {x}
  <2> SUFFICES ASSUME NEW u \in Units' PROVE u \in Units \/ u = x
    OBVIOUS
  <2>1. u \in {"row", "read", "stats"} \X (Ids \cup Ports) \X (Nat \ {0})
    BY DEF Units
  <2>2. \/ u[1] = "row" /\ u[2] \in Ids /\ Chargeable(u[2], u[3])
        \/ u[1] = "read" /\ u[2] \in Ports /\ read # None /\ u[3] <= read[u[2]]
        \/ u[1] = "stats" /\ u[2] \in Ports /\ u[3] <= stats'[u[2]]
    BY <1>2 DEF Units, Chargeable
  <2>3. CASE u[1] = "row" /\ u[2] \in Ids /\ Chargeable(u[2], u[3])
    BY <2>1, <2>3 DEF Units
  <2>4. CASE u[1] = "read" /\ u[2] \in Ports /\ read # None /\ u[3] <= read[u[2]]
    BY <2>1, <2>4 DEF Units
  <2>5. CASE u[1] = "stats" /\ u[2] \in Ports /\ u[3] <= stats'[u[2]]
    <3>1. u = <<"stats", u[2], u[3]>> /\ u[3] \in Nat
      BY <2>1, <2>5
    <3>2. stats[u[2]] \in Nat
      BY <2>5 DEF Types
    <3>3. CASE u[3] <= stats[u[2]]
      BY <2>1, <2>5, <3>3 DEF Units
    <3>4. CASE ~(u[3] <= stats[u[2]])
      <4>1. u[2] = q /\ u[3] = stats[q] + 1
        BY <1>3, <2>5, <3>1, <3>2, <3>4
      <4> QED
        BY <3>1, <4>1
    <3> QED
      BY <3>3, <3>4
  <2> QED
    BY <2>2, <2>3, <2>4, <2>5
<1>5. IsFiniteSet(T) /\ Cardinality(T) <= carried
  BY DEF UnitsInv
<1> HIDE DEF S, T, x
<1>6. /\ IsFiniteSet(T \cup {x})
      /\ Cardinality(T \cup {x}) = IF x \in T THEN Cardinality(T) ELSE Cardinality(T) + 1
  BY <1>5, FS_AddElement
<1>7. S \in SUBSET (T \cup {x})
  BY <1>4
<1>8. IsFiniteSet(S) /\ Cardinality(S) <= Cardinality(T \cup {x})
  BY <1>6, <1>7, FS_Subset
<1>9. Cardinality(S) \in Nat /\ Cardinality(T) \in Nat /\ carried \in Nat
  BY <1>5, <1>8, FS_CardinalityType, NumberAssumption DEF Types
<1>10. Cardinality(S) <= carried + 1
  BY <1>5, <1>6, <1>8, <1>9
<1> QED
  BY <1>2, <1>8, <1>10 DEF UnitsInv, S

\* The traffic job takes Xray's counters: every byte of theirs is the job's now.
LEMMA ReadCounts ==
  ASSUME Types, UnitsInv, read = None, read' = stats, stats' = Zero,
         UNCHANGED <<rows, form, carried>>
  PROVE  UnitsInv'
<1> DEFINE Back(u) == IF u[1] = "read" THEN <<"stats", u[2], u[3]>> ELSE u
<1>1. ASSUME NEW u \in Units'
      PROVE  /\ u \in {"row", "read", "stats"} \X (Ids \cup Ports) \X (Nat \ {0})
             /\ \/ u[1] = "row" /\ u[2] \in Ids /\ Chargeable(u[2], u[3])
                \/ u[1] = "read" /\ u[2] \in Ports /\ u[3] <= stats[u[2]]
  <2>1. u \in {"row", "read", "stats"} \X (Ids \cup Ports) \X (Nat \ {0})
    BY DEF Units
  <2>2. \/ u[1] = "row" /\ u[2] \in Ids /\ Chargeable(u[2], u[3])
        \/ u[1] = "read" /\ u[2] \in Ports /\ u[3] <= stats[u[2]]
        \/ u[1] = "stats" /\ u[2] \in Ports /\ u[3] <= 0
    BY DEF Units, Chargeable, Zero
  <2> QED
    BY <2>1, <2>2
<1>2. ASSUME NEW u \in Units' PROVE Back(u) \in Units
  <2>1. CASE u[1] = "row"
    BY <1>1, <2>1 DEF Units
  <2>2. CASE u[1] = "read"
    BY <1>1, <2>2 DEF Units
  <2> QED
    BY <1>1, <2>1, <2>2
<1>3. ASSUME NEW u \in Units', NEW v \in Units', Back(u) = Back(v) PROVE u = v
  <2>1. /\ u = <<u[1], u[2], u[3]>> /\ u[1] \in {"row", "read"}
        /\ v = <<v[1], v[2], v[3]>> /\ v[1] \in {"row", "read"}
    BY <1>1
  <2> QED
    BY <1>3, <2>1
<1> HIDE DEF Back
<1> DEFINE f == [u \in Units' |-> Back(u)]
<1>4. f \in [Units' -> Units] /\ \A u, v \in Units' : f[u] = f[v] => u = v
  BY <1>2, <1>3
<1> HIDE DEF f
<1>5. carried' = carried
  OBVIOUS
<1> QED
  BY <1>4, <1>5, Smaller

\* The job charges the rows: a byte with which a row is charged now and was not before is
\* one that the job held for the port of the row, and no other row has that port.
LEMMA ChargeCounts ==
  ASSUME Types, UnitsInv, read # None, read' = None,
         rows' = [i \in Ids |-> IF i \in Rows
                                  THEN [rows[i] EXCEPT !.used = @ + read[rows[i].port]]
                                  ELSE None],
         UNCHANGED <<stats, form, carried>>
  PROVE  UnitsInv'
<1> DEFINE Back(u) == IF u[1] = "row" /\ ~Chargeable(u[2], u[3])
                        THEN <<"read", rows[u[2]].port, u[3] - rows[u[2]].used>> ELSE u
           New(u) == /\ u[1] = "row" /\ u[2] \in Rows /\ ~Chargeable(u[2], u[3])
                     /\ rows[u[2]].port \in Ports
                     /\ u[3] - rows[u[2]].used \in Nat \ {0}
                     /\ u[3] - rows[u[2]].used <= read[rows[u[2]].port]
           Old(u) == \/ u[1] = "row" /\ u[2] \in Ids /\ Chargeable(u[2], u[3])
                     \/ u[1] = "stats" /\ u[2] \in Ports /\ u[3] <= stats[u[2]]
<1>1. ASSUME NEW i \in Rows
      PROVE  /\ i \in Ids /\ rows[i] \in Row /\ rows[i].used \in Nat /\ rows[i].port \in Ports
             /\ read[rows[i].port] \in Nat
             /\ rows'[i] # None => rows'[i].used = rows[i].used + read[rows[i].port]
  <2>1. i \in Ids /\ rows[i] \in Row /\ rows[i].used \in Nat /\ rows[i].port \in Ports
    BY DEF Rows, Types, Row
  <2>2. read[rows[i].port] \in Nat
    BY <2>1 DEF Types
  <2> QED
    BY <2>1, <2>2 DEF Row
<1>2. ASSUME NEW u \in Units'
      PROVE  /\ u \in {"row", "read", "stats"} \X (Ids \cup Ports) \X (Nat \ {0})
             /\ New(u) \/ Old(u)
  <2>1. u \in {"row", "read", "stats"} \X (Ids \cup Ports) \X (Nat \ {0})
    BY DEF Units
  <2>2. \/ u[1] = "row" /\ u[2] \in Ids /\ Chargeable(u[2], u[3])'
        \/ u[1] = "stats" /\ u[2] \in Ports /\ u[3] <= stats[u[2]]
    BY DEF Units
  <2>3. ASSUME u[1] = "row", u[2] \in Ids, Chargeable(u[2], u[3])', ~Chargeable(u[2], u[3])
        PROVE  New(u)
    <3>1. rows'[u[2]] # None /\ u[3] <= rows'[u[2]].used
      BY <2>3 DEF Chargeable
    <3>2. u[2] \in Rows
      BY <2>3, <3>1
    <3>3. ~(u[3] <= rows[u[2]].used)
      BY <2>3, <3>2 DEF Chargeable, Rows
    <3>4. /\ rows[u[2]].used \in Nat /\ rows[u[2]].port \in Ports
          /\ read[rows[u[2]].port] \in Nat
          /\ rows'[u[2]].used = rows[u[2]].used + read[rows[u[2]].port]
      BY <1>1, <3>1, <3>2
    <3>5. u[3] \in Nat
      BY <2>1
    <3>6. /\ u[3] - rows[u[2]].used \in Nat \ {0}
          /\ u[3] - rows[u[2]].used <= read[rows[u[2]].port]
      BY <3>1, <3>3, <3>4, <3>5
    <3> QED
      BY <2>3, <3>2, <3>4, <3>6
  <2> QED
    BY <2>1, <2>2, <2>3
<1>3. ASSUME NEW u \in Units', New(u)
      PROVE  /\ Back(u) = <<"read", rows[u[2]].port, u[3] - rows[u[2]].used>>
             /\ Back(u) \in Units
  <2> DEFINE q == rows[u[2]].port  n == u[3] - rows[u[2]].used
  <2>1. Back(u) = <<"read", q, n>>
    BY <1>3
  <2>2. q \in Ports /\ n \in Nat \ {0} /\ n <= read[q]
    BY <1>3
  <2> HIDE DEF q, n
  <2>3. <<"read", q, n>> \in Units
    BY <2>2 DEF Units
  <2> QED
    BY <2>1, <2>3 DEF q, n
<1>4. ASSUME NEW u \in Units', Old(u) PROVE Back(u) = u /\ u \in Units /\ u[1] # "read"
  BY <1>2, <1>4 DEF Units
<1>5. ASSUME NEW u \in Units', NEW v \in Units', Back(u) = Back(v) PROVE u = v
  <2>1. CASE New(u) /\ New(v)
    <3>1. rows[u[2]].port = rows[v[2]].port
          /\ u[3] - rows[u[2]].used = v[3] - rows[v[2]].used
      BY <1>3, <1>5, <2>1
    <3>2. u[2] = v[2]
      BY <2>1, <3>1 DEF Types
    <3>3. u[3] = v[3]
      <4>1. u[3] \in Nat /\ v[3] \in Nat /\ rows[u[2]].used \in Nat
        BY <1>1, <1>2, <2>1
      <4>2. u[3] - rows[u[2]].used = v[3] - rows[u[2]].used
        BY <3>1, <3>2
      <4> QED
        BY <4>1, <4>2
    <3>4. u = <<u[1], u[2], u[3]>> /\ v = <<v[1], v[2], v[3]>>
      BY <1>2
    <3> QED
      BY <2>1, <3>2, <3>3, <3>4
  <2>2. CASE New(u) /\ Old(v)
    BY <1>3, <1>4, <1>5, <2>2
  <2>3. CASE Old(u) /\ New(v)
    BY <1>3, <1>4, <1>5, <2>3
  <2>4. CASE Old(u) /\ Old(v)
    BY <1>4, <1>5, <2>4
  <2> QED
    BY <1>2, <2>1, <2>2, <2>3, <2>4
<1>6. ASSUME NEW u \in Units' PROVE Back(u) \in Units
  BY <1>2, <1>3, <1>4
<1> HIDE DEF Back, New, Old
<1> DEFINE f == [u \in Units' |-> Back(u)]
<1>7. f \in [Units' -> Units] /\ \A u, v \in Units' : f[u] = f[v] => u = v
  BY <1>5, <1>6
<1> HIDE DEF f
<1>8. carried' = carried
  OBVIOUS
<1> QED
  BY <1>7, <1>8, Smaller

\* The steps of Xray, of the supervisor and of the jobs charge no byte twice.
LEMMA JobsCount ==
  ASSUME Types, UnitsInv,
         \/ Carry \/ Exit \/ CheckXrayRunning \/ Apply \/ GetXrayTraffic \/ AddTraffic
         \/ DateComes \/ DisableInvalidInbounds \/ FlagDisabled \/ PanelCrash
  PROVE  UnitsInv'
<1>1. CASE Carry
  BY <1>1, CarryCounts
<1>2. CASE Exit \/ CheckXrayRunning \/ Apply \/ DateComes \/ FlagDisabled
  <2>1. rows' = rows /\ form' = form /\ read' = read /\ stats' \in {stats, Zero}
        /\ carried' = carried
    BY <1>2 DEF Exit, CheckXrayRunning, Apply, Restarted, RestartFails, DateComes,
                FlagDisabled, panel, budget
  <2>2. \A i \in Ids, n \in Nat \ {0} : Chargeable(i, n)' => Chargeable(i, n)
    BY <2>1 DEF Chargeable
  <2> QED
    BY <2>1, <2>2, NothingNew, Fewer
<1>3. CASE GetXrayTraffic
  <2>1. /\ read = None /\ stats' = Zero
        /\ rows' = rows /\ form' = form /\ carried' = carried
        /\ read' = stats \/ read' = read
    BY <1>3 DEF GetXrayTraffic, panel
  <2>2. CASE read' = stats
    BY <2>1, <2>2, ReadCounts
  <2>3. CASE read' = read
    <3>1. \A i \in Ids, n \in Nat \ {0} : Chargeable(i, n)' => Chargeable(i, n)
      BY <2>1 DEF Chargeable
    <3> QED
      BY <2>1, <2>3, <3>1, NothingNew, Fewer
  <2> QED
    BY <2>1, <2>2, <2>3
<1>4. CASE AddTraffic
  <2>1. /\ read # None /\ read' = None
        /\ stats' = stats /\ form' = form /\ carried' = carried
    BY <1>4 DEF AddTraffic, panel
  <2>2. CASE UNCHANGED rows
    <3>1. \A i \in Ids, n \in Nat \ {0} : Chargeable(i, n)' => Chargeable(i, n)
      BY <2>1, <2>2 DEF Chargeable
    <3> QED
      BY <2>1, <3>1, NothingNew, Fewer
  <2>3. CASE ~UNCHANGED rows
    <3>1. rows' = [i \in Ids |-> IF i \in Rows
                                   THEN [rows[i] EXCEPT !.used = @ + read[rows[i].port]]
                                   ELSE None]
      BY <1>4, <2>3 DEF AddTraffic
    <3> QED
      BY <2>1, <3>1, ChargeCounts
  <2> QED
    BY <2>2, <2>3
<1>5. CASE DisableInvalidInbounds
  <2>1. PICK S \in SUBSET Rows : rows' = Disabled(S)
    BY <1>5 DEF DisableInvalidInbounds
  <2>2. form' = form /\ read' = read /\ stats' = stats /\ carried' = carried
    BY <1>5 DEF DisableInvalidInbounds, budget
  <2>3. \A i \in Ids : rows'[i] # None => rows[i] # None /\ rows'[i].used = rows[i].used
    <3> SUFFICES ASSUME NEW i \in Ids, rows'[i] # None
                 PROVE  rows[i] # None /\ rows'[i].used = rows[i].used
      OBVIOUS
    <3>1. CASE i \in S
      <4>1. rows[i] \in Row /\ rows[i] # None
        BY <2>1, <3>1 DEF Rows, Types
      <4> QED
        BY <2>1, <3>1, <4>1 DEF Disabled, Row
    <3>2. CASE i \notin S
      BY <2>1, <3>2 DEF Disabled
    <3> QED
      BY <3>1, <3>2
  <2>4. \A i \in Ids, n \in Nat \ {0} : Chargeable(i, n)' => Chargeable(i, n)
    BY <2>2, <2>3 DEF Chargeable
  <2> QED
    BY <2>2, <2>4, NothingNew, Fewer
<1>6. CASE PanelCrash
  <2>1. rows' = rows /\ read' = None /\ stats' = Zero /\ carried' = carried
        /\ \A a \in Admins : form'[a].row = None
    BY <1>6 DEF PanelCrash, Blank
  <2>2. \A i \in Ids, n \in Nat \ {0} : Chargeable(i, n)' => Chargeable(i, n)
    BY <2>1 DEF Chargeable
  <2> QED
    BY <2>1, <2>2, NothingNew, Fewer
<1> QED
  BY <1>1, <1>2, <1>3, <1>4, <1>5, <1>6

\* The steps of the page charge no byte twice: a form has the counters of the row that the
\* page showed, and a new row has none.
LEMMA AdminCounts ==
  ASSUME Types, FormInv, UnitsInv, NEW a \in Admins, Admin(a)
  PROVE  UnitsInv'
<1>1. read' = read /\ stats' = stats /\ carried' = carried
  BY DEF Admin, AddInbound, DelInbound, OpenForm, UpdateInbound, Flag, Outside
<1> SUFFICES ASSUME NEW i \in Ids, NEW n \in Nat \ {0}, Chargeable(i, n)'
             PROVE  Chargeable(i, n)
  BY <1>1, NothingNew, Fewer
<1>2. \/ rows'[i] # None /\ n <= rows'[i].used
      \/ \E b \in Admins : form'[b].id = i /\ form'[b].row # None /\ n <= form'[b].row.used
  BY DEF Chargeable
<1>3. ASSUME NEW f, form' = [form EXCEPT ![a] = f]
      PROVE  \A b \in Admins : form'[b] = IF b = a THEN f ELSE form[b]
  BY <1>3 DEF Types
<1>4. Blank.row = None
  BY DEF Blank
<1>5. CASE AddInbound(a)
  <2>1. PICK j \in Ids \ Rows, q \in Ports, limit \in Limits :
          /\ ~PortTaken(q, j)
          /\ rows' = [rows EXCEPT ![j] = [port |-> q, used |-> 0, limit |-> limit,
                                          enabled |-> TRUE]]
    BY <1>5 DEF AddInbound
  <2>2. \A b \in Admins : form'[b] = IF b = a THEN Blank ELSE form[b]
    BY <1>3, <1>5 DEF AddInbound, Go
  <2>3. rows'[i] # None /\ n <= rows'[i].used => rows'[i] = rows[i]
    BY <2>1 DEF Types
  <2> QED
    BY <1>2, <1>4, <2>2, <2>3 DEF Chargeable
<1>6. CASE DelInbound(a)
  <2>1. \A b \in Admins : form'[b] = IF b = a THEN Blank ELSE form[b]
    BY <1>3, <1>6 DEF DelInbound, Go
  <2>2. rows'[i] # None => rows'[i] = rows[i]
    BY <1>6 DEF DelInbound, Types
  <2> QED
    BY <1>2, <1>4, <2>1, <2>2 DEF Chargeable
<1>7. CASE OpenForm(a)
  <2>1. PICK j \in Rows : \E row \in Edits(rows[j]) : Go(a, "save", [id |-> j, row |-> row])
    BY <1>7 DEF OpenForm
  <2>2. PICK row \in Edits(rows[j]) : Go(a, "save", [id |-> j, row |-> row])
    BY <2>1
  <2>3. \A b \in Admins : form'[b] = IF b = a THEN [id |-> j, row |-> row] ELSE form[b]
    BY <1>3, <2>2 DEF Go
  <2>4. rows[j] \in Row /\ rows[j] # None /\ rows' = rows
    BY <1>7, <2>1 DEF Rows, Types, OpenForm
  <2>5. row.used \in {rows[j].used, 0}
    BY <2>2, <2>4, EditsTyped
  <2>6. CASE rows'[i] # None /\ n <= rows'[i].used
    BY <2>4, <2>6 DEF Chargeable
  <2>7. CASE \E b \in Admins : form'[b].id = i /\ form'[b].row # None /\ n <= form'[b].row.used
    <3>1. PICK b \in Admins : form'[b].id = i /\ form'[b].row # None /\ n <= form'[b].row.used
      BY <2>7
    <3>2. CASE b = a
      <4>1. i = j /\ n <= row.used
        BY <2>3, <3>1, <3>2
      <4>2. row.used = rows[j].used
        BY <2>5, <4>1
      <4> QED
        BY <2>4, <4>1, <4>2 DEF Chargeable
    <3>3. CASE b # a
      BY <2>3, <3>1, <3>3 DEF Chargeable
    <3> QED
      BY <3>2, <3>3
  <2> QED
    BY <1>2, <2>6, <2>7
<1>8. CASE UpdateInbound(a)
  <2>1. form[a].id \in Ids /\ form[a].row \in Row
    BY <1>8, InboundAssumption DEF UpdateInbound, FormInv
  <2>2. \A b \in Admins : form'[b] = IF b = a THEN Blank ELSE form[b]
    BY <1>3, <1>8 DEF UpdateInbound, Go
  <2>3. rows' = rows \/ rows' = [rows EXCEPT ![form[a].id] = form[a].row]
    BY <1>8 DEF UpdateInbound
  <2>4. rows'[i] = rows[i] \/ (i = form[a].id /\ rows'[i] = form[a].row)
    BY <2>1, <2>3 DEF Types
  <2>5. form[a].row # None
    BY <2>1, InboundAssumption
  <2> QED
    BY <1>2, <1>4, <2>2, <2>4, <2>5 DEF Chargeable
<1>9. CASE Flag(a)
  <2>1. \A b \in Admins : form'[b] = IF b = a THEN Blank ELSE form[b]
    BY <1>3, <1>9 DEF Flag, Go
  <2>2. rows' = rows
    BY <1>9 DEF Flag
  <2> QED
    BY <1>2, <1>4, <2>1, <2>2 DEF Chargeable
<1> QED
  BY <1>5, <1>6, <1>7, <1>8, <1>9 DEF Admin

-----------------------------------------------------------------------------
(* The invariant, and what follows from it *)

\* The invariant holds at the start.
LEMMA IInvInit == Init => IInv
BY TypesInit, UnitsInit DEF IInv

\* Every step keeps the invariant.
LEMMA IInvNext == IInv /\ [Next]_vars => IInv'
<1> SUFFICES ASSUME IInv, [Next]_vars PROVE IInv'
  OBVIOUS
<1>1. CASE UNCHANGED vars
  BY <1>1 DEF vars, IInv, Types, FormInv, UnitsInv, Units, Chargeable, Rows
<1>2. CASE \E a \in Admins : Admin(a)
  BY <1>2, AdminTyped, AdminCounts DEF IInv
<1>3. CASE \/ Carry \/ Exit \/ CheckXrayRunning \/ Apply \/ GetXrayTraffic \/ AddTraffic
           \/ DateComes \/ DisableInvalidInbounds \/ FlagDisabled \/ PanelCrash
  BY <1>3, JobsTyped, JobsCount DEF IInv
<1> QED
  BY <1>1, <1>2, <1>3 DEF Next

\* The invariant holds in every state of every run.
LEMMA IInvAlways == Spec => []IInv
BY IInvInit, IInvNext, PTL DEF Spec

\* A counter all of whose bytes are in the set is within the bound on the bytes carried.
LEMMA CounterBound ==
  ASSUME Types, UnitsInv, NEW tag, NEW x, NEW m \in Nat,
         \A n \in 1..m : <<tag, x, n>> \in Units
  PROVE  m <= MaxBytes
<1> DEFINE S == 1..m  T == Units
           f == [n \in S |-> <<tag, x, n>>]
<1>1. f \in [S -> T] /\ \A k, n \in S : f[k] = f[n] => k = n
  OBVIOUS
<1>2. IsFiniteSet(T) /\ Cardinality(T) <= carried
  BY DEF UnitsInv
<1>3. Cardinality(S) = m
  BY FS_Interval
<1> HIDE DEF S, T, f
<1>4. f \in Injection(S, T)
  BY <1>1 DEF Injection, IsInjective
<1>5. IsFiniteSet(S) /\ Cardinality(S) <= Cardinality(T)
  BY <1>2, <1>4, FS_Injection
<1>6. Cardinality(T) \in Nat /\ carried \in Nat /\ carried <= MaxBytes
  BY <1>2, FS_CardinalityType, NumberAssumption DEF Types
<1> QED
  BY <1>2, <1>3, <1>5, <1>6, NumberAssumption

\* What the rows, the forms, the job and Xray count is within the bound.
LEMMA Bounded ==
  ASSUME IInv
  PROVE  /\ \A i \in Rows : rows[i].used <= MaxBytes
         /\ \A a \in Admins : form[a].row # None => form[a].row.used <= MaxBytes
         /\ read # None => \A q \in Ports : read[q] <= MaxBytes
         /\ \A q \in Ports : stats[q] <= MaxBytes
<1> USE DEF IInv
<1>1. ASSUME NEW i \in Rows PROVE rows[i].used <= MaxBytes
  <2>1. i \in Ids /\ rows[i] # None /\ rows[i].used \in Nat
    BY DEF Rows, Types, Row
  <2>2. \A n \in 1..rows[i].used : <<"row", i, n>> \in Units
    BY <2>1 DEF Units, Chargeable
  <2> QED
    BY <2>1, <2>2, CounterBound
<1>2. ASSUME NEW a \in Admins, form[a].row # None
      PROVE  form[a].row.used <= MaxBytes
  <2>1. form[a].row.used \in Nat /\ form[a].id \in Ids
    BY <1>2 DEF Types, Row, FormInv
  <2>2. \A n \in 1..form[a].row.used : <<"row", form[a].id, n>> \in Units
    BY <1>2, <2>1 DEF Units, Chargeable
  <2> QED
    BY <2>1, <2>2, CounterBound
<1>3. ASSUME read # None, NEW q \in Ports PROVE read[q] <= MaxBytes
  <2>1. read[q] \in Nat
    BY <1>3 DEF Types
  <2>2. \A n \in 1..read[q] : <<"read", q, n>> \in Units
    BY <1>3, <2>1 DEF Units
  <2> QED
    BY <2>1, <2>2, CounterBound
<1>4. ASSUME NEW q \in Ports PROVE stats[q] <= MaxBytes
  <2>1. stats[q] \in Nat
    BY DEF Types
  <2>2. \A n \in 1..stats[q] : <<"stats", q, n>> \in Units
    BY <2>1 DEF Units
  <2> QED
    BY <2>1, <2>2, CounterBound
<1> QED
  BY <1>1, <1>2, <1>3, <1>4

\* Every byte that is counted is one of the set.
LEMMA CountedInUnits == ASSUME Types PROVE Counted \subseteq Units
<1> SUFFICES ASSUME NEW u, u \in Counted PROVE u \in Units
  OBVIOUS
<1>1. \/ \E i \in Rows : u \in {<<"row", i, n>> : n \in 1..rows[i].used}
      \/ \E q \in Ports : u \in IF read = None THEN {}
                                ELSE {<<"read", q, n>> : n \in 1..read[q]}
      \/ \E q \in Ports : u \in {<<"stats", q, n>> : n \in 1..stats[q]}
  BY DEF Counted
<1>2. CASE \E i \in Rows : u \in {<<"row", i, n>> : n \in 1..rows[i].used}
  <2>1. PICK i \in Rows : \E n \in 1..rows[i].used : u = <<"row", i, n>>
    BY <1>2
  <2>2. i \in Ids /\ rows[i] # None /\ rows[i].used \in Nat
    BY <2>1 DEF Rows, Types, Row
  <2> QED
    BY <2>1, <2>2 DEF Units, Chargeable
<1>3. CASE \E q \in Ports : u \in IF read = None THEN {}
                                 ELSE {<<"read", q, n>> : n \in 1..read[q]}
  <2>1. PICK q \in Ports : read # None /\ \E n \in 1..read[q] : u = <<"read", q, n>>
    BY <1>3
  <2>2. read[q] \in Nat
    BY <2>1 DEF Types
  <2> QED
    BY <2>1, <2>2 DEF Units
<1>4. CASE \E q \in Ports : u \in {<<"stats", q, n>> : n \in 1..stats[q]}
  <2>1. PICK q \in Ports : \E n \in 1..stats[q] : u = <<"stats", q, n>>
    BY <1>4
  <2>2. stats[q] \in Nat
    BY DEF Types
  <2> QED
    BY <2>1, <2>2 DEF Units
<1> QED
  BY <1>1, <1>2, <1>3, <1>4

\* The invariant gives the types with their bounds, and that no byte is charged twice.
LEMMA IInvImplies == ASSUME IInv PROVE TypeOK /\ NeverOvercounted
<1>1. Types /\ FormInv /\ UnitsInv
  BY DEF IInv
<1>2. stats \in [Ports -> 0..MaxBytes]
  <2>1. \A q \in Ports : stats[q] \in 0..MaxBytes
    BY <1>1, Bounded DEF Types
  <2> QED
    BY <1>1, <2>1 DEF Types
<1>3. read \in [Ports -> 0..MaxBytes] \cup {None}
  <2>1. CASE read = None
    BY <2>1
  <2>2. CASE read # None
    <3>1. read \in [Ports -> Nat]
      BY <1>1, <2>2 DEF Types
    <3>2. \A q \in Ports : read[q] \in 0..MaxBytes
      BY <2>2, <3>1, Bounded
    <3> QED
      BY <3>1, <3>2
  <2> QED
    BY <2>1, <2>2
<1>4. TypeOK
  BY <1>1, <1>2, <1>3, Bounded DEF Types, TypeOK
<1>5. NeverOvercounted
  <2> DEFINE S == Counted  T == Units
  <2>1. S \in SUBSET T
    BY <1>1, CountedInUnits
  <2>2. IsFiniteSet(T) /\ Cardinality(T) <= carried
    BY <1>1 DEF UnitsInv
  <2> HIDE DEF S, T
  <2>3. IsFiniteSet(S) /\ Cardinality(S) <= Cardinality(T)
    BY <2>1, <2>2, FS_Subset
  <2>4. Cardinality(S) \in Nat /\ Cardinality(T) \in Nat /\ carried \in Nat
    BY <1>1, <2>2, <2>3, FS_CardinalityType, NumberAssumption DEF Types
  <2>5. Cardinality(S) <= carried
    BY <2>2, <2>3, <2>4
  <2> QED
    BY <2>5 DEF NeverOvercounted, S
<1> QED
  BY <1>4, <1>5

-----------------------------------------------------------------------------
(* Who owes a restart *)

\* The table serves the same ports when its rows keep their ports and their switches.
LEMMA SameWanted ==
  ASSUME \A i \in Ids : /\ (rows'[i] # None) <=> (rows[i] # None)
                        /\ rows[i] # None => /\ rows'[i].port = rows[i].port
                                             /\ rows'[i].enabled = rows[i].enabled
  PROVE  Wanted' = Wanted
<1>1. Rows' = Rows /\ \A i \in Rows : rows'[i].port = rows[i].port
                                      /\ rows'[i].enabled = rows[i].enabled
  BY DEF Rows
<1>2. {j \in Rows' : rows'[j].enabled} = {j \in Rows : rows[j].enabled}
  BY <1>1
<1> QED
  BY <1>1, <1>2 DEF Wanted

\* Every step that changes what is switched on leaves somebody who owes the restart, and
\* the debt is only paid with the flag or with a start of Xray.
LEMMA OwedNext ==
  ASSUME Types, ServedOrOwed, Next
  PROVE  ServedOrOwed'
<1>1. CASE Exit \/ PanelCrash
  <2>1. rows' = rows /\ xray' \in {None, Wanted}
    BY <1>1 DEF Exit, PanelCrash
  <2>2. Wanted' = Wanted
    BY <2>1 DEF Wanted, Rows
  <2> QED
    BY <2>1, <2>2 DEF ServedOrOwed
<1>2. CASE Carry \/ GetXrayTraffic \/ DateComes
  <2>1. UNCHANGED <<rows, xray, needRestart, expiry, pc, missed>>
    BY <1>2 DEF Carry, GetXrayTraffic, DateComes, panel
  <2> QED
    BY <2>1 DEF ServedOrOwed, Owed, Wanted, Rows
<1>3. CASE Apply
  <2>1. CASE Restarted
    <3>1. rows' = rows /\ xray' = Wanted
      BY <1>3, <2>1 DEF Apply, Restarted
    <3> QED
      BY <3>1 DEF ServedOrOwed, Wanted, Rows
  <2>2. CASE RestartFails
    BY <2>2 DEF RestartFails, ServedOrOwed
  <2> QED
    BY <1>3, <2>1, <2>2 DEF Apply
<1>4. CASE AddTraffic
  <2>1. UNCHANGED <<xray, needRestart, expiry, pc, missed>>
    BY <1>4 DEF AddTraffic, panel
  <2>2. Wanted' = Wanted
    <3>1. CASE UNCHANGED rows
      BY <3>1 DEF Wanted, Rows
    <3>2. CASE ~UNCHANGED rows
      <4>1. rows' = [i \in Ids |-> IF i \in Rows
                                     THEN [rows[i] EXCEPT !.used = @ + read[rows[i].port]]
                                     ELSE None]
        BY <1>4, <3>2 DEF AddTraffic
      <4>2. ASSUME NEW i \in Ids
            PROVE  /\ (rows'[i] # None) <=> (rows[i] # None)
                   /\ rows[i] # None => /\ rows'[i].port = rows[i].port
                                        /\ rows'[i].enabled = rows[i].enabled
        <5>1. CASE rows[i] = None
          BY <4>1, <5>1 DEF Rows
        <5>2. CASE rows[i] # None
          <6>1. i \in Rows /\ rows[i] \in Row
            BY <5>2 DEF Rows, Types
          <6>2. read[rows[i].port] \in Nat
            BY <1>4, <6>1 DEF AddTraffic, Types, Row
          <6>3. rows'[i] = [rows[i] EXCEPT !.used = @ + read[rows[i].port]]
            BY <4>1, <6>1
          <6>4. rows'[i] \in Row /\ rows'[i].port = rows[i].port
                /\ rows'[i].enabled = rows[i].enabled
            BY <6>1, <6>2, <6>3 DEF Row
          <6> QED
            BY <5>2, <6>4, InboundAssumption
        <5> QED
          BY <5>1, <5>2
      <4> QED
        BY <4>2, SameWanted
    <3> QED
      BY <3>1, <3>2
  <2> QED
    BY <2>1, <2>2 DEF ServedOrOwed, Owed
<1>5. CASE DisableInvalidInbounds
  BY <1>5 DEF DisableInvalidInbounds, ServedOrOwed, Owed
<1>6. CASE FlagDisabled
  BY <1>6 DEF FlagDisabled, ServedOrOwed, Owed
<1>7. CASE \E a \in Admins : Admin(a)
  <2>1. PICK a \in Admins : Admin(a)
    BY <1>7
  <2>2. ASSUME NEW point, NEW f, Go(a, point, f)
        PROVE  \A b \in Admins : pc'[b] = IF b = a THEN point ELSE pc[b]
    BY <2>2 DEF Go, Types
  <2>3. CASE AddInbound(a) \/ DelInbound(a)
    <3>1. Go(a, "flag", Blank)
      BY <2>3 DEF AddInbound, DelInbound
    <3> QED
      BY <2>2, <3>1 DEF ServedOrOwed, Owed
  <2>4. CASE UpdateInbound(a) /\ Go(a, "flag", Blank)
    BY <2>2, <2>4 DEF ServedOrOwed, Owed
  <2>5. CASE \/ OpenForm(a)
             \/ UpdateInbound(a) /\ UNCHANGED rows /\ Go(a, "idle", Blank)
    <3>1. pc[a] # "flag" /\ UNCHANGED <<rows, xray, needRestart, expiry, missed>>
      BY <2>5 DEF OpenForm, UpdateInbound, Outside
    <3>2. \E point, f : Go(a, point, f)
      BY <2>5, Zenon DEF OpenForm
    <3>3. \A b \in Admins : pc[b] = "flag" => pc'[b] = "flag"
      BY <2>2, <3>1, <3>2
    <3> QED
      BY <3>1, <3>3 DEF ServedOrOwed, Owed, Wanted, Rows
  <2>6. CASE Flag(a)
    BY <2>6 DEF Flag, ServedOrOwed, Owed
  <2> QED
    BY <2>1, <2>3, <2>4, <2>5, <2>6 DEF Admin, UpdateInbound
<1>8. CASE CheckXrayRunning
  BY <1>8 DEF CheckXrayRunning, ServedOrOwed
<1> QED
  BY <1>1, <1>2, <1>3, <1>4, <1>5, <1>6, <1>7, <1>8 DEF Next

\* Xray has just been started on the table.
LEMMA OwedInit == ASSUME Init PROVE ServedOrOwed
<1> DEFINE first == CHOOSE i \in Ids : TRUE
           q == CHOOSE p \in Ports : TRUE
<1>1. first \in Ids /\ q \in Ports
  BY InboundAssumption
<1>2. xray = {q} /\ \E limit \in Limits :
        rows = [i \in Ids |-> IF i = first THEN [port |-> q, used |-> 0, limit |-> limit,
                                                 enabled |-> TRUE] ELSE None]
  BY DEF Init
<1> HIDE DEF first, q
<1>3. PICK limit \in Limits :
        rows = [i \in Ids |-> IF i = first THEN [port |-> q, used |-> 0, limit |-> limit,
                                                 enabled |-> TRUE] ELSE None]
  BY <1>2
<1>4. rows[first] # None /\ rows[first].port = q /\ rows[first].enabled
      /\ \A i \in Ids : i # first => rows[i] = None
  <2>1. [port |-> q, used |-> 0, limit |-> limit, enabled |-> TRUE] \in Row
    BY <1>1 DEF Row
  <2> QED
    BY <1>1, <1>3, <2>1, InboundAssumption
<1>5. {j \in Rows : rows[j].enabled} = {first}
  BY <1>1, <1>4 DEF Rows
<1>6. Wanted = {q}
  BY <1>4, <1>5 DEF Wanted
<1> QED
  BY <1>2, <1>6 DEF ServedOrOwed

-----------------------------------------------------------------------------
(* Theorems *)

\* The state keeps its types, ports are unique among the rows, and no counter exceeds what
\* Xray has carried.
THEOREM TypeCorrect == Spec => []TypeOK
BY IInvAlways, IInvImplies, PTL

\* No byte is charged twice, however reads, resets, transactions, exits and crashes
\* interleave, and whatever older counters are saved with a form.
THEOREM NoByteTwice == Spec => []NeverOvercounted
BY IInvAlways, IInvImplies, PTL

\* Xray serves what is switched on, or the flag, the expiry job or a handler still owes the
\* restart, or the last attempt failed: SetToNeedRestart after the commit is late, but never
\* left out, and nothing but a failing attempt takes the flag back without serving the table.
THEOREM RestartOwed == Spec => []ServedOrOwed
<1>1. Init => ServedOrOwed
  BY OwedInit
<1>2. IInv /\ ServedOrOwed /\ [Next]_vars => ServedOrOwed'
  <2> SUFFICES ASSUME IInv, ServedOrOwed, [Next]_vars PROVE ServedOrOwed'
    OBVIOUS
  <2>1. CASE Next
    BY <2>1, OwedNext DEF IInv
  <2>2. CASE UNCHANGED vars
    BY <2>2 DEF vars, ServedOrOwed, Owed, Wanted, Rows
  <2> QED
    BY <2>1, <2>2
<1> QED
  BY <1>1, <1>2, IInvAlways, PTL DEF Spec
=============================================================================
