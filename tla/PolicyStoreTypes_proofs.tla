---------------------- MODULE PolicyStoreTypes_proofs ----------------------
(***************************************************************************)
(* The types of the tables and of what the handlers hold, in every state,  *)
(* also after an id has been reissued.                                     *)
(*                                                                         *)
(* A handler writes rows that it has read or put together statements       *)
(* before.  Knows says what it holds at each point: the id of a row of     *)
(* the right table, the row it read, a target it has validated.  Of the    *)
(* tables this relies on nothing but that pools are never deleted.         *)
(***************************************************************************)
EXTENDS PolicyStore_proofs

TypeInv ==
  /\ db \in Store
  /\ pc \in [Handlers -> Points]
  /\ DOMAIN loc = Handlers /\ loc = [h \in Handlers |-> loc[h]]
  /\ \A h \in Handlers : Knows(db, pc[h], loc[h])
  /\ reissued \in BOOLEAN

PoolsLast(d, e) == \A q \in Pools : d.pools[q] # None => e.pools[q] # None

\* The handler leaves tables behind, and goes on knowing the types of what it holds.
Typed(h) ==
  /\ db' \in Store /\ PoolsLast(db, db')
  /\ \E point \in Points : \E l : Knows(db', point, l) /\ Go(h, point, l)

-----------------------------------------------------------------------------
(* Steps *)

\* A query answered, the request goes on.
LEMMA GoesOn ==
  ASSUME db \in Store, UNCHANGED db, NEW h, NEW point \in Points, NEW l,
         Knows(db, point, l), Go(h, point, l)
  PROVE  Typed(h)
<1>1. Knows(db', point, l)
  BY Zenon
<1> QED
  BY <1>1 DEF Typed, PoolsLast

\* An answer, an error: nothing is known any more.
LEMMA Ends ==
  ASSUME NEW h, Done(h), db' \in Store, PoolsLast(db, db')
  PROVE  Typed(h)
<1>1. Knows(db', "idle", Blank) /\ "idle" \in Points
  BY Blanked DEF LocInv
<1> QED
  BY <1>1 DEF Typed, Done

\* A query that decides.
LEMMA CheckTyped ==
  ASSUME db \in Store, NEW h, NEW ok, NEW point \in Points, NEW l, Check(h, ok, point, l),
         ok => Knows(db, point, l)
  PROVE  Typed(h)
<1>1. CASE ok
  BY <1>1, GoesOn DEF Check
<1>2. CASE ~ok
  BY <1>2, Ends DEF Check, PoolsLast
<1> QED
  BY <1>1, <1>2

\* A target that is there.
LEMMA ValidateTyped ==
  ASSUME db \in Store, NEW h, NEW l, NEW point \in Points, Validate(h, l, point),
         \A t \in Targets : Knows(db, point, [l EXCEPT !.arg = t])
  PROVE  Typed(h)
  BY GoesOn DEF Validate

\* A write ends the request.
LEMMA WriteTyped ==
  ASSUME NEW h, NEW d \in Store, PoolsLast(db, d), Write(h, d)
  PROVE  Typed(h)
  BY Ends DEF Write

\* One that leaves the pools alone.
LEMMA WriteElsewhere ==
  ASSUME NEW h, NEW d \in Store, d.pools = db.pools, Write(h, d)
  PROVE  Typed(h)
  BY WriteTyped DEF PoolsLast

\* Nobody's knowledge of types goes stale.
LEMMA KnowsLasts ==
  ASSUME NEW d, NEW e, PoolsLast(d, e), NEW point, NEW l, Knows(d, point, l)
  PROVE  Knows(e, point, l)
  BY DEF Knows, PoolsLast

-----------------------------------------------------------------------------
(* EgressService, EgressPoolService, InboundService *)

\* Egresses, pools and their members.
LEMMA EgressTyped ==
  ASSUME db \in Store, NEW h \in Handlers, Knows(db, pc[h], loc[h]), EgressRequest(h)
  PROVE  Typed(h)
<1> USE DEF Knows, Locals, Blank, Ids, Targets, EgressPoints, PolicyPoints, RulePoints,
            BindPoints, InboundPoints, TargetPoints
<1>0. {"egressSave", "countRules", "countMembers", "countFallbacks", "egressDelete",
       "poolInsert", "memberInsert"} \subseteq Points
  BY DEF Points
<1>1. CASE EgressCreate(h)
  <2>1. PICK e \in Egresses : Write(h, [db EXCEPT !.egresses = @ \cup {e}])
    BY <1>1 DEF EgressCreate
  <2>2. [db EXCEPT !.egresses = @ \cup {e}] \in Store
        /\ [db EXCEPT !.egresses = @ \cup {e}].pools = db.pools
    BY DEF Store
  <2> QED
    BY <2>1, <2>2, WriteElsewhere
<1>2. CASE EgressUpdate(h)
  <2>1. CASE pc[h] = "egressSave"
    <3>1. Write(h, [db EXCEPT !.egresses = @ \cup {loc[h].id}])
      BY <1>2, <2>1 DEF EgressUpdate, Starts
    <3>2. [db EXCEPT !.egresses = @ \cup {loc[h].id}] \in Store
          /\ [db EXCEPT !.egresses = @ \cup {loc[h].id}].pools = db.pools
      BY <2>1 DEF Store
    <3> QED
      BY <3>1, <3>2, WriteElsewhere
  <2>2. CASE pc[h] # "egressSave"
    <3>1. PICK e \in db.egresses : Check(h, TRUE, "egressSave", [Blank EXCEPT !.id = e])
      BY <1>2, <2>2 DEF EgressUpdate
    <3>2. Knows(db, "egressSave", [Blank EXCEPT !.id = e])
      BY Fields
    <3> QED
      BY <1>0, <3>1, <3>2, CheckTyped
  <2> QED
    BY <2>1, <2>2
<1>3. CASE EgressDelete(h)
  <2>1. CASE pc[h] = "idle"
    <3>1. PICK e \in Egresses :
            Check(h, ~UsedByPolicy(e), "countRules", [Blank EXCEPT !.id = e])
      BY <1>3, <2>1 DEF EgressDelete
    <3>2. Knows(db, "countRules", [Blank EXCEPT !.id = e])
      OBVIOUS
    <3> QED
      BY <1>0, <3>1, <3>2, CheckTyped
  <2>2. CASE pc[h] = "egressDelete"
    <3>1. Write(h, [db EXCEPT !.egresses = @ \ {loc[h].id}])
      BY <1>3, <2>2 DEF EgressDelete, Starts
    <3>2. [db EXCEPT !.egresses = @ \ {loc[h].id}] \in Store
          /\ [db EXCEPT !.egresses = @ \ {loc[h].id}].pools = db.pools
      BY DEF Store
    <3> QED
      BY <3>1, <3>2, WriteElsewhere
  <2>3. CASE pc[h] \notin {"idle", "egressDelete"}
    <3>1. PICK point \in EgressPoints, ok \in BOOLEAN :
            pc[h] \in EgressPoints /\ Check(h, ok, point, loc[h])
      BY <1>3, <2>3 DEF EgressDelete, Starts, UsedByRule, UsedByMember, UsedByFallback
    <3>2. Knows(db, point, loc[h])
      BY <3>1
    <3> QED
      BY <1>0, <3>1, <3>2, CheckTyped
  <2> QED
    BY <2>1, <2>2, <2>3
<1>4. CASE PoolCreate(h)
  <2>1. CASE pc[h] = "poolInsert"
    <3>1. PICK q \in Pools : Write(h, [db EXCEPT !.pools[q] =
                                         [members |-> {}, fallback |-> loc[h].arg]])
      BY <1>4, <2>1 DEF PoolCreate, Starts
    <3> DEFINE row == [members |-> {}, fallback |-> loc[h].arg]
               d == [db EXCEPT !.pools[q] = row]
    <3>2. row \in PoolRow /\ row # None
      BY <2>1, IdAssumption DEF PoolRow
    <3>3. d \in Store /\ PoolsLast(db, d)
      BY <3>2 DEF Store, PoolsLast
    <3> QED
      BY <3>1, <3>3, WriteTyped
  <2>2. CASE pc[h] # "poolInsert"
    <3>1. Validate(h, Blank, "poolInsert") \/ Check(h, TRUE, "poolInsert", Blank)
      BY <1>4, <2>2 DEF PoolCreate
    <3>2. /\ Knows(db, "poolInsert", Blank)
          /\ \A t \in Targets : Knows(db, "poolInsert", [Blank EXCEPT !.arg = t])
      OBVIOUS
    <3> QED
      BY <1>0, <3>1, <3>2, CheckTyped, ValidateTyped
  <2> QED
    BY <2>1, <2>2
<1>5. CASE AddMember(h)
  <2>1. CASE pc[h] = "memberInsert"
    <3> DEFINE q == loc[h].id
               d == [db EXCEPT !.pools[q].members = @ \cup {loc[h].arg}]
    <3>1. q \in Pools /\ db.pools[q] # None /\ loc[h].arg \in Egresses
      BY <2>1
    <3>2. [db.pools[q] EXCEPT !.members = @ \cup {loc[h].arg}] \in PoolRow
      BY <3>1, Rows DEF PoolRow
    <3>3. d \in Store /\ PoolsLast(db, d)
      BY <3>1, <3>2, IdAssumption DEF Store, PoolsLast
    <3>4. Write(h, d)
      BY <1>5, <2>1 DEF AddMember, Starts
    <3> QED
      BY <3>3, <3>4, WriteTyped
  <2>2. CASE pc[h] # "memberInsert"
    <3>1. PICK q \in Pools, e \in Egresses :
            /\ db.pools[q] # None
            /\ Check(h, e \in db.egresses, "memberInsert", [Blank EXCEPT !.id = q, !.arg = e])
      BY <1>5, <2>2 DEF AddMember
    <3>2. Knows(db, "memberInsert", [Blank EXCEPT !.id = q, !.arg = e])
      BY <3>1
    <3> QED
      BY <1>0, <3>1, <3>2, CheckTyped
  <2> QED
    BY <2>1, <2>2
<1>6. CASE RemoveMember(h)
  <2>1. PICK q \in Pools, e \in Egresses :
          db.pools[q] # None /\ Write(h, [db EXCEPT !.pools[q].members = @ \ {e}])
    BY <1>6 DEF RemoveMember
  <2> DEFINE d == [db EXCEPT !.pools[q].members = @ \ {e}]
  <2>2. [db.pools[q] EXCEPT !.members = @ \ {e}] \in PoolRow
    BY <2>1, Rows DEF PoolRow
  <2>3. d \in Store /\ PoolsLast(db, d)
    BY <2>1, <2>2, IdAssumption DEF Store, PoolsLast
  <2> QED
    BY <2>1, <2>3, WriteTyped
<1> QED
  BY <1>1, <1>2, <1>3, <1>4, <1>5, <1>6 DEF EgressRequest

\* A policy with its rules and bindings taken away leaves tables behind.
LEMMA WithoutPolicyTyped ==
  ASSUME NEW d \in Store, NEW p
  PROVE  WithoutPolicy(d, p) \in Store /\ WithoutPolicy(d, p).pools = d.pools
  BY DEF WithoutPolicy, Store

\* Inbounds come and go, with what hangs on them.
LEMMA InboundTyped ==
  ASSUME db \in Store, NEW h \in Handlers, AddInbound(h) \/ DelInbound(h)
  PROVE  Typed(h)
<1>1. CASE AddInbound(h)
  <2>1. PICK i \in Inbounds : Write(h, [db EXCEPT !.inbounds = @ \cup {i}])
    BY <1>1 DEF AddInbound
  <2>2. [db EXCEPT !.inbounds = @ \cup {i}] \in Store
        /\ [db EXCEPT !.inbounds = @ \cup {i}].pools = db.pools
    BY DEF Store
  <2> QED
    BY <2>1, <2>2, WriteElsewhere
<1>2. CASE DelInbound(h)
  <2>1. PICK i \in Inbounds : Write(h, [CleanedUp(i) EXCEPT !.inbounds = @ \ {i}])
    BY <1>2 DEF DelInbound
  <2> DEFINE c == CleanedUp(i)
             d == [c EXCEPT !.inbounds = @ \ {i}]
  <2>2. /\ [db EXCEPT !.bindings[i] = None] \in Store
        /\ [db EXCEPT !.bindings[i] = None].pools = db.pools
    BY DEF Store
  <2>3. \/ c = [db EXCEPT !.bindings[i] = None]
        \/ c = WithoutPolicy([db EXCEPT !.bindings[i] = None], db.bindings[i])
    BY DEF CleanedUp
  <2>5. c \in Store /\ c.pools = db.pools
    BY <2>2, <2>3, WithoutPolicyTyped
  <2> HIDE DEF c
  <2>4. d \in Store /\ d.pools = db.pools
    BY <2>5 DEF Store
  <2> QED
    BY <2>1, <2>4, WriteElsewhere DEF c
<1> QED
  BY <1>1, <1>2

-----------------------------------------------------------------------------
(* TrafficPolicyService, TrafficTemplateService *)

\* A policy saved.
LEMMA PolicySaved ==
  ASSUME NEW d \in Store, NEW p \in Policies, NEW row \in PolicyRow
  PROVE  [d EXCEPT !.policies[p] = row] \in Store /\ [d EXCEPT !.policies[p] = row].pools = d.pools
  BY DEF Store

\* A rule saved or deleted.
LEMMA RuleSaved ==
  ASSUME NEW d \in Store, NEW r \in Rules, NEW row \in RuleRow \cup {None}
  PROVE  [d EXCEPT !.rules[r] = row] \in Store /\ [d EXCEPT !.rules[r] = row].pools = d.pools
  BY DEF Store

\* New rules.
LEMMA RulesSaved ==
  ASSUME NEW d \in Store, NEW rs \in SUBSET Rules, NEW p \in Policies,
         NEW t \in Targets \cup {None}
  PROVE  LET e == Inserted(d, rs, [policy |-> p, target |-> t])
         IN  e \in Store /\ e.pools = d.pools
<1>1. [policy |-> p, target |-> t] \in RuleRow
  BY DEF RuleRow
<1> QED
  BY <1>1 DEF Inserted, Store

\* A binding changed or deleted.
LEMMA BindingSaved ==
  ASSUME NEW d \in Store, NEW i \in Inbounds, NEW p \in Policies \cup {None}
  PROVE  [d EXCEPT !.bindings[i] = p] \in Store /\ [d EXCEPT !.bindings[i] = p].pools = d.pools
  BY DEF Store

\* Policies.
LEMMA PolicyTyped ==
  ASSUME db \in Store, NEW h \in Handlers, Knows(db, pc[h], loc[h]),
         PolicyCreate(h) \/ PolicyUpdate(h) \/ PolicyEnable(h) \/ PolicyDelete(h)
  PROVE  Typed(h)
<1> USE DEF Knows, Locals, Blank, Ids, Targets, EgressPoints, PolicyPoints, RulePoints,
            BindPoints, InboundPoints, TargetPoints
<1>0. {"policyInsert", "policyTarget", "policySave", "policyRead", "policyDelete"} \subseteq Points
  BY DEF Points
<1>1. CASE PolicyCreate(h)
  <2>1. CASE pc[h] = "policyInsert"
    <3> DEFINE row == [owner |-> "ordinary", default |-> loc[h].arg,
                       items |-> [k \in Keys |-> {}]]
    <3>1. PICK p \in NewId(db.policies) : Write(h, [db EXCEPT !.policies[p] = row])
      BY <1>1, <2>1 DEF PolicyCreate, Starts
    <3>2. row \in PolicyRow
      BY <2>1 DEF PolicyRow
    <3> HIDE DEF row
    <3> DEFINE d == [db EXCEPT !.policies[p] = row]
    <3>3. p \in Policies
      BY NewPolicy
    <3>4. d \in Store /\ d.pools = db.pools
      BY <3>2, <3>3, PolicySaved
    <3> HIDE DEF d
    <3> QED
      BY <3>1, <3>4, WriteElsewhere DEF d
  <2>2. CASE pc[h] # "policyInsert"
    <3>1. Validate(h, Blank, "policyInsert") \/ Check(h, TRUE, "policyInsert", Blank)
      BY <1>1, <2>2 DEF PolicyCreate
    <3>2. /\ Knows(db, "policyInsert", Blank)
          /\ \A t \in Targets : Knows(db, "policyInsert", [Blank EXCEPT !.arg = t])
      OBVIOUS
    <3> QED
      BY <1>0, <3>1, <3>2, CheckTyped, ValidateTyped
  <2> QED
    BY <2>1, <2>2
<1>2. CASE PolicyUpdate(h)
  <2>1. CASE pc[h] = "policySave"
    <3> DEFINE row == [loc[h].row EXCEPT !.default = loc[h].arg]
    <3>1. row \in PolicyRow /\ loc[h].id \in Policies
      BY <2>1 DEF PolicyRow
    <3>2. Write(h, [db EXCEPT !.policies[loc[h].id] = row])
      BY <1>2, <2>1 DEF PolicyUpdate, Starts
    <3> HIDE DEF row
    <3> DEFINE d == [db EXCEPT !.policies[loc[h].id] = row]
    <3>3. d \in Store /\ d.pools = db.pools
      BY <3>1, PolicySaved
    <3> HIDE DEF d
    <3> QED
      BY <3>2, <3>3, WriteElsewhere DEF d
  <2>2. CASE pc[h] = "policyTarget"
    <3>1. Validate(h, loc[h], "policySave") \/ Check(h, TRUE, "policySave", loc[h])
      BY <1>2, <2>2 DEF PolicyUpdate, Starts
    <3>2. /\ Knows(db, "policySave", loc[h])
          /\ \A t \in Targets : Knows(db, "policySave", [loc[h] EXCEPT !.arg = t])
      BY <2>2
    <3> QED
      BY <1>0, <3>1, <3>2, CheckTyped, ValidateTyped
  <2>3. CASE pc[h] \notin {"policyTarget", "policySave"}
    <3>1. PICK p \in Policies :
            \E row \in {db.policies[p], [db.policies[p] EXCEPT !.owner = "ordinary"]} :
              Check(h, Ordinary(p), "policyTarget", [Blank EXCEPT !.id = p, !.row = row])
      BY <1>2, <2>3 DEF PolicyUpdate, Check
    <3>2. PICK row \in {db.policies[p], [db.policies[p] EXCEPT !.owner = "ordinary"]} :
            Check(h, Ordinary(p), "policyTarget", [Blank EXCEPT !.id = p, !.row = row])
      BY <3>1
    <3>3. Ordinary(p) => row \in PolicyRow
      BY Rows DEF Ordinary, PolicyRow
    <3>4. Ordinary(p) => Knows(db, "policyTarget", [Blank EXCEPT !.id = p, !.row = row])
      BY <3>3
    <3> QED
      BY <1>0, <3>2, <3>4, CheckTyped
  <2> QED
    BY <2>1, <2>2, <2>3
<1>3. CASE PolicyEnable(h)
  <2>1. CASE pc[h] = "policyRead"
    <3> DEFINE row == db.policies[loc[h].id]
               l == [loc[h] EXCEPT !.row = row, !.arg = IF row = None THEN None ELSE row.default]
    <3>1. Check(h, row # None, "policySave", l)
      BY <1>3, <2>1 DEF PolicyEnable, Starts
    <3>2. row # None => row \in PolicyRow /\ row.default \in Targets \cup {None}
      BY <2>1, Rows DEF PolicyRow
    <3>3. row # None => Knows(db, "policySave", l)
      BY <2>1, <3>2
    <3> HIDE DEF row, l
    <3> QED
      BY <1>0, <3>1, <3>3, CheckTyped
  <2>2. CASE pc[h] # "policyRead"
    <3>1. PICK p \in Policies : Check(h, Ordinary(p), "policyRead", [Blank EXCEPT !.id = p])
      BY <1>3, <2>2 DEF PolicyEnable
    <3>2. Knows(db, "policyRead", [Blank EXCEPT !.id = p])
      OBVIOUS
    <3> QED
      BY <1>0, <3>1, <3>2, CheckTyped
  <2> QED
    BY <2>1, <2>2
<1>4. CASE PolicyDelete(h)
  <2>1. CASE pc[h] = "policyDelete"
    <3>1. Write(h, WithoutPolicy(db, loc[h].id)) \/ (Done(h) /\ UNCHANGED db)
      BY <1>4, <2>1 DEF PolicyDelete, Starts
    <3> QED
      BY <3>1, WithoutPolicyTyped, WriteElsewhere, Ends DEF PoolsLast
  <2>2. CASE pc[h] # "policyDelete"
    <3>1. PICK p \in Policies : Check(h, Ordinary(p), "policyDelete", [Blank EXCEPT !.id = p])
      BY <1>4, <2>2 DEF PolicyDelete
    <3>2. Knows(db, "policyDelete", [Blank EXCEPT !.id = p])
      OBVIOUS
    <3> QED
      BY <1>0, <3>1, <3>2, CheckTyped
  <2> QED
    BY <2>1, <2>2
<1> QED
  BY <1>1, <1>2, <1>3, <1>4

\* Their rules.
LEMMA RuleTyped ==
  ASSUME db \in Store, NEW h \in Handlers, Knows(db, pc[h], loc[h]),
         RuleAdd(h) \/ RuleUpdate(h) \/ RuleEnable(h) \/ RuleDelete(h)
  PROVE  Typed(h)
<1> USE DEF Knows, Locals, Blank, Ids, Targets, EgressPoints, PolicyPoints, RulePoints,
            BindPoints, InboundPoints, TargetPoints
<1>0. {"ruleTarget", "ruleInsert", "ruleRead", "ruleRetarget", "ruleSave", "ruleEnable",
       "ruleDelete"} \subseteq Points
  BY DEF Points
<1>1. CASE RuleAdd(h)
  <2>1. CASE pc[h] = "idle"
    <3>1. PICK p \in Policies : Check(h, Ordinary(p), "ruleTarget", [Blank EXCEPT !.id = p])
      BY <1>1, <2>1 DEF RuleAdd
    <3>2. Knows(db, "ruleTarget", [Blank EXCEPT !.id = p])
      OBVIOUS
    <3> QED
      BY <1>0, <3>1, <3>2, CheckTyped
  <2>2. CASE pc[h] = "ruleTarget"
    <3>1. Validate(h, loc[h], "ruleInsert")
      BY <1>1, <2>2 DEF RuleAdd, Starts
    <3>2. \A t \in Targets : Knows(db, "ruleInsert", [loc[h] EXCEPT !.arg = t])
      BY <2>2
    <3> QED
      BY <1>0, <3>1, <3>2, ValidateTyped
  <2>3. CASE pc[h] = "ruleInsert"
    <3>1. PICK r \in NewId(db.rules) :
            Write(h, Inserted(db, {r}, [policy |-> loc[h].id, target |-> loc[h].arg]))
      BY <1>1, <2>3 DEF RuleAdd, Starts
    <3>2. {r} \in SUBSET Rules /\ loc[h].id \in Policies /\ loc[h].arg \in Targets \cup {None}
      BY <2>3, NewRule
    <3> QED
      BY <3>1, <3>2, RulesSaved, WriteElsewhere
  <2> QED
    BY <1>1, <2>1, <2>2, <2>3 DEF RuleAdd, Starts
<1>2. CASE RuleUpdate(h)
  <2>1. CASE pc[h] = "idle"
    <3>1. PICK r \in Rules : Check(h, OrdinaryRule(r), "ruleRead", [Blank EXCEPT !.id = r])
      BY <1>2, <2>1 DEF RuleUpdate
    <3>2. Knows(db, "ruleRead", [Blank EXCEPT !.id = r])
      OBVIOUS
    <3> QED
      BY <1>0, <3>1, <3>2, CheckTyped
  <2>2. CASE pc[h] = "ruleRead"
    <3> DEFINE row == db.rules[loc[h].id]
    <3>1. Check(h, row # None, "ruleRetarget", [loc[h] EXCEPT !.row = row])
      BY <1>2, <2>2 DEF RuleUpdate, Starts
    <3>2. row # None => row \in RuleRow
      BY <2>2, Rows
    <3>3. row # None => Knows(db, "ruleRetarget", [loc[h] EXCEPT !.row = row])
      BY <2>2, <3>2
    <3> HIDE DEF row
    <3> QED
      BY <1>0, <3>1, <3>3, CheckTyped
  <2>3. CASE pc[h] = "ruleRetarget"
    <3>1. Validate(h, loc[h], "ruleSave")
      BY <1>2, <2>3 DEF RuleUpdate, Starts
    <3>2. \A t \in Targets : Knows(db, "ruleSave", [loc[h] EXCEPT !.arg = t])
      BY <2>3
    <3> QED
      BY <1>0, <3>1, <3>2, ValidateTyped
  <2>4. CASE pc[h] = "ruleSave"
    <3> DEFINE row == [loc[h].row EXCEPT !.target = loc[h].arg]
    <3>1. row \in RuleRow /\ loc[h].id \in Rules
      BY <2>4 DEF RuleRow
    <3>2. Write(h, [db EXCEPT !.rules[loc[h].id] = row])
      BY <1>2, <2>4 DEF RuleUpdate, Starts
    <3> HIDE DEF row
    <3> QED
      BY <3>1, <3>2, RuleSaved, WriteElsewhere
  <2> QED
    BY <1>2, <2>1, <2>2, <2>3, <2>4 DEF RuleUpdate, Starts
<1>3. CASE RuleEnable(h)
  <2>1. CASE pc[h] = "ruleEnable"
    <3> DEFINE row == db.rules[loc[h].id]
               l == [loc[h] EXCEPT !.row = row, !.arg = IF row = None THEN None ELSE row.target]
    <3>1. Check(h, row # None, "ruleSave", l)
      BY <1>3, <2>1 DEF RuleEnable, Starts
    <3>2. row # None => row \in RuleRow /\ row.target \in Targets \cup {None}
      BY <2>1, Rows DEF RuleRow
    <3>3. row # None => Knows(db, "ruleSave", l)
      BY <2>1, <3>2
    <3> HIDE DEF row, l
    <3> QED
      BY <1>0, <3>1, <3>3, CheckTyped
  <2>2. CASE pc[h] # "ruleEnable"
    <3>1. PICK r \in Rules : Check(h, OrdinaryRule(r), "ruleEnable", [Blank EXCEPT !.id = r])
      BY <1>3, <2>2 DEF RuleEnable
    <3>2. Knows(db, "ruleEnable", [Blank EXCEPT !.id = r])
      OBVIOUS
    <3> QED
      BY <1>0, <3>1, <3>2, CheckTyped
  <2> QED
    BY <2>1, <2>2
<1>4. CASE RuleDelete(h)
  <2>1. CASE pc[h] = "ruleDelete"
    <3>1. Write(h, [db EXCEPT !.rules[loc[h].id] = None]) /\ loc[h].id \in Rules
      BY <1>4, <2>1 DEF RuleDelete, Starts
    <3> QED
      BY <3>1, RuleSaved, WriteElsewhere
  <2>2. CASE pc[h] # "ruleDelete"
    <3>1. PICK r \in Rules : Check(h, OrdinaryRule(r), "ruleDelete", [Blank EXCEPT !.id = r])
      BY <1>4, <2>2 DEF RuleDelete
    <3>2. Knows(db, "ruleDelete", [Blank EXCEPT !.id = r])
      OBVIOUS
    <3> QED
      BY <1>0, <3>1, <3>2, CheckTyped
  <2> QED
    BY <2>1, <2>2
<1> QED
  BY <1>1, <1>2, <1>3, <1>4

\* A new policy in the place of a binding, with its rules, is the end of a request.
LEMMA TemplateWrite ==
  ASSUME db \in Store, NEW h, NEW rs \in SUBSET Rules, NEW p \in Policies, NEW i \in Inbounds,
         NEW t \in Targets \cup {None}, NEW row \in PolicyRow,
         Write(h, [Inserted(db, rs, [policy |-> p, target |-> t])
                     EXCEPT !.policies[p] = row, !.bindings[i] = p])
  PROVE  Typed(h)
<1> DEFINE c == Inserted(db, rs, [policy |-> p, target |-> t])
           e == [c EXCEPT !.policies[p] = row, !.bindings[i] = p]
<1>1. Write(h, e)
  OBVIOUS
<1>2. c \in Store /\ c.pools = db.pools
  BY RulesSaved
<1> HIDE DEF c
<1>3. e \in Store
  BY <1>2 DEF Store
<1>4. e.pools = db.pools
  BY <1>2 DEF Store
<1> HIDE DEF e
<1> QED
  BY <1>1, <1>3, <1>4, WriteElsewhere

\* Bindings and templates.
LEMMA BindingTyped ==
  ASSUME db \in Store, NEW h \in Handlers, Knows(db, pc[h], loc[h]),
         Bind(h) \/ Unbind(h) \/ Template(h)
  PROVE  Typed(h)
<1> USE DEF Knows, Locals, Blank, Ids, Targets, EgressPoints, PolicyPoints, RulePoints,
            BindPoints, InboundPoints, TargetPoints
<1>0. InboundPoints \subseteq Points
  BY DEF Points
<1>1. CASE Bind(h)
  <2>1. CASE pc[h] = "idle"
    <3>1. PICK p \in Policies, i \in Inbounds :
            Check(h, Ordinary(p), "bindInbound", [Blank EXCEPT !.id = i, !.arg = p])
      BY <1>1, <2>1 DEF Bind
    <3>2. Knows(db, "bindInbound", [Blank EXCEPT !.id = i, !.arg = p])
      OBVIOUS
    <3> QED
      BY <1>0, <3>1, <3>2, CheckTyped
  <2>2. CASE pc[h] = "bindInbound"
    <3>1. Check(h, OrdinaryBinding(loc[h].id), "bindExists", loc[h])
          /\ Knows(db, "bindExists", loc[h])
      BY <1>1, <2>2 DEF Bind, Starts
    <3> QED
      BY <1>0, <3>1, CheckTyped
  <2>3. CASE pc[h] = "bindExists"
    <3>1. Check(h, loc[h].id \in db.inbounds, "bindCount", loc[h])
          /\ Knows(db, "bindCount", loc[h])
      BY <1>1, <2>3 DEF Bind, Starts
    <3> QED
      BY <1>0, <3>1, CheckTyped
  <2>4. CASE pc[h] = "bindCount"
    <3>1. Check(h, db.policies[loc[h].arg] # None, "bind", loc[h]) /\ Knows(db, "bind", loc[h])
      BY <1>1, <2>4 DEF Bind, Starts
    <3> QED
      BY <1>0, <3>1, CheckTyped
  <2>5. CASE pc[h] = "bind"
    <3>1. Write(h, [db EXCEPT !.bindings[loc[h].id] = loc[h].arg])
          /\ loc[h].id \in Inbounds /\ loc[h].arg \in Policies
      BY <1>1, <2>5 DEF Bind, Starts
    <3> QED
      BY <3>1, BindingSaved, WriteElsewhere
  <2> QED
    BY <1>1, <2>1, <2>2, <2>3, <2>4, <2>5 DEF Bind, Starts
<1>2. CASE Unbind(h)
  <2>1. CASE pc[h] = "idle"
    <3>1. PICK i \in Inbounds :
            Check(h, OrdinaryBinding(i), "unbindExists", [Blank EXCEPT !.id = i])
      BY <1>2, <2>1 DEF Unbind
    <3>2. Knows(db, "unbindExists", [Blank EXCEPT !.id = i])
      OBVIOUS
    <3> QED
      BY <1>0, <3>1, <3>2, CheckTyped
  <2>2. CASE pc[h] = "unbindExists"
    <3>1. Check(h, loc[h].id \in db.inbounds, "unbind", loc[h]) /\ Knows(db, "unbind", loc[h])
      BY <1>2, <2>2 DEF Unbind, Starts
    <3> QED
      BY <1>0, <3>1, CheckTyped
  <2>3. CASE pc[h] = "unbind"
    <3>1. Write(h, [db EXCEPT !.bindings[loc[h].id] = None]) /\ loc[h].id \in Inbounds
      BY <1>2, <2>3 DEF Unbind, Starts
    <3> QED
      BY <3>1, BindingSaved, WriteElsewhere
  <2> QED
    BY <1>2, <2>1, <2>2, <2>3 DEF Unbind, Starts
<1>3. CASE Template(h)
  <2>1. CASE pc[h] = "idle"
    <3>1. PICK i \in Inbounds :
            Check(h, i \in db.inbounds, "templateTarget", [Blank EXCEPT !.id = i])
      BY <1>3, <2>1 DEF Template
    <3>2. Knows(db, "templateTarget", [Blank EXCEPT !.id = i])
      OBVIOUS
    <3> QED
      BY <1>0, <3>1, <3>2, CheckTyped
  <2>2. CASE pc[h] = "templateTarget"
    <3>1. Validate(h, loc[h], "template")
      BY <1>3, <2>2 DEF Template, Starts
    <3>2. \A t \in Targets : Knows(db, "template", [loc[h] EXCEPT !.arg = t])
      BY <2>2
    <3> QED
      BY <1>0, <3>1, <3>2, ValidateTyped
  <2>3. CASE pc[h] = "template"
    <3> DEFINE i == loc[h].id
               t == loc[h].arg
               row == [owner |-> "ordinary", default |-> t, items |-> [k \in Keys |-> {}]]
    <3>1. PICK p \in NewId(db.policies), rs \in NewRules(MaxSnapshot) :
            Write(h, [Inserted(db, rs, [policy |-> p, target |-> t])
                        EXCEPT !.policies[p] = row, !.bindings[i] = p])
      BY <1>3, <2>3 DEF Template, Starts
    <3>2. i \in Inbounds /\ t \in Targets \cup {None}
      BY <2>3
    <3>3. row \in PolicyRow
      BY <3>2 DEF PolicyRow
    <3>4. p \in Policies /\ rs \in SUBSET Rules
      BY NewPolicy, ManyRules
    <3> HIDE DEF row, i, t
    <3> QED
      BY <3>1, <3>2, <3>3, <3>4, TemplateWrite
  <2> QED
    BY <1>3, <2>1, <2>2, <2>3 DEF Template, Starts
<1> QED
  BY <1>1, <1>2, <1>3

-----------------------------------------------------------------------------
(* TrafficRuleGroupService *)

\* A new group.
LEMMA GroupSaved ==
  ASSUME db \in Store, NEW p \in Policies, NEW owner \in {"group", "builtin"}
  PROVE  NewGroup(p, owner) \in Store /\ NewGroup(p, owner).pools = db.pools
<1>1. [owner |-> owner, default |-> None, items |-> [k \in Keys |-> {}]] \in PolicyRow
  BY DEF PolicyRow
<1> QED
  BY <1>1, PolicySaved DEF NewGroup

\* Rule groups and their rules.
LEMMA GroupTyped ==
  ASSUME db \in Store, NEW h \in Handlers, Knows(db, pc[h], loc[h]), pc[h] \in Points,
         DOMAIN loc = Handlers, DOMAIN pc = Handlers,
         loc = [g \in Handlers |-> loc[g]], pc = [g \in Handlers |-> pc[g]],
         GroupRequest(h)
  PROVE  Typed(h)
<1> USE DEF Knows, Locals, Blank, Ids, Targets, EgressPoints, PolicyPoints, RulePoints,
            BindPoints, InboundPoints, TargetPoints
<1>0. {"builtinInsert", "seed", "policySave", "policyRead", "policyDelete", "ruleInsert",
       "groupRule", "ruleDelete", "ruleSave"} \subseteq Points
  BY DEF Points
<1>1. CASE GroupCreate(h)
  <2>1. PICK p \in NewId(db.policies) : Write(h, NewGroup(p, "group"))
    BY <1>1 DEF GroupCreate
  <2> QED
    BY <2>1, NewPolicy, GroupSaved, WriteElsewhere
<1>2. CASE EnsureBuiltinGroups(h)
  <2>1. CASE pc[h] = "idle"
    <3>1. Check(h, \A p \in Policies : Group(p) => db.policies[p].owner # "builtin",
                "builtinInsert", Blank)
      BY <1>2, <2>1 DEF EnsureBuiltinGroups
    <3>2. Knows(db, "builtinInsert", Blank)
      OBVIOUS
    <3> QED
      BY <1>0, <3>1, <3>2, CheckTyped
  <2>2. CASE pc[h] = "builtinInsert"
    <3>1. PICK p \in NewId(db.policies) :
            db' = NewGroup(p, "builtin") /\ Go(h, "seed", [Blank EXCEPT !.id = p])
      BY <1>2, <2>2 DEF EnsureBuiltinGroups, Starts
    <3>2. p \in Policies /\ db' \in Store /\ PoolsLast(db, db')
      BY <3>1, NewPolicy, GroupSaved DEF PoolsLast
    <3>3. Knows(db', "seed", [Blank EXCEPT !.id = p])
      BY <3>2
    <3> QED
      BY <1>0, <3>1, <3>2, <3>3 DEF Typed
  <2>3. CASE pc[h] = "seed" /\ Write(h, WithoutPolicy(db, loc[h].id))
    BY <2>3, WithoutPolicyTyped, WriteElsewhere
  <2>4. CASE pc[h] = "seed" /\ ~Write(h, WithoutPolicy(db, loc[h].id))
    <3>1. PICK r \in NewId(db.rules) :
            /\ db' = Inserted(db, {r}, [policy |-> loc[h].id, target |-> None])
            /\ UNCHANGED <<pc, loc>> \/ Done(h)
      BY <1>2, <2>4 DEF EnsureBuiltinGroups, Starts
    <3>2. {r} \in SUBSET Rules /\ loc[h].id \in Policies /\ None \in Targets \cup {None}
      BY <2>4, NewRule
    <3>3. db' \in Store /\ PoolsLast(db, db')
      BY <3>1, <3>2, RulesSaved DEF PoolsLast
    <3>4. CASE Done(h)
      BY <3>3, <3>4, Ends
    <3>5. CASE UNCHANGED <<pc, loc>>
      <4>1. Knows(db', pc[h], loc[h])
        BY <3>3, KnowsLasts
      <4>2. Go(h, pc[h], loc[h])
        BY <3>5 DEF Go
      <4> QED
        BY <3>3, <4>1, <4>2 DEF Typed
    <3> QED
      BY <3>1, <3>4, <3>5
  <2> QED
    BY <1>2, <2>1, <2>2, <2>3, <2>4 DEF EnsureBuiltinGroups, Starts
<1>3. CASE GroupUpdate(h)
  <2>1. PICK p \in Policies :
          \/ Check(h, Group(p), "policySave", [Blank EXCEPT !.id = p, !.row = db.policies[p]])
          \/ Check(h, Group(p), "policyRead", [Blank EXCEPT !.id = p])
    BY <1>3 DEF GroupUpdate
  <2>2. Group(p) => Knows(db, "policySave", [Blank EXCEPT !.id = p, !.row = db.policies[p]])
    BY Rows DEF Group
  <2>3. Knows(db, "policyRead", [Blank EXCEPT !.id = p])
    OBVIOUS
  <2> QED
    BY <1>0, <2>1, <2>2, <2>3, CheckTyped
<1>4. CASE GroupDelete(h)
  <2>1. PICK p \in Policies :
          Check(h, Group(p) /\ db.policies[p].owner = "group", "policyDelete",
                [Blank EXCEPT !.id = p])
    BY <1>4 DEF GroupDelete
  <2>2. Knows(db, "policyDelete", [Blank EXCEPT !.id = p])
    OBVIOUS
  <2> QED
    BY <1>0, <2>1, <2>2, CheckTyped
<1>5. CASE AddDomainRule(h)
  <2>1. PICK p \in Policies : Check(h, Group(p), "ruleInsert", [Blank EXCEPT !.id = p])
    BY <1>5 DEF AddDomainRule
  <2>2. Knows(db, "ruleInsert", [Blank EXCEPT !.id = p])
    OBVIOUS
  <2> QED
    BY <1>0, <2>1, <2>2, CheckTyped
<1>6. CASE ChangeDomainRule(h)
  <2>1. CASE pc[h] = "idle"
    <3>1. PICK p \in Policies : \E r \in RulesOf(db, p) :
            Check(h, Group(p), "groupRule", [Blank EXCEPT !.id = r, !.arg = p])
      BY <1>6, <2>1 DEF ChangeDomainRule
    <3>2. PICK r \in RulesOf(db, p) :
            Check(h, Group(p), "groupRule", [Blank EXCEPT !.id = r, !.arg = p])
      BY <3>1
    <3>3. Knows(db, "groupRule", [Blank EXCEPT !.id = r, !.arg = p])
      BY DEF RulesOf
    <3> QED
      BY <1>0, <3>2, <3>3, CheckTyped
  <2>2. CASE pc[h] = "groupRule"
    <3> DEFINE row == db.rules[loc[h].id]
               found == row # None /\ row.policy = loc[h].arg
               l == [loc[h] EXCEPT !.row = row, !.arg = IF found THEN row.target ELSE @]
    <3>1. Check(h, found, "ruleDelete", loc[h]) \/ Check(h, found, "ruleSave", l)
      BY <1>6, <2>2 DEF ChangeDomainRule, Starts
    <3>2. found => row \in RuleRow /\ row.target \in Targets \cup {None}
      BY <2>2, Rows DEF RuleRow
    <3>3. Knows(db, "ruleDelete", loc[h]) /\ (found => Knows(db, "ruleSave", l))
      BY <2>2, <3>2
    <3> HIDE DEF found, l
    <3> QED
      BY <1>0, <3>1, <3>3, CheckTyped
  <2> QED
    BY <1>6, <2>1, <2>2 DEF ChangeDomainRule, Starts
<1> QED
  BY <1>1, <1>2, <1>3, <1>4, <1>5, <1>6 DEF GroupRequest

-----------------------------------------------------------------------------
(* RuleService *)

\* A default changed.
LEMMA DefaultSaved ==
  ASSUME db \in Store, NEW p \in Policies, db.policies[p] \in PolicyRow,
         NEW t \in Targets \cup {None}
  PROVE  LET d == [db EXCEPT !.policies[p].default = t]
         IN  d \in Store /\ d.pools = db.pools
<1>1. [db.policies[p] EXCEPT !.default = t] \in PolicyRow
  BY DEF PolicyRow
<1> QED
  BY <1>1 DEF Store

\* Rows of a policy retargeted.
LEMMA RetargetSaved ==
  ASSUME db \in Store, NEW p \in Policies, NEW rs \in SUBSET RulesOf(db, p), NEW e \in Egresses
  PROVE  Retargeted(db, rs, e) \in Store /\ Retargeted(db, rs, e).pools = db.pools
                                         /\ Retargeted(db, rs, e).policies = db.policies
<1>1. rs \subseteq RulesOf(db, p)
  OBVIOUS
<1>2. Rerouted(db, Retargeted(db, rs, e), p, rs, e)
  BY <1>1, RetargetedRules
<1> QED
  BY <1>2 DEF Rerouted

\* The policies a creation may work on.
LEMMA ExecutionTyped ==
  ASSUME db \in Store, NEW i \in Inbounds, NEW x \in ExecutionPolicies(i)
  PROVE  x[1] \in Policies /\ x[2] \in PolicyRow
<1>1. CASE db.bindings[i] = None
  <2>1. PICK p \in NewId(db.policies) :
          x = <<p, [owner |-> "exec", default |-> None, items |-> [k \in Keys |-> {}]]>>
    BY <1>1 DEF ExecutionPolicies
  <2> QED
    BY <2>1, NewPolicy DEF PolicyRow
<1>2. CASE db.bindings[i] # None
  <2> DEFINE p == db.bindings[i]
  <2>1. x = <<p, Converted(p)>> /\ Simple(p)
    BY <1>2 DEF ExecutionPolicies
  <2>2. p \in Policies /\ db.policies[p] \in PolicyRow
    BY <2>1, <1>2, Rows DEF Simple
  <2>3. Converted(p) \in PolicyRow
    BY <2>2 DEF Converted, PolicyRow, RulesOf
  <2> HIDE DEF p
  <2> QED
    BY <2>1, <2>2, <2>3
<1> QED
  BY <1>1, <1>2

\* CreateSimpleRule.
LEMMA CreateTyped ==
  ASSUME db \in Store, reissued \in BOOLEAN, NEW h \in Handlers, SimpleCreate(h)
  PROVE  Typed(h) /\ reissued' \in BOOLEAN
<1>a. ASSUME NEW d \in Store, d.pools = db.pools, NEW new, Issue(h, d, new)
      PROVE  Typed(h) /\ reissued' \in BOOLEAN
  BY <1>a, Ends DEF Issue, PoolsLast
<1>1. PICK i \in db.inbounds, e \in db.egresses : \E x \in ExecutionPolicies(i) :
        LET p == x[1]
            row == x[2]
            new == {p} \ Present(db.policies)
            Policy(r) == [db EXCEPT !.policies[p] = r, !.bindings[i] = p]
        IN  \/ /\ row.default \notin Egresses
               /\ Issue(h, Policy([row EXCEPT !.default = e]), new)
            \/ \E k \in Keys : \E rs \in NewRules(IF k \in Custom THEN 1 ELSE MaxSnapshot) :
                 /\ row.items[k] = {} /\ KeepsDefault(row)
                 /\ Issue(h, Inserted(Policy([row EXCEPT !.items[k] = rs]), rs,
                                      [policy |-> p, target |-> e]),
                          new \cup rs)
  BY DEF SimpleCreate
<1>2. PICK x \in ExecutionPolicies(i) :
        LET p == x[1]
            row == x[2]
            new == {p} \ Present(db.policies)
            Policy(r) == [db EXCEPT !.policies[p] = r, !.bindings[i] = p]
        IN  \/ /\ row.default \notin Egresses
               /\ Issue(h, Policy([row EXCEPT !.default = e]), new)
            \/ \E k \in Keys : \E rs \in NewRules(IF k \in Custom THEN 1 ELSE MaxSnapshot) :
                 /\ row.items[k] = {} /\ KeepsDefault(row)
                 /\ Issue(h, Inserted(Policy([row EXCEPT !.items[k] = rs]), rs,
                                      [policy |-> p, target |-> e]),
                          new \cup rs)
  BY <1>1
<1> DEFINE p == x[1]
           row == x[2]
           ids == {p} \ Present(db.policies)
           Policy(r) == [db EXCEPT !.policies[p] = r, !.bindings[i] = p]
<1>3. i \in Inbounds /\ e \in Egresses
  BY Fields
<1>4. p \in Policies /\ row \in PolicyRow
  BY <1>3, ExecutionTyped
<1>5. ASSUME NEW r \in PolicyRow PROVE Policy(r) \in Store /\ Policy(r).pools = db.pools
  BY <1>3, <1>4, <1>5 DEF Store
<1>6. CASE Issue(h, Policy([row EXCEPT !.default = e]), ids)
  <2>1. [row EXCEPT !.default = e] \in PolicyRow
    BY <1>3, <1>4 DEF PolicyRow, Targets
  <2> QED
    BY <1>a, <1>5, <1>6, <2>1
<1>7. ASSUME NEW k \in Keys, NEW rs \in NewRules(IF k \in Custom THEN 1 ELSE MaxSnapshot),
             Issue(h, Inserted(Policy([row EXCEPT !.items[k] = rs]), rs,
                               [policy |-> p, target |-> e]),
                   ids \cup rs)
      PROVE  Typed(h) /\ reissued' \in BOOLEAN
  <2>1. rs \in SUBSET Rules
    BY ManyRules
  <2>2. [row EXCEPT !.items[k] = rs] \in PolicyRow
    BY <1>4, <2>1 DEF PolicyRow
  <2> DEFINE c == Policy([row EXCEPT !.items[k] = rs])
             d == Inserted(c, rs, [policy |-> p, target |-> e])
  <2>3. c \in Store /\ c.pools = db.pools
    BY <1>5, <2>2
  <2>4. Issue(h, d, ids \cup rs)
    BY <1>7
  <2> HIDE DEF c
  <2>5. d \in Store /\ d.pools = db.pools
    BY <1>3, <1>4, <2>1, <2>3, RulesSaved DEF Targets
  <2> HIDE DEF d
  <2> QED
    BY <1>a, <2>4, <2>5
<1> QED
  BY <1>2, <1>6, <1>7

\* UpdateSimpleRule, updateLegacySimpleRule.
LEMMA UpdateTyped ==
  ASSUME db \in Store, NEW h \in Handlers, SimpleUpdate(h) \/ LegacyUpdate(h)
  PROVE  Typed(h)
<1>1. CASE SimpleUpdate(h)
  <2>1. PICK p \in Policies, e \in db.egresses :
          /\ Selected(p) /\ db.policies[p].owner = "exec"
          /\ \/ /\ db.policies[p].default \in Egresses
                /\ Write(h, [db EXCEPT !.policies[p].default = e])
             \/ \E k \in Keys \ Custom :
                  ItemIntact(p, k) /\ Write(h, RetargetItem(p, k, e))
             \/ \E k, l \in Custom :
                  /\ ItemIntact(p, k) /\ KeepsDefault(db.policies[p])
                  /\ l = k \/ db.policies[p].items[l] = {}
                  /\ Write(h, [RetargetItem(p, k, e)
                                 EXCEPT !.policies[p].items[k] = {},
                                        !.policies[p].items[l] = db.policies[p].items[k]])
    BY <1>1 DEF SimpleUpdate
  <2>2. db.policies[p] \in PolicyRow /\ e \in Egresses /\ e \in Targets \cup {None}
    BY <2>1, Rows, Fields DEF Selected, Simple, Targets
  <2>3. ASSUME NEW k, ItemIntact(p, k)
        PROVE  /\ RetargetItem(p, k, e) \in Store /\ RetargetItem(p, k, e).pools = db.pools
               /\ RetargetItem(p, k, e).policies = db.policies
    BY <2>2, <2>3, RetargetSaved DEF ItemIntact, RetargetItem
  <2>4. CASE Write(h, [db EXCEPT !.policies[p].default = e])
    BY <2>2, <2>4, DefaultSaved, WriteElsewhere
  <2>5. ASSUME NEW k, ItemIntact(p, k), Write(h, RetargetItem(p, k, e)) PROVE Typed(h)
    BY <2>3, <2>5, WriteElsewhere
  <2>6. ASSUME NEW k \in Custom, NEW l \in Custom, ItemIntact(p, k),
               Write(h, [RetargetItem(p, k, e)
                           EXCEPT !.policies[p].items[k] = {},
                                  !.policies[p].items[l] = db.policies[p].items[k]])
        PROVE  Typed(h)
    <3> DEFINE c == RetargetItem(p, k, e)
               rs == db.policies[p].items[k]
               row == [[db.policies[p] EXCEPT !.items[k] = {}] EXCEPT !.items[l] = rs]
               d == [c EXCEPT !.policies[p].items[k] = {}, !.policies[p].items[l] = rs]
    <3>1. c \in Store /\ c.pools = db.pools /\ c.policies = db.policies
      BY <2>3, <2>6
    <3>2. k \in Keys /\ l \in Keys
      BY IdAssumption
    <3>3. row \in PolicyRow
      BY <2>2, <3>2 DEF PolicyRow
    <3> HIDE DEF c
    <3>4. d = [c EXCEPT !.policies[p] = row]
      <4>1. c.policies \in [Policies -> PolicyRow \cup {None}]
            /\ c.policies[p] = db.policies[p]
        BY <3>1, Fields
      <4>2. [[c.policies EXCEPT ![p].items[k] = {}] EXCEPT ![p].items[l] = rs]
            = [c.policies EXCEPT ![p] = row]
        BY <4>1
      <4> QED
        BY <3>1, <4>2 DEF Store
    <3> HIDE DEF row
    <3>5. d \in Store /\ d.pools = db.pools
      BY <3>1, <3>3, <3>4, PolicySaved
    <3> QED
      BY <2>6, <3>5, WriteElsewhere DEF c
  <2> QED
    BY <2>1, <2>4, <2>5, <2>6
<1>2. CASE LegacyUpdate(h)
  <2>1. PICK p \in Policies, e \in db.egresses :
          /\ Selected(p)
          /\ Write(h, IF LegacyKey = All THEN [db EXCEPT !.policies[p].default = e]
                                         ELSE Retargeted(db, RulesOf(db, p), e))
    BY <1>2 DEF LegacyUpdate
  <2>2. db.policies[p] \in PolicyRow /\ e \in Egresses /\ e \in Targets \cup {None}
    BY <2>1, Rows, Fields DEF Selected, Simple, Targets
  <2>3. CASE Write(h, [db EXCEPT !.policies[p].default = e])
    BY <2>2, <2>3, DefaultSaved, WriteElsewhere
  <2>4. CASE Write(h, Retargeted(db, RulesOf(db, p), e))
    BY <2>2, <2>4, RetargetSaved, WriteElsewhere
  <2> QED
    BY <2>1, <2>3, <2>4
<1> QED
  BY <1>1, <1>2

\* What is left of a policy, or nothing.
LEMMA CleanupTyped ==
  ASSUME NEW h, NEW d \in Store, d.pools = db.pools, NEW p, Write(h, Cleanup(d, p))
  PROVE  Typed(h)
<1>1. Cleanup(d, p) \in {d, WithoutPolicy(d, p)}
  BY DEF Cleanup
<1> QED
  BY <1>1, WithoutPolicyTyped, WriteElsewhere

\* DeleteSimpleRule.
LEMMA DeleteTyped ==
  ASSUME db \in Store, NEW h \in Handlers, SimpleDelete(h)
  PROVE  Typed(h)
<1>1. PICK p \in Policies :
        /\ Selected(p)
        /\ LET row == db.policies[p]
               legacy == row.owner = "legacy"
           IN  \/ legacy /\ Write(h, WithoutPolicy(db, p))
               \/ /\ ~legacy /\ row.default \in Egresses
                  /\ Write(h, Cleanup([db EXCEPT !.policies[p].default = None], p))
               \/ \E k \in Keys :
                    /\ ~legacy /\ ItemIntact(p, k) /\ KeepsDefault(row)
                    /\ Write(h, Cleanup([db EXCEPT
                           !.policies[p].items[k] = {},
                           !.rules = [r \in Rules |-> IF r \in row.items[k] THEN None ELSE @[r]]],
                         p))
  BY DEF SimpleDelete
<1> DEFINE row == db.policies[p]
<1>2. row \in PolicyRow
  BY <1>1, Rows DEF Selected, Simple
<1>3. CASE Write(h, WithoutPolicy(db, p))
  BY <1>3, WithoutPolicyTyped, WriteElsewhere
<1>4. CASE Write(h, Cleanup([db EXCEPT !.policies[p].default = None], p))
  BY <1>2, <1>4, DefaultSaved, CleanupTyped
<1>5. ASSUME NEW k \in Keys,
             Write(h, Cleanup([db EXCEPT
                  !.policies[p].items[k] = {},
                  !.rules = [r \in Rules |-> IF r \in row.items[k] THEN None ELSE @[r]]], p))
      PROVE  Typed(h)
  <2> DEFINE d == [db EXCEPT
                     !.policies[p].items[k] = {},
                     !.rules = [r \in Rules |-> IF r \in row.items[k] THEN None ELSE @[r]]]
  <2>1. [row EXCEPT !.items[k] = {}] \in PolicyRow
    BY <1>2 DEF PolicyRow
  <2>2. d \in Store /\ d.pools = db.pools
    BY <2>1 DEF Store
  <2> QED
    BY <1>5, <2>2, CleanupTyped
<1> QED
  BY <1>1, <1>3, <1>4, <1>5

-----------------------------------------------------------------------------
(* All steps together *)

\* One step of one request.
LEMMA NextTyped ==
  ASSUME TypeInv, NEW h \in Handlers,
         \/ SimpleRequest(h) \/ AdvancedRequest(h) \/ GroupRequest(h) \/ EgressRequest(h)
         \/ AddInbound(h) \/ DelInbound(h) \/ Fails(h)
  PROVE  Typed(h) /\ reissued' \in BOOLEAN
<1>1. /\ db \in Store /\ Knows(db, pc[h], loc[h]) /\ reissued \in BOOLEAN
      /\ pc[h] \in Points /\ pc = [g \in Handlers |-> pc[g]]
      /\ DOMAIN pc = Handlers /\ DOMAIN loc = Handlers /\ loc = [g \in Handlers |-> loc[g]]
  BY DEF TypeInv
<1>2. CASE SimpleCreate(h)
  BY <1>1, <1>2, CreateTyped
<1>3. CASE ~SimpleCreate(h)
  <2>1. \/ SimpleUpdate(h) \/ LegacyUpdate(h) \/ SimpleDelete(h)
        \/ AdvancedRequest(h) \/ GroupRequest(h) \/ EgressRequest(h)
        \/ AddInbound(h) \/ DelInbound(h) \/ Fails(h)
    BY <1>3 DEF SimpleRequest
  <2>2. reissued' = reissued
    BY <2>1, OthersIssueNone
  <2>3. AdvancedRequest(h) => Typed(h)
    BY <1>1, PolicyTyped, RuleTyped, BindingTyped DEF AdvancedRequest
  <2>4. GroupRequest(h) => Typed(h)
    BY <1>1, GroupTyped
  <2>5. Fails(h) => Typed(h)
    BY <1>1, Ends DEF Fails, PoolsLast
  <2> QED
    BY <1>1, <2>1, <2>2, <2>3, <2>4, <2>5, UpdateTyped, DeleteTyped, EgressTyped, InboundTyped
<1> QED
  BY <1>2, <1>3

\* The tables, the program counters and the locals keep their types, under every
\* interleaving of the requests' statements and whoever gets a reissued id: what a handler
\* Saves is a row, a row names rows of the right table, and an item of a remark lists rows
\* of the rules table.
THEOREM TypeCorrect == Spec => []TypeOK
<1>1. Init => TypeInv
  <2> SUFFICES ASSUME Init PROVE TypeInv
    OBVIOUS
  <2>1. IInv
    BY IInvInit
  <2> QED
    BY <2>1 DEF Init, IInv, StoreInv, HandlersInv, LocInv, TypeInv
<1>2. TypeInv /\ [Next]_vars => TypeInv'
  <2> SUFFICES ASSUME TypeInv, [Next]_vars PROVE TypeInv'
    OBVIOUS
  <2>1. CASE UNCHANGED vars
    BY <2>1 DEF vars, TypeInv
  <2>2. CASE Next
    <3>1. PICK h \in Handlers : Typed(h) /\ reissued' \in BOOLEAN
      BY <2>2, NextTyped DEF Next
    <3>2. PICK point \in Points : \E l : Knows(db', point, l) /\ Go(h, point, l)
      BY <3>1 DEF Typed
    <3>3. PICK l : Knows(db', point, l) /\ Go(h, point, l)
      BY <3>2
    <3>4. pc' = [pc EXCEPT ![h] = point] /\ loc' = [loc EXCEPT ![h] = l]
      BY <3>3 DEF Go
    <3>5. /\ pc' \in [Handlers -> Points]
          /\ DOMAIN loc' = Handlers /\ loc' = [g \in Handlers |-> loc'[g]]
      BY <3>4 DEF TypeInv
    <3>6. ASSUME NEW g \in Handlers PROVE Knows(db', pc'[g], loc'[g])
      <4>1. CASE g = h
        BY <3>3, <3>4, <4>1 DEF TypeInv
      <4>2. CASE g # h
        <5>1. Knows(db, pc[g], loc[g]) /\ pc'[g] = pc[g] /\ loc'[g] = loc[g]
          BY <3>4, <4>2 DEF TypeInv
        <5> QED
          BY <3>1, <5>1, KnowsLasts DEF Typed
      <4> QED
        BY <4>1, <4>2
    <3> QED
      BY <3>1, <3>5, <3>6 DEF Typed, TypeInv
  <2> QED
    BY <2>1, <2>2
<1>3. TypeInv => TypeOK
  <2> SUFFICES ASSUME TypeInv PROVE TypeOK
    OBVIOUS
  <2>1. loc \in [Handlers -> Locals]
    BY DEF TypeInv, Knows
  <2> QED
    BY <2>1 DEF TypeInv, TypeOK, Locals
<1> QED
  BY <1>1, <1>2, <1>3, PTL DEF Spec
=============================================================================
