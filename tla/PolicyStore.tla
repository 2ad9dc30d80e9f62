----------------------------- MODULE PolicyStore -----------------------------
(***************************************************************************)
(* The tables of the N5 extension and the requests that change them at the *)
(* same time.                                                              *)
(*                                                                         *)
(* Egresses, egress pools, traffic policies, their rules and the bindings  *)
(* of inbounds to policies have no foreign keys: every handler checks by   *)
(* queries of its own what it is about to refer to or to delete, and then  *)
(* writes in another statement.  Each query, each single write and each    *)
(* transaction is one step here, and the requests interleave.              *)
(*                                                                         *)
(* Two modes share the tables.  The advanced pages edit ordinary policies. *)
(* The simple page owns the policies whose remark starts with              *)
(* "n5-simple-exec|" (or "n5-simple|", an older format it converts): the   *)
(* remark lists, per kind of traffic, the rows of the rules table that     *)
(* implement it.  Rule groups are policies too, with the remark            *)
(* "n5-simple-group|": lists of matchers that nobody is bound to and the   *)
(* simple page copies from.  The advanced pages take them for ordinary     *)
(* policies.                                                               *)
(*                                                                         *)
(* A handler knows the rows it has checked by their ids, and SQLite hands  *)
(* the largest id of a table out again once its row is deleted.  reissued  *)
(* remembers that a simple creation was given an id that somebody still    *)
(* named: what is promised of simple state holds until then.               *)
(***************************************************************************)
EXTENDS Naturals, FiniteSets

CONSTANTS
  Egresses, Pools, Policies, Rules,  \* row ids of the four tables
  Inbounds,     \* ids of inbounds
  Keys,         \* simpleExecutionItemKey: rule groups and custom domains
  Custom,       \* the keys that are custom domains
  All,          \* the key of the rule for all traffic, the policy's default
  LegacyKey,    \* the traffic of the policies in the older format
  None,
  Handlers,     \* goroutines that serve requests
  Kinds,        \* which requests arrive in this run
  MaxSnapshot   \* bound on the rules of a rule group or template

Targets == Egresses \cup Pools
Ids == Egresses \cup Pools \cup Policies \cup Rules

\* Rows.  Names, protocols, matchers, weights and the enabled flags are left out.
PolicyRow == [owner : {"ordinary", "builtin", "group", "exec", "legacy"},
              default : Targets \cup {None},
              items : [Keys -> SUBSET Rules]]
RuleRow == [policy : Policies, target : Targets \cup {None}]
PoolRow == [members : SUBSET Egresses, fallback : Targets \cup {None}]

Store == [egresses : SUBSET Egresses,
          pools : [Pools -> PoolRow \cup {None}],
          policies : [Policies -> PolicyRow \cup {None}],
          rules : [Rules -> RuleRow \cup {None}],
          bindings : [Inbounds -> Policies \cup {None}],
          inbounds : SUBSET Inbounds]

\* What a handler will do next.
Points == {"idle",
           "egressSave", "countRules", "countMembers", "countFallbacks", "egressDelete",
           "poolInsert", "memberInsert",
           "policyInsert", "policyTarget", "policySave", "policyRead", "policyDelete",
           "ruleTarget", "ruleInsert", "ruleRead", "ruleRetarget", "ruleSave",
           "ruleEnable", "ruleDelete",
           "bindInbound", "bindExists", "bindCount", "bind", "unbindExists", "unbind",
           "templateTarget", "template",
           "builtinInsert", "seed", "groupRule"}

AllKinds == {"egress", "pool", "policy", "rule", "binding", "template", "simple",
             "inbound", "group"}

\* An id tells its table: a pool and an egress may both be a target, and what a
\* handler holds is never taken for the id of another table.
ASSUME IdAssumption ==
  /\ Policies \cup Rules \subseteq Nat
  /\ Egresses \cap Pools = {} /\ Policies \cap Rules = {}
  /\ Targets \cap (Policies \cup Rules) = {}
  /\ None \notin Ids \cup Inbounds
  /\ None \notin PolicyRow /\ None \notin RuleRow /\ None \notin PoolRow
  /\ All \notin Keys
  /\ Custom \subseteq Keys
  /\ LegacyKey \in Keys \cup {All}

ASSUME BoundAssumption == Kinds \subseteq AllKinds /\ MaxSnapshot \in Nat

VARIABLES
  db,       \* the tables
  pc,       \* what every handler does next
  loc,      \* its locals: the row id it is about, a second id, the record it read
  reissued  \* history: the simple page got an id that was still named

vars == <<db, pc, loc, reissued>>

-----------------------------------------------------------------------------
(* Reading the tables *)

Blank == [id |-> None, arg |-> None, row |-> None]

\* validateTarget, Get: is there such an egress or pool?
Exists(t) == t \in db.egresses \/ (t \in Pools /\ db.pools[t] # None)

\* isSimpleManagedTrafficPolicyRemark, ensurePolicyOrdinary.
Simple(p) == db.policies[p] # None /\ db.policies[p].owner \in {"exec", "legacy"}

\* Mutant: any policy will do.
AnyPolicy(p) == db.policies[p] # None

Ordinary(p) == db.policies[p] # None /\ ~Simple(p)

\* Mutant: the rule is there; its policy is not looked at.
AnyRule(r) == db.rules[r] # None

\* ensureRulePolicyOrdinary: the rule's row, then the policy it belongs to.
OrdinaryRule(r) == db.rules[r] # None /\ Ordinary(db.rules[r].policy)

\* Mutant: the present binding is not looked at.
AnyBinding(i) == TRUE

\* ensureInboundBindingOrdinary: no binding, or to an ordinary policy.
OrdinaryBinding(i) == db.bindings[i] = None \/ Ordinary(db.bindings[i])

\* getGroupPolicy: there is such a policy and its remark is a rule group's.
Group(p) == db.policies[p] # None /\ db.policies[p].owner \in {"builtin", "group"}

RulesOf(d, p) == {r \in Rules : d.rules[r] # None /\ d.rules[r].policy = p}

-----------------------------------------------------------------------------
(* New ids.  The driver (gorm.io/driver/sqlite v1.1.4) declares a primary key as a *)
(* plain INTEGER PRIMARY KEY whatever the tag says, and SQLite gives a new row the *)
(* id after the largest present one.  For policies and rules this is so here; a    *)
(* new egress, pool or inbound may get any free id.                                *)

Present(table) == {x \in DOMAIN table : table[x] # None}

\* The ids above those of the rows that are there.
Above(table) == {x \in DOMAIN table : \A y \in Present(table) : y < x}

\* The id of the next row, if the bound on the ids leaves one.
NewId(table) == {x \in Above(table) : \A y \in Above(table) : x <= y}

\* Ids for up to n new rows of the rules table, one transaction inserting them.
NewRules(n) ==
  {rs \in SUBSET Above(db.rules) :
     /\ Cardinality(rs) \in 1..n
     /\ \A x \in rs, y \in Above(db.rules) : y < x => y \in rs}

-----------------------------------------------------------------------------
(* Writing the tables *)

\* Mutant: the rules stay behind.
PolicyAlone(d, p) ==
  [d EXCEPT !.policies[p] = None,
            !.bindings = [i \in Inbounds |-> IF @[i] = p THEN None ELSE @[i]]]

\* DeletePolicy: its rules and bindings go in the same transaction.
WithoutPolicy(d, p) ==
  [d EXCEPT !.policies[p] = None,
            !.rules = [r \in Rules |-> IF r \in RulesOf(d, p) THEN None ELSE @[r]],
            !.bindings = [i \in Inbounds |-> IF @[i] = p THEN None ELSE @[i]]]

Retargeted(d, rs, e) ==
  [d EXCEPT !.rules = [r \in Rules |-> IF r \in rs THEN [@[r] EXCEPT !.target = e]
                                                   ELSE @[r]]]

Inserted(d, rs, row) ==
  [d EXCEPT !.rules = [r \in Rules |-> IF r \in rs THEN row ELSE @[r]]]

-----------------------------------------------------------------------------
(* The steps of a handler *)

Starts(h, kind) == pc[h] = "idle" /\ kind \in Kinds

Go(h, point, l) == /\ pc' = [pc EXCEPT ![h] = point]
                   /\ loc' = [loc EXCEPT ![h] = l]

Done(h) == Go(h, "idle", Blank)

\* A query whose answer decides whether the request goes on.
Check(h, ok, point, l) ==
  /\ IF ok THEN Go(h, point, l) ELSE Done(h)
  /\ UNCHANGED <<db, reissued>>

Write(h, d) == db' = d /\ Done(h) /\ UNCHANGED reissued

\* validateTarget on the target of the request, then on to point.
Validate(h, l, point) ==
  /\ \E t \in Targets : Exists(t) /\ Go(h, point, [l EXCEPT !.arg = t])
  /\ UNCHANGED <<db, reissued>>

\* A query or write fails ("database is locked"), the target is not there, or
\* the request is malformed: the handler returns the error, having done nothing.
Fails(h) == pc[h] # "idle" /\ Done(h) /\ UNCHANGED <<db, reissued>>

-----------------------------------------------------------------------------
(* EgressService *)

\* Create, one transaction.
EgressCreate(h) ==
  /\ Starts(h, "egress")
  /\ \E e \in Egresses \ db.egresses : Write(h, [db EXCEPT !.egresses = @ \cup {e}])

\* Update: read the row, test the new configuration, Save.  Save inserts the row
\* again when it has gone meanwhile.
EgressUpdate(h) ==
  \/ /\ Starts(h, "egress")
     /\ \E e \in db.egresses : Check(h, TRUE, "egressSave", [Blank EXCEPT !.id = e])
  \/ /\ pc[h] = "egressSave"
     /\ Write(h, [db EXCEPT !.egresses = @ \cup {loc[h].id}])

\* The four counts of ensureNotReferenced.
UsedByPolicy(e) == \E p \in Policies : db.policies[p] # None /\ db.policies[p].default = e
UsedByRule(e) == \E r \in Rules : db.rules[r] # None /\ db.rules[r].target = e
UsedByMember(e) == \E q \in Pools : db.pools[q] # None /\ e \in db.pools[q].members

\* Mutant: pool fallbacks are not counted.
UsedByNoFallback(e) == FALSE

UsedByFallback(e) == \E q \in Pools : db.pools[q] # None /\ db.pools[q].fallback = e

\* Delete: four counts, then the row.
EgressDelete(h) ==
  \/ /\ Starts(h, "egress")
     /\ \E e \in Egresses :
          Check(h, ~UsedByPolicy(e), "countRules", [Blank EXCEPT !.id = e])
  \/ /\ pc[h] = "countRules"
     /\ Check(h, ~UsedByRule(loc[h].id), "countMembers", loc[h])
  \/ /\ pc[h] = "countMembers"
     /\ Check(h, ~UsedByMember(loc[h].id), "countFallbacks", loc[h])
  \/ /\ pc[h] = "countFallbacks"
     /\ Check(h, ~UsedByFallback(loc[h].id), "egressDelete", loc[h])
  \/ /\ pc[h] = "egressDelete"
     /\ Write(h, [db EXCEPT !.egresses = @ \ {loc[h].id}])

-----------------------------------------------------------------------------
(* EgressPoolService; pools are never deleted *)

PoolCreate(h) ==
  \/ Starts(h, "pool") /\ Validate(h, Blank, "poolInsert")
  \/ Starts(h, "pool") /\ Check(h, TRUE, "poolInsert", Blank)
  \/ /\ pc[h] = "poolInsert"
     /\ \E q \in Pools \ Present(db.pools) :
          Write(h, [db EXCEPT !.pools[q] = [members |-> {}, fallback |-> loc[h].arg]])

\* Mutant: a pool may be a member, as it may be a fallback.
AddAnyMember(h) ==
  \/ /\ Starts(h, "pool")
     /\ \E q \in Pools, t \in Targets :
          /\ db.pools[q] # None
          /\ Check(h, Exists(t), "memberInsert", [Blank EXCEPT !.id = q, !.arg = t])
  \/ /\ pc[h] = "memberInsert"
     /\ Write(h, [db EXCEPT !.pools[loc[h].id].members = @ \cup {loc[h].arg}])

AddMember(h) ==
  \/ /\ Starts(h, "pool")
     /\ \E q \in Pools, e \in Egresses :
          /\ db.pools[q] # None
          /\ Check(h, e \in db.egresses, "memberInsert", [Blank EXCEPT !.id = q, !.arg = e])
  \/ /\ pc[h] = "memberInsert"
     /\ Write(h, [db EXCEPT !.pools[loc[h].id].members = @ \cup {loc[h].arg}])

RemoveMember(h) ==
  /\ Starts(h, "pool")
  /\ \E q \in Pools, e \in Egresses :
       /\ db.pools[q] # None
       /\ Write(h, [db EXCEPT !.pools[q].members = @ \ {e}])
-----------------------------------------------------------------------------
(* TrafficPolicyService, as the advanced pages call it *)

\* CreatePolicyFromAdvanced: an ordinary remark, a valid default or none.
PolicyCreate(h) ==
  \/ Starts(h, "policy") /\ Validate(h, Blank, "policyInsert")
  \/ Starts(h, "policy") /\ Check(h, TRUE, "policyInsert", Blank)
  \/ /\ pc[h] = "policyInsert"
     /\ \E p \in NewId(db.policies) :
          Write(h, [db EXCEPT !.policies[p] = [owner |-> "ordinary", default |-> loc[h].arg,
                                               items |-> [k \in Keys |-> {}]]])

\* UpdatePolicyFromAdvanced: read the row and its owner (UpdatePolicy reads and
\* tests the same again), validate the default, Save the whole row.  The form has
\* the remark: a rule group becomes an ordinary policy when it is changed.
PolicyUpdate(h) ==
  \/ /\ Starts(h, "policy")
     /\ \E p \in Policies :
          \/ Check(h, Ordinary(p), "policyTarget",
                   [Blank EXCEPT !.id = p, !.row = db.policies[p]])
          \/ /\ Ordinary(p)
             /\ Check(h, TRUE, "policyTarget",
                      [Blank EXCEPT !.id = p,
                                    !.row = [db.policies[p] EXCEPT !.owner = "ordinary"]])
  \/ pc[h] = "policyTarget" /\ Validate(h, loc[h], "policySave")
  \/ pc[h] = "policyTarget" /\ Check(h, TRUE, "policySave", loc[h])
  \/ /\ pc[h] = "policySave"
     /\ Write(h, [db EXCEPT !.policies[loc[h].id] = [loc[h].row EXCEPT !.default = loc[h].arg]])

\* EnablePolicyFromAdvanced, DisablePolicyFromAdvanced: the guard, then
\* updatePolicyEnabled reads the row and Saves all of it.
PolicyEnable(h) ==
  \/ /\ Starts(h, "policy")
     /\ \E p \in Policies : Check(h, Ordinary(p), "policyRead", [Blank EXCEPT !.id = p])
  \/ /\ pc[h] = "policyRead"
     /\ LET row == db.policies[loc[h].id]
        IN  Check(h, row # None, "policySave",
                  [loc[h] EXCEPT !.row = row, !.arg = IF row = None THEN None ELSE row.default])

\* DeletePolicyFromAdvanced: the guard, then the transaction.
PolicyDelete(h) ==
  \/ /\ Starts(h, "policy")
     /\ \E p \in Policies : Check(h, Ordinary(p), "policyDelete", [Blank EXCEPT !.id = p])
  \/ /\ pc[h] = "policyDelete"
     /\ IF db.policies[loc[h].id] # None
          THEN Write(h, WithoutPolicy(db, loc[h].id))
          ELSE Done(h) /\ UNCHANGED <<db, reissued>>

\* AddRuleFromAdvanced: owner and existence of the policy, the target, the row.
RuleAdd(h) ==
  \/ /\ Starts(h, "rule")
     /\ \E p \in Policies : Check(h, Ordinary(p), "ruleTarget", [Blank EXCEPT !.id = p])
  \/ pc[h] = "ruleTarget" /\ Validate(h, loc[h], "ruleInsert")
  \/ /\ pc[h] = "ruleInsert"
     /\ \E r \in NewId(db.rules) :
          Write(h, Inserted(db, {r}, [policy |-> loc[h].id, target |-> loc[h].arg]))

\* UpdateRuleFromAdvanced: the guard, the row again, the target, Save.
RuleUpdate(h) ==
  \/ /\ Starts(h, "rule")
     /\ \E r \in Rules : Check(h, OrdinaryRule(r), "ruleRead", [Blank EXCEPT !.id = r])
  \/ /\ pc[h] = "ruleRead"
     /\ LET row == db.rules[loc[h].id]
        IN  Check(h, row # None, "ruleRetarget", [loc[h] EXCEPT !.row = row])
  \/ pc[h] = "ruleRetarget" /\ Validate(h, loc[h], "ruleSave")
  \/ /\ pc[h] = "ruleSave"
     /\ Write(h, [db EXCEPT !.rules[loc[h].id] = [loc[h].row EXCEPT !.target = loc[h].arg]])

\* EnableRuleFromAdvanced, DisableRuleFromAdvanced: the guard, the row, Save.
RuleEnable(h) ==
  \/ /\ Starts(h, "rule")
     /\ \E r \in Rules : Check(h, OrdinaryRule(r), "ruleEnable", [Blank EXCEPT !.id = r])
  \/ /\ pc[h] = "ruleEnable"
     /\ LET row == db.rules[loc[h].id]
        IN  Check(h, row # None, "ruleSave",
                  [loc[h] EXCEPT !.row = row, !.arg = IF row = None THEN None ELSE row.target])

\* DeleteRuleFromAdvanced: the guard, then the row.
RuleDelete(h) ==
  \/ /\ Starts(h, "rule")
     /\ \E r \in Rules : Check(h, OrdinaryRule(r), "ruleDelete", [Blank EXCEPT !.id = r])
  \/ /\ pc[h] = "ruleDelete"
     /\ Write(h, [db EXCEPT !.rules[loc[h].id] = None])

\* RebindInboundPolicyFromAdvanced: four checks, then one transaction that
\* replaces the binding of the inbound.
Bind(h) ==
  \/ /\ Starts(h, "binding")
     /\ \E p \in Policies, i \in Inbounds :
          Check(h, Ordinary(p), "bindInbound", [Blank EXCEPT !.id = i, !.arg = p])
  \/ pc[h] = "bindInbound" /\ Check(h, OrdinaryBinding(loc[h].id), "bindExists", loc[h])
  \/ pc[h] = "bindExists" /\ Check(h, loc[h].id \in db.inbounds, "bindCount", loc[h])
  \/ pc[h] = "bindCount" /\ Check(h, db.policies[loc[h].arg] # None, "bind", loc[h])
  \/ pc[h] = "bind" /\ Write(h, [db EXCEPT !.bindings[loc[h].id] = loc[h].arg])

\* UnbindInboundPolicyFromAdvanced.
Unbind(h) ==
  \/ /\ Starts(h, "binding")
     /\ \E i \in Inbounds :
          Check(h, OrdinaryBinding(i), "unbindExists", [Blank EXCEPT !.id = i])
  \/ pc[h] = "unbindExists" /\ Check(h, loc[h].id \in db.inbounds, "unbind", loc[h])
  \/ pc[h] = "unbind" /\ Write(h, [db EXCEPT !.bindings[loc[h].id] = None])

\* TrafficTemplateService.Create: a policy, its rules, and the binding of the
\* inbound, whatever it was bound to.
Template(h) ==
  \/ /\ Starts(h, "template")
     /\ \E i \in Inbounds :
          Check(h, i \in db.inbounds, "templateTarget", [Blank EXCEPT !.id = i])
  \/ pc[h] = "templateTarget" /\ Validate(h, loc[h], "template")
  \/ /\ pc[h] = "template"
     /\ \E p \in NewId(db.policies), rs \in NewRules(MaxSnapshot) :
          LET row == [owner |-> "ordinary", default |-> loc[h].arg,
                      items |-> [k \in Keys |-> {}]]
          IN  Write(h, [Inserted(db, rs, [policy |-> p, target |-> loc[h].arg])
                          EXCEPT !.policies[p] = row,
                                 !.bindings[loc[h].id] = p])

-----------------------------------------------------------------------------
(* TrafficRuleGroupService.  From its first write on, a request that changes a *)
(* group goes through the same functions as an advanced one (UpdatePolicy,     *)
(* updatePolicyEnabled, DeletePolicy), or through the same statements.         *)

NewGroup(p, owner) == [db EXCEPT !.policies[p] = [owner |-> owner, default |-> None,
                                                  items |-> [k \in Keys |-> {}]]]

\* CreateGroup for the type "custom"; the others are refused once they are there.
GroupCreate(h) ==
  /\ Starts(h, "group")
  /\ \E p \in NewId(db.policies) : Write(h, NewGroup(p, "group"))

\* EnsureBuiltinGroups, at every look at the groups, for one of the built-in types:
\* look for the group, insert the policy, insert its rules one by one.  When one of
\* them fails, the policy goes again, with the rules it has by then.
EnsureBuiltinGroups(h) ==
  \/ /\ Starts(h, "group")
     /\ Check(h, \A p \in Policies : Group(p) => db.policies[p].owner # "builtin",
              "builtinInsert", Blank)
  \/ /\ pc[h] = "builtinInsert"
     /\ \E p \in NewId(db.policies) :
          /\ db' = NewGroup(p, "builtin")
          /\ Go(h, "seed", [Blank EXCEPT !.id = p])
          /\ UNCHANGED reissued
  \/ /\ pc[h] = "seed"
     /\ \E r \in NewId(db.rules) :
          /\ db' = Inserted(db, {r}, [policy |-> loc[h].id, target |-> None])
          /\ UNCHANGED <<pc, loc>> \/ Done(h)
          /\ UNCHANGED reissued
  \/ pc[h] = "seed" /\ db.policies[loc[h].id] # None /\ Write(h, WithoutPolicy(db, loc[h].id))

\* UpdateGroup clears the default; EnableGroup and DisableGroup read the row again.
GroupUpdate(h) ==
  /\ Starts(h, "group")
  /\ \E p \in Policies :
       \/ Check(h, Group(p), "policySave", [Blank EXCEPT !.id = p, !.row = db.policies[p]])
       \/ Check(h, Group(p), "policyRead", [Blank EXCEPT !.id = p])

\* DeleteGroup: not a built-in one.
GroupDelete(h) ==
  /\ Starts(h, "group")
  /\ \E p \in Policies :
       Check(h, Group(p) /\ db.policies[p].owner = "group", "policyDelete",
             [Blank EXCEPT !.id = p])

\* AddDomainRule: a rule without a target, next to those that are there.
AddDomainRule(h) ==
  /\ Starts(h, "group")
  /\ \E p \in Policies : Check(h, Group(p), "ruleInsert", [Blank EXCEPT !.id = p])

\* UpdateDomainRule, DeleteDomainRule: the group, then the rule in it; Save writes
\* back the target that was read.
ChangeDomainRule(h) ==
  \/ /\ Starts(h, "group")
     /\ \E p \in Policies : \E r \in RulesOf(db, p) :
          Check(h, Group(p), "groupRule", [Blank EXCEPT !.id = r, !.arg = p])
  \/ /\ pc[h] = "groupRule"
     /\ LET row == db.rules[loc[h].id]
            found == row # None /\ row.policy = loc[h].arg
        IN  \/ Check(h, found, "ruleDelete", loc[h])
            \/ Check(h, found, "ruleSave",
                     [loc[h] EXCEPT !.row = row, !.arg = IF found THEN row.target ELSE @])

-----------------------------------------------------------------------------
(* RuleService, the simple page: one transaction per request.  The inbound and *)
(* the egress are read before it and once more inside it (RebindInboundPolicy, *)
(* validateTarget), where no other request can commit any more.                *)

\* UpdatePolicy inside a simple request validates the default it keeps.
KeepsDefault(row) == row.default = None \/ Exists(row.default)

\* ensureSimpleExecutionPolicy on an existing policy: the older format becomes
\* one item that owns all its rules.
Converted(p) ==
  LET row == db.policies[p]
  IN  IF row.owner = "exec" THEN row
      ELSE [row EXCEPT !.owner = "exec",
                       !.items = IF LegacyKey = All THEN @
                                 ELSE [@ EXCEPT ![LegacyKey] = RulesOf(db, p)]]

\* Mutant: an inbound without a policy shares one that is there.
ExecutionPoliciesShared(i) ==
  {<<p, Converted(p)>> : p \in {q \in Policies : Simple(q)}}
  \cup {<<p, [owner |-> "exec", default |-> None, items |-> [k \in Keys |-> {}]]>> :
          p \in NewId(db.policies)}

\* The policy and row a creation for inbound i works on: a new one, bound to i
\* in the same transaction, or the one i is bound to.
ExecutionPolicies(i) ==
  IF db.bindings[i] = None
    THEN {<<p, [owner |-> "exec", default |-> None, items |-> [k \in Keys |-> {}]]>> :
             p \in NewId(db.policies)}
    ELSE {<<p, Converted(p)>> : p \in {q \in {db.bindings[i]} :
             Simple(q) /\ (db.policies[q].owner = "legacy" => KeepsDefault(db.policies[q]))}}

\* The ids that requests under way hold, or that rows name.
Named ==
  LET busy == {h \in Handlers : pc[h] # "idle"}
  IN  {loc[h].id : h \in busy} \cup {loc[h].arg : h \in busy}
      \cup {loc[h].row.policy : h \in {g \in busy : loc[g].row \in RuleRow}}
      \cup {db.rules[r].policy : r \in Present(db.rules)}
      \cup {db.bindings[i] : i \in Inbounds}

\* The write of a creation, the ids of whose new rows are new.
Issue(h, d, new) == /\ db' = d /\ Done(h)
                    /\ reissued' = (reissued \/ new \cap Named # {})

\* CreateSimpleRule.  appendGroupSnapshotRules copies every enabled rule of the
\* group; a custom domain is one rule.
SimpleCreate(h) ==
  /\ Starts(h, "simple")
  /\ \E i \in db.inbounds, e \in db.egresses : \E x \in ExecutionPolicies(i) :
       LET p == x[1]
           row == x[2]
           new == {p} \ Present(db.policies)
           Policy(r) == [db EXCEPT !.policies[p] = r, !.bindings[i] = p]
       IN  \/ /\ row.default \notin Egresses
              /\ Issue(h, Policy([row EXCEPT !.default = e]), new)
           \/ \E k \in Keys : \E rs \in NewRules(IF k \in Custom THEN 1 ELSE MaxSnapshot) :
                /\ row.items[k] = {} /\ KeepsDefault(row)
                /\ Issue(h, Inserted(Policy([row EXCEPT !.items[k] = rs]), rs,
                                     [policy |-> p, target |-> e]),
                         new \cup rs)

\* loadSimplePolicyContextByPolicyID: the policy, its binding and its inbound.
Selected(p) == Simple(p) /\ \E i \in db.inbounds : db.bindings[i] = p

\* getExecutionItemRules: the item is there and so are all its rows.
ItemIntact(p, k) == /\ db.policies[p].items[k] # {}
                    /\ db.policies[p].items[k] \subseteq RulesOf(db, p)

\* Mutant: retargets all rules of the policy, not those of the item.
RetargetAll(p, k, e) == Retargeted(db, RulesOf(db, p), e)

RetargetItem(p, k, e) == Retargeted(db, db.policies[p].items[k], e)

\* UpdateSimpleRule; a custom domain may change its key and keeps its row.
SimpleUpdate(h) ==
  /\ Starts(h, "simple")
  /\ \E p \in Policies, e \in db.egresses :
       /\ Selected(p)
       /\ LET row == db.policies[p]
          IN  /\ row.owner = "exec"
              /\ \/ /\ row.default \in Egresses
                    /\ Write(h, [db EXCEPT !.policies[p].default = e])
                 \/ \E k \in Keys \ Custom :
                      /\ ItemIntact(p, k)
                      /\ Write(h, RetargetItem(p, k, e))
                 \/ \E k, l \in Custom :
                      /\ ItemIntact(p, k) /\ KeepsDefault(row)
                      /\ l = k \/ row.items[l] = {}
                      /\ Write(h, [RetargetItem(p, k, e)
                                     EXCEPT !.policies[p].items[k] = {},
                                            !.policies[p].items[l] = row.items[k]])

\* updateLegacySimpleRule: the default or all the rules; the format stays.
LegacyUpdate(h) ==
  /\ Starts(h, "simple")
  /\ \E p \in Policies, e \in db.egresses :
       /\ Selected(p) /\ db.policies[p].owner = "legacy"
       /\ Write(h, IF LegacyKey = All THEN [db EXCEPT !.policies[p].default = e]
                                      ELSE Retargeted(db, RulesOf(db, p), e))

\* cleanupEmptyExecutionPolicy.
Cleanup(d, p) ==
  IF /\ \A k \in Keys : d.policies[p].items[k] = {}
     /\ d.policies[p].default \notin Egresses
     /\ RulesOf(d, p) = {}
  THEN WithoutPolicy(d, p)
  ELSE d

\* DeleteSimpleRule.
SimpleDelete(h) ==
  /\ Starts(h, "simple")
  /\ \E p \in Policies :
       /\ Selected(p)
       /\ LET row == db.policies[p]
              legacy == row.owner = "legacy"
          IN  \/ legacy /\ Write(h, WithoutPolicy(db, p))
              \/ /\ ~legacy /\ row.default \in Egresses
                 /\ Write(h, Cleanup([db EXCEPT !.policies[p].default = None], p))
              \/ \E k \in Keys :
                   /\ ~legacy /\ ItemIntact(p, k) /\ KeepsDefault(row)
                   /\ Write(h, Cleanup([db EXCEPT
                          !.policies[p].items[k] = {},
                          !.rules = [r \in Rules |-> IF r \in row.items[k] THEN None ELSE @[r]]],
                        p))

-----------------------------------------------------------------------------
(* InboundService *)

\* cleanupN5SimpleExecutionStateForInbound: the binding goes, and the policy with
\* it when the simple page owns it and no other inbound uses it.
CleanedUp(i) ==
  LET p == db.bindings[i]
      shared == \E j \in Inbounds \ {i} : db.bindings[j] = p
      unbound == [db EXCEPT !.bindings[i] = None]
  IN  IF p # None /\ Simple(p) /\ ~shared THEN WithoutPolicy(unbound, p) ELSE unbound

\* AddInbound, perhaps with the id of one that was deleted.
AddInbound(h) ==
  /\ Starts(h, "inbound")
  /\ \E i \in Inbounds \ db.inbounds : Write(h, [db EXCEPT !.inbounds = @ \cup {i}])

\* DelInbound, one transaction.
DelInbound(h) ==
  /\ Starts(h, "inbound")
  /\ \E i \in Inbounds :
       Write(h, [CleanedUp(i) EXCEPT !.inbounds = @ \ {i}])

-----------------------------------------------------------------------------
\* A database as the panel may find it: some egresses and inbounds, and at most
\* one policy that an older version left in the older format.
Empty(es, is) ==
  [egresses |-> es, pools |-> [q \in Pools |-> None],
   policies |-> [p \in Policies |-> None], rules |-> [r \in Rules |-> None],
   bindings |-> [i \in Inbounds |-> None], inbounds |-> is]

Legacy(d, i, e, p, rs) ==
  [Inserted(d, rs, [policy |-> p, target |-> e])
     EXCEPT !.policies[p] = [owner |-> "legacy", items |-> [k \in Keys |-> {}],
                             default |-> IF LegacyKey = All THEN e ELSE None],
            !.bindings[i] = p]

Init ==
  /\ \E es \in SUBSET Egresses, is \in SUBSET Inbounds :
       \/ db = Empty(es, is)
       \/ \E i \in is, e \in es, p \in Policies, rs \in SUBSET Rules :
            /\ rs = {} <=> LegacyKey = All
            /\ db = Legacy(Empty(es, is), i, e, p, rs)
  /\ pc = [h \in Handlers |-> "idle"]
  /\ loc = [h \in Handlers |-> Blank]
  /\ reissued = FALSE

SimpleRequest(h) ==
  SimpleCreate(h) \/ SimpleUpdate(h) \/ LegacyUpdate(h) \/ SimpleDelete(h)

AdvancedRequest(h) ==
  \/ PolicyCreate(h) \/ PolicyUpdate(h) \/ PolicyEnable(h) \/ PolicyDelete(h)
  \/ RuleAdd(h) \/ RuleUpdate(h) \/ RuleEnable(h) \/ RuleDelete(h)
  \/ Bind(h) \/ Unbind(h) \/ Template(h)

GroupRequest(h) ==
  \/ GroupCreate(h) \/ EnsureBuiltinGroups(h) \/ GroupUpdate(h) \/ GroupDelete(h)
  \/ AddDomainRule(h) \/ ChangeDomainRule(h)

EgressRequest(h) ==
  \/ EgressCreate(h) \/ EgressUpdate(h) \/ EgressDelete(h)
  \/ PoolCreate(h) \/ AddMember(h) \/ RemoveMember(h)

Next == \E h \in Handlers :
          \/ SimpleRequest(h) \/ AdvancedRequest(h) \/ GroupRequest(h)
          \/ EgressRequest(h) \/ AddInbound(h) \/ DelInbound(h)
          \/ Fails(h)

Spec == Init /\ [][Next]_vars

-----------------------------------------------------------------------------
(* Properties *)

TypeOK ==
  /\ db \in Store
  /\ pc \in [Handlers -> Points]
  /\ loc \in [Handlers -> [id : Ids \cup Inbounds \cup {None},
                           arg : Ids \cup {None},
                           row : PolicyRow \cup RuleRow \cup {None}]]
  /\ reissued \in BOOLEAN

\* The metadata of a simple policy and the rules table agree: the items own
\* disjoint sets of rows that exist, belong to the policy and share a target,
\* and the policy has no other row.  Every simple request relies on it
\* (getExecutionItemRules, executionItemEgressID), and advanced requests,
\* deletions and conversions run in between.  Nothing breaks it but a stale write
\* to an id that the simple page was given meanwhile.
SimpleConsistent ==
  ~reissued => \A p \in Policies :
    db.policies[p] # None /\ db.policies[p].owner = "exec" =>
      LET items == db.policies[p].items
      IN  /\ UNION {items[k] : k \in Keys} = RulesOf(db, p)
          /\ \A k, l \in Keys : k # l => items[k] \cap items[l] = {}
          /\ \A k \in Keys : \A r, s \in items[k] : db.rules[r].target = db.rules[s].target

\* No simple policy and none of its rows is changed, created or deleted.
Untouched ==
  \A p \in Policies :
    Simple(p) \/ Simple(p)' =>
      /\ db'.policies[p] = db.policies[p]
      /\ RulesOf(db', p) = RulesOf(db, p)
      /\ \A r \in RulesOf(db, p) : db'.rules[r] = db.rules[r]

\* Only the simple page and the deletion of an inbound touch simple state, whatever
\* happens between the check and the write of an advanced or egress request or one
\* about rule groups (P1-03), but for one thing: that the simple page gets an id
\* which a request under way, or a row left behind, still names.  What a simple
\* rule copied from a group does not follow the group
\* (docs/N5_UI_SIMPLE_TRAFFIC_RULES.md:35-44).
SimpleUntouched ==
  [][reissued \/ Untouched \/ \E h \in Handlers : SimpleRequest(h) \/ DelInbound(h)]_vars

\* "Advanced APIs reject destructive or mutating operations against Simple-managed
\* policies, rules, bindings" (docs/history/02_P1_HARDENING.md:64-65), without that
\* exception.
SimpleProtected == [][(\E h \in Handlers : AdvancedRequest(h)) => Untouched]_vars

\* Every egress and pool that a row names is there, and only the rules of a rule
\* group name none: "missing egress target" and "pool member missing egress" of
\* docs/N5_UI_DATABASE.md:326-337.
TargetsExist ==
  /\ \A p \in Policies : db.policies[p] # None => KeepsDefault(db.policies[p])
  /\ \A r \in Rules : db.rules[r] # None =>
       \/ Exists(db.rules[r].target)
       \/ db.rules[r].target = None /\ Group(db.rules[r].policy)
  /\ \A q \in Pools : db.pools[q] # None =>
       /\ db.pools[q].members \subseteq db.egresses
       /\ db.pools[q].fallback = None \/ Exists(db.pools[q].fallback)

\* No rule and no binding is left without its policy, no binding without its
\* inbound: "orphan rule", "orphan binding", "missing inbound binding".
NoOrphanRows ==
  /\ \A r \in Rules : db.rules[r] # None => db.policies[db.rules[r].policy] # None
  /\ \A i \in Inbounds : db.bindings[i] # None =>
       i \in db.inbounds /\ db.policies[db.bindings[i]] # None

\* A simple policy is bound to one inbound for as long as it lives, and is not
\* empty: only so can the simple page show it and delete it ("orphan policy").
SimpleReachable ==
  \A p \in Policies : Simple(p) =>
    /\ Cardinality({i \in Inbounds : db.bindings[i] = p}) = 1
    /\ db.policies[p].default # None \/ RulesOf(db, p) # {}

\* executionItemEgressID: the targets of the rows rs, if policy p has them all.
TargetsOf(p, rs) == IF rs \subseteq RulesOf(db, p) THEN {db.rules[r].target : r \in rs}
                                                   ELSE {}

\* The target in the line of the simple page for inbound i and key k
\* (ListSimpleRules); no line when the rows are missing or disagree.  The page
\* also leaves out a line whose egress is gone: this is the table as it is stored.
Route(i, k) ==
  LET p == db.bindings[i]
      row == db.policies[p]
      Line(ts) == IF Cardinality(ts) = 1 THEN CHOOSE t \in ts : TRUE ELSE None
  IN  CASE p = None \/ ~Simple(p)               -> None
        [] OTHER ->
             CASE k = All                       -> row.default
               [] k # All /\ row.owner = "exec" -> Line(TargetsOf(p, row.items[k]))
               [] k = LegacyKey /\ k # All /\ row.owner = "legacy"
                                                -> Line(TargetsOf(p, RulesOf(db, p)))
               [] OTHER                         -> None

Table == [i \in Inbounds |-> [k \in Keys \cup {All} |-> Route(i, k)]]

Routing == INSTANCE SimpleRouting WITH Traffic <- Keys \cup {All}, route <- Table

\* Under every interleaving, the requests of the simple page change one entry of
\* one inbound, entirely or not at all, and all that others do to the table is to
\* clear an inbound or entries of it: its deletion, its move to an advanced policy
\* (P2-01, P1-02).  That the advanced pages do not clear entries of a policy which
\* stays bound is SimpleUntouched.
SimpleIsAtomic == Routing!Init /\ [][reissued' \/ Table' = Table \/ Routing!Next]_vars
=============================================================================
