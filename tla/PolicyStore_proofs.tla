------------------------- MODULE PolicyStore_proofs -------------------------
(***************************************************************************)
(* What the simple page relies on holds for all tables, all requests and   *)
(* any number of handlers between whose statements others run, until a     *)
(* simple creation is given an id that somebody still names (reissued).    *)
(*                                                                         *)
(* The handlers test who owns a row and write in another statement.  What  *)
(* protects the simple state in between is that no policy becomes a simple *)
(* one but in the transaction that creates it: an id that a request has    *)
(* seen without a simple owner, and still holds, gets one only when it is  *)
(* given out again meanwhile (Safe, RuleSafe, Named).                      *)
(***************************************************************************)
EXTENDS PolicyStore, FiniteSetTheorems, TLAPS

Traffic == Keys \cup {All}

\* Simple, for any tables.
SimpleIn(d, p) == d.policies[p] # None /\ d.policies[p].owner \in {"exec", "legacy"}

\* Ids of policies and rules that the simple page does not own.
Safe(d, p) == ~SimpleIn(d, p)
RuleSafe(d, r) == d.rules[r] = None \/ Safe(d, d.rules[r].policy)

\* Items and rows of a policy in the present format.
ExecAgree(d, p) ==
  LET items == d.policies[p].items
  IN  /\ UNION {items[k] : k \in Keys} = RulesOf(d, p)
      /\ \A k, l \in Keys : k # l => items[k] \cap items[l] = {}
      /\ \A k \in Keys : \A r, s \in items[k] : d.rules[r].target = d.rules[s].target

\* In the older format there are no items, and one kind of traffic.
LegacyAgree(d, p) ==
  /\ \A k \in Keys : d.policies[p].items[k] = {}
  /\ \A r, s \in RulesOf(d, p) : d.rules[r].target = d.rules[s].target
  /\ LegacyKey = All => RulesOf(d, p) = {}

\* The simple page finds its rows as it left them, and they name egresses only.
PolicyInv(d, p) ==
  SimpleIn(d, p) =>
    /\ d.policies[p].default \in Egresses \cup {None}
    /\ \A r \in RulesOf(d, p) : d.rules[r].target \in Egresses
    /\ IF d.policies[p].owner = "exec" THEN ExecAgree(d, p) ELSE LegacyAgree(d, p)

\* No two inbounds share a simple policy.
BoundOnce(d) ==
  \A i, j \in Inbounds :
    d.bindings[i] # None /\ SimpleIn(d, d.bindings[i]) /\ d.bindings[i] = d.bindings[j] => i = j

StoreInv(d) ==
  d \in Store /\ BoundOnce(d) /\ \A p \in Policies : PolicyInv(d, p)

\* What a handler has learnt, by where it is.
Locals == [id : Ids \cup Inbounds \cup {None},
           arg : Ids \cup {None},
           row : PolicyRow \cup RuleRow \cup {None}]

EgressPoints == {"egressSave", "countRules", "countMembers", "countFallbacks", "egressDelete"}
PolicyPoints == {"policyTarget", "policySave", "policyRead", "policyDelete", "ruleTarget",
                 "ruleInsert", "seed"}
RulePoints == {"ruleRead", "ruleRetarget", "ruleSave", "ruleEnable", "ruleDelete", "groupRule"}
BindPoints == {"bindInbound", "bindExists", "bindCount", "bind"}
InboundPoints == BindPoints \cup {"unbindExists", "unbind", "templateTarget", "template"}
TargetPoints == {"poolInsert", "policyInsert", "policyTarget", "policySave", "ruleInsert",
                 "ruleSave", "template"}

\* The types of the locals.
Knows(d, point, l) ==
  /\ l \in Locals
  /\ point \in EgressPoints => l.id \in Egresses
  /\ point = "memberInsert" => /\ l.id \in Pools /\ d.pools[l.id] # None
                               /\ l.arg \in Egresses
  /\ point \in TargetPoints => l.arg \in Targets \cup {None}
  /\ point \in PolicyPoints => l.id \in Policies
  /\ point \in {"policyTarget", "policySave"} => l.row \in PolicyRow
  /\ point \in RulePoints => l.id \in Rules
  /\ point \in {"ruleRetarget", "ruleSave"} => l.row \in RuleRow
  /\ point \in InboundPoints => l.id \in Inbounds
  /\ point \in BindPoints => l.arg \in Policies

\* And whose the rows are that they name.
LocInv(d, point, l) ==
  /\ Knows(d, point, l)
  /\ point \in PolicyPoints => Safe(d, l.id)
  /\ point \in {"policyTarget", "policySave"} => l.row.owner \notin {"exec", "legacy"}
  /\ point \in RulePoints => RuleSafe(d, l.id)
  /\ point \in {"ruleRetarget", "ruleSave"} => Safe(d, l.row.policy)
  /\ point \in BindPoints => Safe(d, l.arg)

HandlersInv ==
  /\ pc \in [Handlers -> Points]
  /\ DOMAIN loc = Handlers /\ loc = [h \in Handlers |-> loc[h]]
  /\ \A h \in Handlers : LocInv(db, pc[h], loc[h])

IInv == StoreInv(db) /\ HandlersInv

-----------------------------------------------------------------------------
(* The tables *)

\* A step of a request that the simple page did not send, as far as simple state
\* is concerned: it loses no pool, and changes policies, rules and bindings only
\* where no simple policy is involved, except that it may take one inbound away
\* from its policy.
Harmless(d, e) ==
  /\ e \in Store
  /\ \A q \in Pools : d.pools[q] # None => e.pools[q] # None
  /\ \A p \in Policies : SimpleIn(d, p) \/ SimpleIn(e, p) => e.policies[p] = d.policies[p]
  /\ \A r \in Rules : e.rules[r] # d.rules[r] =>
       /\ d.rules[r] = None \/ ~SimpleIn(d, d.rules[r].policy)
       /\ e.rules[r] = None \/ ~SimpleIn(d, e.rules[r].policy)
  /\ \A i \in Inbounds : e.bindings[i] # d.bindings[i] =>
       e.bindings[i] = None \/ ~SimpleIn(d, e.bindings[i])
  /\ \A i, j \in Inbounds :
       /\ e.bindings[i] # d.bindings[i] /\ d.bindings[i] # None /\ SimpleIn(d, d.bindings[i])
       /\ e.bindings[j] # d.bindings[j] /\ d.bindings[j] # None /\ SimpleIn(d, d.bindings[j])
       => i = j

\* The policy and its rows are as they were.
Same(d, e, p) ==
  /\ e.policies[p] = d.policies[p]
  /\ RulesOf(e, p) = RulesOf(d, p)
  /\ \A r \in RulesOf(d, p) : e.rules[r] = d.rules[r]

\* What is known of the pools, and of the ids that somebody holds, stays true.
Lasting(d, e, held) ==
  /\ \A q \in Pools : d.pools[q] # None => e.pools[q] # None
  /\ \A p \in Policies \cap held : Safe(d, p) => Safe(e, p)
  /\ \A r \in Rules \cap held : RuleSafe(d, r) => RuleSafe(e, r)

\* The fields of a store.
LEMMA Fields ==
  ASSUME NEW d \in Store
  PROVE  /\ d.egresses \subseteq Egresses /\ d.inbounds \subseteq Inbounds
         /\ d.pools \in [Pools -> PoolRow \cup {None}]
         /\ d.policies \in [Policies -> PolicyRow \cup {None}]
         /\ d.rules \in [Rules -> RuleRow \cup {None}]
         /\ d.bindings \in [Inbounds -> Policies \cup {None}]
  BY DEF Store

\* A row is not the absence of one.
LEMMA Rows ==
  ASSUME NEW d \in Store
  PROVE  /\ \A p \in Policies : d.policies[p] # None => d.policies[p] \in PolicyRow
         /\ \A r \in Rules : d.rules[r] # None =>
              d.rules[r] \in RuleRow /\ d.rules[r].policy \in Policies
         /\ \A q \in Pools : d.pools[q] # None => d.pools[q] \in PoolRow
         /\ \A i \in Inbounds : d.bindings[i] # None => d.bindings[i] \in Policies
  BY Fields DEF RuleRow

\* The id of a new row is not that of one that is there.
LEMMA AboveNew ==
  ASSUME NEW ids \in SUBSET Nat, NEW table, DOMAIN table = ids, NEW x \in Above(table)
  PROVE  x \in ids /\ table[x] = None
<1>1. x \in ids /\ x \in Nat /\ \A y \in Present(table) : y < x
  BY DEF Above
<1>2. ~(x < x)
  BY <1>1
<1>3. table[x] # None => x \in Present(table)
  BY <1>1 DEF Present
<1> QED
  BY <1>1, <1>2, <1>3

\* Ids for new policies.
LEMMA NewPolicy ==
  ASSUME NEW d \in Store, NEW p \in NewId(d.policies)
  PROVE  p \in Policies /\ d.policies[p] = None
  BY Fields, AboveNew, IdAssumption DEF NewId

\* Ids for new rules.
LEMMA NewRule ==
  ASSUME NEW d \in Store, NEW r \in NewId(d.rules)
  PROVE  r \in Rules /\ d.rules[r] = None
  BY Fields, AboveNew, IdAssumption DEF NewId

\* Ids for several of them.
LEMMA ManyRules ==
  ASSUME db \in Store, NEW n, NEW rs \in NewRules(n)
  PROVE  rs \subseteq Rules /\ \A r \in rs : db.rules[r] = None
<1>1. rs \subseteq Above(db.rules)
  BY DEF NewRules
<1>2. Rules \in SUBSET Nat /\ DOMAIN db.rules = Rules
  BY Fields, IdAssumption
<1> QED
  BY <1>1, <1>2, AboveNew

\* What is said about a simple policy depends on the policy and its rows only.
LEMMA SameInv ==
  ASSUME NEW d, NEW e, NEW p, PolicyInv(d, p), Same(d, e, p)
  PROVE  PolicyInv(e, p)
<1>1. SimpleIn(e, p) = SimpleIn(d, p)
  BY DEF Same, SimpleIn
<1> SUFFICES ASSUME SimpleIn(d, p)
             PROVE  /\ e.policies[p].default \in Egresses \cup {None}
                    /\ \A r \in RulesOf(e, p) : e.rules[r].target \in Egresses
                    /\ IF e.policies[p].owner = "exec" THEN ExecAgree(e, p) ELSE LegacyAgree(e, p)
  BY <1>1 DEF PolicyInv
<1>2. /\ d.policies[p].default \in Egresses \cup {None}
      /\ \A r \in RulesOf(d, p) : d.rules[r].target \in Egresses
      /\ IF d.policies[p].owner = "exec" THEN ExecAgree(d, p) ELSE LegacyAgree(d, p)
  BY DEF PolicyInv
<1>3. ExecAgree(d, p) => ExecAgree(e, p)
  <2> SUFFICES ASSUME ExecAgree(d, p) PROVE ExecAgree(e, p)
    OBVIOUS
  <2>1. ASSUME NEW k \in Keys, NEW r \in d.policies[p].items[k] PROVE r \in RulesOf(d, p)
    BY <2>1 DEF ExecAgree
  <2> QED
    BY <2>1 DEF ExecAgree, Same
<1>4. LegacyAgree(d, p) => LegacyAgree(e, p)
  BY DEF LegacyAgree, Same
<1> QED
  BY <1>2, <1>3, <1>4 DEF Same

\* Such a step leaves simple policies and their rows as they are.
LEMMA HarmlessSame ==
  ASSUME NEW d, NEW e, d \in Store, Harmless(d, e),
         NEW p \in Policies, SimpleIn(d, p) \/ SimpleIn(e, p)
  PROVE  SimpleIn(d, p) /\ SimpleIn(e, p) /\ Same(d, e, p)
<1>1. e.policies[p] = d.policies[p] /\ SimpleIn(d, p) /\ SimpleIn(e, p)
  BY DEF Harmless, SimpleIn
<1>2. \A r \in Rules : e.rules[r] # d.rules[r] =>
        /\ d.rules[r] = None \/ d.rules[r].policy # p
        /\ e.rules[r] = None \/ e.rules[r].policy # p
  BY <1>1 DEF Harmless
<1>3. RulesOf(e, p) = RulesOf(d, p)
  BY <1>2 DEF RulesOf
<1>4. \A r \in RulesOf(d, p) : e.rules[r] = d.rules[r]
  BY <1>2 DEF RulesOf
<1> QED
  BY <1>1, <1>3, <1>4 DEF Same

\* So it keeps what is said about the tables, and what the handlers know.
LEMMA HarmlessInv ==
  ASSUME NEW d, NEW e, NEW held, StoreInv(d), Harmless(d, e)
  PROVE  StoreInv(e) /\ Lasting(d, e, held)
<1> USE DEF StoreInv
<1>0. d \in Store /\ e \in Store
  BY DEF Harmless
<1>1. \A p \in Policies : PolicyInv(e, p)
  <2> SUFFICES ASSUME NEW p \in Policies, SimpleIn(e, p) PROVE PolicyInv(e, p)
    BY DEF PolicyInv
  <2>1. Same(d, e, p) /\ PolicyInv(d, p)
    BY <1>0, HarmlessSame
  <2> QED
    BY <2>1, SameInv
<1>2. BoundOnce(e)
  <2> SUFFICES ASSUME NEW i \in Inbounds, NEW j \in Inbounds, e.bindings[i] # None,
                      SimpleIn(e, e.bindings[i]), e.bindings[i] = e.bindings[j]
               PROVE  i = j
    BY DEF BoundOnce
  <2>1. e.bindings[i] \in Policies
    BY <1>0, Rows
  <2>2. SimpleIn(d, e.bindings[i])
    BY <1>0, <2>1, HarmlessSame
  <2>3. e.bindings[i] = d.bindings[i] /\ e.bindings[j] = d.bindings[j]
    BY <2>2 DEF Harmless
  <2> QED
    BY <2>2, <2>3 DEF BoundOnce
<1>3. ASSUME NEW p \in Policies, Safe(d, p) PROVE Safe(e, p)
  BY <1>0, <1>3, HarmlessSame DEF Safe
<1>4. ASSUME NEW r \in Rules, RuleSafe(d, r) PROVE RuleSafe(e, r)
  <2> SUFFICES ASSUME e.rules[r] # None PROVE Safe(e, e.rules[r].policy)
    BY DEF RuleSafe
  <2>2. e.rules[r].policy \in Policies
    BY <1>0, Rows
  <2>3. CASE e.rules[r] = d.rules[r]
    BY <1>3, <1>4, <2>2, <2>3 DEF RuleSafe
  <2>4. CASE e.rules[r] # d.rules[r]
    <3>1. ~SimpleIn(d, e.rules[r].policy)
      BY <2>4 DEF Harmless
    <3>2. ~SimpleIn(e, e.rules[r].policy)
      BY <1>0, <2>2, <3>1, HarmlessSame
    <3> QED
      BY <3>2 DEF Safe
  <2> QED
    BY <2>3, <2>4
<1> QED
  BY <1>0, <1>1, <1>2, <1>3, <1>4 DEF Lasting, Harmless

\* Nothing happens to the tables.
LEMMA Idle == ASSUME NEW d, StoreInv(d) PROVE Harmless(d, d)
  BY DEF Harmless, StoreInv

-----------------------------------------------------------------------------
(* The handlers *)

\* The handler goes on to a point at which what it has learnt is so.
Moves(h) ==
  \E point \in Points : \E l : LocInv(db', point, l) /\ Go(h, point, l)

\* The ids that a handler is going to write to.
Holds(held, l) ==
  l.id \in held /\ l.arg \in held /\ (l.row \in RuleRow => l.row.policy \in held)

\* What a handler knows does not go stale while others write.
LEMMA LocLasts ==
  ASSUME NEW d, NEW e, NEW held, Lasting(d, e, held), NEW point, NEW l, LocInv(d, point, l),
         point = "idle" \/ Holds(held, l)
  PROVE  LocInv(e, point, l)
<1>1. l.row \in RuleRow => l.row.policy \in Policies
  BY DEF RuleRow
<1>2. CASE point = "idle"
  BY <1>2 DEF LocInv, Knows, EgressPoints, PolicyPoints, RulePoints, BindPoints, InboundPoints,
              TargetPoints
<1>3. CASE Holds(held, l)
  BY <1>1, <1>3 DEF LocInv, Knows, Lasting, Holds, PolicyPoints, RulePoints, BindPoints
<1> QED
  BY <1>2, <1>3

\* The ids that rows name, and those a request under way holds, are named.
LEMMA NamedHeld ==
  /\ \A h \in Handlers : pc[h] = "idle" \/ Holds(Named, loc[h])
  /\ \A r \in Rules : db \in Store /\ db.rules[r] # None => db.rules[r].policy \in Named
  /\ \A i \in Inbounds : db.bindings[i] \in Named
<1>1. ASSUME NEW h \in Handlers, pc[h] # "idle" PROVE Holds(Named, loc[h])
  BY <1>1 DEF Named, Holds
<1>2. ASSUME NEW r \in Rules, db \in Store, db.rules[r] # None PROVE db.rules[r].policy \in Named
  <2>1. r \in Present(db.rules)
    BY <1>2, Fields DEF Present
  <2> QED
    BY <2>1 DEF Named
<1>3. ASSUME NEW i \in Inbounds PROVE db.bindings[i] \in Named
  BY DEF Named
<1> QED
  BY <1>1, <1>2, <1>3

\* When one handler moves on, it and all others know only what is so.
LEMMA HandlersNext ==
  ASSUME HandlersInv, Lasting(db, db', Named), NEW h \in Handlers, Moves(h)
  PROVE  HandlersInv'
<1>1. PICK point, l : point \in Points /\ LocInv(db', point, l) /\ Go(h, point, l)
  BY DEF Moves
<1>2. pc' = [pc EXCEPT ![h] = point] /\ loc' = [loc EXCEPT ![h] = l]
  BY <1>1 DEF Go
<1>3. pc' \in [Handlers -> Points]
  BY <1>1, <1>2 DEF HandlersInv
<1>4. DOMAIN loc' = Handlers /\ loc' = [g \in Handlers |-> loc'[g]]
  BY <1>2 DEF HandlersInv
<1>5. ASSUME NEW g \in Handlers PROVE LocInv(db', pc'[g], loc'[g])
  <2>1. CASE g = h
    BY <1>1, <1>2, <2>1 DEF HandlersInv
  <2>2. CASE g # h
    <3>1. LocInv(db, pc[g], loc[g]) /\ pc'[g] = pc[g] /\ loc'[g] = loc[g]
      BY <1>2, <2>2 DEF HandlersInv
    <3> QED
      BY <3>1, NamedHeld, LocLasts
  <2> QED
    BY <2>1, <2>2
<1> QED
  BY <1>3, <1>4, <1>5 DEF HandlersInv

\* An answer, an error: the request is over.
LEMMA Blanked == LocInv(db', "idle", Blank) /\ "idle" \in Points
  BY DEF LocInv, Knows, Blank, Locals, EgressPoints, TargetPoints, PolicyPoints, RulePoints,
         BindPoints, InboundPoints, Points

\* A finished request knows nothing any more.
LEMMA Over == ASSUME NEW h, Done(h) PROVE Moves(h)
  BY Blanked DEF Moves, Done

\* A query whose answer lets the request go on or ends it.
LEMMA Answered ==
  ASSUME StoreInv(db), NEW h, UNCHANGED db, NEW point \in Points, NEW l,
         LocInv(db, point, l), Go(h, point, l) \/ Done(h)
  PROVE  Harmless(db, db') /\ Moves(h)
<1>1. Harmless(db, db')
  BY Idle
<1>2. LocInv(db', point, l)
  BY Zenon
<1> QED
  BY <1>1, <1>2, Over DEF Moves

\* A write is the end of a request.
LEMMA Written ==
  ASSUME NEW h, NEW e, Harmless(db, e), Write(h, e)
  PROVE  Harmless(db, db') /\ Moves(h)
  BY Over DEF Write

-----------------------------------------------------------------------------
(* The writes *)

\* One row of a policy that is not a simple one, before and after.
LEMMA PolicyWritten ==
  ASSUME NEW d, StoreInv(d), NEW p \in Policies, ~SimpleIn(d, p),
         NEW row \in PolicyRow, row.owner \notin {"exec", "legacy"},
         NEW e \in Store, e.policies = [d.policies EXCEPT ![p] = row],
         e.rules = d.rules, e.bindings = d.bindings, e.pools = d.pools
  PROVE  Harmless(d, e)
<1> USE DEF StoreInv
<1>1. e.policies[p] = row /\ \A q \in Policies \ {p} : e.policies[q] = d.policies[q]
  BY Fields
<1>2. ~SimpleIn(e, p)
  BY <1>1 DEF SimpleIn
<1>3. \A q \in Policies \ {p} : SimpleIn(e, q) = SimpleIn(d, q)
  BY <1>1 DEF SimpleIn
<1> QED
  BY <1>1, <1>2, <1>3 DEF Harmless

\* A policy that is not a simple one goes, with its rules and bindings.
LEMMA PolicyGone ==
  ASSUME NEW d, StoreInv(d), NEW p \in Policies, ~SimpleIn(d, p)
  PROVE  Harmless(d, WithoutPolicy(d, p))
<1> USE DEF StoreInv
<1> DEFINE e == WithoutPolicy(d, p)
<1>1. /\ e.policies = [d.policies EXCEPT ![p] = None]
      /\ e.rules = [r \in Rules |-> IF r \in RulesOf(d, p) THEN None ELSE d.rules[r]]
      /\ e.bindings = [i \in Inbounds |-> IF d.bindings[i] = p THEN None ELSE d.bindings[i]]
      /\ e.pools = d.pools
  BY DEF WithoutPolicy, Store
<1>2. e \in Store
  BY DEF WithoutPolicy, Store
<1> HIDE DEF e
<1>3. e.policies[p] = None /\ \A q \in Policies \ {p} : e.policies[q] = d.policies[q]
  BY <1>1, Fields
<1>5. \A q \in Policies : SimpleIn(e, q) \/ SimpleIn(d, q) => e.policies[q] = d.policies[q]
  BY <1>3 DEF SimpleIn
<1>6. \A r \in Rules : e.rules[r] # d.rules[r] =>
        e.rules[r] = None /\ ~SimpleIn(d, d.rules[r].policy)
  BY <1>1 DEF RulesOf
<1>7. \A i \in Inbounds : e.bindings[i] # d.bindings[i] =>
        e.bindings[i] = None /\ ~SimpleIn(d, d.bindings[i])
  BY <1>1
<1>8. Harmless(d, e)
  BY <1>1, <1>2, <1>5, <1>6, <1>7 DEF Harmless
<1> QED
  BY <1>8 DEF e

\* One row of the rules table, of a policy that is not a simple one before and after.
LEMMA RuleWritten ==
  ASSUME NEW d, StoreInv(d), NEW r \in Rules,
         d.rules[r] = None \/ ~SimpleIn(d, d.rules[r].policy),
         NEW row, row = None \/ Safe(d, row.policy),
         NEW e \in Store, \A s \in Rules : e.rules[s] = IF s = r THEN row ELSE d.rules[s],
         e.policies = d.policies, e.bindings = d.bindings, e.pools = d.pools
  PROVE  Harmless(d, e)
<1> USE DEF StoreInv
<1>1. \A q \in Policies : SimpleIn(e, q) \/ SimpleIn(d, q) => e.policies[q] = d.policies[q]
  OBVIOUS
<1> QED
  BY <1>1 DEF Harmless, Safe

\* The binding of one inbound goes, or leads to a policy that is not a simple one.
LEMMA BindingWritten ==
  ASSUME NEW d, StoreInv(d), NEW i \in Inbounds, NEW p, p = None \/ Safe(d, p),
         NEW e \in Store, e.bindings = [d.bindings EXCEPT ![i] = p],
         e.policies = d.policies, e.rules = d.rules, e.pools = d.pools
  PROVE  Harmless(d, e)
<1> USE DEF StoreInv
<1>1. e.bindings[i] = p /\ \A j \in Inbounds \ {i} : e.bindings[j] = d.bindings[j]
  BY Fields
<1> QED
  BY <1>1 DEF Harmless, Safe

\* Egresses and pools.
LEMMA EgressWritten ==
  ASSUME NEW d, StoreInv(d), NEW e \in Store,
         \A q \in Pools : d.pools[q] # None => e.pools[q] # None,
         e.policies = d.policies, e.rules = d.rules, e.bindings = d.bindings
  PROVE  Harmless(d, e)
  BY DEF Harmless

-----------------------------------------------------------------------------
(* EgressService and EgressPoolService *)

\* A request on egresses or pools touches no policy, rule or binding.
LEMMA EgressNext ==
  ASSUME IInv, NEW h \in Handlers, EgressRequest(h)
  PROVE  Harmless(db, db') /\ Moves(h)
<1> USE DEF IInv, EgressPoints, PolicyPoints, RulePoints, BindPoints, InboundPoints, TargetPoints
<1>0. StoreInv(db) /\ LocInv(db, pc[h], loc[h]) /\ db \in Store
  BY DEF HandlersInv, StoreInv
<1>1. ASSUME NEW e \in Egresses, NEW point \in EgressPoints
      PROVE  LocInv(db, point, [Blank EXCEPT !.id = e])
  BY <1>1 DEF LocInv, Knows, Blank, Locals, Ids
<1>2. ASSUME NEW point \in EgressPoints, pc[h] \in EgressPoints PROVE LocInv(db, point, loc[h])
  BY <1>0, <1>2 DEF LocInv, Knows
<1>3. EgressPoints \cup {"poolInsert", "memberInsert"} \subseteq Points
  BY DEF Points
<1>4. CASE EgressCreate(h)
  <2>1. PICK e \in Egresses : Write(h, [db EXCEPT !.egresses = @ \cup {e}])
    BY <1>4 DEF EgressCreate
  <2> DEFINE d == [db EXCEPT !.egresses = @ \cup {e}]
  <2>2. /\ d \in Store /\ d.pools = db.pools
        /\ d.policies = db.policies /\ d.rules = db.rules /\ d.bindings = db.bindings
    BY <1>0 DEF Store
  <2> QED
    BY <1>0, <2>1, <2>2, EgressWritten, Written
<1>5. CASE EgressUpdate(h)
  <2>1. CASE pc[h] = "egressSave"
    <3> DEFINE d == [db EXCEPT !.egresses = @ \cup {loc[h].id}]
    <3>1. loc[h].id \in Egresses
      BY <1>0, <2>1 DEF LocInv, Knows
    <3>2. /\ d \in Store /\ d.pools = db.pools
          /\ d.policies = db.policies /\ d.rules = db.rules /\ d.bindings = db.bindings
      BY <1>0, <3>1 DEF Store
    <3>3. Write(h, d)
      BY <1>5, <2>1 DEF EgressUpdate, Starts
    <3> QED
      BY <1>0, <3>2, <3>3, EgressWritten, Written
  <2>2. CASE pc[h] # "egressSave"
    <3>1. PICK e \in db.egresses : Check(h, TRUE, "egressSave", [Blank EXCEPT !.id = e])
      BY <1>5, <2>2 DEF EgressUpdate
    <3>2. e \in Egresses
      BY <1>0 DEF Store
    <3> QED
      BY <1>0, <1>1, <1>3, <3>1, <3>2, Answered DEF Check
  <2> QED
    BY <2>1, <2>2
<1>6. CASE EgressDelete(h)
  <2>1. CASE pc[h] = "egressDelete"
    <3> DEFINE d == [db EXCEPT !.egresses = @ \ {loc[h].id}]
    <3>1. /\ d \in Store /\ d.pools = db.pools
          /\ d.policies = db.policies /\ d.rules = db.rules /\ d.bindings = db.bindings
      BY <1>0 DEF Store
    <3>2. Write(h, d)
      BY <1>6, <2>1 DEF EgressDelete, Starts
    <3> QED
      BY <1>0, <3>1, <3>2, EgressWritten, Written
  <2>2. CASE pc[h] = "idle"
    <3>1. PICK e \in Egresses :
            Check(h, ~UsedByPolicy(e), "countRules", [Blank EXCEPT !.id = e])
      BY <1>6, <2>2 DEF EgressDelete
    <3> QED
      BY <1>0, <1>1, <1>3, <3>1, Answered DEF Check
  <2>3. CASE pc[h] \notin {"idle", "egressDelete"}
    <3>1. PICK point \in EgressPoints :
            /\ pc[h] \in EgressPoints /\ UNCHANGED db
            /\ Go(h, point, loc[h]) \/ Done(h)
      BY <1>6, <2>3 DEF EgressDelete, Check, Starts
    <3> QED
      BY <1>0, <1>2, <1>3, <3>1, Answered
  <2> QED
    BY <2>1, <2>2, <2>3
<1>7. CASE PoolCreate(h)
  <2>1. CASE pc[h] = "poolInsert"
    <3>1. PICK q \in Pools :
            Write(h, [db EXCEPT !.pools[q] = [members |-> {}, fallback |-> loc[h].arg]])
      BY <1>7, <2>1 DEF PoolCreate, Starts
    <3> DEFINE row == [members |-> {}, fallback |-> loc[h].arg]
               d == [db EXCEPT !.pools[q] = row]
    <3>2. row \in PoolRow /\ row # None
      BY <1>0, <2>1, IdAssumption DEF LocInv, Knows, PoolRow
    <3>3. /\ d \in Store /\ d.pools = [db.pools EXCEPT ![q] = row]
          /\ d.policies = db.policies /\ d.rules = db.rules /\ d.bindings = db.bindings
      BY <1>0, <3>2 DEF Store
    <3>4. \A x \in Pools : db.pools[x] # None => d.pools[x] # None
      BY <1>0, <3>2, <3>3, Fields
    <3> QED
      BY <1>0, <3>1, <3>3, <3>4, EgressWritten, Written
  <2>2. CASE pc[h] # "poolInsert"
    <3>1. PICK t \in Targets \cup {None} :
            UNCHANGED db /\ (Go(h, "poolInsert", [Blank EXCEPT !.arg = t]) \/ Done(h))
      <4>1. [Blank EXCEPT !.arg = None] = Blank
        BY DEF Blank
      <4> QED
        BY <1>7, <2>2, <4>1 DEF PoolCreate, Validate, Check
    <3>2. LocInv(db, "poolInsert", [Blank EXCEPT !.arg = t])
      BY DEF LocInv, Knows, Blank, Locals, Ids, Targets
    <3> QED
      BY <1>0, <1>3, <3>1, <3>2, Answered
  <2> QED
    BY <2>1, <2>2
<1>8. CASE AddMember(h)
  <2>1. CASE pc[h] = "memberInsert"
    <3> DEFINE q == loc[h].id
               d == [db EXCEPT !.pools[q].members = @ \cup {loc[h].arg}]
    <3>1. q \in Pools /\ db.pools[q] # None /\ loc[h].arg \in Egresses
      BY <1>0, <2>1 DEF LocInv, Knows
    <3>2. [db.pools[q] EXCEPT !.members = @ \cup {loc[h].arg}] \in PoolRow
      BY <1>0, <3>1, Rows DEF PoolRow
    <3>3. /\ d \in Store
          /\ \A x \in Pools : db.pools[x] # None => d.pools[x] # None
          /\ d.policies = db.policies /\ d.rules = db.rules /\ d.bindings = db.bindings
      BY <1>0, <3>1, <3>2, IdAssumption DEF Store
    <3>4. Write(h, d)
      BY <1>8, <2>1 DEF AddMember, Starts
    <3> QED
      BY <1>0, <3>3, <3>4, EgressWritten, Written
  <2>2. CASE pc[h] # "memberInsert"
    <3>1. PICK q \in Pools, e \in Egresses :
            /\ db.pools[q] # None
            /\ Check(h, e \in db.egresses, "memberInsert", [Blank EXCEPT !.id = q, !.arg = e])
      BY <1>8, <2>2 DEF AddMember
    <3>2. LocInv(db, "memberInsert", [Blank EXCEPT !.id = q, !.arg = e])
      BY <3>1 DEF LocInv, Knows, Blank, Locals, Ids
    <3> QED
      BY <1>0, <1>3, <3>1, <3>2, Answered DEF Check
  <2> QED
    BY <2>1, <2>2
<1>9. CASE RemoveMember(h)
  <2>1. PICK q \in Pools, e \in Egresses :
          /\ db.pools[q] # None
          /\ Write(h, [db EXCEPT !.pools[q].members = @ \ {e}])
    BY <1>9 DEF RemoveMember
  <2> DEFINE d == [db EXCEPT !.pools[q].members = @ \ {e}]
  <2>2. [db.pools[q] EXCEPT !.members = @ \ {e}] \in PoolRow
    BY <1>0, <2>1, Rows DEF PoolRow
  <2>3. /\ d \in Store
        /\ \A x \in Pools : db.pools[x] # None => d.pools[x] # None
        /\ d.policies = db.policies /\ d.rules = db.rules /\ d.bindings = db.bindings
    BY <1>0, <2>1, <2>2, IdAssumption DEF Store
  <2> QED
    BY <1>0, <2>1, <2>3, EgressWritten, Written
<1> QED
  BY <1>4, <1>5, <1>6, <1>7, <1>8, <1>9 DEF EgressRequest

-----------------------------------------------------------------------------
(* TrafficPolicyService *)

\* A policy that was found to be there, and not a simple one, is safe.
LEMMA OrdinaryIsSafe ==
  ASSUME StoreInv(db), NEW p \in Policies, Ordinary(p)
  PROVE  Safe(db, p) /\ db.policies[p] \in PolicyRow
                     /\ db.policies[p].owner \notin {"exec", "legacy"}
  BY Rows DEF StoreInv, Ordinary, Simple, Safe, SimpleIn

\* So is a rule that was found to belong to such a policy.
LEMMA OrdinaryRuleIsSafe ==
  ASSUME StoreInv(db), NEW r \in Rules, OrdinaryRule(r)
  PROVE  RuleSafe(db, r)
<1>1. db.rules[r] # None /\ db.rules[r].policy \in Policies /\ Ordinary(db.rules[r].policy)
  BY Rows DEF StoreInv, OrdinaryRule
<1> QED
  BY <1>1, OrdinaryIsSafe DEF RuleSafe, StoreInv

\* What the locals are when a request has passed its first check.
LEMMA HoldsPolicy ==
  ASSUME NEW d, NEW p \in Policies, Safe(d, p),
         NEW point \in PolicyPoints \ {"policyTarget", "policySave"}
  PROVE  LocInv(d, point, [Blank EXCEPT !.id = p]) /\ point \in Points
  BY DEF LocInv, Knows, Blank, Locals, Ids, EgressPoints, PolicyPoints, RulePoints, BindPoints,
         InboundPoints, TargetPoints, Points

\* PolicyUpdate, PolicyEnable and GroupUpdate hold the row they are going to save.
LEMMA HoldsRow ==
  ASSUME NEW d, NEW p \in Policies, Safe(d, p), NEW row \in PolicyRow,
         row.owner \notin {"exec", "legacy"}, NEW l \in Locals, l.id = p, l.row = row,
         l.arg \in Targets \cup {None}, NEW point \in {"policyTarget", "policySave"}
  PROVE  LocInv(d, point, l) /\ point \in Points
  BY DEF LocInv, Knows, EgressPoints, PolicyPoints, RulePoints, BindPoints, InboundPoints,
         TargetPoints, Points

\* The same for a request about a rule, after its first check.
LEMMA HoldsRule ==
  ASSUME NEW d, NEW r \in Rules, RuleSafe(d, r),
         NEW point \in RulePoints \ {"ruleRetarget", "ruleSave"}
  PROVE  LocInv(d, point, [Blank EXCEPT !.id = r]) /\ point \in Points
  BY DEF LocInv, Knows, Blank, Locals, Ids, EgressPoints, PolicyPoints, RulePoints, BindPoints,
         InboundPoints, TargetPoints, Points

\* Creating, changing, enabling and deleting a policy on the advanced page: the row that is
\* saved, or the policy that is deleted, is still not a simple one when its turn comes.
LEMMA PolicyRequestsNext ==
  ASSUME IInv, NEW h \in Handlers,
         PolicyCreate(h) \/ PolicyUpdate(h) \/ PolicyEnable(h) \/ PolicyDelete(h)
  PROVE  Harmless(db, db') /\ Moves(h)
<1> USE DEF IInv
<1>0. StoreInv(db) /\ LocInv(db, pc[h], loc[h]) /\ db \in Store
  BY DEF HandlersInv, StoreInv
<1>a. {"policyInsert", "policyTarget", "policySave", "policyRead", "policyDelete"} \subseteq Points
  BY DEF Points
<1>1. CASE PolicyCreate(h)
  <2>1. CASE pc[h] = "policyInsert"
    <3>1. PICK p \in NewId(db.policies) :
            Write(h, [db EXCEPT !.policies[p] = [owner |-> "ordinary", default |-> loc[h].arg,
                                                 items |-> [k \in Keys |-> {}]]])
      BY <1>1, <2>1 DEF PolicyCreate, Starts
    <3> DEFINE row == [owner |-> "ordinary", default |-> loc[h].arg,
                       items |-> [k \in Keys |-> {}]]
               d == [db EXCEPT !.policies[p] = row]
    <3>2. row \in PolicyRow /\ row.owner \notin {"exec", "legacy"}
      BY <1>0, <2>1 DEF LocInv, Knows, PolicyRow, TargetPoints
    <3>3. /\ d \in Store /\ d.policies = [db.policies EXCEPT ![p] = row]
          /\ d.rules = db.rules /\ d.bindings = db.bindings /\ d.pools = db.pools
      BY <1>0, <3>2 DEF Store
    <3>4. p \in Policies /\ ~SimpleIn(db, p)
      BY <1>0, NewPolicy DEF SimpleIn
    <3> HIDE DEF row, d
    <3>5. Harmless(db, d)
      BY <1>0, <3>2, <3>3, <3>4, PolicyWritten
    <3> QED
      BY <3>1, <3>5, Written DEF row, d
  <2>2. CASE pc[h] # "policyInsert"
    <3>1. PICK t \in Targets \cup {None} :
            UNCHANGED db /\ (Go(h, "policyInsert", [Blank EXCEPT !.arg = t]) \/ Done(h))
      <4>1. [Blank EXCEPT !.arg = None] = Blank
        BY DEF Blank
      <4> QED
        BY <1>1, <2>2, <4>1 DEF PolicyCreate, Validate, Check
    <3>2. LocInv(db, "policyInsert", [Blank EXCEPT !.arg = t])
      BY DEF LocInv, Knows, Blank, Locals, Ids, Targets, EgressPoints, PolicyPoints, RulePoints,
             BindPoints, InboundPoints, TargetPoints
    <3> QED
      BY <1>0, <1>a, <3>1, <3>2, Answered
  <2> QED
    BY <2>1, <2>2
<1>2. CASE pc[h] = "policySave" /\ PolicyUpdate(h)
  <2> DEFINE p == loc[h].id
             row == [loc[h].row EXCEPT !.default = loc[h].arg]
             d == [db EXCEPT !.policies[p] = row]
  <2>1. /\ p \in Policies /\ Safe(db, p) /\ row \in PolicyRow
        /\ row.owner \notin {"exec", "legacy"}
    BY <1>0, <1>2 DEF LocInv, Knows, PolicyPoints, TargetPoints, PolicyRow
  <2>2. /\ d \in Store /\ d.policies = [db.policies EXCEPT ![p] = row]
        /\ d.rules = db.rules /\ d.bindings = db.bindings /\ d.pools = db.pools
    BY <1>0, <2>1 DEF Store
  <2>3. Write(h, d)
    BY <1>2 DEF PolicyUpdate, Starts
  <2>4. Harmless(db, d)
    BY <1>0, <2>1, <2>2, PolicyWritten DEF Safe
  <2> QED
    BY <2>3, <2>4, Written
<1>3. CASE pc[h] = "policyTarget" /\ PolicyUpdate(h)
  <2>1. /\ loc[h] \in Locals /\ loc[h].id \in Policies /\ Safe(db, loc[h].id)
        /\ loc[h].row \in PolicyRow /\ loc[h].row.owner \notin {"exec", "legacy"}
        /\ loc[h].arg \in Targets \cup {None}
    BY <1>0, <1>3 DEF LocInv, Knows, PolicyPoints, TargetPoints
  <2>2. PICK t \in Targets \cup {None} :
          UNCHANGED db /\ Go(h, "policySave", [loc[h] EXCEPT !.arg = t])
    <3>1. [loc[h] EXCEPT !.arg = loc[h].arg] = loc[h]
      BY <2>1 DEF Locals
    <3> QED
      BY <1>3, <2>1, <3>1 DEF PolicyUpdate, Starts, Check, Validate
  <2>3. LocInv(db, "policySave", [loc[h] EXCEPT !.arg = t])
    <3>1. [loc[h] EXCEPT !.arg = t] \in Locals
      BY <2>1 DEF Locals, Targets, Ids
    <3> QED
      BY <2>1, <3>1, HoldsRow DEF Locals
  <2> QED
    BY <1>0, <1>a, <2>2, <2>3, Answered
<1>4. CASE pc[h] \notin {"policyTarget", "policySave"} /\ PolicyUpdate(h)
  <2>1. PICK p \in Policies :
          /\ UNCHANGED db
          /\ \/ Done(h)
             \/ /\ Ordinary(p)
                /\ \E row \in {db.policies[p], [db.policies[p] EXCEPT !.owner = "ordinary"]} :
                     Go(h, "policyTarget", [Blank EXCEPT !.id = p, !.row = row])
    BY <1>4 DEF PolicyUpdate, Starts, Check
  <2>2. CASE Done(h)
    BY <1>0, <2>1, <2>2, Over, Idle
  <2>3. CASE ~Done(h)
    <3>a. PICK row \in {db.policies[p], [db.policies[p] EXCEPT !.owner = "ordinary"]} :
            Go(h, "policyTarget", [Blank EXCEPT !.id = p, !.row = row])
      BY <2>1, <2>3
    <3>1. Safe(db, p) /\ row \in PolicyRow /\ row.owner \notin {"exec", "legacy"}
      BY <1>0, <2>1, <2>3, OrdinaryIsSafe DEF PolicyRow
    <3>2. LocInv(db, "policyTarget", [Blank EXCEPT !.id = p, !.row = row])
      <4>1. [Blank EXCEPT !.id = p, !.row = row] \in Locals
        BY <3>1 DEF Locals, Blank, Ids
      <4> QED
        BY <3>1, <4>1, HoldsRow DEF Blank
    <3> QED
      BY <1>0, <1>a, <2>1, <3>a, <3>2, Answered
  <2> QED
    BY <2>2, <2>3
<1>5. CASE PolicyEnable(h)
  <2>1. CASE pc[h] = "policyRead"
    <3> DEFINE p == loc[h].id
               row == db.policies[p]
               l == [loc[h] EXCEPT !.row = row, !.arg = IF row = None THEN None ELSE row.default]
    <3>1. p \in Policies /\ Safe(db, p) /\ loc[h] \in Locals
      BY <1>0, <2>1 DEF LocInv, Knows, PolicyPoints
    <3>2. UNCHANGED db /\ ((row # None /\ Go(h, "policySave", l)) \/ Done(h))
      BY <1>5, <2>1 DEF PolicyEnable, Starts, Check
    <3>3. CASE row # None
      <4>1. row \in PolicyRow /\ row.owner \notin {"exec", "legacy"}
        BY <1>0, <3>1, <3>3, Rows DEF Safe, SimpleIn
      <4>2. l \in Locals /\ l.id = p /\ l.row = row /\ l.arg \in Targets \cup {None}
        BY <3>1, <3>3, <4>1 DEF Locals, PolicyRow, Targets, Ids
      <4> HIDE DEF l
      <4>3. LocInv(db, "policySave", l)
        BY <3>1, <4>1, <4>2, HoldsRow
      <4> QED
        BY <1>0, <1>a, <3>2, <4>3, Answered
    <3> QED
      BY <1>0, <3>2, <3>3, Over, Idle
  <2>2. CASE pc[h] # "policyRead"
    <3>1. PICK p \in Policies : Check(h, Ordinary(p), "policyRead", [Blank EXCEPT !.id = p])
      BY <1>5, <2>2 DEF PolicyEnable
    <3> QED
      BY <1>0, <3>1, OrdinaryIsSafe, HoldsPolicy, Answered, Over, Idle DEF Check, PolicyPoints
  <2> QED
    BY <2>1, <2>2
<1>6. CASE PolicyDelete(h)
  <2>1. CASE pc[h] = "policyDelete"
    <3>1. loc[h].id \in Policies /\ ~SimpleIn(db, loc[h].id)
      BY <1>0, <2>1 DEF LocInv, Knows, PolicyPoints, Safe
    <3>2. Write(h, WithoutPolicy(db, loc[h].id)) \/ (Done(h) /\ UNCHANGED db)
      BY <1>6, <2>1 DEF PolicyDelete, Starts
    <3> QED
      BY <1>0, <3>1, <3>2, PolicyGone, Written, Over, Idle
  <2>2. CASE pc[h] # "policyDelete"
    <3>1. PICK p \in Policies : Check(h, Ordinary(p), "policyDelete", [Blank EXCEPT !.id = p])
      BY <1>6, <2>2 DEF PolicyDelete
    <3> QED
      BY <1>0, <3>1, OrdinaryIsSafe, HoldsPolicy, Answered, Over, Idle DEF Check, PolicyPoints
  <2> QED
    BY <2>1, <2>2
<1> QED
  BY <1>1, <1>2, <1>3, <1>4, <1>5, <1>6

\* One new row in the rules table, of a policy that is not a simple one.
LEMMA RuleInserted ==
  ASSUME NEW d, StoreInv(d), NEW p \in Policies, Safe(d, p), NEW t \in Targets \cup {None},
         NEW r \in Rules, d.rules[r] = None
  PROVE  Harmless(d, Inserted(d, {r}, [policy |-> p, target |-> t]))
<1> DEFINE row == [policy |-> p, target |-> t]
           e == Inserted(d, {r}, row)
<1>1. row \in RuleRow /\ row.policy = p /\ d \in Store
  BY DEF RuleRow, StoreInv
<1> HIDE DEF row
<1>2. /\ e \in Store /\ \A s \in Rules : e.rules[s] = IF s = r THEN row ELSE d.rules[s]
      /\ e.policies = d.policies /\ e.bindings = d.bindings /\ e.pools = d.pools
  BY <1>1 DEF Inserted, Store
<1> HIDE DEF e
<1>4. Harmless(d, e)
  BY <1>1, <1>2, RuleWritten
<1> QED
  BY <1>4 DEF e, row

\* UpdateRule, EnableRule and the domain rules hold the row they are going to save.
LEMMA HoldsRuleRow ==
  ASSUME NEW d, NEW r \in Rules, RuleSafe(d, r), NEW row \in RuleRow, Safe(d, row.policy),
         NEW l \in Locals, l.id = r, l.row = row, l.arg \in Targets \cup {None}
  PROVE  LocInv(d, "ruleSave", l)
  BY DEF LocInv, Knows, EgressPoints, PolicyPoints, RulePoints, BindPoints, InboundPoints,
         TargetPoints

\* The requests about rules on the advanced page: the row that is saved or deleted may be
\* gone by then, but it has not become one of a simple policy.
LEMMA RuleRequestsNext ==
  ASSUME IInv, NEW h \in Handlers,
         RuleAdd(h) \/ RuleUpdate(h) \/ RuleEnable(h) \/ RuleDelete(h)
  PROVE  Harmless(db, db') /\ Moves(h)
<1> USE DEF IInv
<1>0. StoreInv(db) /\ LocInv(db, pc[h], loc[h]) /\ db \in Store /\ loc[h] \in Locals
  BY DEF HandlersInv, StoreInv, LocInv, Knows
<1>a. {"ruleTarget", "ruleInsert", "ruleRead", "ruleRetarget", "ruleSave", "ruleEnable",
       "ruleDelete"} \subseteq Points
  BY DEF Points
<1>b. ASSUME pc[h] \in RulePoints PROVE loc[h].id \in Rules /\ RuleSafe(db, loc[h].id)
  BY <1>0, <1>b DEF LocInv, Knows
<1>c. ASSUME NEW r \in Rules, RuleSafe(db, r), db.rules[r] # None
      PROVE  db.rules[r] \in RuleRow /\ Safe(db, db.rules[r].policy)
  BY <1>0, <1>c, Rows DEF RuleSafe
<1>1. CASE pc[h] = "ruleTarget" /\ RuleAdd(h)
  <2>1. loc[h].id \in Policies /\ Safe(db, loc[h].id)
    BY <1>0, <1>1 DEF LocInv, Knows, PolicyPoints
  <2>2. PICK t \in Targets : UNCHANGED db /\ Go(h, "ruleInsert", [loc[h] EXCEPT !.arg = t])
    BY <1>1 DEF RuleAdd, Starts, Validate
  <2>3. LocInv(db, "ruleInsert", [loc[h] EXCEPT !.arg = t])
    BY <1>0, <2>1 DEF LocInv, Knows, Locals, Targets, Ids, EgressPoints, PolicyPoints, RulePoints,
                      BindPoints, InboundPoints, TargetPoints
  <2> QED
    BY <1>0, <1>a, <2>2, <2>3, Answered
<1>2. CASE pc[h] = "ruleInsert" /\ RuleAdd(h)
  <2>1. loc[h].id \in Policies /\ Safe(db, loc[h].id) /\ loc[h].arg \in Targets \cup {None}
    BY <1>0, <1>2 DEF LocInv, Knows, PolicyPoints, TargetPoints
  <2>2. PICK r \in NewId(db.rules) :
          Write(h, Inserted(db, {r}, [policy |-> loc[h].id, target |-> loc[h].arg]))
    BY <1>2 DEF RuleAdd, Starts
  <2>3. r \in Rules /\ db.rules[r] = None
    BY <1>0, NewRule
  <2> QED
    BY <1>0, <2>1, <2>2, <2>3, RuleInserted, Written
<1>3. CASE pc[h] \notin {"ruleTarget", "ruleInsert"} /\ RuleAdd(h)
  <2>1. PICK p \in Policies : Check(h, Ordinary(p), "ruleTarget", [Blank EXCEPT !.id = p])
    BY <1>3 DEF RuleAdd
  <2> QED
    BY <1>0, <2>1, OrdinaryIsSafe, HoldsPolicy, Answered, Over, Idle DEF Check, PolicyPoints
<1>4. CASE pc[h] = "ruleRead" /\ RuleUpdate(h)
  <2> DEFINE row == db.rules[loc[h].id]
             l == [loc[h] EXCEPT !.row = row]
  <2>1. UNCHANGED db /\ ((row # None /\ Go(h, "ruleRetarget", l)) \/ Done(h))
    BY <1>4 DEF RuleUpdate, Starts, Check
  <2>2. CASE row # None
    <3>1. loc[h].id \in Rules /\ RuleSafe(db, loc[h].id) /\ row \in RuleRow /\ Safe(db, row.policy)
      BY <1>4, <1>b, <1>c, <2>2 DEF RulePoints
    <3>2. l \in Locals /\ l.id = loc[h].id /\ l.row = row
      BY <1>0, <3>1 DEF Locals
    <3> HIDE DEF l
    <3>3. LocInv(db, "ruleRetarget", l)
      BY <3>1, <3>2 DEF LocInv, Knows, EgressPoints, PolicyPoints, RulePoints, BindPoints,
                        InboundPoints, TargetPoints
    <3> QED
      BY <1>0, <1>a, <2>1, <3>3, Answered
  <2> QED
    BY <1>0, <2>1, <2>2, Over, Idle
<1>5. CASE pc[h] = "ruleRetarget" /\ RuleUpdate(h)
  <2>1. /\ loc[h].id \in Rules /\ RuleSafe(db, loc[h].id)
        /\ loc[h].row \in RuleRow /\ Safe(db, loc[h].row.policy)
    BY <1>0, <1>5 DEF LocInv, Knows, RulePoints
  <2>2. PICK t \in Targets : UNCHANGED db /\ Go(h, "ruleSave", [loc[h] EXCEPT !.arg = t])
    BY <1>5 DEF RuleUpdate, Starts, Validate
  <2>3. LocInv(db, "ruleSave", [loc[h] EXCEPT !.arg = t])
    <3>1. [loc[h] EXCEPT !.arg = t] \in Locals
      BY <1>0 DEF Locals, Targets, Ids
    <3> QED
      BY <1>0, <2>1, <3>1, HoldsRuleRow DEF Locals
  <2> QED
    BY <1>0, <1>a, <2>2, <2>3, Answered
<1>6. CASE pc[h] = "ruleSave" /\ RuleUpdate(h)
  <2> DEFINE r == loc[h].id
             row == [loc[h].row EXCEPT !.target = loc[h].arg]
             e == [db EXCEPT !.rules[r] = row]
  <2>1. /\ r \in Rules /\ RuleSafe(db, r) /\ row \in RuleRow /\ Safe(db, row.policy)
    BY <1>0, <1>6 DEF LocInv, Knows, RulePoints, TargetPoints, RuleRow
  <2>2. Write(h, e)
    BY <1>6 DEF RuleUpdate, Starts
  <2> HIDE DEF row, r
  <2>3. /\ e \in Store /\ \A s \in Rules : e.rules[s] = IF s = r THEN row ELSE db.rules[s]
        /\ e.policies = db.policies /\ e.bindings = db.bindings /\ e.pools = db.pools
    BY <1>0, <2>1 DEF Store
  <2> HIDE DEF e
  <2>4. Harmless(db, e)
    BY <1>0, <2>1, <2>3, RuleWritten DEF RuleSafe, Safe
  <2> QED
    BY <2>2, <2>4, Written
<1>7. CASE pc[h] \notin {"ruleRead", "ruleRetarget", "ruleSave"} /\ RuleUpdate(h)
  <2>1. PICK r \in Rules : Check(h, OrdinaryRule(r), "ruleRead", [Blank EXCEPT !.id = r])
    BY <1>7 DEF RuleUpdate
  <2> QED
    BY <1>0, <2>1, OrdinaryRuleIsSafe, HoldsRule, Answered, Over, Idle DEF Check, RulePoints
<1>8. CASE pc[h] = "ruleEnable" /\ RuleEnable(h)
  <2> DEFINE row == db.rules[loc[h].id]
             l == [loc[h] EXCEPT !.row = row, !.arg = IF row = None THEN None ELSE row.target]
  <2>1. UNCHANGED db /\ ((row # None /\ Go(h, "ruleSave", l)) \/ Done(h))
    BY <1>8 DEF RuleEnable, Starts, Check
  <2>2. CASE row # None
    <3>1. loc[h].id \in Rules /\ RuleSafe(db, loc[h].id) /\ row \in RuleRow /\ Safe(db, row.policy)
      BY <1>8, <1>b, <1>c, <2>2 DEF RulePoints
    <3>2. l \in Locals /\ l.id = loc[h].id /\ l.row = row /\ l.arg \in Targets \cup {None}
      BY <1>0, <2>2, <3>1 DEF Locals, RuleRow, Targets, Ids
    <3> HIDE DEF l
    <3>3. LocInv(db, "ruleSave", l)
      BY <3>1, <3>2, HoldsRuleRow
    <3> QED
      BY <1>0, <1>a, <2>1, <3>3, Answered
  <2> QED
    BY <1>0, <2>1, <2>2, Over, Idle
<1>9. CASE pc[h] # "ruleEnable" /\ RuleEnable(h)
  <2>1. PICK r \in Rules : Check(h, OrdinaryRule(r), "ruleEnable", [Blank EXCEPT !.id = r])
    BY <1>9 DEF RuleEnable
  <2> QED
    BY <1>0, <2>1, OrdinaryRuleIsSafe, HoldsRule, Answered, Over, Idle DEF Check, RulePoints
<1>10. CASE pc[h] = "ruleDelete" /\ RuleDelete(h)
  <2> DEFINE r == loc[h].id
             e == [db EXCEPT !.rules[r] = None]
  <2>1. r \in Rules /\ RuleSafe(db, r)
    BY <1>10, <1>b DEF RulePoints
  <2>2. Write(h, e)
    BY <1>10 DEF RuleDelete, Starts
  <2>3. /\ e \in Store /\ \A s \in Rules : e.rules[s] = IF s = r THEN None ELSE db.rules[s]
        /\ e.policies = db.policies /\ e.bindings = db.bindings /\ e.pools = db.pools
    BY <1>0, <2>1 DEF Store
  <2>a. db.rules[r] = None \/ ~SimpleIn(db, db.rules[r].policy)
    BY <2>1 DEF RuleSafe, Safe
  <2> HIDE DEF e, r
  <2>4. Harmless(db, e)
    BY <1>0, <2>1, <2>3, <2>a, RuleWritten
  <2> QED
    BY <2>2, <2>4, Written
<1>11. CASE pc[h] # "ruleDelete" /\ RuleDelete(h)
  <2>1. PICK r \in Rules : Check(h, OrdinaryRule(r), "ruleDelete", [Blank EXCEPT !.id = r])
    BY <1>11 DEF RuleDelete
  <2> QED
    BY <1>0, <2>1, OrdinaryRuleIsSafe, HoldsRule, Answered, Over, Idle DEF Check, RulePoints
<1> QED
  BY <1>1, <1>2, <1>3, <1>4, <1>5, <1>6, <1>7, <1>8, <1>9, <1>10, <1>11

\* Binding and unbinding an inbound on the advanced page: the policy it gets is not a simple
\* one, though the one it had may be.
LEMMA BindingRequestsNext ==
  ASSUME IInv, NEW h \in Handlers, Bind(h) \/ Unbind(h)
  PROVE  Harmless(db, db') /\ Moves(h)
<1> USE DEF IInv
<1>0. StoreInv(db) /\ LocInv(db, pc[h], loc[h]) /\ db \in Store /\ loc[h] \in Locals
  BY DEF HandlersInv, StoreInv, LocInv, Knows
<1>a. BindPoints \cup {"unbindExists", "unbind"} \subseteq Points
  BY DEF BindPoints, Points
<1>b. ASSUME NEW i \in Inbounds, NEW p, p = None \/ (p \in Policies /\ Safe(db, p)),
             Write(h, [db EXCEPT !.bindings[i] = p])
      PROVE  Harmless(db, db') /\ Moves(h)
  <2> DEFINE e == [db EXCEPT !.bindings[i] = p]
  <2>1. /\ e \in Store /\ e.bindings = [db.bindings EXCEPT ![i] = p]
        /\ e.policies = db.policies /\ e.rules = db.rules /\ e.pools = db.pools
    BY <1>0, <1>b DEF Store
  <2> HIDE DEF e
  <2>2. Harmless(db, e)
    BY <1>0, <1>b, <2>1, BindingWritten
  <2> QED
    BY <1>b, <2>2, Written DEF e
<1>1. CASE pc[h] = "idle" /\ Bind(h)
  <2>1. PICK p \in Policies, i \in Inbounds :
          Check(h, Ordinary(p), "bindInbound", [Blank EXCEPT !.id = i, !.arg = p])
    BY <1>1 DEF Bind
  <2>2. CASE Ordinary(p)
    <3>1. Safe(db, p)
      BY <1>0, <2>2, OrdinaryIsSafe
    <3>2. LocInv(db, "bindInbound", [Blank EXCEPT !.id = i, !.arg = p])
      BY <3>1 DEF LocInv, Knows, Locals, Blank, Ids, EgressPoints, PolicyPoints, RulePoints,
                  BindPoints, InboundPoints, TargetPoints
    <3> QED
      BY <1>0, <1>a, <2>1, <3>2, Answered DEF Check, BindPoints
  <2> QED
    BY <1>0, <2>1, <2>2, Over, Idle DEF Check
<1>2. CASE pc[h] \in {"bindInbound", "bindExists", "bindCount"} /\ Bind(h)
  <2>1. PICK point \in BindPoints : UNCHANGED db /\ (Go(h, point, loc[h]) \/ Done(h))
    BY <1>2 DEF Bind, Starts, Check, BindPoints
  <2>2. LocInv(db, point, loc[h])
    BY <1>0, <1>2 DEF LocInv, Knows, EgressPoints, PolicyPoints, RulePoints, BindPoints,
                      InboundPoints, TargetPoints
  <2> QED
    BY <1>0, <1>a, <2>1, <2>2, Answered
<1>3. CASE pc[h] = "bind" /\ Bind(h)
  <2>1. loc[h].id \in Inbounds /\ loc[h].arg \in Policies /\ Safe(db, loc[h].arg)
    BY <1>0, <1>3 DEF LocInv, Knows, BindPoints, InboundPoints
  <2>2. Write(h, [db EXCEPT !.bindings[loc[h].id] = loc[h].arg])
    BY <1>3 DEF Bind, Starts
  <2> QED
    BY <1>b, <2>1, <2>2
<1>4. CASE pc[h] = "idle" /\ Unbind(h)
  <2>1. PICK i \in Inbounds : Check(h, OrdinaryBinding(i), "unbindExists", [Blank EXCEPT !.id = i])
    BY <1>4 DEF Unbind
  <2>2. LocInv(db, "unbindExists", [Blank EXCEPT !.id = i])
    BY DEF LocInv, Knows, Locals, Blank, Ids, EgressPoints, PolicyPoints, RulePoints, BindPoints,
           InboundPoints, TargetPoints
  <2> QED
    BY <1>0, <1>a, <2>1, <2>2, Answered DEF Check
<1>5. CASE pc[h] = "unbindExists" /\ Unbind(h)
  <2>1. UNCHANGED db /\ (Go(h, "unbind", loc[h]) \/ Done(h))
    BY <1>5 DEF Unbind, Starts, Check
  <2>2. LocInv(db, "unbind", loc[h])
    BY <1>0, <1>5 DEF LocInv, Knows, EgressPoints, PolicyPoints, RulePoints, BindPoints,
                      InboundPoints, TargetPoints
  <2> QED
    BY <1>0, <1>a, <2>1, <2>2, Answered
<1>6. CASE pc[h] = "unbind" /\ Unbind(h)
  <2>1. loc[h].id \in Inbounds
    BY <1>0, <1>6 DEF LocInv, Knows, InboundPoints
  <2>2. Write(h, [db EXCEPT !.bindings[loc[h].id] = None])
    BY <1>6 DEF Unbind, Starts
  <2> QED
    BY <1>b, <2>1, <2>2
<1> QED
  BY <1>1, <1>2, <1>3, <1>4, <1>5, <1>6 DEF Bind, Unbind, Starts

\* The transaction of a template makes an ordinary policy with its rules, and takes
\* the inbound from whatever policy it had.
LEMMA TemplateWritten ==
  ASSUME NEW d, StoreInv(d), NEW i \in Inbounds, NEW t \in Targets \cup {None},
         NEW p \in Policies, d.policies[p] = None,
         NEW rs \in SUBSET Rules, \A r \in rs : d.rules[r] = None
  PROVE  Harmless(d, [Inserted(d, rs, [policy |-> p, target |-> t])
                        EXCEPT !.policies[p] = [owner |-> "ordinary", default |-> t,
                                                items |-> [k \in Keys |-> {}]],
                               !.bindings[i] = p])
<1> DEFINE rule == [policy |-> p, target |-> t]
           row == [owner |-> "ordinary", default |-> t, items |-> [k \in Keys |-> {}]]
           c == Inserted(d, rs, rule)
           e == [c EXCEPT !.policies[p] = row, !.bindings[i] = p]
<1>1. rule \in RuleRow /\ rule.policy = p /\ row \in PolicyRow /\ row.owner = "ordinary"
      /\ d \in Store
  BY DEF RuleRow, PolicyRow, StoreInv
<1> HIDE DEF rule, row
<1>2. /\ c \in Store /\ \A s \in Rules : c.rules[s] = IF s \in rs THEN rule ELSE d.rules[s]
      /\ c.policies = d.policies /\ c.bindings = d.bindings
      /\ c.pools = d.pools
  BY <1>1 DEF Inserted, Store
<1> HIDE DEF c
<1>3. /\ e \in Store /\ e.policies = [d.policies EXCEPT ![p] = row]
      /\ e.bindings = [d.bindings EXCEPT ![i] = p]
      /\ e.pools = d.pools /\ e.rules = c.rules
  BY <1>1, <1>2 DEF Store
<1> HIDE DEF e
<1>4. /\ e.policies[p] = row /\ \A q \in Policies \ {p} : e.policies[q] = d.policies[q]
      /\ e.bindings[i] = p /\ \A j \in Inbounds \ {i} : e.bindings[j] = d.bindings[j]
      /\ \A s \in Rules : e.rules[s] = IF s \in rs THEN rule ELSE d.rules[s]
  BY <1>1, <1>2, <1>3, Fields
<1>5. /\ d.policies[p] = None /\ \A s \in rs : d.rules[s] = None
      /\ ~SimpleIn(d, p) /\ ~SimpleIn(e, p)
  BY <1>1, <1>4 DEF SimpleIn
<1>7. \A q \in Policies : SimpleIn(d, q) \/ SimpleIn(e, q) => e.policies[q] = d.policies[q]
  BY <1>4, <1>5
<1>8. Harmless(d, e)
  BY <1>1, <1>3, <1>4, <1>5, <1>7 DEF Harmless
<1> QED
  BY <1>8 DEF e, c, row, rule

\* The template page replaces the binding of an inbound, whoever owns it, by a new policy.
LEMMA TemplateNext ==
  ASSUME IInv, NEW h \in Handlers, Template(h)
  PROVE  Harmless(db, db') /\ Moves(h)
<1> USE DEF IInv
<1>0. StoreInv(db) /\ LocInv(db, pc[h], loc[h]) /\ db \in Store /\ loc[h] \in Locals
  BY DEF HandlersInv, StoreInv, LocInv, Knows
<1>a. {"templateTarget", "template"} \subseteq Points
  BY DEF Points
<1>1. CASE pc[h] = "idle"
  <2>1. PICK i \in Inbounds : Check(h, i \in db.inbounds, "templateTarget", [Blank EXCEPT !.id = i])
    BY <1>1 DEF Template
  <2>2. LocInv(db, "templateTarget", [Blank EXCEPT !.id = i])
    BY DEF LocInv, Knows, Locals, Blank, Ids, EgressPoints, PolicyPoints, RulePoints, BindPoints,
           InboundPoints, TargetPoints
  <2> QED
    BY <1>0, <1>a, <2>1, <2>2, Answered DEF Check
<1>2. CASE pc[h] = "templateTarget"
  <2>1. PICK t \in Targets : UNCHANGED db /\ Go(h, "template", [loc[h] EXCEPT !.arg = t])
    BY <1>2 DEF Template, Starts, Validate
  <2>2. LocInv(db, "template", [loc[h] EXCEPT !.arg = t])
    BY <1>0, <1>2 DEF LocInv, Knows, Locals, Targets, Ids, EgressPoints, PolicyPoints, RulePoints,
                      BindPoints, InboundPoints, TargetPoints
  <2> QED
    BY <1>0, <1>a, <2>1, <2>2, Answered
<1>3. CASE pc[h] = "template"
  <2>1. loc[h].id \in Inbounds /\ loc[h].arg \in Targets \cup {None}
    BY <1>0, <1>3 DEF LocInv, Knows, InboundPoints, TargetPoints
  <2>2. PICK p \in NewId(db.policies), rs \in NewRules(MaxSnapshot) :
          Write(h, [Inserted(db, rs, [policy |-> p, target |-> loc[h].arg])
                      EXCEPT !.policies[p] = [owner |-> "ordinary", default |-> loc[h].arg,
                                              items |-> [k \in Keys |-> {}]],
                             !.bindings[loc[h].id] = p])
    BY <1>3 DEF Template, Starts
  <2>3. /\ p \in Policies /\ db.policies[p] = None
        /\ rs \subseteq Rules /\ \A r \in rs : db.rules[r] = None
    BY <1>0, NewPolicy, ManyRules
  <2> QED
    BY <1>0, <2>1, <2>2, <2>3, TemplateWritten, Written
<1> QED
  BY <1>1, <1>2, <1>3 DEF Template, Starts

-----------------------------------------------------------------------------
(* TrafficRuleGroupService *)

\* A new rule group is a new policy that is not a simple one.
LEMMA GroupWritten ==
  ASSUME StoreInv(db), NEW p \in NewId(db.policies), NEW owner \in {"group", "builtin"}
  PROVE  Harmless(db, NewGroup(p, owner)) /\ Safe(NewGroup(p, owner), p)
<1> DEFINE row == [owner |-> owner, default |-> None, items |-> [k \in Keys |-> {}]]
           e == [db EXCEPT !.policies[p] = row]
<1>1. row \in PolicyRow /\ row.owner \notin {"exec", "legacy"} /\ db \in Store
  BY DEF PolicyRow, StoreInv
<1> HIDE DEF row
<1>2. /\ e \in Store /\ e.policies = [db.policies EXCEPT ![p] = row]
      /\ e.rules = db.rules /\ e.bindings = db.bindings /\ e.pools = db.pools
  BY <1>1 DEF Store
<1>3. p \in Policies /\ ~SimpleIn(db, p)
  BY <1>1, NewPolicy DEF SimpleIn
<1> HIDE DEF e
<1>4. Harmless(db, e)
  BY <1>1, <1>2, <1>3, PolicyWritten
<1>5. Safe(e, p)
  BY <1>1, <1>2, <1>3, Fields DEF Safe, SimpleIn
<1> QED
  BY <1>4, <1>5 DEF e, row, NewGroup

\* A rule group is not a simple policy.
LEMMA GroupIsSafe ==
  ASSUME StoreInv(db), NEW p \in Policies, Group(p)
  PROVE  Safe(db, p) /\ db.policies[p] \in PolicyRow
                     /\ db.policies[p].owner \notin {"exec", "legacy"}
  BY Rows DEF StoreInv, Group, Safe, SimpleIn

\* Seeding a built-in group writes to the policy it has just created, or to nobody's when
\* another request has deleted that one.
LEMMA EnsureBuiltinGroupsNext ==
  ASSUME IInv, NEW h \in Handlers, EnsureBuiltinGroups(h)
  PROVE  Harmless(db, db') /\ Moves(h)
<1> USE DEF IInv
<1>0. StoreInv(db) /\ LocInv(db, pc[h], loc[h]) /\ db \in Store /\ loc[h] \in Locals
  BY DEF HandlersInv, StoreInv, LocInv, Knows
<1>a. {"builtinInsert", "seed"} \subseteq Points
  BY DEF Points
<1>1. CASE pc[h] = "idle"
  <2>1. Check(h, \A p \in Policies : Group(p) => db.policies[p].owner # "builtin",
              "builtinInsert", Blank)
    BY <1>1 DEF EnsureBuiltinGroups
  <2>2. LocInv(db, "builtinInsert", Blank)
    BY DEF LocInv, Knows, Locals, Blank, Ids, EgressPoints, PolicyPoints, RulePoints, BindPoints,
           InboundPoints, TargetPoints
  <2> QED
    BY <1>0, <1>a, <2>1, <2>2, Answered DEF Check
<1>2. CASE pc[h] = "builtinInsert"
  <2>1. PICK p \in NewId(db.policies) :
          db' = NewGroup(p, "builtin") /\ Go(h, "seed", [Blank EXCEPT !.id = p])
    BY <1>2 DEF EnsureBuiltinGroups, Starts
  <2>2. Harmless(db, db') /\ Safe(db', p)
    BY <1>0, <2>1, GroupWritten
  <2>3. LocInv(db', "seed", [Blank EXCEPT !.id = p])
    BY <1>0, <2>2, NewPolicy, HoldsPolicy DEF PolicyPoints
  <2> QED
    BY <1>a, <2>1, <2>2, <2>3 DEF Moves
<1>3. CASE pc[h] = "seed"
  <2>1. loc[h].id \in Policies /\ Safe(db, loc[h].id)
    BY <1>0, <1>3 DEF LocInv, Knows, PolicyPoints
  <2>2. CASE Write(h, WithoutPolicy(db, loc[h].id))
    BY <1>0, <2>1, <2>2, PolicyGone, Written DEF Safe
  <2>3. CASE ~Write(h, WithoutPolicy(db, loc[h].id))
    <3>1. PICK r \in NewId(db.rules) :
            /\ db' = Inserted(db, {r}, [policy |-> loc[h].id, target |-> None])
            /\ UNCHANGED <<pc, loc>> \/ Done(h)
      BY <1>3, <2>3 DEF EnsureBuiltinGroups, Starts
    <3>2. Harmless(db, db')
      BY <1>0, <2>1, <3>1, NewRule, RuleInserted
    <3>3. CASE Done(h)
      BY <3>2, <3>3, Over
    <3>4. CASE UNCHANGED <<pc, loc>>
      <4>1. LocInv(db', pc[h], loc[h])
        BY <1>0, <3>2, HarmlessInv, NamedHeld, LocLasts
      <4>2. Go(h, pc[h], loc[h])
        BY <3>4 DEF Go, HandlersInv
      <4> QED
        BY <1>3, <1>a, <3>2, <4>1, <4>2 DEF Moves
    <3> QED
      BY <3>1, <3>3, <3>4
  <2> QED
    BY <2>2, <2>3
<1> QED
  BY <1>1, <1>2, <1>3 DEF EnsureBuiltinGroups, Starts

\* A rule of a group that is changed or deleted is not one of a simple policy.
LEMMA ChangeDomainRuleNext ==
  ASSUME IInv, NEW h \in Handlers, ChangeDomainRule(h)
  PROVE  Harmless(db, db') /\ Moves(h)
<1> USE DEF IInv
<1>0. StoreInv(db) /\ LocInv(db, pc[h], loc[h]) /\ db \in Store /\ loc[h] \in Locals
  BY DEF HandlersInv, StoreInv, LocInv, Knows
<1>a. {"groupRule", "ruleDelete", "ruleSave"} \subseteq Points
  BY DEF Points
<1>1. CASE pc[h] = "idle"
  <2>1. PICK p \in Policies : \E r \in RulesOf(db, p) :
          Check(h, Group(p), "groupRule", [Blank EXCEPT !.id = r, !.arg = p])
    BY <1>1 DEF ChangeDomainRule
  <2>2. PICK r \in RulesOf(db, p) :
          Check(h, Group(p), "groupRule", [Blank EXCEPT !.id = r, !.arg = p])
    BY <2>1
  <2>3. CASE Group(p)
    <3>1. r \in Rules /\ RuleSafe(db, r)
      BY <1>0, <2>3, GroupIsSafe DEF RulesOf, RuleSafe, StoreInv
    <3>2. LocInv(db, "groupRule", [Blank EXCEPT !.id = r, !.arg = p])
      BY <3>1 DEF LocInv, Knows, Locals, Blank, Ids, EgressPoints, PolicyPoints, RulePoints,
                  BindPoints, InboundPoints, TargetPoints
    <3> QED
      BY <1>0, <1>a, <2>2, <3>2, Answered DEF Check
  <2> QED
    BY <1>0, <2>2, <2>3, Over, Idle DEF Check
<1>2. CASE pc[h] = "groupRule"
  <2> DEFINE row == db.rules[loc[h].id]
             found == row # None /\ row.policy = loc[h].arg
             l == [loc[h] EXCEPT !.row = row, !.arg = IF found THEN row.target ELSE @]
  <2>1. loc[h].id \in Rules /\ RuleSafe(db, loc[h].id)
    BY <1>0, <1>2 DEF LocInv, Knows, RulePoints
  <2>2. /\ UNCHANGED db
        /\ \/ Done(h)
           \/ Go(h, "ruleDelete", loc[h])
           \/ found /\ Go(h, "ruleSave", l)
    BY <1>2 DEF ChangeDomainRule, Starts, Check
  <2>3. CASE Done(h)
    BY <1>0, <2>2, <2>3, Over, Idle
  <2>4. CASE Go(h, "ruleDelete", loc[h])
    <3>1. LocInv(db, "ruleDelete", loc[h])
      BY <1>0, <2>1 DEF LocInv, Knows, EgressPoints, PolicyPoints, RulePoints, BindPoints,
                        InboundPoints, TargetPoints
    <3> QED
      BY <1>0, <1>a, <2>2, <2>4, <3>1, Answered
  <2>5. CASE found /\ Go(h, "ruleSave", l)
    <3>1. row \in RuleRow /\ Safe(db, row.policy)
      BY <1>0, <2>1, <2>5, Rows DEF RuleSafe
    <3>2. l \in Locals /\ l.id = loc[h].id /\ l.row = row /\ l.arg \in Targets \cup {None}
      BY <1>0, <2>5, <3>1 DEF Locals, RuleRow, Targets, Ids
    <3>3. LocInv(db, "ruleSave", l)
      BY <2>1, <3>1, <3>2, HoldsRuleRow
    <3> QED
      BY <1>0, <1>a, <2>2, <2>5, <3>3, Answered
  <2> QED
    BY <2>2, <2>3, <2>4, <2>5
<1> QED
  BY <1>1, <1>2 DEF ChangeDomainRule, Starts

\* A request on rule groups leaves simple state alone.
LEMMA GroupNext ==
  ASSUME IInv, NEW h \in Handlers, GroupRequest(h)
  PROVE  Harmless(db, db') /\ Moves(h)
<1> USE DEF IInv
<1>0. StoreInv(db) /\ db \in Store
  BY DEF StoreInv
<1>1. CASE GroupCreate(h)
  <2>1. PICK p \in NewId(db.policies) : Write(h, NewGroup(p, "group"))
    BY <1>1 DEF GroupCreate
  <2> QED
    BY <1>0, <2>1, GroupWritten, Written
<1>2. CASE EnsureBuiltinGroups(h)
  BY <1>2, EnsureBuiltinGroupsNext
<1>3. CASE GroupUpdate(h)
  <2>1. PICK p \in Policies :
          \/ Check(h, Group(p), "policySave", [Blank EXCEPT !.id = p, !.row = db.policies[p]])
          \/ Check(h, Group(p), "policyRead", [Blank EXCEPT !.id = p])
    BY <1>3 DEF GroupUpdate
  <2>2. CASE ~Group(p)
    BY <1>0, <2>1, <2>2, Over, Idle DEF Check
  <2>3. CASE Group(p) /\ Go(h, "policyRead", [Blank EXCEPT !.id = p])
    BY <1>0, <2>1, <2>3, GroupIsSafe, HoldsPolicy, Answered DEF Check, PolicyPoints
  <2>4. CASE /\ Group(p)
             /\ Go(h, "policySave", [Blank EXCEPT !.id = p, !.row = db.policies[p]])
    <3> DEFINE l == [Blank EXCEPT !.id = p, !.row = db.policies[p]]
    <3>1. Safe(db, p) /\ db.policies[p] \in PolicyRow
                      /\ db.policies[p].owner \notin {"exec", "legacy"}
      BY <1>0, <2>4, GroupIsSafe
    <3>2. l \in Locals /\ l.id = p /\ l.row = db.policies[p] /\ l.arg \in Targets \cup {None}
      BY <3>1 DEF Locals, Blank, Ids
    <3>3. LocInv(db, "policySave", l) /\ "policySave" \in Points
      BY <3>1, <3>2, HoldsRow
    <3> QED
      BY <1>0, <2>1, <2>4, <3>3, Answered DEF Check
  <2> QED
    BY <2>1, <2>2, <2>3, <2>4 DEF Check
<1>4. CASE GroupDelete(h)
  <2>1. PICK p \in Policies :
          Check(h, Group(p) /\ db.policies[p].owner = "group", "policyDelete",
                [Blank EXCEPT !.id = p])
    BY <1>4 DEF GroupDelete
  <2> QED
    BY <1>0, <2>1, GroupIsSafe, HoldsPolicy, Answered, Over, Idle DEF Check, PolicyPoints
<1>5. CASE AddDomainRule(h)
  <2>1. PICK p \in Policies : Check(h, Group(p), "ruleInsert", [Blank EXCEPT !.id = p])
    BY <1>5 DEF AddDomainRule
  <2> QED
    BY <1>0, <2>1, GroupIsSafe, HoldsPolicy, Answered, Over, Idle DEF Check, PolicyPoints
<1>6. CASE ChangeDomainRule(h)
  BY <1>6, ChangeDomainRuleNext
<1> QED
  BY <1>1, <1>2, <1>3, <1>4, <1>5, <1>6 DEF GroupRequest

\* A request of the advanced pages leaves simple state alone.
LEMMA AdvancedNext ==
  ASSUME IInv, NEW h \in Handlers, AdvancedRequest(h)
  PROVE  Harmless(db, db') /\ Moves(h)
  BY PolicyRequestsNext, RuleRequestsNext, BindingRequestsNext, TemplateNext DEF AdvancedRequest

-----------------------------------------------------------------------------
(* What the simple page shows *)

LineOf(ts) == IF Cardinality(ts) = 1 THEN CHOOSE t \in ts : TRUE ELSE None
TargetsIn(d, p, rs) == IF rs \subseteq RulesOf(d, p) THEN {d.rules[r].target : r \in rs} ELSE {}

\* The line of policy p for key k, and of inbound i, in any tables.
Entry(d, p, k) ==
  CASE k = All -> d.policies[p].default
    [] k # All /\ d.policies[p].owner = "exec"
         -> LineOf(TargetsIn(d, p, d.policies[p].items[k]))
    [] k = LegacyKey /\ k # All /\ d.policies[p].owner = "legacy"
         -> LineOf(TargetsIn(d, p, RulesOf(d, p)))
    [] OTHER -> None

RouteIn(d, i, k) ==
  IF d.bindings[i] = None \/ ~SimpleIn(d, d.bindings[i]) THEN None
                                                          ELSE Entry(d, d.bindings[i], k)

\* It is the one of the specification.
SameRoutes == \A i \in Inbounds, k \in Traffic : Route(i, k) = RouteIn(db, i, k)

\* Both definitions agree in every state.
LEMMA RouteNow == SameRoutes
<1> SUFFICES ASSUME NEW i \in Inbounds, NEW k \in Traffic PROVE Route(i, k) = RouteIn(db, i, k)
  BY DEF SameRoutes
<1> DEFINE p == db.bindings[i]
<1>1. CASE p = None \/ ~Simple(p)
  BY <1>1 DEF Route, RouteIn, Simple, SimpleIn
<1>2. CASE p # None /\ Simple(p)
  <2>1. RouteIn(db, i, k) = Entry(db, p, k)
    BY <1>2 DEF RouteIn, Simple, SimpleIn
  <2>2. CASE k = All
    BY <1>2, <2>1, <2>2 DEF Route, Entry
  <2>3. CASE k # All /\ db.policies[p].owner = "exec"
    BY <1>2, <2>1, <2>3 DEF Route, Entry, LineOf, TargetsOf, TargetsIn
  <2>4. CASE k # All /\ db.policies[p].owner = "legacy" /\ k = LegacyKey
    BY <1>2, <2>1, <2>4 DEF Route, Entry, LineOf, TargetsOf, TargetsIn
  <2>5. CASE k # All /\ db.policies[p].owner = "legacy" /\ k # LegacyKey
    BY <1>2, <2>1, <2>5 DEF Route, Entry
  <2> QED
    BY <1>2, <2>2, <2>3, <2>4, <2>5 DEF Simple
<1> QED
  BY <1>1, <1>2

\* It still is after a step.
LEMMA RouteThen == SameRoutes'
  BY RouteNow, PTL

\* No rows, no line; rows that agree, their target.
LEMMA NoLine == LineOf({}) = None
  BY FS_EmptySet DEF LineOf

\* One target is the line.
LEMMA OneLine == ASSUME NEW t PROVE LineOf({t}) = t
  BY FS_Singleton DEF LineOf

\* The line of rows that agree is what each of them says.
LEMMA TargetsAgree ==
  ASSUME NEW d, NEW p, NEW rs, rs \subseteq RulesOf(d, p), NEW r \in rs,
         \A s \in rs : d.rules[s].target = d.rules[r].target
  PROVE  LineOf(TargetsIn(d, p, rs)) = d.rules[r].target
<1>1. TargetsIn(d, p, rs) = {d.rules[r].target}
  BY DEF TargetsIn
<1> QED
  BY <1>1, OneLine

\* An item without rows has no line.
LEMMA TargetsNone == ASSUME NEW d, NEW p PROVE LineOf(TargetsIn(d, p, {})) = None
<1>1. TargetsIn(d, p, {}) = {}
  BY DEF TargetsIn
<1> QED
  BY <1>1, NoLine

\* The lines of a policy depend on the policy and its rows only.
LEMMA EntrySame ==
  ASSUME NEW d, NEW e, NEW p, Same(d, e, p), NEW k
  PROVE  Entry(e, p, k) = Entry(d, p, k)
<1>1. ASSUME NEW rs PROVE TargetsIn(e, p, rs) = TargetsIn(d, p, rs)
  BY DEF TargetsIn, Same
<1> QED
  BY <1>1 DEF Entry, Same

\* A row in the present format that agrees with the rules of policy p, whether it is
\* stored there or about to be.
Fits(d, p, row) ==
  /\ row \in PolicyRow /\ row.owner = "exec"
  /\ row.default \in Egresses \cup {None}
  /\ \A r \in RulesOf(d, p) : d.rules[r].target \in Egresses
  /\ UNION {row.items[k] : k \in Keys} = RulesOf(d, p)
  /\ \A k, l \in Keys : k # l => row.items[k] \cap row.items[l] = {}
  /\ \A k \in Keys : \A r, s \in row.items[k] : d.rules[r].target = d.rules[s].target

\* The lines of inbound i are those that row says.
Shows(d, i, row) ==
  /\ RouteIn(d, i, All) = row.default
  /\ \A k \in Keys : /\ row.items[k] = {} => RouteIn(d, i, k) = None
                     /\ \A r \in row.items[k] : RouteIn(d, i, k) = d.rules[r].target

\* A stored policy in the present format agrees with its rules.
LEMMA ExecFits ==
  ASSUME NEW d, StoreInv(d), NEW p \in Policies, SimpleIn(d, p), d.policies[p].owner = "exec"
  PROVE  Fits(d, p, d.policies[p])
<1>1. PolicyInv(d, p) /\ d.policies[p] \in PolicyRow
  BY Rows DEF StoreInv, SimpleIn
<1> QED
  BY <1>1 DEF PolicyInv, ExecAgree, Fits

\* A row that agrees with the rules can be stored.
LEMMA FitsInv ==
  ASSUME NEW d, NEW p, Fits(d, p, d.policies[p]), d.policies[p] # None
  PROVE  SimpleIn(d, p) /\ PolicyInv(d, p)
  BY DEF Fits, SimpleIn, PolicyInv, ExecAgree

\* Once it is stored and bound, the page shows what the row says.
LEMMA FitsShows ==
  ASSUME NEW d, NEW i \in Inbounds, NEW p \in Policies, d.bindings[i] = p,
         d.policies[p] # None, Fits(d, p, d.policies[p])
  PROVE  Shows(d, i, d.policies[p])
<1> DEFINE row == d.policies[p]
<1>1. \A k \in Traffic : RouteIn(d, i, k) = Entry(d, p, k)
  BY IdAssumption, FitsInv DEF RouteIn, Ids
<1>2. RouteIn(d, i, All) = row.default
  BY <1>1 DEF Entry, Traffic
<1>3. ASSUME NEW k \in Keys
      PROVE  /\ row.items[k] \subseteq RulesOf(d, p)
             /\ RouteIn(d, i, k) = LineOf(TargetsIn(d, p, row.items[k]))
  BY <1>1, IdAssumption DEF Entry, Traffic, Fits
<1>4. ASSUME NEW k \in Keys, row.items[k] = {} PROVE RouteIn(d, i, k) = None
  BY <1>3, <1>4, TargetsNone
<1>5. ASSUME NEW k \in Keys, NEW r \in row.items[k] PROVE RouteIn(d, i, k) = d.rules[r].target
  BY <1>3, TargetsAgree DEF Fits
<1> QED
  BY <1>2, <1>4, <1>5 DEF Shows

-----------------------------------------------------------------------------
(* A step of the simple page *)

\* No such policy is there, and no row names it.
Vacant(d, p) ==
  /\ d.policies[p] = None /\ RulesOf(d, p) = {}
  /\ \A i \in Inbounds : d.bindings[i] # p

\* It changes one simple policy, or one that it creates, with its rows and bindings.
Own(d, e, p) ==
  /\ e \in Store /\ e.pools = d.pools
  /\ Vacant(d, p) \/ SimpleIn(d, p)
  /\ \A q \in Policies \ {p} : e.policies[q] = d.policies[q]
  /\ \A r \in Rules : e.rules[r] # d.rules[r] =>
       /\ d.rules[r] = None \/ d.rules[r].policy = p
       /\ e.rules[r] = None \/ e.rules[r].policy = p
  /\ PolicyInv(e, p) /\ BoundOnce(e)

\* It takes no id that somebody holds.
Spares(d, e, p, held) ==
  /\ p \notin held \/ SimpleIn(d, p)
  /\ \A r \in Rules \cap held : d.rules[r] = None => e.rules[r] = None

\* Everybody else's policies stay.
LEMMA OwnInv ==
  ASSUME NEW d, NEW e, StoreInv(d), NEW p \in Policies, Own(d, e, p)
  PROVE  /\ StoreInv(e)
         /\ \A q \in Policies \ {p} : Same(d, e, q)
<1> USE DEF StoreInv
<1>1. ASSUME NEW q \in Policies \ {p} PROVE Same(d, e, q)
  <2>1. RulesOf(e, q) = RulesOf(d, q)
    <3>1. ASSUME NEW r \in Rules
          PROVE  /\ d.rules[r] # None /\ d.rules[r].policy = q => e.rules[r] = d.rules[r]
                 /\ e.rules[r] # None /\ e.rules[r].policy = q => e.rules[r] = d.rules[r]
      BY DEF Own
    <3> QED
      BY <3>1 DEF RulesOf
  <2>2. \A r \in RulesOf(d, q) : e.rules[r] = d.rules[r]
    BY DEF Own, RulesOf
  <2> QED
    BY <2>1, <2>2 DEF Own, Same
<1>2. \A q \in Policies : PolicyInv(e, q)
  BY <1>1, SameInv DEF Own
<1> QED
  BY <1>1, <1>2 DEF Own

\* So does what is known of the ids that somebody holds.
LEMMA OwnLasts ==
  ASSUME NEW d, NEW e, NEW held, StoreInv(d), NEW p \in Policies, Own(d, e, p),
         Spares(d, e, p, held)
  PROVE  Lasting(d, e, held)
<1>1. ASSUME NEW q \in Policies, Safe(d, q), q # p PROVE Safe(e, q)
  BY <1>1 DEF Own, Safe, SimpleIn
<1>2. ASSUME NEW q \in Policies \cap held, Safe(d, q) PROVE Safe(e, q)
  BY <1>1, <1>2 DEF Spares, Safe
<1>3. ASSUME NEW r \in Rules \cap held, RuleSafe(d, r) PROVE RuleSafe(e, r)
  <2>1. CASE d.rules[r] = None
    BY <2>1 DEF RuleSafe, Spares
  <2>2. CASE d.rules[r] # None
    <3>1. d.rules[r].policy \in Policies /\ Safe(d, d.rules[r].policy)
      BY <1>3, <2>2, Rows DEF RuleSafe, StoreInv
    <3>2. d.rules[r].policy # p
      BY <2>2, <3>1 DEF Own, Vacant, RulesOf, Safe
    <3>3. e.rules[r] = d.rules[r]
      BY <2>2, <3>2 DEF Own
    <3> QED
      BY <1>1, <3>1, <3>2, <3>3 DEF RuleSafe
  <2> QED
    BY <2>1, <2>2
<1> QED
  BY <1>2, <1>3 DEF Own, Lasting

\* The tables of the simple page, before and after: one inbound is cleared.
Clears(d, e, i) ==
  \A j \in Inbounds, k \in Traffic : RouteIn(e, j, k) = IF j = i THEN None ELSE RouteIn(d, j, k)

\* One entry changes.
Sets(d, e, i, k, t) ==
  \A j \in Inbounds, l \in Traffic :
    RouteIn(e, j, l) = IF j = i /\ l = k THEN t ELSE RouteIn(d, j, l)

\* One entry moves.
Renames(d, e, i, k, l, t) ==
  /\ k # l /\ RouteIn(d, i, k) # None /\ RouteIn(d, i, l) = None
  /\ \A j \in Inbounds, m \in Traffic :
       RouteIn(e, j, m) = IF j = i /\ m = k THEN None
                          ELSE IF j = i /\ m = l THEN t
                          ELSE RouteIn(d, j, m)

\* No step does more than one of these.
Effect(d, e) ==
  \/ \A i \in Inbounds, k \in Traffic : RouteIn(e, i, k) = RouteIn(d, i, k)
  \/ \E i \in Inbounds : Clears(d, e, i)
  \/ \E i \in Inbounds, k \in Traffic, t \in Egresses \cup {None} : Sets(d, e, i, k, t)
  \/ \E i \in Inbounds, k \in Custom, l \in Custom, t \in Egresses :
       Renames(d, e, i, k, l, t)

\* The inbounds that are not bound to the policy see nothing of it.
LEMMA OthersRoutes ==
  ASSUME NEW d, NEW e, StoreInv(d), NEW p \in Policies, Own(d, e, p),
         NEW j \in Inbounds, d.bindings[j] # p, e.bindings[j] = d.bindings[j], NEW k
  PROVE  RouteIn(e, j, k) = RouteIn(d, j, k)
<1>1. CASE d.bindings[j] = None
  BY <1>1 DEF RouteIn
<1>2. CASE d.bindings[j] # None
  <2> DEFINE q == d.bindings[j]
  <2>1. q \in Policies \ {p}
    BY <1>2, Rows DEF StoreInv
  <2>2. Same(d, e, q)
    BY <2>1, OwnInv
  <2>3. Entry(e, q, k) = Entry(d, q, k) /\ (SimpleIn(e, q) <=> SimpleIn(d, q))
    BY <2>2, EntrySame DEF Same, SimpleIn
  <2> QED
    BY <2>3 DEF RouteIn
<1> QED
  BY <1>1, <1>2

\* A harmless step clears at most one inbound.
LEMMA HarmlessEffect ==
  ASSUME NEW d, NEW e, StoreInv(d), Harmless(d, e)
  PROVE  Effect(d, e)
<1>0. d \in Store /\ e \in Store
  BY DEF StoreInv, Harmless
<1>1. ASSUME NEW i \in Inbounds, e.bindings[i] = d.bindings[i], NEW k \in Traffic
      PROVE  RouteIn(e, i, k) = RouteIn(d, i, k)
  <2>1. CASE d.bindings[i] = None
    BY <1>1, <2>1 DEF RouteIn
  <2>2. CASE d.bindings[i] # None
    <3> DEFINE p == d.bindings[i]
    <3>1. p \in Policies
      BY <1>0, <2>2, Rows
    <3>2. SimpleIn(d, p) \/ SimpleIn(e, p) =>
            SimpleIn(d, p) /\ SimpleIn(e, p) /\ Entry(e, p, k) = Entry(d, p, k)
      BY <1>0, <3>1, HarmlessSame, EntrySame
    <3> QED
      BY <1>1, <3>2 DEF RouteIn
  <2> QED
    BY <2>1, <2>2
<1>2. ASSUME NEW i \in Inbounds, e.bindings[i] # d.bindings[i], NEW k \in Traffic
      PROVE  RouteIn(e, i, k) = None
  <2>1. e.bindings[i] = None \/ ~SimpleIn(d, e.bindings[i])
    BY <1>2 DEF Harmless
  <2>2. e.bindings[i] # None => e.bindings[i] \in Policies
    BY <1>0, Rows
  <2>3. e.bindings[i] = None \/ ~SimpleIn(e, e.bindings[i])
    BY <1>0, <2>1, <2>2, HarmlessSame
  <2> QED
    BY <2>3 DEF RouteIn
<1> DEFINE Taken(i) == /\ e.bindings[i] # d.bindings[i]
                       /\ d.bindings[i] # None /\ SimpleIn(d, d.bindings[i])
<1>3. CASE \A i \in Inbounds : ~Taken(i)
  <2>1. ASSUME NEW i \in Inbounds, NEW k \in Traffic PROVE RouteIn(e, i, k) = RouteIn(d, i, k)
    <3>1. CASE e.bindings[i] = d.bindings[i]
      BY <1>1, <3>1
    <3>2. CASE e.bindings[i] # d.bindings[i]
      <4>1. RouteIn(d, i, k) = None
        BY <1>3, <3>2 DEF RouteIn
      <4> QED
        BY <1>2, <3>2, <4>1
    <3> QED
      BY <3>1, <3>2
  <2> QED
    BY <2>1 DEF Effect, Clears, Sets, Renames
<1>4. ASSUME NEW i \in Inbounds, Taken(i) PROVE Effect(d, e)
  <2>1. ASSUME NEW j \in Inbounds, NEW k \in Traffic
        PROVE  RouteIn(e, j, k) = IF j = i THEN None ELSE RouteIn(d, j, k)
    <3>1. CASE j = i
      BY <1>2, <1>4, <3>1
    <3>2. CASE j # i /\ e.bindings[j] = d.bindings[j]
      BY <1>1, <3>2
    <3>3. CASE j # i /\ e.bindings[j] # d.bindings[j]
      <4>1. ~Taken(j)
        BY <1>4, <3>3 DEF Harmless
      <4>2. RouteIn(d, j, k) = None
        BY <3>3, <4>1 DEF RouteIn
      <4> QED
        BY <1>2, <3>3, <4>2
    <3> QED
      BY <3>1, <3>2, <3>3
  <2> QED
    BY <2>1 DEF Effect, Clears, Sets, Renames
<1> QED
  BY <1>3, <1>4

\* A request has found, or is about to create, the policy of inbound i: in the present
\* format it would be row.
Held(d, i, p, row) ==
  /\ Fits(d, p, row) /\ Shows(d, i, row)
  /\ Vacant(d, p) \/ SimpleIn(d, p)
  /\ d.bindings[i] \in {None, p}
  /\ \A j \in Inbounds \ {i} : d.bindings[j] # p

\* It stores new as the row of the policy, binds the inbound to it and changes rules
\* of this policy only.
Stored(d, e, i, p, new) ==
  /\ e \in Store /\ e.pools = d.pools
  /\ e.policies[p] = new /\ \A q \in Policies \ {p} : e.policies[q] = d.policies[q]
  /\ e.bindings[i] = p /\ \A j \in Inbounds \ {i} : e.bindings[j] = d.bindings[j]
  /\ \A r \in Rules : e.rules[r] # d.rules[r] =>
       /\ d.rules[r] = None \/ d.rules[r].policy = p
       /\ e.rules[r] = None \/ e.rules[r].policy = p
  /\ Fits(e, p, new)

\* Such a write concerns one policy and its inbound: everybody else's lines stay, and those
\* of the inbound are what the new row says.
LEMMA StoredOwn ==
  ASSUME NEW d, NEW e, StoreInv(d), NEW i \in Inbounds, NEW p \in Policies, NEW row, NEW new,
         Held(d, i, p, row), Stored(d, e, i, p, new)
  PROVE  /\ Own(d, e, p) /\ Shows(e, i, new)
         /\ \A j \in Inbounds \ {i}, k \in Traffic : RouteIn(e, j, k) = RouteIn(d, j, k)
<1> USE DEF StoreInv
<1>1. new \in PolicyRow /\ new # None
  BY IdAssumption DEF Stored, Fits
<1>3. SimpleIn(e, p) /\ PolicyInv(e, p)
  BY <1>1, FitsInv DEF Stored
<1>4. BoundOnce(e)
  <2> SUFFICES ASSUME NEW j \in Inbounds, NEW l \in Inbounds, e.bindings[j] # None,
                      SimpleIn(e, e.bindings[j]), e.bindings[j] = e.bindings[l]
               PROVE  j = l
    BY DEF BoundOnce
  <2>1. e.bindings[j] \in Policies
    BY Rows DEF Stored
  <2>2. CASE e.bindings[j] = p
    BY <2>2 DEF Stored, Held
  <2>3. CASE e.bindings[j] # p
    <3>1. j # i /\ l # i /\ d.bindings[j] = e.bindings[j] /\ d.bindings[l] = e.bindings[j]
      BY <2>3 DEF Stored
    <3>2. SimpleIn(d, d.bindings[j])
      BY <2>1, <2>3, <3>1 DEF Stored, SimpleIn
    <3> QED
      BY <3>1, <3>2 DEF BoundOnce
  <2> QED
    BY <2>2, <2>3
<1>5. Own(d, e, p)
  BY <1>3, <1>4 DEF Own, Stored, Held
<1>6. Shows(e, i, new)
  BY <1>1, FitsShows DEF Stored
<1>7. \A j \in Inbounds \ {i}, k \in Traffic : RouteIn(e, j, k) = RouteIn(d, j, k)
  BY <1>5, OthersRoutes DEF Stored, Held
<1> QED
  BY <1>5, <1>6, <1>7

\* The rows of the policy, row before and new after, differ in the entry for k only,
\* which leads to t now.
Differ(d, e, row, new, k, t) ==
  /\ new.default = IF k = All THEN t ELSE row.default
  /\ \A l \in Keys \ {k} : /\ new.items[l] = row.items[l]
                           /\ \A r \in row.items[l] : e.rules[r].target = d.rules[r].target
  /\ k \in Keys => \/ t = None /\ new.items[k] = {}
                   \/ new.items[k] # {} /\ \A r \in new.items[k] : e.rules[r].target = t

\* When the rows differ in one entry only, so do the tables.
LEMMA OneEntry ==
  ASSUME NEW d, NEW e, StoreInv(d), NEW i \in Inbounds, NEW p \in Policies, NEW row, NEW new,
         Held(d, i, p, row), Stored(d, e, i, p, new),
         NEW k \in Traffic, NEW t \in Egresses \cup {None}, Differ(d, e, row, new, k, t)
  PROVE  Own(d, e, p) /\ Effect(d, e)
<1> USE DEF Differ
<1>1. /\ Own(d, e, p) /\ Shows(e, i, new)
      /\ \A j \in Inbounds \ {i}, l \in Traffic : RouteIn(e, j, l) = RouteIn(d, j, l)
  BY StoredOwn
<1>2. Shows(d, i, row)
  BY DEF Held
<1>3. ASSUME NEW l \in Traffic
      PROVE  RouteIn(e, i, l) = IF l = k THEN t ELSE RouteIn(d, i, l)
  <2>1. CASE l = All
    BY <1>1, <1>2, <2>1 DEF Shows
  <2>2. CASE l \in Keys /\ l = k
    BY <1>1, <2>2 DEF Shows
  <2>3. CASE l \in Keys /\ l # k
    BY <1>1, <1>2, <2>3 DEF Shows
  <2> QED
    BY <2>1, <2>2, <2>3 DEF Traffic
<1>4. \A j \in Inbounds, l \in Traffic :
        RouteIn(e, j, l) = IF j = i /\ l = k THEN t ELSE RouteIn(d, j, l)
  BY <1>1, <1>3
<1> QED
  BY <1>1, <1>4 DEF Effect, Clears, Sets, Renames

\* The entry for k goes and one for l is there, which leads to t.
Moved(d, e, row, new, k, l, t) ==
  /\ k # l /\ new.default = row.default
  /\ row.items[k] # {} /\ row.items[l] = {} /\ new.items[k] = {} /\ new.items[l] # {}
  /\ \A r \in new.items[l] : e.rules[r].target = t
  /\ \A m \in Keys \ {k, l} : /\ new.items[m] = row.items[m]
                              /\ \A r \in row.items[m] : e.rules[r].target = d.rules[r].target

\* A custom domain changes its name, and perhaps its egress.
LEMMA EntryMoved ==
  ASSUME NEW d, NEW e, StoreInv(d), NEW i \in Inbounds, NEW p \in Policies, NEW row, NEW new,
         Held(d, i, p, row), Stored(d, e, i, p, new),
         NEW k \in Custom, NEW l \in Custom, NEW t \in Egresses, Moved(d, e, row, new, k, l, t)
  PROVE  Own(d, e, p) /\ Effect(d, e)
<1> USE DEF Moved
<1>0. k \in Keys /\ l \in Keys /\ All \notin Keys
  BY IdAssumption
<1>1. /\ Own(d, e, p) /\ Shows(e, i, new)
      /\ \A j \in Inbounds \ {i}, m \in Traffic : RouteIn(e, j, m) = RouteIn(d, j, m)
  BY StoredOwn
<1>2. Shows(d, i, row) /\ Fits(d, p, row)
  BY DEF Held
<1>3. ASSUME NEW m \in Traffic
      PROVE  RouteIn(e, i, m) = IF m = k THEN None ELSE IF m = l THEN t ELSE RouteIn(d, i, m)
  <2>1. CASE m = All
    BY <1>0, <1>1, <1>2, <2>1 DEF Shows
  <2>2. CASE m \in {k, l}
    BY <1>0, <1>1, <2>2 DEF Shows
  <2>3. CASE m \in Keys \ {k, l}
    BY <1>1, <1>2, <2>3 DEF Shows
  <2> QED
    BY <2>1, <2>2, <2>3 DEF Traffic
<1>4. RouteIn(d, i, l) = None
  BY <1>0, <1>2 DEF Shows
<1>5. RouteIn(d, i, k) # None
  <2>1. PICK r \in row.items[k] : RouteIn(d, i, k) = d.rules[r].target
    BY <1>0, <1>2 DEF Shows
  <2>2. r \in RulesOf(d, p)
    BY <1>0, <1>2 DEF Fits
  <2> QED
    BY <1>2, <2>1, <2>2, IdAssumption DEF Fits, Ids
<1>6. \A j \in Inbounds, m \in Traffic :
        RouteIn(e, j, m) = IF j = i /\ m = k THEN None
                           ELSE IF j = i /\ m = l THEN t ELSE RouteIn(d, j, m)
  BY <1>1, <1>3
<1> QED
  BY <1>1, <1>4, <1>5, <1>6 DEF Effect, Clears, Sets, Renames

\* The policy goes, and with it the table of its inbound.
LEMMA SimpleGone ==
  ASSUME NEW d, NEW e, StoreInv(d), NEW i \in Inbounds, NEW p \in Policies,
         SimpleIn(d, p), d.bindings[i] = p, \A j \in Inbounds \ {i} : d.bindings[j] # p,
         e \in Store, e.pools = d.pools,
         e.policies[p] = None, \A q \in Policies \ {p} : e.policies[q] = d.policies[q],
         e.bindings[i] = None, \A j \in Inbounds \ {i} : e.bindings[j] = d.bindings[j],
         \A r \in Rules : e.rules[r] # d.rules[r] =>
           d.rules[r] # None /\ d.rules[r].policy = p /\ e.rules[r] = None
  PROVE  Own(d, e, p) /\ Effect(d, e)
<1> USE DEF StoreInv
<1>2. PolicyInv(e, p)
  BY DEF PolicyInv, SimpleIn
<1>3. BoundOnce(e)
  <2> SUFFICES ASSUME NEW j \in Inbounds, NEW l \in Inbounds, e.bindings[j] # None,
                      SimpleIn(e, e.bindings[j]), e.bindings[j] = e.bindings[l]
               PROVE  j = l
    BY DEF BoundOnce
  <2>1. j # i /\ l # i /\ d.bindings[j] = e.bindings[j] /\ d.bindings[l] = e.bindings[j]
    OBVIOUS
  <2>2. e.bindings[j] \in Policies \ {p}
    BY <2>1, Rows
  <2>3. SimpleIn(d, d.bindings[j])
    BY <2>1, <2>2 DEF SimpleIn
  <2> QED
    BY <2>1, <2>3 DEF BoundOnce
<1>4. Own(d, e, p)
  BY <1>2, <1>3 DEF Own
<1>5. \A j \in Inbounds, k \in Traffic :
        RouteIn(e, j, k) = IF j = i THEN None ELSE RouteIn(d, j, k)
  <2>1. \A j \in Inbounds \ {i}, k \in Traffic : RouteIn(e, j, k) = RouteIn(d, j, k)
    BY <1>4, OthersRoutes
  <2>2. \A k \in Traffic : RouteIn(e, i, k) = None
    BY DEF RouteIn
  <2> QED
    BY <2>1, <2>2
<1> QED
  BY <1>4, <1>5 DEF Effect, Clears, Sets, Renames

\* What every step gives.
Keeps(h) == StoreInv(db') /\ Lasting(db, db', Named) /\ Moves(h) /\ Effect(db, db')

\* A simple request that wrote its own policy.
LEMMA OwnKeeps ==
  ASSUME StoreInv(db), NEW h, NEW p \in Policies, NEW e, Own(db, e, p), Effect(db, e),
         Spares(db, e, p, Named), db' = e, Done(h)
  PROVE  Keeps(h)
<1>1. StoreInv(e) /\ Lasting(db, e, Named)
  BY OwnInv, OwnLasts
<1>2. db' = e /\ Moves(h)
  BY Over
<1> QED
  BY <1>1, <1>2 DEF Keeps

\* One that wrote a policy that was there, and made no rows.
LEMMA ChangeKeeps ==
  ASSUME StoreInv(db), NEW h, NEW p \in Policies, NEW e, Own(db, e, p), Effect(db, e),
         SimpleIn(db, p), \A r \in Rules : e.rules[r] # db.rules[r] => db.rules[r] # None,
         Write(h, e)
  PROVE  Keeps(h)
<1>1. Spares(db, e, p, Named)
  BY DEF Spares
<1>2. db' = e /\ Done(h)
  BY DEF Write
<1> QED
  BY <1>1, <1>2, OwnKeeps

\* A request that left simple state alone.
LEMMA HarmlessKeeps ==
  ASSUME StoreInv(db), NEW h, Harmless(db, db'), Moves(h)
  PROVE  Keeps(h)
  BY HarmlessInv, HarmlessEffect DEF Keeps

\* The policies a creation chooses from fit their inbound: a new one, the one it is bound
\* to, and that in the older format once it is converted.
LEMMA Chosen ==
  ASSUME StoreInv(db), NEW i \in Inbounds, NEW p, NEW row, <<p, row>> \in ExecutionPolicies(i),
         ({p} \ Present(db.policies)) \cap Named = {}
  PROVE  p \in Policies /\ Held(db, i, p, row)
<1> USE DEF StoreInv
<1>1. CASE db.bindings[i] = None
  <2>a. /\ p \in NewId(db.policies)
        /\ row = [owner |-> "exec", default |-> None, items |-> [k \in Keys |-> {}]]
    BY <1>1 DEF ExecutionPolicies
  <2>b. p \in Policies /\ db.policies[p] = None
    BY <2>a, NewPolicy
  <2>1. p \notin Named
    BY <2>b DEF Present
  <2>2. \A j \in Inbounds : db.bindings[j] # p
    BY <2>1, NamedHeld
  <2>3. RulesOf(db, p) = {}
    BY <2>1, NamedHeld DEF RulesOf
  <2>4. Fits(db, p, row)
    BY <2>a, <2>3 DEF Fits, PolicyRow
  <2>5. Shows(db, i, row)
    BY <1>1, <2>a DEF Shows, RouteIn
  <2> QED
    BY <1>1, <2>b, <2>2, <2>3, <2>4, <2>5 DEF Held, Vacant
<1>2. CASE db.bindings[i] # None
  <2>1. p = db.bindings[i] /\ Simple(p) /\ row = Converted(p)
    BY <1>2 DEF ExecutionPolicies
  <2>2. p \in Policies /\ SimpleIn(db, p) /\ db.policies[p] \in PolicyRow /\ PolicyInv(db, p)
    BY <1>2, <2>1, Rows DEF Simple, SimpleIn
  <2>3. \A j \in Inbounds \ {i} : db.bindings[j] # p
    BY <1>2, <2>1, <2>2 DEF BoundOnce
  <2>4. CASE db.policies[p].owner = "exec"
    <3>1. row = db.policies[p]
      BY <2>1, <2>4 DEF Converted
    <3>2. Fits(db, p, row) /\ Shows(db, i, row)
      BY <2>1, <2>2, <2>4, <3>1, ExecFits, FitsShows DEF SimpleIn
    <3> QED
      BY <2>1, <2>2, <2>3, <3>2 DEF Held
  <2>5. CASE db.policies[p].owner = "legacy"
    <3> DEFINE old == db.policies[p]
               items == [k \in Keys |-> IF k = LegacyKey THEN RulesOf(db, p) ELSE {}]
    <3>1. /\ \A k \in Keys : old.items[k] = {}
          /\ \A r, s \in RulesOf(db, p) : db.rules[r].target = db.rules[s].target
          /\ LegacyKey = All => RulesOf(db, p) = {}
          /\ old.default \in Egresses \cup {None}
          /\ \A r \in RulesOf(db, p) : db.rules[r].target \in Egresses
      BY <2>2, <2>5 DEF PolicyInv, LegacyAgree
    <3>2. row.owner = "exec" /\ row.default = old.default /\ row.items = items /\ row \in PolicyRow
      <4>0. old.items \in [Keys -> SUBSET Rules] /\ RulesOf(db, p) \subseteq Rules
        BY <2>2 DEF PolicyRow, RulesOf
      <4>1. items = IF LegacyKey = All THEN old.items
                    ELSE [old.items EXCEPT ![LegacyKey] = RulesOf(db, p)]
        BY <3>1, <4>0, IdAssumption
      <4>2. row = [old EXCEPT !.owner = "exec", !.items = items]
        BY <2>1, <2>5, <4>1 DEF Converted
      <4>3. items \in [Keys -> SUBSET Rules]
        BY <4>0
      <4> QED
        BY <2>2, <4>2, <4>3 DEF PolicyRow
    <3>3. UNION {row.items[k] : k \in Keys} = RulesOf(db, p)
      BY <3>1, <3>2, IdAssumption
    <3>4. Fits(db, p, row)
      BY <3>1, <3>2, <3>3 DEF Fits
    <3>5. \A k \in Traffic : RouteIn(db, i, k) = Entry(db, p, k)
      BY <1>2, <2>1, <2>2 DEF RouteIn
    <3>6. RouteIn(db, i, All) = row.default
      BY <3>2, <3>5 DEF Entry, Traffic
    <3>7. ASSUME NEW k \in Keys
          PROVE  /\ row.items[k] = {} => RouteIn(db, i, k) = None
                 /\ \A r \in row.items[k] : RouteIn(db, i, k) = db.rules[r].target
      <4>1. k # All
        BY IdAssumption
      <4>2. CASE k = LegacyKey
        <5>1. RouteIn(db, i, k) = LineOf(TargetsIn(db, p, RulesOf(db, p)))
          BY <2>5, <3>5, <4>1, <4>2 DEF Entry, Traffic
        <5>2. row.items[k] = RulesOf(db, p)
          BY <3>2, <4>2
        <5>3. row.items[k] = {} => RouteIn(db, i, k) = None
          BY <5>1, <5>2, TargetsNone
        <5>4. ASSUME NEW r \in RulesOf(db, p)
              PROVE  LineOf(TargetsIn(db, p, RulesOf(db, p))) = db.rules[r].target
          BY <3>1, TargetsAgree
        <5> QED
          BY <5>1, <5>2, <5>3, <5>4
      <4>3. CASE k # LegacyKey
        BY <2>5, <3>2, <3>5, <4>1, <4>3 DEF Entry, Traffic
      <4> QED
        BY <4>2, <4>3
    <3>8. Shows(db, i, row)
      BY <3>6, <3>7 DEF Shows
    <3> QED
      BY <2>1, <2>2, <2>3, <3>4, <3>8 DEF Held
  <2> QED
    BY <2>2, <2>4, <2>5 DEF SimpleIn
<1> QED
  BY <1>1, <1>2

\* So does the policy of a row on the page that is changed or deleted.
LEMMA SelectedHeld ==
  ASSUME StoreInv(db), NEW p \in Policies, Selected(p)
  PROVE  /\ SimpleIn(db, p) /\ db.policies[p] \in PolicyRow
         /\ \E i \in Inbounds :
              /\ db.bindings[i] = p /\ \A j \in Inbounds \ {i} : db.bindings[j] # p
              /\ db.policies[p].owner = "exec" => Held(db, i, p, db.policies[p])
<1> USE DEF StoreInv
<1>1. SimpleIn(db, p) /\ db.policies[p] \in PolicyRow
  BY Rows DEF Selected, Simple, SimpleIn
<1>2. PICK i \in Inbounds : db.bindings[i] = p
  BY Fields DEF Selected
<1>3. p # None
  BY IdAssumption DEF Ids
<1>4. \A j \in Inbounds \ {i} : db.bindings[j] # p
  BY <1>1, <1>2, <1>3 DEF BoundOnce
<1>5. ASSUME db.policies[p].owner = "exec" PROVE Held(db, i, p, db.policies[p])
  <2>1. Fits(db, p, db.policies[p]) /\ Shows(db, i, db.policies[p])
    BY <1>1, <1>2, <1>5, ExecFits, FitsShows DEF SimpleIn
  <2> QED
    BY <1>1, <1>2, <1>4, <2>1 DEF Held
<1> QED
  BY <1>1, <1>2, <1>4, <1>5

\* CreateSimpleRule fills one entry that was empty, when its ids are nobody else's.
LEMMA CreateNext ==
  ASSUME IInv, NEW h \in Handlers, SimpleCreate(h), ~reissued'
  PROVE  Keeps(h)
<1>0. StoreInv(db) /\ db \in Store
  BY DEF IInv, StoreInv
<1>a. ASSUME NEW d, NEW new, Issue(h, d, new) PROVE db' = d /\ Done(h) /\ new \cap Named = {}
  BY <1>a DEF Issue
<1>1. PICK i \in db.inbounds, e \in db.egresses : \E x \in ExecutionPolicies(i) :
        LET p == x[1]
            row == x[2]
            new == {p} \ Present(db.policies)
            Policy(r) == [db EXCEPT !.policies[p] = r, !.bindings[i] = p]
        IN  \/ /\ row.default \notin Egresses
               /\ Issue(h, Policy([row EXCEPT !.default = e]), new)
            \/ \E k \in Keys : \E rs \in NewRules(IF k \in Custom THEN 1 ELSE MaxSnapshot) :
                 /\ row.items[k] = {} /\ KeepsDefault(row)
                 /\ Issue(h, Inserted(Policy([row EXCEPT !.items[k] = rs]), rs,
                                      [policy |-> p, target |-> e]),
                          new \cup rs)
  BY DEF SimpleCreate
<1>2. PICK x \in ExecutionPolicies(i) :
        LET p == x[1]
            row == x[2]
            new == {p} \ Present(db.policies)
            Policy(r) == [db EXCEPT !.policies[p] = r, !.bindings[i] = p]
        IN  \/ /\ row.default \notin Egresses
               /\ Issue(h, Policy([row EXCEPT !.default = e]), new)
            \/ \E k \in Keys : \E rs \in NewRules(IF k \in Custom THEN 1 ELSE MaxSnapshot) :
                 /\ row.items[k] = {} /\ KeepsDefault(row)
                 /\ Issue(h, Inserted(Policy([row EXCEPT !.items[k] = rs]), rs,
                                      [policy |-> p, target |-> e]),
                          new \cup rs)
  BY <1>1
<1> DEFINE p == x[1]
           row == x[2]
           ids == {p} \ Present(db.policies)
           Policy(r) == [db EXCEPT !.policies[p] = r, !.bindings[i] = p]
<1>b. ids \cap Named = {}
  <2>1. CASE Issue(h, Policy([row EXCEPT !.default = e]), ids)
    BY <2>1, <1>a
  <2>2. ASSUME NEW k \in Keys, NEW rs,
               Issue(h, Inserted(Policy([row EXCEPT !.items[k] = rs]), rs,
                                 [policy |-> p, target |-> e]),
                     ids \cup rs)
        PROVE  ids \cap Named = {}
    BY <2>2, <1>a
  <2> QED
    BY <1>2, <2>1, <2>2
<1>3. i \in Inbounds /\ e \in Egresses
  BY <1>0, Fields
<1>4. p \in Policies /\ Held(db, i, p, row)
  <2>1. <<x[1], x[2]>> = x
    BY DEF ExecutionPolicies
  <2> QED
    BY <1>0, <1>3, <1>b, <2>1, Chosen
<1>c. p \notin Named \/ SimpleIn(db, p)
  BY <1>0, <1>4, <1>b, Fields DEF Held, Vacant, Present
<1>5. Fits(db, p, row) /\ row \in PolicyRow
  BY <1>4 DEF Held, Fits
<1>6. CASE db' = Policy([row EXCEPT !.default = e]) /\ Done(h)
  <2> DEFINE new == [row EXCEPT !.default = e]
             d == Policy(new)
  <2>1. new \in PolicyRow /\ new.owner = "exec" /\ new.default = e /\ new.items = row.items
    BY <1>3, <1>5 DEF PolicyRow, Targets, Fits
  <2> HIDE DEF new
  <2>2. /\ d \in Store /\ d.pools = db.pools /\ d.rules = db.rules
        /\ d.policies[p] = new /\ \A q \in Policies \ {p} : d.policies[q] = db.policies[q]
        /\ d.bindings[i] = p /\ \A j \in Inbounds \ {i} : d.bindings[j] = db.bindings[j]
    BY <1>0, <1>3, <1>4, <2>1 DEF Store
  <2> HIDE DEF d
  <2>3. Fits(d, p, new)
    BY <1>3, <1>5, <2>1, <2>2 DEF Fits, RulesOf
  <2>4. Stored(db, d, i, p, new)
    BY <2>2, <2>3 DEF Stored
  <2>5. All \in Traffic /\ All \notin Keys /\ e \in Egresses \cup {None}
    BY <1>3, IdAssumption DEF Traffic
  <2>6. Differ(db, d, row, new, All, e)
    BY <2>1, <2>2, <2>5 DEF Differ
  <2>7. Own(db, d, p) /\ Effect(db, d)
    <3> HIDE DEF p, row
    <3> QED
      BY <1>0, <1>3, <1>4, <2>1, <2>4, <2>5, <2>6, OneEntry
  <2>8. Spares(db, d, p, Named)
    BY <1>c, <2>2 DEF Spares
  <2>9. db' = d /\ Done(h)
    BY <1>6 DEF d, new
  <2> HIDE DEF p
  <2> QED
    BY <1>0, <1>4, <2>7, <2>8, <2>9, OwnKeeps
<1>7. ASSUME NEW k \in Keys, NEW rs \in NewRules(IF k \in Custom THEN 1 ELSE MaxSnapshot),
             row.items[k] = {}, rs \cap Named = {}, Done(h),
             db' = Inserted(Policy([row EXCEPT !.items[k] = rs]), rs,
                            [policy |-> p, target |-> e])
      PROVE  Keeps(h)
  <2> DEFINE new == [row EXCEPT !.items[k] = rs]
             rule == [policy |-> p, target |-> e]
             d == Inserted(Policy(new), rs, rule)
  <2>a. rs # {}
    BY FS_EmptySet DEF NewRules
  <2>5. \A r \in rs : db.rules[r] = None
    BY <1>0, ManyRules
  <2>1. rs \subseteq Rules /\ rs # {}
    BY <1>0, <2>a, ManyRules
  <2>2. /\ new \in PolicyRow /\ new.owner = "exec" /\ new.default = row.default
        /\ new.items[k] = rs /\ \A l \in Keys \ {k} : new.items[l] = row.items[l]
    BY <1>5, <2>1 DEF PolicyRow, Fits
  <2>3. rule \in RuleRow /\ rule.policy = p /\ rule.target = e /\ rule # None
    BY <1>3, <1>4, IdAssumption DEF RuleRow, Targets
  <2> HIDE DEF new, rule
  <2>4. /\ d \in Store /\ d.pools = db.pools
        /\ d.rules = [r \in Rules |-> IF r \in rs THEN rule ELSE db.rules[r]]
        /\ d.policies[p] = new /\ \A q \in Policies \ {p} : d.policies[q] = db.policies[q]
        /\ d.bindings[i] = p /\ \A j \in Inbounds \ {i} : d.bindings[j] = db.bindings[j]
    BY <1>0, <1>3, <1>4, <2>1, <2>2, <2>3 DEF Store, Inserted
  <2> HIDE DEF d
  <2>6. RulesOf(d, p) = RulesOf(db, p) \cup rs /\ RulesOf(db, p) \cap rs = {}
    BY <2>1, <2>3, <2>4, <2>5 DEF RulesOf
  <2>7. Fits(d, p, new)
    <3>1. \A l \in Keys : row.items[l] \subseteq RulesOf(db, p)
      BY <1>5 DEF Fits
    <3>2. UNION {new.items[l] : l \in Keys} = RulesOf(d, p)
      BY <1>5, <1>7, <2>2, <2>6 DEF Fits
    <3>3. \A l, m \in Keys : l # m => new.items[l] \cap new.items[m] = {}
      BY <1>5, <2>2, <2>6, <3>1 DEF Fits
    <3>4. \A r \in RulesOf(d, p) : d.rules[r].target \in Egresses
      BY <1>3, <1>5, <2>1, <2>3, <2>4, <2>6 DEF Fits, RulesOf
    <3>5. \A l \in Keys : \A r, s \in new.items[l] : d.rules[r].target = d.rules[s].target
      <4>1. \A r \in rs : d.rules[r].target = e
        BY <2>1, <2>3, <2>4
      <4>2. \A r \in RulesOf(db, p) : d.rules[r] = db.rules[r]
        BY <2>4, <2>6 DEF RulesOf
      <4> QED
        BY <1>5, <2>2, <3>1, <4>1, <4>2 DEF Fits
    <3> QED
      BY <1>5, <2>2, <3>2, <3>3, <3>4, <3>5 DEF Fits
  <2>8. \A r \in Rules : d.rules[r] # db.rules[r] =>
          db.rules[r] = None /\ d.rules[r].policy = p
    BY <2>1, <2>3, <2>4, <2>5
  <2>9. Stored(db, d, i, p, new)
    BY <2>4, <2>7, <2>8 DEF Stored
  <2>10. \A l \in Keys \ {k} : /\ new.items[l] = row.items[l]
                               /\ \A r \in row.items[l] : d.rules[r].target = db.rules[r].target
    <3>1. \A l \in Keys : row.items[l] \subseteq RulesOf(db, p)
      BY <1>5 DEF Fits
    <3> QED
      BY <2>2, <2>4, <2>6, <3>1 DEF RulesOf
  <2>11. new.items[k] # {} /\ \A r \in new.items[k] : d.rules[r].target = e
    BY <2>1, <2>2, <2>3, <2>4
  <2>12. k \in Traffic /\ k # All /\ e \in Egresses \cup {None}
    BY <1>3, IdAssumption DEF Traffic
  <2>13. Differ(db, d, row, new, k, e)
    BY <2>2, <2>10, <2>11, <2>12 DEF Differ
  <2>14. Own(db, d, p) /\ Effect(db, d)
    <3> HIDE DEF p, row
    <3> QED
      BY <1>0, <1>3, <1>4, <2>9, <2>12, <2>13, OneEntry
  <2>15. Spares(db, d, p, Named)
    BY <1>7, <1>c, <2>4 DEF Spares
  <2>16. db' = d
    BY <1>7 DEF d, new, rule
  <2> HIDE DEF p
  <2> QED
    BY <1>0, <1>4, <1>7, <2>14, <2>15, <2>16, OwnKeeps
<1>8. CASE Issue(h, Policy([row EXCEPT !.default = e]), ids)
  BY <1>6, <1>8, <1>a
<1>9. ASSUME NEW k \in Keys, NEW rs \in NewRules(IF k \in Custom THEN 1 ELSE MaxSnapshot),
             row.items[k] = {},
             Issue(h, Inserted(Policy([row EXCEPT !.items[k] = rs]), rs,
                               [policy |-> p, target |-> e]),
                   ids \cup rs)
      PROVE  Keeps(h)
  <2>1. rs \cap Named = {}
    BY <1>9, <1>a
  <2> QED
    BY <1>7, <1>9, <1>a, <2>1
<1> QED
  BY <1>2, <1>8, <1>9

\* The rows rs of policy p, and nothing else, lead to e now.
Rerouted(d, c, p, rs, e) ==
  /\ c \in Store /\ c.pools = d.pools
  /\ c.policies = d.policies /\ c.bindings = d.bindings
  /\ RulesOf(c, p) = RulesOf(d, p)
  /\ \A r \in rs : c.rules[r].target = e
  /\ \A r \in Rules \ rs : c.rules[r] = d.rules[r]
  /\ \A r \in Rules : c.rules[r] # d.rules[r] =>
       d.rules[r] # None /\ d.rules[r].policy = p /\ c.rules[r].policy = p

\* Rows get another egress, and stay those of their policy.
LEMMA RetargetedRules ==
  ASSUME NEW d \in Store, NEW p \in Policies, NEW rs, rs \subseteq RulesOf(d, p),
         NEW e \in Egresses
  PROVE  Rerouted(d, Retargeted(d, rs, e), p, rs, e)
<1> DEFINE c == Retargeted(d, rs, e)
           new == [r \in Rules |-> IF r \in rs THEN [d.rules[r] EXCEPT !.target = e]
                                               ELSE d.rules[r]]
<1>1. ASSUME NEW r \in rs
      PROVE  /\ r \in Rules /\ d.rules[r] # None /\ d.rules[r].policy = p /\ d.rules[r] \in RuleRow
             /\ [d.rules[r] EXCEPT !.target = e] \in RuleRow
             /\ [d.rules[r] EXCEPT !.target = e].target = e
             /\ [d.rules[r] EXCEPT !.target = e].policy = p
  <2>1. r \in Rules /\ d.rules[r] # None /\ d.rules[r].policy = p
    BY DEF RulesOf
  <2>2. d.rules[r] \in RuleRow
    BY <2>1, Rows
  <2> QED
    BY <2>1, <2>2 DEF RuleRow, Targets
<1>2. new \in [Rules -> RuleRow \cup {None}]
  BY <1>1, Fields
<1>3. /\ c \in Store /\ c.pools = d.pools
      /\ c.policies = d.policies /\ c.bindings = d.bindings /\ c.rules = new
  BY <1>2 DEF Store, Retargeted
<1> HIDE DEF c
<1>a. None \notin RuleRow
  BY IdAssumption
<1>4. \A r \in rs : c.rules[r] # None /\ c.rules[r].policy = p /\ c.rules[r].target = e
  BY <1>1, <1>3, <1>a
<1>5. \A r \in Rules \ rs : c.rules[r] = d.rules[r]
  BY <1>3
<1>6. RulesOf(c, p) = RulesOf(d, p)
  BY <1>1, <1>4, <1>5 DEF RulesOf
<1>7. \A r \in Rules : c.rules[r] # d.rules[r] =>
        d.rules[r] # None /\ d.rules[r].policy = p /\ c.rules[r].policy = p
  BY <1>1, <1>4, <1>5
<1>8. \A r \in rs : c.rules[r].target = e
  BY <1>4
<1> QED
  BY <1>3, <1>5, <1>6, <1>7, <1>8 DEF Rerouted, c

\* UpdateSimpleRule changes one entry, or moves one.
LEMMA UpdateNext ==
  ASSUME IInv, NEW h \in Handlers, SimpleUpdate(h)
  PROVE  Keeps(h)
<1>0. StoreInv(db) /\ db \in Store
  BY DEF IInv, StoreInv
<1>1. PICK p \in Policies, e \in db.egresses :
        /\ Selected(p) /\ db.policies[p].owner = "exec"
        /\ \/ /\ db.policies[p].default \in Egresses
              /\ Write(h, [db EXCEPT !.policies[p].default = e])
           \/ \E k \in Keys \ Custom :
                ItemIntact(p, k) /\ Write(h, RetargetItem(p, k, e))
           \/ \E k, l \in Custom :
                /\ ItemIntact(p, k) /\ KeepsDefault(db.policies[p])
                /\ l = k \/ db.policies[p].items[l] = {}
                /\ Write(h, [RetargetItem(p, k, e)
                               EXCEPT !.policies[p].items[k] = {},
                                      !.policies[p].items[l] = db.policies[p].items[k]])
  BY DEF SimpleUpdate
<1> DEFINE row == db.policies[p]
<1>2. PICK i \in Inbounds : db.bindings[i] = p /\ Held(db, i, p, row)
  BY <1>0, <1>1, SelectedHeld
<1>3. /\ SimpleIn(db, p) /\ row \in PolicyRow /\ e \in Egresses
      /\ Fits(db, p, row)
  BY <1>0, <1>1, <1>2, SelectedHeld, Fields DEF Held
<1>9. e \in Egresses /\ p \in Policies /\ db \in Store
  BY <1>0, <1>3
<1>4. \A l \in Keys : row.items[l] \subseteq RulesOf(db, p)
  BY <1>3 DEF Fits
<1>5. CASE Write(h, [db EXCEPT !.policies[p].default = e])
  <2> DEFINE new == [row EXCEPT !.default = e]
             d == [db EXCEPT !.policies[p].default = e]
  <2>1. new \in PolicyRow /\ new.owner = "exec" /\ new.default = e /\ new.items = row.items
    BY <1>1, <1>3 DEF PolicyRow, Targets
  <2>2. d.policies = [db.policies EXCEPT ![p] = new]
    BY <1>0 DEF Store
  <2> HIDE DEF new
  <2>3. /\ d \in Store /\ d.pools = db.pools /\ d.rules = db.rules
        /\ d.policies[p] = new /\ \A q \in Policies \ {p} : d.policies[q] = db.policies[q]
        /\ d.bindings = db.bindings
    BY <1>0, <2>1, <2>2 DEF Store
  <2> HIDE DEF d
  <2>4. Fits(d, p, new)
    BY <1>3, <2>1, <2>3 DEF Fits, RulesOf
  <2>5. Stored(db, d, i, p, new)
    BY <1>2, <1>3, <2>3, <2>4 DEF Stored
  <2>6. All \in Traffic /\ All \notin Keys /\ e \in Egresses \cup {None}
    BY <1>3, IdAssumption DEF Traffic
  <2>7. Differ(db, d, row, new, All, e)
    BY <2>1, <2>3, <2>6 DEF Differ
  <2>8. Own(db, d, p) /\ Effect(db, d)
    <3> HIDE DEF row
    <3> QED
      BY <1>0, <1>2, <2>5, <2>6, <2>7, OneEntry
  <2> QED
    BY <1>0, <1>3, <1>5, <2>3, <2>8, ChangeKeeps DEF d
<1>6. ASSUME NEW k \in Keys, NEW l \in Keys, ItemIntact(p, k), NEW new,
             /\ new \in PolicyRow /\ new.owner = "exec" /\ new.default = row.default
             /\ new.items[l] = row.items[k] /\ (l # k => new.items[k] = {})
             /\ \A m \in Keys \ {k, l} : new.items[m] = row.items[m],
             l # k => k \in Custom /\ l \in Custom /\ row.items[l] = {},
             NEW d, d = [RetargetItem(p, k, e) EXCEPT !.policies[p] = new],
             Write(h, d)
      PROVE  Keeps(h)
  <2> DEFINE rs == row.items[k]
             c == RetargetItem(p, k, e)
  <2>1. rs \subseteq RulesOf(db, p) /\ rs # {} /\ rs \subseteq Rules
    BY <1>6 DEF ItemIntact, RulesOf
  <2>2. /\ c \in Store /\ c.pools = db.pools
        /\ c.policies = db.policies /\ c.bindings = db.bindings
        /\ RulesOf(c, p) = RulesOf(db, p)
        /\ \A r \in rs : c.rules[r].target = e
        /\ \A r \in Rules \ rs : c.rules[r] = db.rules[r]
        /\ \A r \in Rules : c.rules[r] # db.rules[r] =>
             db.rules[r] # None /\ db.rules[r].policy = p /\ c.rules[r].policy = p
    <3>1. Rerouted(db, c, p, rs, e)
      BY <1>9, <2>1, RetargetedRules DEF RetargetItem
    <3> QED
      BY <3>1 DEF Rerouted
  <2> HIDE DEF c
  <2>3. /\ d \in Store /\ d.pools = db.pools /\ d.rules = c.rules
        /\ d.policies[p] = new /\ \A q \in Policies \ {p} : d.policies[q] = db.policies[q]
        /\ d.bindings = db.bindings
    BY <1>6, <2>2 DEF Store, c
  <2>4. RulesOf(d, p) = RulesOf(db, p)
    BY <2>2, <2>3 DEF RulesOf
  <2>5. \A m \in Keys \ {k} : \A r \in row.items[m] : d.rules[r] = db.rules[r]
    BY <1>3, <1>4, <2>2, <2>3 DEF Fits, RulesOf
  <2>6. Fits(d, p, new)
    <3>1. UNION {new.items[m] : m \in Keys} = RulesOf(d, p)
      <4>1. \A r \in RulesOf(db, p) : \E m \in Keys : r \in new.items[m]
        BY <1>3, <1>6 DEF Fits
      <4>2. \A m \in Keys : new.items[m] \subseteq RulesOf(db, p)
        BY <1>4, <1>6
      <4> QED
        BY <2>4, <4>1, <4>2
    <3>2. \A m, n \in Keys : m # n => new.items[m] \cap new.items[n] = {}
      BY <1>3, <1>6 DEF Fits
    <3>3. \A r \in RulesOf(d, p) : d.rules[r].target \in Egresses
      BY <1>3, <2>2, <2>3, <2>4 DEF Fits, RulesOf
    <3>4. \A m \in Keys : \A r, s \in new.items[m] : d.rules[r].target = d.rules[s].target
      BY <1>3, <1>6, <2>2, <2>3, <2>5 DEF Fits
    <3> QED
      BY <1>3, <1>6, <3>1, <3>2, <3>3, <3>4 DEF Fits
  <2>7. Stored(db, d, i, p, new)
    BY <1>2, <1>3, <2>2, <2>3, <2>6 DEF Stored
  <2>8. Own(db, d, p) /\ Effect(db, d)
    <3>1. CASE l = k
      <4>1. k \in Traffic /\ k # All /\ e \in Egresses \cup {None}
        BY <1>3, IdAssumption DEF Traffic
      <4>2. Differ(db, d, row, new, k, e)
        BY <1>6, <2>1, <2>2, <2>3, <2>5, <3>1, <4>1 DEF Differ
      <4> HIDE DEF row
      <4> QED
        BY <1>0, <1>2, <2>7, <4>1, <4>2, OneEntry
    <3>2. CASE l # k
      <4>1. /\ k \in Custom /\ l \in Custom /\ row.items[k] # {} /\ row.items[l] = {}
            /\ new.items[k] = {} /\ new.items[l] # {}
            /\ \A r \in new.items[l] : d.rules[r].target = e
            /\ \A m \in Keys \ {k, l} :
                 /\ new.items[m] = row.items[m]
                 /\ \A r \in row.items[m] : d.rules[r].target = db.rules[r].target
        BY <1>6, <2>1, <2>2, <2>3, <2>5, <3>2
      <4>2. Moved(db, d, row, new, k, l, e)
        BY <1>6, <3>2, <4>1 DEF Moved
      <4> HIDE DEF row
      <4> QED
        BY <1>0, <1>2, <1>3, <2>7, <4>1, <4>2, EntryMoved
    <3> QED
      BY <3>1, <3>2
  <2>9. \A r \in Rules : d.rules[r] # db.rules[r] => db.rules[r] # None
    BY <2>2, <2>3
  <2> QED
    BY <1>0, <1>3, <1>6, <1>9, <2>8, <2>9, ChangeKeeps
<1>7. ASSUME NEW k \in Keys \ Custom, ItemIntact(p, k), Write(h, RetargetItem(p, k, e))
      PROVE  Keeps(h)
  <2> DEFINE rs == row.items[k]
             c == RetargetItem(p, k, e)
  <2>1. c.policies = db.policies /\ c \in Store
    <3>1. Rerouted(db, c, p, rs, e)
      BY <1>9, <1>7, RetargetedRules DEF RetargetItem, ItemIntact
    <3> QED
      BY <3>1 DEF Rerouted
  <2>2. [c EXCEPT !.policies[p] = row] = c
    <3> HIDE DEF c
    <3> QED
      BY <1>0, <2>1 DEF Store
  <2> QED
    BY <1>1, <1>3, <1>6, <1>7, <2>2
<1>8. ASSUME NEW k \in Custom, NEW l \in Custom, ItemIntact(p, k),
             l = k \/ row.items[l] = {},
             Write(h, [RetargetItem(p, k, e) EXCEPT !.policies[p].items[k] = {},
                                                    !.policies[p].items[l] = row.items[k]])
      PROVE  Keeps(h)
  <2> DEFINE new == [row EXCEPT !.items = [[@ EXCEPT ![k] = {}] EXCEPT ![l] = row.items[k]]]
             c == RetargetItem(p, k, e)
             rs == row.items[k]
  <2>1. c.policies = db.policies /\ c \in Store
    <3>1. Rerouted(db, c, p, rs, e)
      BY <1>9, <1>8, RetargetedRules DEF RetargetItem, ItemIntact
    <3> QED
      BY <3>1 DEF Rerouted
  <2>2. [c EXCEPT !.policies[p].items[k] = {}, !.policies[p].items[l] = row.items[k]]
        = [c EXCEPT !.policies[p] = new]
    <3> HIDE DEF c
    <3>1. c.policies \in [Policies -> PolicyRow \cup {None}] /\ c.policies[p] = row
      BY <1>3, <2>1, Fields
    <3>2. [[c.policies[p] EXCEPT !.items = [@ EXCEPT ![k] = {}]] EXCEPT !.items[l] = row.items[k]]
          = new
      BY <3>1, <1>3 DEF PolicyRow
    <3>3. [[c.policies EXCEPT ![p].items[k] = {}] EXCEPT ![p].items[l] = row.items[k]]
          = [c.policies EXCEPT ![p] = new]
      BY <1>0, <3>1, <3>2
    <3> QED
      BY <2>1, <3>3 DEF Store
  <2>3. k \in Keys /\ l \in Keys
    BY IdAssumption
  <2>4. /\ new \in PolicyRow /\ new.owner = "exec" /\ new.default = row.default
        /\ new.items[l] = row.items[k] /\ (l # k => new.items[k] = {})
        /\ \A m \in Keys \ {k, l} : new.items[m] = row.items[m]
    BY <1>1, <1>3, <2>3 DEF PolicyRow
  <2> HIDE DEF new
  <2> QED
    BY <1>6, <1>8, <2>2, <2>3, <2>4
<1> QED
  BY <1>1, <1>5, <1>7, <1>8

\* A simple policy stays where it is bound, and so do all others.
LEMMA BoundOwn ==
  ASSUME NEW d, NEW e, StoreInv(d), NEW p \in Policies, SimpleIn(d, p), SimpleIn(e, p),
         e \in Store, e.pools = d.pools, e.bindings = d.bindings,
         \A q \in Policies \ {p} : e.policies[q] = d.policies[q],
         \A r \in Rules : e.rules[r] # d.rules[r] =>
           /\ d.rules[r] # None /\ d.rules[r].policy = p
           /\ e.rules[r] = None \/ e.rules[r].policy = p,
         PolicyInv(e, p)
  PROVE  Own(d, e, p)
<1> USE DEF StoreInv
<1>2. BoundOnce(e)
  <2> SUFFICES ASSUME NEW j \in Inbounds, NEW l \in Inbounds, e.bindings[j] # None,
                      SimpleIn(e, e.bindings[j]), e.bindings[j] = e.bindings[l]
               PROVE  j = l
    BY DEF BoundOnce
  <2>1. d.bindings[j] \in Policies
    BY Rows
  <2>2. SimpleIn(d, d.bindings[j])
    BY <2>1 DEF SimpleIn
  <2> QED
    BY <2>2 DEF BoundOnce
<1> QED
  BY <1>2 DEF Own

\* updateLegacySimpleRule changes the only entry there is.
LEMMA LegacyUpdateNext ==
  ASSUME IInv, NEW h \in Handlers, LegacyUpdate(h)
  PROVE  Keeps(h)
<1>0. StoreInv(db) /\ db \in Store
  BY DEF IInv, StoreInv
<1>1. PICK p \in Policies, e \in db.egresses :
        /\ Selected(p) /\ db.policies[p].owner = "legacy"
        /\ Write(h, IF LegacyKey = All THEN [db EXCEPT !.policies[p].default = e]
                                       ELSE Retargeted(db, RulesOf(db, p), e))
  BY DEF LegacyUpdate
<1> DEFINE row == db.policies[p]
           rs == RulesOf(db, p)
<1>2. PICK i \in Inbounds : db.bindings[i] = p /\ \A j \in Inbounds \ {i} : db.bindings[j] # p
  BY <1>0, <1>1, SelectedHeld
<1>3. SimpleIn(db, p) /\ row \in PolicyRow /\ e \in Egresses /\ p \in Policies /\ p # None
  BY <1>0, <1>1, SelectedHeld, Fields, IdAssumption DEF Ids
<1>4. /\ row.default \in Egresses \cup {None}
      /\ \A r \in rs : db.rules[r].target \in Egresses
      /\ \A k \in Keys : row.items[k] = {}
      /\ LegacyKey = All => rs = {}
  BY <1>0, <1>1, <1>3 DEF StoreInv, PolicyInv, LegacyAgree
<1>5. CASE LegacyKey = All
  <2> DEFINE new == [row EXCEPT !.default = e]
             d == [db EXCEPT !.policies[p].default = e]
  <2>1. new \in PolicyRow /\ new.owner = "legacy" /\ new.default = e /\ new.items = row.items
    BY <1>1, <1>3 DEF PolicyRow, Targets
  <2>2. d.policies = [db.policies EXCEPT ![p] = new]
    BY <1>0 DEF Store
  <2>3. new # None
    BY <2>1, IdAssumption
  <2> HIDE DEF new
  <2>4. /\ d \in Store /\ d.pools = db.pools /\ d.rules = db.rules
        /\ d.policies[p] = new /\ \A q \in Policies \ {p} : d.policies[q] = db.policies[q]
        /\ d.bindings = db.bindings
    BY <1>0, <2>1, <2>2 DEF Store
  <2>5. Write(h, d)
    BY <1>1, <1>5
  <2> HIDE DEF d
  <2>6. SimpleIn(d, p) /\ RulesOf(d, p) = {}
    BY <1>4, <1>5, <2>1, <2>3, <2>4 DEF SimpleIn, RulesOf
  <2>7. PolicyInv(d, p)
    BY <1>3, <1>4, <2>1, <2>4, <2>6 DEF PolicyInv, LegacyAgree
  <2>8. Own(db, d, p)
    BY <1>0, <1>3, <2>4, <2>6, <2>7, BoundOwn
  <2>9. \A j \in Inbounds \ {i}, k \in Traffic : RouteIn(d, j, k) = RouteIn(db, j, k)
    BY <1>0, <1>2, <2>4, <2>8, OthersRoutes
  <2>10. \A k \in Traffic : RouteIn(d, i, k) = IF k = All THEN e ELSE RouteIn(db, i, k)
    BY <1>1, <1>2, <1>3, <1>5, <2>1, <2>4, <2>6 DEF RouteIn, Entry
  <2>11. \A j \in Inbounds, k \in Traffic :
           RouteIn(d, j, k) = IF j = i /\ k = All THEN e ELSE RouteIn(db, j, k)
    BY <2>9, <2>10
  <2>12. Effect(db, d)
    BY <1>3, <2>11 DEF Effect, Clears, Sets, Renames, Traffic
  <2> QED
    BY <1>0, <1>3, <2>4, <2>5, <2>8, <2>12, ChangeKeeps
<1>6. CASE LegacyKey # All
  <2> DEFINE d == Retargeted(db, rs, e)
  <2>1. Rerouted(db, d, p, rs, e)
    BY <1>0, <1>3, RetargetedRules
  <2>2. Write(h, d)
    BY <1>1, <1>6
  <2> HIDE DEF d
  <2> USE DEF Rerouted
  <2>3. SimpleIn(d, p) /\ RulesOf(d, p) = rs /\ d.policies[p] = row
    BY <1>3, <2>1 DEF SimpleIn
  <2>4. PolicyInv(d, p)
    BY <1>1, <1>3, <1>4, <1>6, <2>1, <2>3 DEF PolicyInv, LegacyAgree
  <2>5. Own(db, d, p)
    BY <1>0, <1>3, <2>1, <2>3, <2>4, BoundOwn
  <2>6. \A j \in Inbounds \ {i}, k \in Traffic : RouteIn(d, j, k) = RouteIn(db, j, k)
    BY <1>0, <1>2, <2>1, <2>5, OthersRoutes
  <2>7. \A k \in Traffic : /\ RouteIn(d, i, k) = Entry(d, p, k)
                           /\ RouteIn(db, i, k) = Entry(db, p, k)
    BY <1>2, <1>3, <2>1, <2>3 DEF RouteIn
  <2>8. \A k \in Traffic \ {LegacyKey} : RouteIn(d, i, k) = RouteIn(db, i, k)
    BY <1>1, <1>6, <2>3, <2>7 DEF Entry
  <2>9. LegacyKey \in Traffic /\ RouteIn(d, i, LegacyKey) = LineOf(TargetsIn(d, p, rs))
                              /\ RouteIn(db, i, LegacyKey) = LineOf(TargetsIn(db, p, rs))
    BY <1>1, <1>6, <2>3, <2>7, IdAssumption DEF Entry, Traffic
  <2>10. CASE rs = {}
    <3>1. RouteIn(d, i, LegacyKey) = RouteIn(db, i, LegacyKey)
      BY <2>9, <2>10, TargetsNone
    <3>2. \A j \in Inbounds, k \in Traffic : RouteIn(d, j, k) = RouteIn(db, j, k)
      BY <2>6, <2>8, <3>1
    <3> QED
      BY <1>0, <1>3, <2>1, <2>2, <2>5, <3>2, ChangeKeeps DEF Effect, Clears, Sets, Renames
  <2>11. CASE rs # {}
    <3>1. PICK r \in rs : TRUE
      BY <2>11
    <3>2. rs \subseteq RulesOf(d, p) /\ \A s \in rs : d.rules[s].target = e
      BY <2>1, <2>3
    <3> HIDE DEF rs
    <3>3. LineOf(TargetsIn(d, p, rs)) = d.rules[r].target
      BY <3>1, <3>2, TargetsAgree
    <3>4. RouteIn(d, i, LegacyKey) = e
      BY <2>9, <3>1, <3>2, <3>3
    <3>5. \A j \in Inbounds, k \in Traffic :
            RouteIn(d, j, k) = IF j = i /\ k = LegacyKey THEN e ELSE RouteIn(db, j, k)
      BY <2>6, <2>8, <3>4
    <3>6. LegacyKey \in Traffic /\ e \in Egresses \cup {None}
      BY <1>3, <2>9
    <3>7. Effect(db, d)
      BY <3>5, <3>6, Zenon DEF Effect, Clears, Sets, Renames
    <3> QED
      BY <1>0, <1>3, <2>1, <2>2, <2>5, <3>7, ChangeKeeps
  <2> QED
    BY <2>10, <2>11
<1> QED
  BY <1>5, <1>6

\* DeletePolicy, of the policy that only inbound i is bound to.
Wiped(d, e, i, p) ==
  /\ e \in Store /\ e.pools = d.pools
  /\ e.policies[p] = None /\ \A q \in Policies \ {p} : e.policies[q] = d.policies[q]
  /\ e.bindings[i] = None /\ \A j \in Inbounds \ {i} : e.bindings[j] = d.bindings[j]
  /\ \A r \in Rules : e.rules[r] # d.rules[r] =>
       d.rules[r] # None /\ d.rules[r].policy = p /\ e.rules[r] = None

\* The delete of a policy takes its rows and its binding, and nothing of others.
LEMMA PolicyWiped ==
  ASSUME NEW d \in Store, NEW i \in Inbounds, NEW p \in Policies, d.bindings[i] \in {None, p},
         \A j \in Inbounds \ {i} : d.bindings[j] # p
  PROVE  Wiped(d, WithoutPolicy(d, p), i, p)
<1> DEFINE e == WithoutPolicy(d, p)
<1>1. /\ e \in Store /\ e.pools = d.pools
      /\ e.policies = [d.policies EXCEPT ![p] = None]
      /\ e.rules = [r \in Rules |-> IF r \in RulesOf(d, p) THEN None ELSE d.rules[r]]
      /\ e.bindings = [j \in Inbounds |-> IF d.bindings[j] = p THEN None ELSE d.bindings[j]]
  BY DEF WithoutPolicy, Store
<1> HIDE DEF e
<1>2. e.policies[p] = None /\ \A q \in Policies \ {p} : e.policies[q] = d.policies[q]
  BY <1>1, Fields
<1>3. e.bindings[i] = None /\ \A j \in Inbounds \ {i} : e.bindings[j] = d.bindings[j]
  BY <1>1
<1>4. \A r \in Rules : e.rules[r] # d.rules[r] =>
        d.rules[r] # None /\ d.rules[r].policy = p /\ e.rules[r] = None
  BY <1>1 DEF RulesOf
<1>5. Wiped(d, e, i, p)
  BY <1>1, <1>2, <1>3, <1>4 DEF Wiped
<1> QED
  BY <1>5 DEF e

\* The policy has lost a row or its default, and goes when nothing is left.
LEMMA CleanupKeeps ==
  ASSUME StoreInv(db), NEW h, NEW i \in Inbounds, NEW p \in Policies, SimpleIn(db, p),
         db.bindings[i] = p, \A j \in Inbounds \ {i} : db.bindings[j] # p,
         NEW d \in Store, Own(db, d, p), Effect(db, d),
         d.pools = db.pools, d.bindings = db.bindings,
         \A r \in Rules : d.rules[r] # db.rules[r] =>
           db.rules[r] # None /\ db.rules[r].policy = p /\ d.rules[r] = None,
         Write(h, Cleanup(d, p))
  PROVE  Keeps(h)
<1>1. CASE Cleanup(d, p) = d
  BY <1>1, ChangeKeeps
<1>2. CASE Cleanup(d, p) = WithoutPolicy(d, p)
  <2> DEFINE e == WithoutPolicy(d, p)
  <2>1. Wiped(d, e, i, p)
    BY PolicyWiped
  <2> HIDE DEF e
  <2>2. /\ e \in Store /\ e.pools = db.pools
        /\ e.policies[p] = None /\ \A q \in Policies \ {p} : e.policies[q] = db.policies[q]
        /\ e.bindings[i] = None /\ \A j \in Inbounds \ {i} : e.bindings[j] = db.bindings[j]
        /\ \A r \in Rules : e.rules[r] # db.rules[r] =>
             db.rules[r] # None /\ db.rules[r].policy = p /\ e.rules[r] = None
    BY <2>1 DEF Wiped, Own
  <2>3. Own(db, e, p) /\ Effect(db, e)
    BY <2>2, SimpleGone
  <2> QED
    BY <1>2, <2>2, <2>3, ChangeKeeps DEF e
<1> QED
  BY <1>1, <1>2 DEF Cleanup

\* DeleteSimpleRule empties one entry or the table of one inbound.
LEMMA DeleteNext ==
  ASSUME IInv, NEW h \in Handlers, SimpleDelete(h)
  PROVE  Keeps(h)
<1>0. StoreInv(db) /\ db \in Store
  BY DEF IInv, StoreInv
<1>1. PICK p \in Policies :
        /\ Selected(p)
        /\ LET row == db.policies[p]
               legacy == row.owner = "legacy"
           IN  \/ legacy /\ Write(h, WithoutPolicy(db, p))
               \/ /\ ~legacy /\ row.default \in Egresses
                  /\ Write(h, Cleanup([db EXCEPT !.policies[p].default = None], p))
               \/ \E k \in Keys :
                    /\ ~legacy /\ ItemIntact(p, k) /\ KeepsDefault(row)
                    /\ Write(h, Cleanup([db EXCEPT
                           !.policies[p].items[k] = {},
                           !.rules = [r \in Rules |-> IF r \in row.items[k] THEN None ELSE @[r]]],
                         p))
  BY DEF SimpleDelete
<1> DEFINE row == db.policies[p]
<1>2. PICK i \in Inbounds :
        /\ db.bindings[i] = p /\ \A j \in Inbounds \ {i} : db.bindings[j] # p
        /\ row.owner = "exec" => Held(db, i, p, row)
  BY <1>0, <1>1, SelectedHeld
<1>3. /\ SimpleIn(db, p) /\ row \in PolicyRow /\ p \in Policies
      /\ row.owner \in {"exec", "legacy"}
  BY <1>0, <1>1, SelectedHeld DEF SimpleIn, StoreInv
<1>4. CASE Write(h, WithoutPolicy(db, p))
  <2> DEFINE e == WithoutPolicy(db, p)
  <2>1. Wiped(db, e, i, p)
    BY <1>0, <1>2, <1>3, PolicyWiped
  <2> HIDE DEF e
  <2>2. Own(db, e, p) /\ Effect(db, e)
    BY <1>0, <1>2, <1>3, <2>1, SimpleGone DEF Wiped
  <2> QED
    BY <1>0, <1>3, <1>4, <2>1, <2>2, ChangeKeeps DEF e, Wiped
<1>5. CASE /\ row.owner = "exec"
           /\ Write(h, Cleanup([db EXCEPT !.policies[p].default = None], p))
  <2> DEFINE new == [row EXCEPT !.default = None]
             d == [db EXCEPT !.policies[p].default = None]
  <2>0. Held(db, i, p, row) /\ Fits(db, p, row)
    BY <1>2, <1>5 DEF Held
  <2>1. new \in PolicyRow /\ new.owner = "exec" /\ new.default = None /\ new.items = row.items
    BY <1>3, <1>5 DEF PolicyRow
  <2>2. d.policies = [db.policies EXCEPT ![p] = new]
    BY <1>0 DEF Store
  <2> HIDE DEF new
  <2>3. /\ d \in Store /\ d.pools = db.pools /\ d.rules = db.rules
        /\ d.policies[p] = new /\ \A q \in Policies \ {p} : d.policies[q] = db.policies[q]
        /\ d.bindings = db.bindings
    BY <1>0, <1>3, <2>1, <2>2 DEF Store
  <2> HIDE DEF d
  <2>4. Fits(d, p, new)
    BY <2>0, <2>1, <2>3 DEF Fits, RulesOf
  <2>5. Stored(db, d, i, p, new)
    BY <1>2, <1>3, <2>3, <2>4 DEF Stored
  <2>6. All \in Traffic /\ All \notin Keys
    BY IdAssumption DEF Traffic
  <2>7. Differ(db, d, row, new, All, None)
    BY <2>1, <2>3, <2>6 DEF Differ
  <2>8. Own(db, d, p) /\ Effect(db, d)
    <3> HIDE DEF row
    <3> QED
      BY <1>0, <1>3, <2>0, <2>5, <2>6, <2>7, OneEntry
  <2>9. Write(h, Cleanup(d, p))
    BY <1>5 DEF d
  <2> QED
    BY <1>0, <1>2, <1>3, <2>3, <2>8, <2>9, CleanupKeeps
<1>6. ASSUME NEW k \in Keys, row.owner = "exec", ItemIntact(p, k),
             Write(h, Cleanup([db EXCEPT
                 !.policies[p].items[k] = {},
                 !.rules = [r \in Rules |-> IF r \in row.items[k] THEN None ELSE @[r]]], p))
      PROVE  Keeps(h)
  <2> DEFINE rs == row.items[k]
             new == [row EXCEPT !.items[k] = {}]
             d == [db EXCEPT !.policies[p].items[k] = {},
                             !.rules = [r \in Rules |-> IF r \in rs THEN None ELSE @[r]]]
  <2>0. Held(db, i, p, row) /\ Fits(db, p, row)
    BY <1>2, <1>6 DEF Held
  <2>1. /\ new \in PolicyRow /\ new.owner = "exec" /\ new.default = row.default
        /\ new.items[k] = {} /\ \A l \in Keys \ {k} : new.items[l] = row.items[l]
    BY <1>3, <1>6 DEF PolicyRow
  <2>2. d.policies = [db.policies EXCEPT ![p] = new]
    BY <1>0 DEF Store
  <2> HIDE DEF new
  <2>3. /\ d \in Store /\ d.pools = db.pools /\ d.bindings = db.bindings
        /\ d.rules = [r \in Rules |-> IF r \in rs THEN None ELSE db.rules[r]]
        /\ d.policies[p] = new /\ \A q \in Policies \ {p} : d.policies[q] = db.policies[q]
    BY <1>0, <1>3, <2>1, <2>2 DEF Store
  <2> HIDE DEF d
  <2>4. rs \subseteq RulesOf(db, p) /\ rs \subseteq Rules
    BY <1>6 DEF ItemIntact, RulesOf
  <2>5. RulesOf(d, p) = RulesOf(db, p) \ rs
    BY <2>3, <2>4 DEF RulesOf
  <2>6. \A r \in RulesOf(d, p) : d.rules[r] = db.rules[r]
    BY <2>3, <2>5 DEF RulesOf
  <2>7. \A l \in Keys \ {k} : row.items[l] \subseteq RulesOf(d, p)
    BY <2>0, <2>5 DEF Fits
  <2>8. Fits(d, p, new)
    <3>1. UNION {new.items[l] : l \in Keys} = RulesOf(d, p)
      <4>1. \A r \in RulesOf(d, p) : \E l \in Keys : r \in new.items[l]
        BY <2>0, <2>1, <2>5 DEF Fits
      <4>2. \A l \in Keys : new.items[l] \subseteq RulesOf(d, p)
        BY <2>1, <2>7
      <4> QED
        BY <4>1, <4>2
    <3>2. \A l, m \in Keys : l # m => new.items[l] \cap new.items[m] = {}
      BY <2>0, <2>1 DEF Fits
    <3>3. \A r \in RulesOf(d, p) : d.rules[r].target \in Egresses
      BY <2>0, <2>5, <2>6 DEF Fits
    <3>4. \A l \in Keys : \A r, s \in new.items[l] : d.rules[r].target = d.rules[s].target
      BY <2>0, <2>1, <2>6, <2>7 DEF Fits
    <3> QED
      BY <2>0, <2>1, <3>1, <3>2, <3>3, <3>4 DEF Fits
  <2>9. \A r \in Rules : d.rules[r] # db.rules[r] =>
          db.rules[r] # None /\ db.rules[r].policy = p /\ d.rules[r] = None
    BY <2>3, <2>4 DEF RulesOf
  <2>10. Stored(db, d, i, p, new)
    BY <1>2, <1>3, <2>3, <2>8, <2>9 DEF Stored
  <2>11. k \in Traffic /\ k # All
    BY IdAssumption DEF Traffic
  <2>12. Differ(db, d, row, new, k, None)
    BY <2>1, <2>6, <2>7, <2>11 DEF Differ
  <2>13. Own(db, d, p) /\ Effect(db, d)
    <3> HIDE DEF row
    <3> QED
      BY <1>0, <1>3, <2>0, <2>10, <2>11, <2>12, OneEntry
  <2>14. Write(h, Cleanup(d, p))
    BY <1>6 DEF d
  <2> QED
    BY <1>0, <1>2, <1>3, <2>3, <2>9, <2>13, <2>14, CleanupKeeps
<1> QED
  BY <1>1, <1>3, <1>4, <1>5, <1>6

\* A request of the simple page changes one entry, moves one or clears one inbound.
LEMMA SimpleNext ==
  ASSUME IInv, NEW h \in Handlers, SimpleRequest(h), ~reissued'
  PROVE  Keeps(h)
  BY CreateNext, UpdateNext, LegacyUpdateNext, DeleteNext DEF SimpleRequest

-----------------------------------------------------------------------------
(* InboundService *)

\* DelInbound takes the simple policy along when no other inbound has it, and the
\* binding alone otherwise.
LEMMA DelInboundNext ==
  ASSUME IInv, NEW h \in Handlers, DelInbound(h)
  PROVE  Keeps(h)
<1>0. StoreInv(db) /\ db \in Store
  BY DEF IInv, StoreInv
<1>1. PICK i \in Inbounds : Write(h, [CleanedUp(i) EXCEPT !.inbounds = @ \ {i}])
  BY DEF DelInbound
<1> DEFINE p == db.bindings[i]
           unbound == [db EXCEPT !.bindings[i] = None]
           d == [CleanedUp(i) EXCEPT !.inbounds = @ \ {i}]
<1>2. /\ unbound \in Store /\ unbound.pools = db.pools
      /\ unbound.policies = db.policies /\ unbound.rules = db.rules
      /\ unbound.bindings = [db.bindings EXCEPT ![i] = None]
  BY <1>0 DEF Store
<1> HIDE DEF unbound
<1>3. CASE p # None /\ Simple(p) /\ \A j \in Inbounds \ {i} : db.bindings[j] # p
  <2>1. CleanedUp(i) = WithoutPolicy(unbound, p)
    BY <1>3 DEF CleanedUp, unbound
  <2>2. p \in Policies /\ SimpleIn(db, p)
    BY <1>0, <1>3, Rows DEF Simple, SimpleIn
  <2>3. unbound.bindings[i] = None /\ \A j \in Inbounds \ {i} : unbound.bindings[j] = db.bindings[j]
    BY <1>0, <1>2, Fields
  <2> DEFINE e == WithoutPolicy(unbound, p)
  <2>4. Wiped(unbound, e, i, p)
    BY <1>2, <1>3, <2>2, <2>3, PolicyWiped
  <2>5. d = [e EXCEPT !.inbounds = @ \ {i}]
    BY <2>1
  <2> HIDE DEF e
  <2>6. /\ d \in Store /\ d.pools = e.pools /\ d.policies = e.policies
        /\ d.bindings = e.bindings /\ d.rules = e.rules
    BY <2>4, <2>5 DEF Wiped, Store
  <2> HIDE DEF d
  <2>7. /\ d.pools = db.pools
        /\ d.policies[p] = None /\ \A q \in Policies \ {p} : d.policies[q] = db.policies[q]
        /\ d.bindings[i] = None /\ \A j \in Inbounds \ {i} : d.bindings[j] = db.bindings[j]
        /\ \A r \in Rules : d.rules[r] # db.rules[r] =>
             db.rules[r] # None /\ db.rules[r].policy = p /\ d.rules[r] = None
    BY <1>2, <2>3, <2>4, <2>6 DEF Wiped
  <2>8. Own(db, d, p) /\ Effect(db, d)
    BY <1>0, <1>3, <2>2, <2>6, <2>7, SimpleGone
  <2> QED
    BY <1>0, <1>1, <2>2, <2>7, <2>8, ChangeKeeps DEF d
<1>4. CASE ~(p # None /\ Simple(p) /\ \A j \in Inbounds \ {i} : db.bindings[j] # p)
  <2>1. CleanedUp(i) = unbound
    BY <1>4 DEF CleanedUp, unbound
  <2>2. /\ d \in Store /\ d.pools = db.pools /\ d.policies = db.policies
        /\ d.bindings = [db.bindings EXCEPT ![i] = None] /\ d.rules = db.rules
    BY <1>2, <2>1 DEF Store
  <2> HIDE DEF d
  <2>3. Harmless(db, d)
    BY <1>0, <2>2, BindingWritten
  <2>4. Harmless(db, db') /\ Moves(h)
    BY <1>1, <2>3, Written DEF d
  <2> QED
    BY <1>0, <2>4, HarmlessKeeps
<1> QED
  BY <1>3, <1>4

\* AddInbound touches no policy, rule or binding.
LEMMA AddInboundNext ==
  ASSUME StoreInv(db), NEW h \in Handlers, AddInbound(h)
  PROVE  Harmless(db, db') /\ Moves(h)
<1>1. PICK i \in Inbounds : Write(h, [db EXCEPT !.inbounds = @ \cup {i}])
  BY DEF AddInbound
<1> DEFINE d == [db EXCEPT !.inbounds = @ \cup {i}]
<1>2. /\ d \in Store /\ d.pools = db.pools
      /\ d.policies = db.policies /\ d.rules = db.rules /\ d.bindings = db.bindings
  BY DEF StoreInv, Store
<1> HIDE DEF d
<1>3. Harmless(db, d)
  BY <1>2, EgressWritten
<1> QED
  BY <1>1, <1>3, Written DEF d

\* A request that fails leaves everything as it was.
LEMMA FailsNext ==
  ASSUME StoreInv(db), NEW h \in Handlers, Fails(h)
  PROVE  Harmless(db, db') /\ Moves(h)
  BY Idle, Over DEF Fails

-----------------------------------------------------------------------------
(* All steps together *)

\* An empty database.
LEMMA EmptyInv ==
  ASSUME NEW es \in SUBSET Egresses, NEW is \in SUBSET Inbounds
  PROVE  StoreInv(Empty(es, is))
<1> DEFINE d == Empty(es, is)
<1>1. /\ d \in Store /\ d.policies = [p \in Policies |-> None]
      /\ d.rules = [r \in Rules |-> None] /\ d.bindings = [i \in Inbounds |-> None]
  BY DEF Empty, Store, Ids
<1> HIDE DEF d
<1>2. BoundOnce(d) /\ \A p \in Policies : PolicyInv(d, p)
  BY <1>1 DEF BoundOnce, PolicyInv, SimpleIn
<1> QED
  BY <1>1, <1>2 DEF StoreInv, d

\* One with a policy of an older version.
LEMMA LegacyInv ==
  ASSUME NEW es \in SUBSET Egresses, NEW is \in SUBSET Inbounds,
         NEW i \in is, NEW e \in es, NEW p \in Policies, NEW rs \in SUBSET Rules,
         rs = {} <=> LegacyKey = All
  PROVE  StoreInv(Legacy(Empty(es, is), i, e, p, rs))
<1> DEFINE row == [owner |-> "legacy", items |-> [k \in Keys |-> {}],
                   default |-> IF LegacyKey = All THEN e ELSE None]
           rule == [policy |-> p, target |-> e]
           d == Legacy(Empty(es, is), i, e, p, rs)
<1>1. row \in PolicyRow /\ row.owner = "legacy" /\ row.default \in Egresses \cup {None}
      /\ \A k \in Keys : row.items[k] = {}
  BY DEF PolicyRow, Targets
<1>2. rule \in RuleRow /\ rule.policy = p /\ rule.target = e /\ rule # None /\ e \in Egresses
  BY IdAssumption DEF RuleRow, Targets
<1>3. d = [Inserted(Empty(es, is), rs, rule)
             EXCEPT !.policies[p] = row, !.bindings[i] = p]
  BY DEF Legacy
<1>4. i \in Inbounds /\ p # None
  BY IdAssumption DEF Ids
<1> HIDE DEF row, rule, d
<1>5. /\ d \in Store
      /\ d.policies = [q \in Policies |-> IF q = p THEN row ELSE None]
      /\ d.rules = [r \in Rules |-> IF r \in rs THEN rule ELSE None]
      /\ d.bindings = [j \in Inbounds |-> IF j = i THEN p ELSE None]
  BY <1>1, <1>2, <1>3, <1>4 DEF Inserted, Empty, Store, Ids
<1>7. BoundOnce(d)
  BY <1>4, <1>5 DEF BoundOnce
<1>8. ASSUME NEW q \in Policies PROVE PolicyInv(d, q)
  <2>1. CASE q # p
    BY <1>5, <2>1 DEF PolicyInv, SimpleIn
  <2>2. CASE q = p
    <3>1. RulesOf(d, p) = rs
      BY <1>2, <1>5 DEF RulesOf
    <3>2. d.policies[p] = row /\ \A r \in rs : d.rules[r].target = e
      BY <1>2, <1>5
    <3> QED
      BY <1>1, <1>2, <2>2, <3>1, <3>2 DEF PolicyInv, LegacyAgree
  <2> QED
    BY <2>1, <2>2
<1>9. StoreInv(d)
  BY <1>5, <1>7, <1>8 DEF StoreInv
<1> QED
  BY <1>9 DEF d

\* The invariant holds when the panel starts.
LEMMA IInvInit == ASSUME Init PROVE IInv
<1>1. StoreInv(db)
  BY EmptyInv, LegacyInv DEF Init
<1>2. \A h \in Handlers : pc[h] = "idle" /\ loc[h] = Blank
  BY DEF Init
<1>3. LocInv(db, "idle", Blank)
  BY DEF LocInv, Knows, Blank, Locals, EgressPoints, TargetPoints, PolicyPoints, RulePoints,
         BindPoints, InboundPoints
<1>4. pc \in [Handlers -> Points] /\ DOMAIN loc = Handlers /\ loc = [h \in Handlers |-> loc[h]]
  BY DEF Init, Points
<1>5. HandlersInv
  BY <1>2, <1>3, <1>4 DEF HandlersInv
<1> QED
  BY <1>1, <1>5 DEF IInv

\* One request after the other, in whatever order their statements run.
LEMMA NextKeeps ==
  ASSUME IInv, NEW h \in Handlers,
         \/ SimpleRequest(h) \/ AdvancedRequest(h) \/ GroupRequest(h) \/ EgressRequest(h)
         \/ AddInbound(h) \/ DelInbound(h) \/ Fails(h),
         ~reissued'
  PROVE  Keeps(h)
<1>0. StoreInv(db)
  BY DEF IInv
<1>1. CASE SimpleRequest(h)
  BY <1>1, SimpleNext
<1>2. CASE AdvancedRequest(h)
  BY <1>0, <1>2, AdvancedNext, HarmlessKeeps
<1>3. CASE GroupRequest(h)
  BY <1>0, <1>3, GroupNext, HarmlessKeeps
<1>4. CASE EgressRequest(h)
  BY <1>0, <1>4, EgressNext, HarmlessKeeps
<1>5. CASE DelInbound(h)
  BY <1>5, DelInboundNext
<1>6. CASE Fails(h)
  <2>1. Harmless(db, db') /\ Moves(h)
    BY <1>0, <1>6, FailsNext
  <2> QED
    BY <1>0, <2>1, HarmlessKeeps
<1>7. CASE AddInbound(h)
  BY <1>0, <1>7, AddInboundNext, HarmlessKeeps
<1> QED
  BY <1>1, <1>2, <1>3, <1>4, <1>5, <1>6, <1>7

\* Only a simple creation is told from others by the ids it gets.
LEMMA OthersIssueNone ==
  ASSUME NEW h \in Handlers,
         \/ SimpleUpdate(h) \/ LegacyUpdate(h) \/ SimpleDelete(h)
         \/ AdvancedRequest(h) \/ GroupRequest(h) \/ EgressRequest(h)
         \/ AddInbound(h) \/ DelInbound(h) \/ Fails(h)
  PROVE  reissued' = reissued
<1>a. ASSUME NEW d, Write(h, d) PROVE reissued' = reissued
  BY <1>a DEF Write
<1>1. CASE SimpleUpdate(h)
  <2>1. PICK p \in Policies, e \in db.egresses :
          /\ Selected(p) /\ db.policies[p].owner = "exec"
          /\ \/ /\ db.policies[p].default \in Egresses
                /\ Write(h, [db EXCEPT !.policies[p].default = e])
             \/ \E k \in Keys \ Custom :
                  ItemIntact(p, k) /\ Write(h, RetargetItem(p, k, e))
             \/ \E k, l \in Custom :
                  /\ ItemIntact(p, k) /\ KeepsDefault(db.policies[p])
                  /\ l = k \/ db.policies[p].items[l] = {}
                  /\ Write(h, [RetargetItem(p, k, e)
                                 EXCEPT !.policies[p].items[k] = {},
                                        !.policies[p].items[l] = db.policies[p].items[k]])
    BY <1>1 DEF SimpleUpdate
  <2> QED
    BY <1>a, <2>1
<1> USE DEF Check, Validate, Write
<1>8. CASE LegacyUpdate(h)
  BY <1>8 DEF LegacyUpdate
<1>9. CASE SimpleDelete(h)
  BY <1>9 DEF SimpleDelete
<1>2. CASE PolicyCreate(h) \/ PolicyUpdate(h) \/ PolicyEnable(h) \/ PolicyDelete(h)
  BY <1>2 DEF PolicyCreate, PolicyUpdate, PolicyEnable, PolicyDelete
<1>3. CASE RuleAdd(h) \/ RuleUpdate(h) \/ RuleEnable(h) \/ RuleDelete(h)
  BY <1>3 DEF RuleAdd, RuleUpdate, RuleEnable, RuleDelete
<1>4. CASE Bind(h) \/ Unbind(h) \/ Template(h)
  BY <1>4 DEF Bind, Unbind, Template
<1>5. CASE GroupRequest(h)
  BY <1>5 DEF GroupRequest, GroupCreate, EnsureBuiltinGroups, GroupUpdate, GroupDelete,
              AddDomainRule, ChangeDomainRule
<1>6. CASE EgressRequest(h)
  BY <1>6 DEF EgressRequest, EgressCreate, EgressUpdate, EgressDelete, PoolCreate, AddMember,
              RemoveMember
<1>7. CASE AddInbound(h) \/ DelInbound(h) \/ Fails(h)
  BY <1>7 DEF AddInbound, DelInbound, Fails
<1> QED
  BY <1>1, <1>2, <1>3, <1>4, <1>5, <1>6, <1>7, <1>8, <1>9 DEF AdvancedRequest

\* What has been reissued stays so.
LEMMA Remembered == ASSUME [Next]_vars, ~reissued' PROVE ~reissued
<1>1. CASE UNCHANGED vars
  BY <1>1 DEF vars
<1>2. ASSUME NEW h \in Handlers, SimpleCreate(h) PROVE ~reissued
  <2>1. ASSUME NEW d, NEW new, Issue(h, d, new) PROVE ~reissued
    BY <2>1 DEF Issue
  <2>2. PICK i \in db.inbounds, e \in db.egresses : \E x \in ExecutionPolicies(i) :
          LET p == x[1]
              row == x[2]
              new == {p} \ Present(db.policies)
              Policy(r) == [db EXCEPT !.policies[p] = r, !.bindings[i] = p]
          IN  \/ /\ row.default \notin Egresses
                 /\ Issue(h, Policy([row EXCEPT !.default = e]), new)
              \/ \E k \in Keys : \E rs \in NewRules(IF k \in Custom THEN 1 ELSE MaxSnapshot) :
                   /\ row.items[k] = {} /\ KeepsDefault(row)
                   /\ Issue(h, Inserted(Policy([row EXCEPT !.items[k] = rs]), rs,
                                        [policy |-> p, target |-> e]),
                            new \cup rs)
    BY <1>2 DEF SimpleCreate
  <2> QED
    BY <2>1, <2>2
<1> QED
  BY <1>1, <1>2, OthersIssueNone DEF Next, SimpleRequest

\* Every step keeps the invariant and changes the tables of the simple page as allowed,
\* but for one that reissues an id.
LEMMA Inductive ==
  ASSUME IInv, [Next]_vars, ~reissued'
  PROVE  IInv' /\ Effect(db, db')
<1>1. CASE Next
  <2>1. PICK h \in Handlers :
          \/ SimpleRequest(h) \/ AdvancedRequest(h) \/ GroupRequest(h) \/ EgressRequest(h)
          \/ AddInbound(h) \/ DelInbound(h) \/ Fails(h)
    BY <1>1 DEF Next
  <2>2. Keeps(h)
    BY <2>1, NextKeeps
  <2>3. HandlersInv'
    BY <2>2, HandlersNext DEF Keeps, IInv
  <2> QED
    BY <2>2, <2>3 DEF Keeps, IInv
<1>2. CASE UNCHANGED vars
  <2>1. db' = db /\ pc' = pc /\ loc' = loc
    BY <1>2 DEF vars
  <2>2. Effect(db, db')
    BY <2>1 DEF Effect, Clears, Sets, Renames
  <2>3. HandlersInv'
    BY <2>1 DEF IInv, HandlersInv
  <2> QED
    BY <2>1, <2>2, <2>3 DEF IInv
<1> QED
  BY <1>1, <1>2

\* The invariant holds in every state before the first reissue.
LEMMA InvariantHolds == Spec => [](~reissued => IInv)
<1>1. Init => (~reissued => IInv)
  BY IInvInit
<1>2. (~reissued => IInv) /\ [Next]_vars => (~reissued => IInv)'
  BY Inductive, Remembered
<1> QED
  BY <1>1, <1>2, PTL DEF Spec

-----------------------------------------------------------------------------
(* Results *)

\* The remark of a simple policy and the rules table agree: whatever the other pages do
\* between their checks and their writes, the rows a simple request is going to retarget
\* or delete are there, are its own and have one target, until a simple creation is given
\* an id that a request under way or a row left behind names.
THEOREM MetadataAgrees == Spec => []SimpleConsistent
<1>1. (~reissued => IInv) => SimpleConsistent
  <2> SUFFICES ASSUME IInv, NEW p \in Policies, db.policies[p] # None,
                      db.policies[p].owner = "exec"
               PROVE  ExecAgree(db, p)
    BY DEF SimpleConsistent, ExecAgree
  <2> QED
    BY DEF IInv, StoreInv, PolicyInv, SimpleIn
<1> QED
  BY <1>1, InvariantHolds, PTL

\* No step of a request of the advanced pages, or about egresses, pools, rule groups or
\* new inbounds, changes a simple policy or one of its rows, or makes one: the ownership
\* tests hold although the write comes in a later statement, as long as the id that was
\* tested has not been given to the simple page meanwhile.
THEOREM OthersKeepOut == Spec => SimpleUntouched
<1> DEFINE Simply == \E h \in Handlers : SimpleRequest(h) \/ DelInbound(h)
<1>1. ASSUME IInv, NEW h \in Handlers,
             \/ AdvancedRequest(h) \/ GroupRequest(h) \/ EgressRequest(h)
             \/ AddInbound(h) \/ Fails(h)
      PROVE  Untouched
  <2>1. Harmless(db, db') /\ db \in Store
    BY <1>1, AdvancedNext, GroupNext, EgressNext, AddInboundNext, FailsNext DEF IInv, StoreInv
  <2>2. ASSUME NEW p \in Policies, Simple(p) \/ Simple(p)' PROVE Same(db, db', p)
    <3>1. SimpleIn(db, p) \/ SimpleIn(db', p)
      BY <2>2 DEF Simple, SimpleIn
    <3> QED
      BY <2>1, <3>1, HarmlessSame
  <2> QED
    BY <2>2 DEF Untouched, Same
<1>2. (~reissued => IInv) /\ [Next]_vars => [reissued \/ Untouched \/ Simply]_vars
  BY <1>1 DEF Next
<1> QED
  BY <1>2, InvariantHolds, PTL DEF Spec, SimpleUntouched

\* The tables of the simple page as one function.
TableIn(d) == [i \in Inbounds |-> [k \in Traffic |-> RouteIn(d, i, k)]]

\* It is the table of the refinement, before and after a step.
LEMMA TableNow == Table = TableIn(db) /\ Table' = TableIn(db')
<1>1. Table = TableIn(db)
  BY RouteNow DEF SameRoutes, Table, TableIn, Traffic
<1>2. Table' = TableIn(db')
  BY RouteThen DEF SameRoutes, Table, TableIn, Traffic
<1> QED
  BY <1>1, <1>2

\* A line leads to an egress or there is none.
LEMMA RoutesTyped ==
  ASSUME NEW d, StoreInv(d), NEW i \in Inbounds, NEW k \in Traffic
  PROVE  RouteIn(d, i, k) \in Egresses \cup {None}
<1> DEFINE p == d.bindings[i]
<1>1. CASE p = None \/ ~SimpleIn(d, p)
  BY <1>1 DEF RouteIn
<1>2. CASE p # None /\ SimpleIn(d, p)
  <2>1. p \in Policies /\ PolicyInv(d, p) /\ RouteIn(d, i, k) = Entry(d, p, k)
    BY <1>2, Rows DEF StoreInv, RouteIn
  <2>2. CASE d.policies[p].owner = "exec"
    <3>1. Fits(d, p, d.policies[p]) /\ Shows(d, i, d.policies[p])
      BY <1>2, <2>1, <2>2, ExecFits, FitsShows DEF SimpleIn
    <3>2. CASE k = All
      BY <3>1, <3>2 DEF Fits, Shows
    <3>3. CASE k \in Keys
      BY <3>1, <3>3 DEF Fits, Shows
    <3> QED
      BY <3>2, <3>3 DEF Traffic
  <2>3. CASE d.policies[p].owner = "legacy"
    <3> DEFINE rs == RulesOf(d, p)
    <3>1. /\ d.policies[p].default \in Egresses \cup {None}
          /\ \A r \in rs : d.rules[r].target \in Egresses
          /\ \A r, s \in rs : d.rules[r].target = d.rules[s].target
      BY <1>2, <2>1, <2>3 DEF PolicyInv, LegacyAgree
    <3> HIDE DEF rs
    <3>2. LineOf(TargetsIn(d, p, rs)) \in Egresses \cup {None}
      <4>1. CASE rs = {}
        BY <4>1, TargetsNone
      <4>2. ASSUME NEW r \in rs PROVE LineOf(TargetsIn(d, p, rs)) \in Egresses
        <5>1. LineOf(TargetsIn(d, p, rs)) = d.rules[r].target
          BY <3>1, TargetsAgree DEF rs
        <5> QED
          BY <3>1, <5>1
      <4> QED
        BY <4>1, <4>2
    <3> QED
      BY <2>1, <2>3, <3>1, <3>2 DEF Entry, rs
  <2> QED
    BY <1>2, <2>2, <2>3 DEF SimpleIn
<1> QED
  BY <1>1, <1>2

\* What a step does to the tables is a step of the abstract table.
LEMMA EffectIsStep ==
  ASSUME NEW d, NEW e, StoreInv(d), StoreInv(e), Effect(d, e),
         Table = TableIn(d), Table' = TableIn(e)
  PROVE  [Routing!Next]_Table
<1>1. \A i \in Inbounds : \A k \in Traffic :
        /\ Table[i][k] = RouteIn(d, i, k) /\ Table'[i][k] = RouteIn(e, i, k)
  BY DEF TableIn
<1>2. /\ DOMAIN Table = Inbounds /\ DOMAIN Table' = Inbounds
      /\ \A i \in Inbounds : Table[i] = [k \in Traffic |-> Table[i][k]]
      /\ \A i \in Inbounds : Table'[i] = [k \in Traffic |-> Table'[i][k]]
  BY DEF TableIn
<1>3. CASE \A i \in Inbounds, k \in Traffic : RouteIn(e, i, k) = RouteIn(d, i, k)
  <2>1. TableIn(e) = TableIn(d)
    BY <1>3 DEF TableIn
  <2> QED
    BY <2>1
<1>4. ASSUME NEW i \in Inbounds, Clears(d, e, i)
      PROVE  Routing!Next
  <2>1. TableIn(e) = [TableIn(d) EXCEPT ![i] = [k \in Traffic |-> None]]
    BY <1>4 DEF TableIn, Clears
  <2>2. Routing!Clear(i)
    BY <2>1 DEF Routing!Clear, Table, Traffic
  <2> QED
    BY <2>2 DEF Routing!Next
<1>5. ASSUME NEW i \in Inbounds, NEW k \in Traffic, NEW t \in Egresses \cup {None},
             Sets(d, e, i, k, t)
      PROVE  Routing!Next
  <2>1. TableIn(e) = [TableIn(d) EXCEPT ![i][k] = t]
    BY <1>5 DEF TableIn, Sets
  <2>2. CASE t = None
    <3>1. Routing!Delete(i, k)
      BY <2>1, <2>2 DEF Routing!Delete, Table
    <3> QED
      BY <3>1 DEF Routing!Next, Traffic
  <2>3. CASE t # None /\ TableIn(d)[i][k] = None
    <3>1. Routing!Create(i, k, t)
      BY <2>1, <2>3 DEF Routing!Create, Table
    <3> QED
      BY <2>3, <3>1 DEF Routing!Next, Traffic
  <2>4. CASE t # None /\ TableIn(d)[i][k] # None
    <3>1. Routing!Update(i, k, t)
      BY <2>1, <2>4 DEF Routing!Update, Table
    <3> QED
      BY <2>4, <3>1 DEF Routing!Next, Traffic
  <2> QED
    BY <2>2, <2>3, <2>4
<1>6. ASSUME NEW i \in Inbounds, NEW k \in Custom, NEW l \in Custom, NEW t \in Egresses,
             Renames(d, e, i, k, l, t)
      PROVE  Routing!Next
  <2>0. k \in Traffic /\ l \in Traffic
    BY IdAssumption DEF Traffic
  <2>1. TableIn(e) = [TableIn(d) EXCEPT ![i][k] = None, ![i][l] = t]
    <3>1. [TableIn(d) EXCEPT ![i][k] = None]
          = [j \in Inbounds |-> [m \in Traffic |->
               IF j = i /\ m = k THEN None ELSE RouteIn(d, j, m)]]
      BY <2>0 DEF TableIn
    <3>2. [[TableIn(d) EXCEPT ![i][k] = None] EXCEPT ![i][l] = t]
          = [j \in Inbounds |-> [m \in Traffic |->
               IF j = i /\ m = l THEN t
               ELSE IF j = i /\ m = k THEN None ELSE RouteIn(d, j, m)]]
      BY <1>6, <2>0, <3>1 DEF Renames
    <3>3. TableIn(e) = [[TableIn(d) EXCEPT ![i][k] = None] EXCEPT ![i][l] = t]
      BY <1>6, <3>2 DEF TableIn, Renames
    <3> QED
      BY <3>3
  <2>2. TableIn(d)[i][k] # None /\ TableIn(d)[i][l] = None
    BY <1>6, <2>0 DEF TableIn, Renames
  <2>3. Routing!Rename(i, k, l, t)
    BY <1>6, <2>1, <2>2 DEF Routing!Rename, Renames, Table
  <2> QED
    BY <2>0, <2>3 DEF Routing!Next, Traffic
<1> QED
  BY <1>3, <1>4, <1>5, <1>6, Zenon DEF Effect

\* The simple page keeps its promise: whatever runs in between, its requests and the
\* deletion of inbounds look like single changes of one table of routes per inbound, and
\* all other requests like nothing, but for one that gives an inbound another policy,
\* until an id is reissued that somebody still named.
THEOREM PageIsAtomic == Spec => SimpleIsAtomic
<1>1. ASSUME Init PROVE Routing!Init
  <2>1. StoreInv(db)
    BY <1>1, IInvInit DEF IInv
  <2>2. TableIn(db) \in [Inbounds -> [Traffic -> Egresses \cup {None}]]
    BY <2>1, RoutesTyped DEF TableIn
  <2>3. Table \in [Inbounds -> [Traffic -> Egresses \cup {None}]]
    BY <2>2, TableNow
  <2> QED
    BY <2>3 DEF Routing!Init, Routing!Entries, Table, Traffic
<1>2. ASSUME IInv, [Next]_vars, ~reissued' PROVE Routing!Next \/ Table' = Table
  <2>1. StoreInv(db) /\ StoreInv(db') /\ Effect(db, db')
    BY <1>2, Inductive DEF IInv
  <2>2. [Routing!Next]_Table
    BY <2>1, TableNow, EffectIsStep
  <2> QED
    BY <2>2
<1>3. (~reissued => IInv) /\ [Next]_vars
      => [reissued' \/ Table' = Table \/ Routing!Next]_vars
  BY <1>2, Remembered
<1> QED
  BY <1>1, <1>3, InvariantHolds, PTL DEF Spec, SimpleIsAtomic
=============================================================================
