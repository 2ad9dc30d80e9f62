---------------------- MODULE PolicyStoreSerial_proofs ----------------------
(***************************************************************************)
(* One request at a time leaves the tables whole.                          *)
(*                                                                         *)
(* With several handlers a row that was looked up may be gone when another *)
(* one that names it is written; a run of the specification shows it.      *)
(* When requests never overlap, whatever a handler has looked up is still  *)
(* so at its write, and then no reference dangles, no row is left without  *)
(* its policy and every simple policy stays bound to an inbound.  The      *)
(* two other exceptions are stated as assumptions, each only where it is   *)
(* needed: a rule group may become an ordinary policy, and a template      *)
(* replaces any binding.                                                   *)
(***************************************************************************)
EXTENDS PolicyStore_proofs

\* Requests do not overlap.
OneHandler == \A g, h \in Handlers : g = h

\* Exists, for any tables.
There(d, t) == t \in d.egresses \/ (t \in Pools /\ d.pools[t] # None)

\* NoOrphanRows.
Owned(d) ==
  /\ \A r \in Rules : d.rules[r] # None => d.policies[d.rules[r].policy] # None
  /\ \A i \in Inbounds : d.bindings[i] # None =>
       i \in d.inbounds /\ d.policies[d.bindings[i]] # None

\* TargetsExist, when there are no rule groups: every rule has its target.
Resolved(d) ==
  /\ \A p \in Policies : d.policies[p] # None =>
       d.policies[p].default = None \/ There(d, d.policies[p].default)
  /\ \A r \in Rules : d.rules[r] # None => There(d, d.rules[r].target)
  /\ \A q \in Pools : d.pools[q] # None =>
       /\ d.pools[q].members \subseteq d.egresses
       /\ d.pools[q].fallback = None \/ There(d, d.pools[q].fallback)

\* SimpleReachable, but for the uniqueness of the binding, which always holds.
Reached(d) ==
  \A p \in Policies : SimpleIn(d, p) =>
    /\ \E i \in Inbounds : d.bindings[i] = p
    /\ d.policies[p].default # None \/ RulesOf(d, p) # {}

\* All of it, as far as the requests that arrive allow.
Whole(d) ==
  /\ Owned(d)
  /\ "group" \notin Kinds => Resolved(d)
  /\ "template" \notin Kinds => Reached(d)

\* The handler may replace the binding of inbound i: no simple policy loses it.
Loose(d, i) == d.bindings[i] = None \/ ~SimpleIn(d, d.bindings[i])

\* What the handler has found out about the tables and may rely on, by where it is.
Learnt(d, point, l) ==
  /\ point \in {"countRules", "countMembers", "countFallbacks", "egressDelete"} =>
       \A p \in Policies : d.policies[p] # None => d.policies[p].default # l.id
  /\ point \in {"countMembers", "countFallbacks", "egressDelete"} =>
       \A r \in Rules : d.rules[r] # None => d.rules[r].target # l.id
  /\ point \in {"countFallbacks", "egressDelete"} =>
       \A q \in Pools : d.pools[q] # None => l.id \notin d.pools[q].members
  /\ point = "egressDelete" =>
       \A q \in Pools : d.pools[q] # None => d.pools[q].fallback # l.id
  /\ "group" \notin Kinds =>
       /\ point \in {"poolInsert", "policyInsert", "policySave"} =>
            l.arg = None \/ There(d, l.arg)
       /\ point \in {"ruleInsert", "ruleSave", "template"} => There(d, l.arg)
       /\ point \notin {"builtinInsert", "seed", "groupRule"}
  /\ point = "memberInsert" => l.arg \in d.egresses
  /\ point \in PolicyPoints => d.policies[l.id] # None
  /\ point = "policyTarget" => l.arg = None
  /\ point \in {"ruleRetarget", "ruleSave"} => d.policies[l.row.policy] # None
  /\ point \in BindPoints => d.policies[l.arg] # None
  /\ point \in {"bindExists", "bindCount", "bind", "unbindExists", "unbind"} => Loose(d, l.id)
  /\ point \in {"bindCount", "bind", "templateTarget", "template"} => l.id \in d.inbounds
  /\ "template" \notin Kinds => point \notin {"templateTarget", "template"}

\* The inductive invariant, together with IInv.
SInv == Whole(db) /\ \A h \in Handlers : Learnt(db, pc[h], loc[h])

-----------------------------------------------------------------------------
(* One handler *)

\* What a step of the handler has to give.
Sound(h) == Whole(db') /\ Learnt(db', pc'[h], loc'[h])

\* Where the handler goes on.
LEMMA Gone ==
  ASSUME HandlersInv, NEW h \in Handlers, NEW point, NEW l, Go(h, point, l)
  PROVE  pc'[h] = point /\ loc'[h] = l
<1>1. h \in DOMAIN pc /\ h \in DOMAIN loc
  BY DEF HandlersInv
<1> QED
  BY <1>1 DEF Go

\* Nothing is known when a request is over.
LEMMA LearntNothing == ASSUME NEW d PROVE Learnt(d, "idle", Blank)
  BY DEF Learnt, PolicyPoints, BindPoints

\* The request is over and the tables are whole.
LEMMA SoundOver ==
  ASSUME HandlersInv, NEW h \in Handlers, Whole(db'), Done(h)
  PROVE  Sound(h)
<1>1. pc'[h] = "idle" /\ loc'[h] = Blank
  BY Gone DEF Done
<1> QED
  BY <1>1, LearntNothing DEF Sound

\* A write that ends the request.
LEMMA SoundWrite ==
  ASSUME HandlersInv, NEW h \in Handlers, NEW e, Whole(e), Write(h, e)
  PROVE  Sound(h)
  BY SoundOver DEF Write

\* A query, after which the request goes on or is over.
LEMMA SoundQuery ==
  ASSUME IInv, SInv, NEW h \in Handlers, UNCHANGED db, NEW point, NEW l,
         Done(h) \/ (Go(h, point, l) /\ Learnt(db, point, l))
  PROVE  Sound(h)
<1>1. HandlersInv /\ Whole(db')
  BY DEF IInv, SInv
<1>2. CASE Done(h)
  BY <1>1, <1>2, SoundOver
<1>3. CASE Go(h, point, l) /\ Learnt(db, point, l)
  <2>1. pc'[h] = point /\ loc'[h] = l
    BY <1>1, <1>3, Gone
  <2>2. db' = db
    OBVIOUS
  <2> QED
    BY <1>1, <1>3, <2>1, <2>2 DEF Sound
<1> QED
  BY <1>2, <1>3

-----------------------------------------------------------------------------
(* The writes *)

\* A step that the simple page did not send takes no simple policy from its inbound
\* when the bindings it replaces are loose.
LEMMA ReachedLasts ==
  ASSUME NEW d, NEW e, StoreInv(d), Harmless(d, e), Reached(d),
         \A i \in Inbounds : e.bindings[i] # d.bindings[i] => Loose(d, i)
  PROVE  Reached(e)
<1> SUFFICES ASSUME NEW p \in Policies, SimpleIn(e, p)
             PROVE  /\ \E i \in Inbounds : e.bindings[i] = p
                    /\ e.policies[p].default # None \/ RulesOf(e, p) # {}
  BY DEF Reached
<1>1. SimpleIn(d, p) /\ Same(d, e, p)
  BY HarmlessSame DEF StoreInv
<1>2. PICK i \in Inbounds : d.bindings[i] = p
  BY <1>1 DEF Reached
<1>3. p # None
  BY IdAssumption DEF Ids
<1>4. e.bindings[i] = p
  BY <1>1, <1>2, <1>3 DEF Loose
<1> QED
  BY <1>1, <1>4 DEF Reached, Same

\* Egresses, pools and inbounds come and change; nothing that is named goes.
LEMMA EgressSound ==
  ASSUME NEW d, NEW e, StoreInv(d), Whole(d), Harmless(d, e),
         e.policies = d.policies, e.rules = d.rules, e.bindings = d.bindings,
         d.inbounds \subseteq e.inbounds,
         \A t \in Targets : There(d, t) => There(e, t),
         "group" \notin Kinds =>
           \A q \in Pools : e.pools[q] # None =>
             /\ e.pools[q].members \subseteq e.egresses
             /\ e.pools[q].fallback = None \/ There(e, e.pools[q].fallback)
  PROVE  Whole(e)
<1> USE DEF Whole
<1>1. Owned(e)
  BY DEF Owned
<1>2. ASSUME "group" \notin Kinds PROVE Resolved(e)
  <2>1. \A t \in Targets : There(d, t) => There(e, t)
    OBVIOUS
  <2>2. /\ \A p \in Policies : d.policies[p] # None => d.policies[p].default \in Targets \cup {None}
        /\ \A r \in Rules : d.rules[r] # None => d.rules[r].target \in Targets \cup {None}
    BY Rows DEF StoreInv, PolicyRow, RuleRow
  <2>3. ~There(d, None)
    BY IdAssumption, Fields DEF There, StoreInv, Ids
  <2> QED
    BY <1>2, <2>1, <2>2, <2>3 DEF Resolved
<1>3. "template" \notin Kinds => Reached(e)
  BY ReachedLasts
<1> QED
  BY <1>1, <1>2, <1>3

\* A policy that is not a simple one is created or saved.
LEMMA PolicySound ==
  ASSUME NEW d, NEW e, StoreInv(d), Whole(d), Harmless(d, e),
         NEW p \in Policies, NEW row \in PolicyRow, e.policies = [d.policies EXCEPT ![p] = row],
         e.rules = d.rules, e.bindings = d.bindings, e.pools = d.pools,
         e.egresses = d.egresses, e.inbounds = d.inbounds,
         "group" \notin Kinds => row.default = None \/ There(d, row.default)
  PROVE  Whole(e)
<1> USE DEF Whole
<1>1. e.policies[p] = row /\ row # None /\ \A q \in Policies \ {p} : e.policies[q] = d.policies[q]
  BY Fields, IdAssumption DEF StoreInv
<1>2. Owned(e)
  BY <1>1, Rows DEF Owned, StoreInv
<1>3. "group" \notin Kinds => Resolved(e)
  BY <1>1 DEF Resolved, There
<1>4. "template" \notin Kinds => Reached(e)
  BY ReachedLasts
<1> QED
  BY <1>2, <1>3, <1>4

\* A policy goes, with its rules and bindings.
LEMMA PolicyGoneSound ==
  ASSUME NEW d, StoreInv(d), Whole(d), NEW p \in Policies, ~SimpleIn(d, p)
  PROVE  Whole(WithoutPolicy(d, p))
<1> USE DEF Whole
<1> DEFINE e == WithoutPolicy(d, p)
<1>1. /\ e.policies = [d.policies EXCEPT ![p] = None]
      /\ e.rules = [r \in Rules |-> IF r \in RulesOf(d, p) THEN None ELSE d.rules[r]]
      /\ e.bindings = [i \in Inbounds |-> IF d.bindings[i] = p THEN None ELSE d.bindings[i]]
      /\ e.pools = d.pools /\ e.egresses = d.egresses /\ e.inbounds = d.inbounds
  BY DEF WithoutPolicy, Store, StoreInv
<1>2. Harmless(d, e)
  BY PolicyGone
<1> HIDE DEF e
<1>3. e.policies[p] = None /\ \A q \in Policies \ {p} : e.policies[q] = d.policies[q]
  BY <1>1, Fields DEF StoreInv
<1>4. \A r \in Rules : e.rules[r] # None => e.rules[r] = d.rules[r] /\ d.rules[r].policy # p
  BY <1>1 DEF RulesOf
<1>5. \A i \in Inbounds : e.bindings[i] # None => e.bindings[i] = d.bindings[i] /\ d.bindings[i] # p
  BY <1>1
<1>6. Owned(e)
  BY <1>1, <1>3, <1>4, <1>5, Rows DEF Owned, StoreInv
<1>7. "group" \notin Kinds => Resolved(e)
  BY <1>1, <1>3, <1>4 DEF Resolved, There
<1>8. "template" \notin Kinds => Reached(e)
  <2>1. \A i \in Inbounds : e.bindings[i] # d.bindings[i] => Loose(d, i)
    BY <1>1 DEF Loose
  <2> QED
    BY <1>2, <2>1, ReachedLasts
<1>9. Whole(e)
  BY <1>6, <1>7, <1>8
<1> QED
  BY <1>9 DEF e

\* One row of the rules table is written or goes.
LEMMA RuleSound ==
  ASSUME NEW d, NEW e, StoreInv(d), Whole(d), Harmless(d, e), NEW r \in Rules, NEW row,
         row # None => d.policies[row.policy] # None,
         "group" \notin Kinds /\ row # None => There(d, row.target),
         \A s \in Rules : e.rules[s] = IF s = r THEN row ELSE d.rules[s],
         e.policies = d.policies, e.bindings = d.bindings, e.pools = d.pools,
         e.egresses = d.egresses, e.inbounds = d.inbounds
  PROVE  Whole(e)
<1> USE DEF Whole
<1>1. Owned(e)
  BY DEF Owned
<1>2. "group" \notin Kinds => Resolved(e)
  BY DEF Resolved, There
<1>3. "template" \notin Kinds => Reached(e)
  BY ReachedLasts
<1> QED
  BY <1>1, <1>2, <1>3

\* The loose binding of an inbound goes or leads to another policy.
LEMMA BindingSound ==
  ASSUME NEW d, NEW e, StoreInv(d), Whole(d), Harmless(d, e), NEW i \in Inbounds, NEW p,
         p # None => i \in e.inbounds /\ d.policies[p] # None,
         Loose(d, i), e.bindings = [d.bindings EXCEPT ![i] = p],
         e.policies = d.policies, e.rules = d.rules, e.pools = d.pools,
         e.egresses = d.egresses, d.inbounds \ {i} \subseteq e.inbounds
  PROVE  Whole(e)
<1> USE DEF Whole
<1>1. e.bindings[i] = p /\ \A j \in Inbounds \ {i} : e.bindings[j] = d.bindings[j]
  BY Fields DEF StoreInv
<1>2. Owned(e)
  BY <1>1 DEF Owned
<1>3. "group" \notin Kinds => Resolved(e)
  BY DEF Resolved, There
<1>4. "template" \notin Kinds => Reached(e)
  <2>1. \A j \in Inbounds : e.bindings[j] # d.bindings[j] => Loose(d, j)
    BY <1>1
  <2> QED
    BY <2>1, ReachedLasts
<1> QED
  BY <1>2, <1>3, <1>4

-----------------------------------------------------------------------------
(* EgressService and EgressPoolService *)

\* What every lemma on a handler's step starts from.
LEMMA Start ==
  ASSUME IInv, SInv, NEW h \in Handlers
  PROVE  /\ StoreInv(db) /\ db \in Store /\ HandlersInv /\ Whole(db)
         /\ LocInv(db, pc[h], loc[h]) /\ Learnt(db, pc[h], loc[h])
  BY DEF IInv, SInv, StoreInv, HandlersInv

\* Nothing names an egress when its row goes: the four counts found none, and nobody has
\* written since.
LEMMA EgressDeleteSound ==
  ASSUME IInv, SInv, NEW h \in Handlers, EgressDelete(h)
  PROVE  Sound(h)
<1>0. /\ StoreInv(db) /\ db \in Store /\ HandlersInv /\ Whole(db)
      /\ LocInv(db, pc[h], loc[h]) /\ Learnt(db, pc[h], loc[h])
  BY Start
<1>1. CASE pc[h] = "idle"
  <2>1. PICK e \in Egresses : Check(h, ~UsedByPolicy(e), "countRules", [Blank EXCEPT !.id = e])
    BY <1>1 DEF EgressDelete
  <2>2. ~UsedByPolicy(e) => Learnt(db, "countRules", [Blank EXCEPT !.id = e])
    BY DEF Learnt, UsedByPolicy, PolicyPoints, BindPoints, Blank
  <2> QED
    BY <2>1, <2>2, SoundQuery DEF Check
<1>2. CASE pc[h] = "countRules"
  <2>1. Check(h, ~UsedByRule(loc[h].id), "countMembers", loc[h])
    BY <1>2 DEF EgressDelete, Starts
  <2>2. ~UsedByRule(loc[h].id) => Learnt(db, "countMembers", loc[h])
    BY <1>0, <1>2 DEF Learnt, UsedByRule, PolicyPoints, BindPoints
  <2> QED
    BY <2>1, <2>2, SoundQuery DEF Check
<1>3. CASE pc[h] = "countMembers"
  <2>1. Check(h, ~UsedByMember(loc[h].id), "countFallbacks", loc[h])
    BY <1>3 DEF EgressDelete, Starts
  <2>2. ~UsedByMember(loc[h].id) => Learnt(db, "countFallbacks", loc[h])
    BY <1>0, <1>3 DEF Learnt, UsedByMember, PolicyPoints, BindPoints
  <2> QED
    BY <2>1, <2>2, SoundQuery DEF Check
<1>4. CASE pc[h] = "countFallbacks"
  <2>1. Check(h, ~UsedByFallback(loc[h].id), "egressDelete", loc[h])
    BY <1>4 DEF EgressDelete, Starts
  <2>2. ~UsedByFallback(loc[h].id) => Learnt(db, "egressDelete", loc[h])
    BY <1>0, <1>4 DEF Learnt, UsedByFallback, PolicyPoints, BindPoints
  <2> QED
    BY <2>1, <2>2, SoundQuery DEF Check
<1>5. CASE pc[h] = "egressDelete"
  <2> DEFINE x == loc[h].id
             d == [db EXCEPT !.egresses = @ \ {x}]
  <2>1. /\ d \in Store /\ d.egresses = db.egresses \ {x} /\ d.pools = db.pools
        /\ d.policies = db.policies /\ d.rules = db.rules /\ d.bindings = db.bindings
        /\ d.inbounds = db.inbounds
    BY <1>0 DEF Store
  <2>2. Write(h, d)
    BY <1>5 DEF EgressDelete, Starts
  <2>3. Harmless(db, d)
    BY <1>0, <2>1, EgressWritten
  <2>4. Owned(d)
    BY <1>0, <2>1 DEF Whole, Owned
  <2>5. ASSUME "group" \notin Kinds PROVE Resolved(d)
    <3>1. Resolved(db)
      BY <1>0, <2>5 DEF Whole
    <3>2. \A t : t # x /\ There(db, t) => There(d, t)
      BY <2>1 DEF There
    <3>3. /\ \A p \in Policies : db.policies[p] # None => db.policies[p].default # x
          /\ \A r \in Rules : db.rules[r] # None => db.rules[r].target # x
          /\ \A q \in Pools : db.pools[q] # None =>
               x \notin db.pools[q].members /\ db.pools[q].fallback # x
      BY <1>0, <1>5 DEF Learnt
    <3> HIDE DEF d
    <3> QED
      BY <2>1, <3>1, <3>2, <3>3 DEF Resolved
  <2>6. "template" \notin Kinds => Reached(d)
    BY <1>0, <2>1, <2>3, ReachedLasts DEF Whole
  <2>7. Whole(d)
    BY <2>4, <2>5, <2>6 DEF Whole
  <2> QED
    BY <1>0, <2>2, <2>7, SoundWrite
<1> QED
  BY <1>1, <1>2, <1>3, <1>4, <1>5 DEF EgressDelete, Starts

\* An egress comes, or comes back.
LEMMA EgressWriteSound ==
  ASSUME IInv, SInv, NEW h \in Handlers, EgressCreate(h) \/ EgressUpdate(h)
  PROVE  Sound(h)
<1>0. /\ StoreInv(db) /\ db \in Store /\ HandlersInv /\ Whole(db)
      /\ LocInv(db, pc[h], loc[h]) /\ Learnt(db, pc[h], loc[h])
  BY Start
<1>1. ASSUME NEW d \in Store, NEW e, d.egresses = db.egresses \cup {e},
             d.pools = db.pools, d.policies = db.policies, d.rules = db.rules,
             d.bindings = db.bindings, d.inbounds = db.inbounds
      PROVE  Whole(d)
  <2>1. Harmless(db, d)
    BY <1>0, <1>1, EgressWritten
  <2>2. \A t \in Targets : There(db, t) => There(d, t)
    BY <1>1 DEF There
  <2>3. "group" \notin Kinds =>
          \A q \in Pools : d.pools[q] # None =>
            /\ d.pools[q].members \subseteq d.egresses
            /\ d.pools[q].fallback = None \/ There(d, d.pools[q].fallback)
    BY <1>0, <1>1 DEF Whole, Resolved, There
  <2> QED
    BY <1>0, <1>1, <2>1, <2>2, <2>3, EgressSound
<1>2. CASE EgressCreate(h)
  <2>1. PICK e \in Egresses :
          Write(h, [db EXCEPT !.egresses = @ \cup {e}])
    BY <1>2 DEF EgressCreate
  <2> DEFINE d == [db EXCEPT !.egresses = @ \cup {e}]
  <2>2. /\ d \in Store /\ d.egresses = db.egresses \cup {e}
        /\ d.pools = db.pools /\ d.policies = db.policies /\ d.rules = db.rules
        /\ d.bindings = db.bindings /\ d.inbounds = db.inbounds
    BY <1>0 DEF Store
  <2> QED
    BY <1>0, <1>1, <2>1, <2>2, SoundWrite
<1>3. CASE EgressUpdate(h) /\ pc[h] = "egressSave"
  <2> DEFINE d == [db EXCEPT !.egresses = @ \cup {loc[h].id}]
  <2>1. loc[h].id \in Egresses
    BY <1>0, <1>3 DEF LocInv, Knows, EgressPoints
  <2>2. /\ d \in Store /\ d.egresses = db.egresses \cup {loc[h].id}
        /\ d.pools = db.pools /\ d.policies = db.policies /\ d.rules = db.rules
        /\ d.bindings = db.bindings /\ d.inbounds = db.inbounds
    BY <1>0, <2>1 DEF Store
  <2>3. Write(h, d)
    BY <1>3 DEF EgressUpdate, Starts
  <2> QED
    BY <1>0, <1>1, <2>2, <2>3, SoundWrite
<1>4. CASE EgressUpdate(h) /\ pc[h] # "egressSave"
  <2>1. PICK e \in db.egresses : Check(h, TRUE, "egressSave", [Blank EXCEPT !.id = e])
    BY <1>4 DEF EgressUpdate
  <2>2. Learnt(db, "egressSave", [Blank EXCEPT !.id = e])
    BY DEF Learnt, PolicyPoints, BindPoints
  <2> QED
    BY <2>1, <2>2, SoundQuery DEF Check
<1> QED
  BY <1>2, <1>3, <1>4

\* A pool is created with the fallback that was validated, and gets a member that was
\* looked up.
LEMMA PoolSound ==
  ASSUME IInv, SInv, NEW h \in Handlers, PoolCreate(h) \/ AddMember(h) \/ RemoveMember(h)
  PROVE  Sound(h)
<1>0. /\ StoreInv(db) /\ db \in Store /\ HandlersInv /\ Whole(db)
      /\ LocInv(db, pc[h], loc[h]) /\ Learnt(db, pc[h], loc[h])
  BY Start
<1>1. ASSUME NEW d \in Store, NEW q \in Pools, NEW row \in PoolRow, row # None,
             d.pools = [db.pools EXCEPT ![q] = row],
             "group" \notin Kinds =>
               /\ row.members \subseteq db.egresses
               /\ row.fallback = None \/ There(db, row.fallback),
             d.egresses = db.egresses, d.policies = db.policies, d.rules = db.rules,
             d.bindings = db.bindings, d.inbounds = db.inbounds
      PROVE  Whole(d)
  <2>1. d.pools[q] = row /\ \A x \in Pools \ {q} : d.pools[x] = db.pools[x]
    BY <1>0, <1>1, Fields
  <2>2. Harmless(db, d)
    <3>1. \A x \in Pools : db.pools[x] # None => d.pools[x] # None
      BY <1>1, <2>1
    <3> QED
      BY <1>0, <1>1, <3>1, EgressWritten
  <2>3. \A t \in Targets : There(db, t) => There(d, t)
    BY <1>1, <2>1 DEF There
  <2>4. ASSUME "group" \notin Kinds, NEW x \in Pools, d.pools[x] # None
        PROVE  /\ d.pools[x].members \subseteq d.egresses
               /\ d.pools[x].fallback = None \/ There(d, d.pools[x].fallback)
    <3>1. CASE x = q
      BY <1>1, <2>1, <2>4, <3>1 DEF There
    <3>2. CASE x # q
      BY <1>0, <1>1, <2>1, <2>4, <3>2 DEF Whole, Resolved, There
    <3> QED
      BY <3>1, <3>2
  <2> QED
    BY <1>0, <1>1, <2>2, <2>3, <2>4, EgressSound
<1>2. CASE PoolCreate(h) /\ pc[h] = "poolInsert"
  <2>1. PICK q \in Pools :
          Write(h, [db EXCEPT !.pools[q] = [members |-> {}, fallback |-> loc[h].arg]])
    BY <1>2 DEF PoolCreate, Starts
  <2> DEFINE row == [members |-> {}, fallback |-> loc[h].arg]
             d == [db EXCEPT !.pools[q] = row]
  <2>2. /\ row \in PoolRow /\ row # None
        /\ "group" \notin Kinds =>
             row.members \subseteq db.egresses /\ (row.fallback = None \/ There(db, row.fallback))
    BY <1>0, <1>2, IdAssumption DEF LocInv, Knows, TargetPoints, PoolRow, Learnt
  <2>3. /\ d \in Store /\ d.pools = [db.pools EXCEPT ![q] = row]
        /\ d.egresses = db.egresses /\ d.policies = db.policies /\ d.rules = db.rules
        /\ d.bindings = db.bindings /\ d.inbounds = db.inbounds
    BY <1>0, <2>2 DEF Store
  <2> HIDE DEF row
  <2> QED
    BY <1>0, <1>1, <2>1, <2>2, <2>3, SoundWrite DEF row
<1>3. CASE PoolCreate(h) /\ pc[h] # "poolInsert"
  <2>1. PICK t \in Targets \cup {None} :
          /\ UNCHANGED db /\ (t = None \/ There(db, t))
          /\ Go(h, "poolInsert", [Blank EXCEPT !.arg = t]) \/ Done(h)
    <3>1. [Blank EXCEPT !.arg = None] = Blank
      BY DEF Blank
    <3> QED
      BY <1>3, <3>1 DEF PoolCreate, Validate, Check, Exists, There
  <2>2. Learnt(db, "poolInsert", [Blank EXCEPT !.arg = t])
    BY <2>1 DEF Learnt, PolicyPoints, BindPoints, Blank
  <2> QED
    BY <2>1, <2>2, SoundQuery
<1>4. CASE AddMember(h) /\ pc[h] = "memberInsert"
  <2> DEFINE q == loc[h].id
             row == [db.pools[q] EXCEPT !.members = @ \cup {loc[h].arg}]
             d == [db EXCEPT !.pools[q].members = @ \cup {loc[h].arg}]
  <2>1. /\ q \in Pools /\ db.pools[q] # None /\ db.pools[q] \in PoolRow
        /\ loc[h].arg \in Egresses /\ loc[h].arg \in db.egresses
    BY <1>0, <1>4, Rows DEF LocInv, Knows, Learnt
  <2>2. /\ row \in PoolRow /\ row # None /\ row.members = db.pools[q].members \cup {loc[h].arg}
        /\ row.fallback = db.pools[q].fallback
    BY <2>1, IdAssumption DEF PoolRow
  <2>3. "group" \notin Kinds =>
          row.members \subseteq db.egresses /\ (row.fallback = None \/ There(db, row.fallback))
    BY <1>0, <2>1, <2>2 DEF Whole, Resolved
  <2>4. /\ d \in Store /\ d.pools = [db.pools EXCEPT ![q] = row]
        /\ d.egresses = db.egresses /\ d.policies = db.policies /\ d.rules = db.rules
        /\ d.bindings = db.bindings /\ d.inbounds = db.inbounds
    BY <1>0, <2>1, <2>2 DEF Store
  <2>5. Write(h, d)
    BY <1>4 DEF AddMember, Starts
  <2> HIDE DEF row, d
  <2> QED
    BY <1>0, <1>1, <2>1, <2>2, <2>3, <2>4, <2>5, SoundWrite
<1>5. CASE AddMember(h) /\ pc[h] # "memberInsert"
  <2>1. PICK q \in Pools, e \in Egresses :
          Check(h, e \in db.egresses, "memberInsert", [Blank EXCEPT !.id = q, !.arg = e])
    BY <1>5 DEF AddMember
  <2>2. e \in db.egresses => Learnt(db, "memberInsert", [Blank EXCEPT !.id = q, !.arg = e])
    BY DEF Learnt, PolicyPoints, BindPoints, Blank
  <2> QED
    BY <2>1, <2>2, SoundQuery DEF Check
<1>6. CASE RemoveMember(h)
  <2>1. PICK q \in Pools, e \in Egresses :
          /\ db.pools[q] # None
          /\ Write(h, [db EXCEPT !.pools[q].members = @ \ {e}])
    BY <1>6 DEF RemoveMember
  <2> DEFINE row == [db.pools[q] EXCEPT !.members = @ \ {e}]
             d == [db EXCEPT !.pools[q].members = @ \ {e}]
  <2>2. db.pools[q] \in PoolRow
    BY <1>0, <2>1, Rows
  <2>3. /\ row \in PoolRow /\ row # None /\ row.members \subseteq db.pools[q].members
        /\ row.fallback = db.pools[q].fallback
    BY <2>2, IdAssumption DEF PoolRow
  <2>4. "group" \notin Kinds =>
          row.members \subseteq db.egresses /\ (row.fallback = None \/ There(db, row.fallback))
    BY <1>0, <2>1, <2>3 DEF Whole, Resolved
  <2>5. /\ d \in Store /\ d.pools = [db.pools EXCEPT ![q] = row]
        /\ d.egresses = db.egresses /\ d.policies = db.policies /\ d.rules = db.rules
        /\ d.bindings = db.bindings /\ d.inbounds = db.inbounds
    BY <1>0, <2>1, <2>3 DEF Store
  <2>6. Write(h, d)
    BY <2>1
  <2> HIDE DEF row, d
  <2> QED
    BY <1>0, <1>1, <2>3, <2>4, <2>5, <2>6, SoundWrite
<1> QED
  BY <1>2, <1>3, <1>4, <1>5, <1>6

-----------------------------------------------------------------------------
(* TrafficPolicyService *)

\* What is known when a request has found its policy.
LEMMA KnowsPolicy ==
  ASSUME NEW d, NEW p, d.policies[p] # None, NEW l, l.id = p, l.arg = None,
         NEW point \in {"policyTarget", "policyRead", "policyDelete", "ruleTarget"}
  PROVE  Learnt(d, point, l)
  BY DEF Learnt, PolicyPoints, BindPoints

\* What is known when it is going to save the policy.
LEMMA KnowsRow ==
  ASSUME NEW d, NEW p, d.policies[p] # None, NEW l, l.id = p,
         "group" \notin Kinds => l.arg = None \/ There(d, l.arg)
  PROVE  Learnt(d, "policySave", l)
  BY DEF Learnt, PolicyPoints, BindPoints

\* Creating, changing, enabling and deleting a policy on the advanced page.
LEMMA PolicyRequestsSound ==
  ASSUME IInv, SInv, NEW h \in Handlers,
         PolicyCreate(h) \/ PolicyUpdate(h) \/ PolicyEnable(h) \/ PolicyDelete(h)
  PROVE  Sound(h)
<1>0. /\ StoreInv(db) /\ db \in Store /\ HandlersInv /\ Whole(db)
      /\ LocInv(db, pc[h], loc[h]) /\ Learnt(db, pc[h], loc[h])
  BY Start
<1>a. Harmless(db, db')
  BY PolicyRequestsNext
<1>1. CASE PolicyCreate(h) /\ pc[h] = "policyInsert"
  <2>1. PICK p \in NewId(db.policies) :
          Write(h, [db EXCEPT !.policies[p] = [owner |-> "ordinary", default |-> loc[h].arg,
                                               items |-> [k \in Keys |-> {}]]])
    BY <1>1 DEF PolicyCreate, Starts
  <2> DEFINE row == [owner |-> "ordinary", default |-> loc[h].arg, items |-> [k \in Keys |-> {}]]
             d == [db EXCEPT !.policies[p] = row]
  <2>2. /\ row \in PolicyRow
        /\ "group" \notin Kinds => row.default = None \/ There(db, row.default)
    BY <1>0, <1>1 DEF LocInv, Knows, PolicyRow, TargetPoints, Learnt
  <2>6. p \in Policies
    BY <1>0, <2>1, NewPolicy
  <2>3. /\ d.policies = [db.policies EXCEPT ![p] = row]
        /\ d.rules = db.rules /\ d.bindings = db.bindings /\ d.pools = db.pools
        /\ d.egresses = db.egresses /\ d.inbounds = db.inbounds
    BY <1>0 DEF Store
  <2>4. db' = d
    BY <2>1 DEF Write
  <2> HIDE DEF row, d
  <2>5. Whole(d)
    BY <1>0, <1>a, <2>2, <2>3, <2>4, <2>6, PolicySound
  <2> QED
    BY <1>0, <2>1, <2>5, SoundWrite DEF row, d
<1>2. CASE PolicyCreate(h) /\ pc[h] # "policyInsert"
  <2>1. PICK t \in Targets \cup {None} :
          /\ UNCHANGED db /\ (t = None \/ There(db, t))
          /\ Go(h, "policyInsert", [Blank EXCEPT !.arg = t]) \/ Done(h)
    <3>1. [Blank EXCEPT !.arg = None] = Blank
      BY DEF Blank
    <3> QED
      BY <1>2, <3>1 DEF PolicyCreate, Validate, Check, Exists, There
  <2>2. Learnt(db, "policyInsert", [Blank EXCEPT !.arg = t])
    BY <2>1 DEF Learnt, PolicyPoints, BindPoints, Blank
  <2> QED
    BY <2>1, <2>2, SoundQuery
<1>3. CASE PolicyUpdate(h) /\ pc[h] = "policySave"
  <2> DEFINE p == loc[h].id
             row == [loc[h].row EXCEPT !.default = loc[h].arg]
             d == [db EXCEPT !.policies[p] = row]
  <2>1. /\ p \in Policies /\ row \in PolicyRow
        /\ "group" \notin Kinds => row.default = None \/ There(db, row.default)
    BY <1>0, <1>3 DEF LocInv, Knows, PolicyPoints, TargetPoints, PolicyRow, Learnt
  <2>2. /\ d.policies = [db.policies EXCEPT ![p] = row]
        /\ d.rules = db.rules /\ d.bindings = db.bindings /\ d.pools = db.pools
        /\ d.egresses = db.egresses /\ d.inbounds = db.inbounds
    BY <1>0 DEF Store
  <2>3. Write(h, d) /\ db' = d
    BY <1>3 DEF PolicyUpdate, Starts, Write
  <2> HIDE DEF p, row, d
  <2>4. Whole(d)
    BY <1>0, <1>a, <2>1, <2>2, <2>3, PolicySound
  <2> QED
    BY <1>0, <2>3, <2>4, SoundWrite
<1>4. CASE PolicyUpdate(h) /\ pc[h] = "policyTarget"
  <2>1. /\ loc[h] \in Locals /\ db.policies[loc[h].id] # None /\ loc[h].arg \in Targets \cup {None}
    BY <1>0, <1>4 DEF LocInv, Knows, TargetPoints, Learnt, PolicyPoints
  <2>2. CASE Validate(h, loc[h], "policySave")
    <3>1. PICK t \in Targets : There(db, t) /\ Go(h, "policySave", [loc[h] EXCEPT !.arg = t])
                               /\ UNCHANGED db
      BY <2>2 DEF Validate, Exists, There
    <3>2. Learnt(db, "policySave", [loc[h] EXCEPT !.arg = t])
      BY <2>1, <3>1, KnowsRow DEF Locals
    <3> QED
      BY <3>1, <3>2, SoundQuery
  <2>3. CASE Check(h, TRUE, "policySave", loc[h])
    <3>1. loc[h].arg = None
      BY <1>0, <1>4 DEF Learnt
    <3> QED
      BY <2>1, <2>3, <3>1, KnowsRow, SoundQuery DEF Check
  <2> QED
    BY <1>4, <2>2, <2>3 DEF PolicyUpdate, Starts
<1>5. CASE PolicyUpdate(h) /\ pc[h] \notin {"policySave", "policyTarget"}
  <2>1. PICK p \in Policies :
          /\ UNCHANGED db
          /\ \/ Done(h)
             \/ /\ Ordinary(p)
                /\ \E row : Go(h, "policyTarget", [Blank EXCEPT !.id = p, !.row = row])
    BY <1>5 DEF PolicyUpdate, Starts, Check
  <2>2. CASE Done(h)
    BY <2>1, <2>2, SoundQuery
  <2>3. CASE ~Done(h)
    <3>1. PICK row : Go(h, "policyTarget", [Blank EXCEPT !.id = p, !.row = row])
      BY <2>1, <2>3
    <3>2. Learnt(db, "policyTarget", [Blank EXCEPT !.id = p, !.row = row])
      BY <2>1, <2>3, KnowsPolicy DEF Ordinary, Blank
    <3> QED
      BY <2>1, <3>1, <3>2, SoundQuery
  <2> QED
    BY <2>2, <2>3
<1>6. CASE PolicyEnable(h) /\ pc[h] = "policyRead"
  <2> DEFINE p == loc[h].id
             row == db.policies[p]
             l == [loc[h] EXCEPT !.row = row, !.arg = IF row = None THEN None ELSE row.default]
  <2>1. p \in Policies /\ row # None /\ loc[h] \in Locals
    BY <1>0, <1>6 DEF LocInv, Knows, PolicyPoints, Learnt
  <2>2. UNCHANGED db /\ (Go(h, "policySave", l) \/ Done(h))
    BY <1>6 DEF PolicyEnable, Starts, Check
  <2>3. l.id = p /\ l.arg = row.default
    BY <2>1 DEF Locals
  <2> HIDE DEF l
  <2>4. Learnt(db, "policySave", l)
    BY <1>0, <2>1, <2>3, KnowsRow DEF Whole, Resolved
  <2> QED
    BY <2>2, <2>4, SoundQuery
<1>7. CASE PolicyEnable(h) /\ pc[h] # "policyRead"
  <2>1. PICK p \in Policies : Check(h, Ordinary(p), "policyRead", [Blank EXCEPT !.id = p])
    BY <1>7 DEF PolicyEnable
  <2>2. Ordinary(p) => Learnt(db, "policyRead", [Blank EXCEPT !.id = p])
    BY KnowsPolicy DEF Ordinary, Blank
  <2> QED
    BY <2>1, <2>2, SoundQuery DEF Check
<1>8. CASE PolicyDelete(h) /\ pc[h] = "policyDelete"
  <2>1. loc[h].id \in Policies /\ ~SimpleIn(db, loc[h].id)
    BY <1>0, <1>8 DEF LocInv, Knows, PolicyPoints, Safe
  <2>2. Write(h, WithoutPolicy(db, loc[h].id)) \/ (Done(h) /\ UNCHANGED db)
    BY <1>8 DEF PolicyDelete, Starts
  <2> QED
    BY <1>0, <2>1, <2>2, PolicyGoneSound, SoundWrite, SoundQuery
<1>9. CASE PolicyDelete(h) /\ pc[h] # "policyDelete"
  <2>1. PICK p \in Policies : Check(h, Ordinary(p), "policyDelete", [Blank EXCEPT !.id = p])
    BY <1>9 DEF PolicyDelete
  <2>2. Ordinary(p) => Learnt(db, "policyDelete", [Blank EXCEPT !.id = p])
    BY KnowsPolicy DEF Ordinary, Blank
  <2> QED
    BY <2>1, <2>2, SoundQuery DEF Check
<1> QED
  BY <1>1, <1>2, <1>3, <1>4, <1>5, <1>6, <1>7, <1>8, <1>9

\* What is known when a request is going to save the row of a rule.
LEMMA KnowsRuleRow ==
  ASSUME NEW d, NEW l, d.policies[l.row.policy] # None,
         NEW point \in {"ruleRetarget", "ruleSave"},
         point = "ruleSave" /\ "group" \notin Kinds => There(d, l.arg)
  PROVE  Learnt(d, point, l)
  BY DEF Learnt, PolicyPoints, BindPoints

\* A new rule names the policy and the target that were found.
LEMMA RuleInsertSound ==
  ASSUME IInv, SInv, NEW h \in Handlers, Harmless(db, db'), NEW r \in Rules, NEW p, NEW t,
         db' = Inserted(db, {r}, [policy |-> p, target |-> t]),
         db.policies[p] # None, "group" \notin Kinds => There(db, t)
  PROVE  Whole(db')
<1>0. StoreInv(db) /\ db \in Store /\ Whole(db)
  BY Start
<1> DEFINE row == [policy |-> p, target |-> t]
           d == Inserted(db, {r}, row)
<1>1. /\ \A s \in Rules : d.rules[s] = IF s = r THEN row ELSE db.rules[s]
      /\ d.policies = db.policies /\ d.bindings = db.bindings /\ d.pools = db.pools
      /\ d.egresses = db.egresses /\ d.inbounds = db.inbounds
  BY <1>0 DEF Inserted, Store
<1>2. db' = d /\ row.policy = p /\ row.target = t
  OBVIOUS
<1> HIDE DEF row, d
<1>3. Whole(d)
  BY <1>0, <1>1, <1>2, RuleSound
<1> QED
  BY <1>2, <1>3

\* The row of a rule is written or deleted.
LEMMA RuleWriteSound ==
  ASSUME IInv, SInv, NEW h \in Handlers, Harmless(db, db'), NEW r \in Rules, NEW row,
         Write(h, [db EXCEPT !.rules[r] = row]),
         row # None => db.policies[row.policy] # None,
         "group" \notin Kinds /\ row # None => There(db, row.target)
  PROVE  Sound(h)
<1>0. StoreInv(db) /\ db \in Store /\ Whole(db) /\ HandlersInv
  BY Start
<1> DEFINE d == [db EXCEPT !.rules[r] = row]
<1>1. /\ \A s \in Rules : d.rules[s] = IF s = r THEN row ELSE db.rules[s]
      /\ d.policies = db.policies /\ d.bindings = db.bindings /\ d.pools = db.pools
      /\ d.egresses = db.egresses /\ d.inbounds = db.inbounds
  BY <1>0 DEF Store
<1>2. db' = d /\ Write(h, d)
  BY DEF Write
<1> HIDE DEF d
<1>3. Whole(d)
  BY <1>0, <1>1, <1>2, RuleSound
<1> QED
  BY <1>0, <1>2, <1>3, SoundWrite

\* The requests about rules on the advanced page.
LEMMA RuleRequestsSound ==
  ASSUME IInv, SInv, NEW h \in Handlers,
         RuleAdd(h) \/ RuleUpdate(h) \/ RuleEnable(h) \/ RuleDelete(h)
  PROVE  Sound(h)
<1>0. /\ StoreInv(db) /\ db \in Store /\ HandlersInv /\ Whole(db)
      /\ LocInv(db, pc[h], loc[h]) /\ Learnt(db, pc[h], loc[h]) /\ loc[h] \in Locals
  BY Start DEF LocInv, Knows
<1>a. Harmless(db, db')
  BY RuleRequestsNext
<1>b. ASSUME pc[h] \in RulePoints PROVE loc[h].id \in Rules
  BY <1>0, <1>b DEF LocInv, Knows
<1>c. ASSUME NEW r \in Rules, NEW point \in {"ruleRead", "ruleEnable", "ruleDelete"}
      PROVE  Learnt(db, point, [Blank EXCEPT !.id = r])
  BY <1>c DEF Learnt, PolicyPoints, BindPoints
<1>1. CASE RuleAdd(h) /\ pc[h] = "idle"
  <2>1. PICK p \in Policies : Check(h, Ordinary(p), "ruleTarget", [Blank EXCEPT !.id = p])
    BY <1>1 DEF RuleAdd
  <2>2. Ordinary(p) => Learnt(db, "ruleTarget", [Blank EXCEPT !.id = p])
    BY KnowsPolicy DEF Ordinary, Blank
  <2> QED
    BY <2>1, <2>2, SoundQuery DEF Check
<1>2. CASE RuleAdd(h) /\ pc[h] = "ruleTarget"
  <2>1. PICK t \in Targets :
          UNCHANGED db /\ There(db, t) /\ Go(h, "ruleInsert", [loc[h] EXCEPT !.arg = t])
    BY <1>2 DEF RuleAdd, Starts, Validate, Exists, There
  <2>2. db.policies[loc[h].id] # None
    BY <1>0, <1>2 DEF Learnt, PolicyPoints
  <2>3. Learnt(db, "ruleInsert", [loc[h] EXCEPT !.arg = t])
    BY <1>0, <2>1, <2>2 DEF Learnt, PolicyPoints, BindPoints, Locals
  <2> QED
    BY <2>1, <2>3, SoundQuery
<1>3. CASE RuleAdd(h) /\ pc[h] = "ruleInsert"
  <2>1. PICK r \in NewId(db.rules) :
          Write(h, Inserted(db, {r}, [policy |-> loc[h].id, target |-> loc[h].arg]))
    BY <1>3 DEF RuleAdd, Starts
  <2>2. db.policies[loc[h].id] # None /\ ("group" \notin Kinds => There(db, loc[h].arg))
    BY <1>0, <1>3 DEF Learnt, PolicyPoints
  <2>3. Whole(db')
    BY <1>0, <1>a, <2>1, <2>2, NewRule, RuleInsertSound DEF Write
  <2> QED
    BY <1>0, <2>1, <2>3, SoundOver DEF Write
<1>4. CASE RuleUpdate(h) /\ pc[h] = "idle"
  <2>1. PICK r \in Rules : Check(h, OrdinaryRule(r), "ruleRead", [Blank EXCEPT !.id = r])
    BY <1>4 DEF RuleUpdate
  <2> QED
    BY <1>c, <2>1, SoundQuery DEF Check
<1>5. CASE RuleUpdate(h) /\ pc[h] = "ruleRead"
  <2> DEFINE row == db.rules[loc[h].id]
             l == [loc[h] EXCEPT !.row = row]
  <2>1. UNCHANGED db /\ ((row # None /\ Go(h, "ruleRetarget", l)) \/ Done(h))
    BY <1>5 DEF RuleUpdate, Starts, Check
  <2>2. loc[h].id \in Rules /\ l.row = row
    BY <1>0, <1>5, <1>b DEF RulePoints, Locals
  <2>3. row # None => db.policies[row.policy] # None
    BY <1>0, <2>2 DEF Whole, Owned
  <2> HIDE DEF l
  <2>4. row # None => Learnt(db, "ruleRetarget", l)
    BY <2>2, <2>3, KnowsRuleRow
  <2> QED
    BY <2>1, <2>4, SoundQuery
<1>6. CASE RuleUpdate(h) /\ pc[h] = "ruleRetarget"
  <2>1. PICK t \in Targets :
          UNCHANGED db /\ There(db, t) /\ Go(h, "ruleSave", [loc[h] EXCEPT !.arg = t])
    BY <1>6 DEF RuleUpdate, Starts, Validate, Exists, There
  <2> DEFINE l == [loc[h] EXCEPT !.arg = t]
  <2>2. l.row = loc[h].row /\ l.arg = t /\ db.policies[loc[h].row.policy] # None
    BY <1>0, <1>6 DEF Learnt, Locals
  <2>3. Go(h, "ruleSave", l)
    BY <2>1
  <2> HIDE DEF l
  <2>4. Learnt(db, "ruleSave", l)
    BY <2>1, <2>2, KnowsRuleRow
  <2> QED
    BY <2>1, <2>3, <2>4, SoundQuery
<1>7. CASE RuleUpdate(h) /\ pc[h] = "ruleSave"
  <2> DEFINE row == [loc[h].row EXCEPT !.target = loc[h].arg]
  <2>1. Write(h, [db EXCEPT !.rules[loc[h].id] = row])
    BY <1>7 DEF RuleUpdate, Starts
  <2>2. loc[h].id \in Rules /\ row.policy = loc[h].row.policy /\ row.target = loc[h].arg
    BY <1>0, <1>7 DEF LocInv, Knows, RulePoints, RuleRow
  <2>3. db.policies[row.policy] # None /\ ("group" \notin Kinds => There(db, row.target))
    BY <1>0, <1>7, <2>2 DEF Learnt
  <2> HIDE DEF row
  <2> QED
    BY <1>a, <2>1, <2>2, <2>3, RuleWriteSound
<1>8. CASE RuleEnable(h) /\ pc[h] = "idle"
  <2>1. PICK r \in Rules : Check(h, OrdinaryRule(r), "ruleEnable", [Blank EXCEPT !.id = r])
    BY <1>8 DEF RuleEnable
  <2> QED
    BY <1>c, <2>1, SoundQuery DEF Check
<1>9. CASE RuleEnable(h) /\ pc[h] = "ruleEnable"
  <2> DEFINE row == db.rules[loc[h].id]
             l == [loc[h] EXCEPT !.row = row, !.arg = IF row = None THEN None ELSE row.target]
  <2>1. UNCHANGED db /\ ((row # None /\ Go(h, "ruleSave", l)) \/ Done(h))
    BY <1>9 DEF RuleEnable, Starts, Check
  <2>2. loc[h].id \in Rules /\ l.row = row /\ (row # None => l.arg = row.target)
    BY <1>0, <1>9, <1>b DEF RulePoints, Locals
  <2>3. row # None => db.policies[row.policy] # None
    BY <1>0, <2>2 DEF Whole, Owned
  <2>4. row # None /\ "group" \notin Kinds => There(db, row.target)
    BY <1>0, <2>2 DEF Whole, Resolved
  <2> HIDE DEF l
  <2>5. row # None => Learnt(db, "ruleSave", l)
    BY <2>2, <2>3, <2>4, KnowsRuleRow
  <2> QED
    BY <2>1, <2>5, SoundQuery
<1>10. CASE RuleDelete(h) /\ pc[h] = "idle"
  <2>1. PICK r \in Rules : Check(h, OrdinaryRule(r), "ruleDelete", [Blank EXCEPT !.id = r])
    BY <1>10 DEF RuleDelete
  <2> QED
    BY <1>c, <2>1, SoundQuery DEF Check
<1>11. CASE RuleDelete(h) /\ pc[h] = "ruleDelete"
  <2>1. Write(h, [db EXCEPT !.rules[loc[h].id] = None])
    BY <1>11 DEF RuleDelete, Starts
  <2>2. loc[h].id \in Rules
    BY <1>11, <1>b DEF RulePoints
  <2> QED
    BY <1>a, <2>1, <2>2, RuleWriteSound
<1> QED
  BY <1>1, <1>2, <1>3, <1>4, <1>5, <1>6, <1>7, <1>8, <1>9, <1>10, <1>11
     DEF RuleAdd, RuleUpdate, RuleEnable, RuleDelete, Starts

\* A simple policy keeps the inbound that an advanced page binds or unbinds: the request has
\* seen that the present binding is not to one.
LEMMA BindingRequestsSound ==
  ASSUME IInv, SInv, NEW h \in Handlers, Bind(h) \/ Unbind(h)
  PROVE  Sound(h)
<1>0. /\ StoreInv(db) /\ db \in Store /\ HandlersInv /\ Whole(db)
      /\ LocInv(db, pc[h], loc[h]) /\ Learnt(db, pc[h], loc[h])
  BY Start
<1>a. Harmless(db, db')
  BY BindingRequestsNext
<1>b. ASSUME NEW i \in Inbounds, NEW p, p # None => i \in db.inbounds /\ db.policies[p] # None,
             Loose(db, i), Write(h, [db EXCEPT !.bindings[i] = p])
      PROVE  Sound(h)
  <2> DEFINE d == [db EXCEPT !.bindings[i] = p]
  <2>1. /\ d.bindings = [db.bindings EXCEPT ![i] = p]
        /\ d.policies = db.policies /\ d.rules = db.rules /\ d.pools = db.pools
        /\ d.egresses = db.egresses /\ d.inbounds = db.inbounds
    BY <1>0 DEF Store
  <2>2. db' = d /\ Write(h, d)
    BY <1>b DEF Write
  <2> HIDE DEF d
  <2>3. Whole(d)
    BY <1>0, <1>a, <1>b, <2>1, <2>2, BindingSound
  <2> QED
    BY <1>0, <2>2, <2>3, SoundWrite
<1>c. ASSUME NEW i \in Inbounds, OrdinaryBinding(i) PROVE Loose(db, i)
  BY <1>c DEF OrdinaryBinding, Ordinary, Simple, Loose, SimpleIn
<1>1. CASE Bind(h) /\ pc[h] = "idle"
  <2>1. PICK p \in Policies, i \in Inbounds :
          Check(h, Ordinary(p), "bindInbound", [Blank EXCEPT !.id = i, !.arg = p])
    BY <1>1 DEF Bind
  <2>2. Ordinary(p) => Learnt(db, "bindInbound", [Blank EXCEPT !.id = i, !.arg = p])
    BY DEF Learnt, PolicyPoints, BindPoints, Blank, Ordinary
  <2> QED
    BY <2>1, <2>2, SoundQuery DEF Check
<1>2. CASE Bind(h) /\ pc[h] = "bindInbound"
  <2>1. Check(h, OrdinaryBinding(loc[h].id), "bindExists", loc[h])
    BY <1>2 DEF Bind, Starts
  <2>2. OrdinaryBinding(loc[h].id) => Learnt(db, "bindExists", loc[h])
    BY <1>0, <1>2, <1>c DEF Learnt, PolicyPoints, BindPoints, InboundPoints, LocInv, Knows
  <2> QED
    BY <2>1, <2>2, SoundQuery DEF Check
<1>3. CASE Bind(h) /\ pc[h] = "bindExists"
  <2>1. Check(h, loc[h].id \in db.inbounds, "bindCount", loc[h])
    BY <1>3 DEF Bind, Starts
  <2>2. loc[h].id \in db.inbounds => Learnt(db, "bindCount", loc[h])
    BY <1>0, <1>3 DEF Learnt, PolicyPoints, BindPoints
  <2> QED
    BY <2>1, <2>2, SoundQuery DEF Check
<1>4. CASE Bind(h) /\ pc[h] = "bindCount"
  <2>1. UNCHANGED db /\ (Go(h, "bind", loc[h]) \/ Done(h))
    BY <1>4 DEF Bind, Starts, Check
  <2>2. Learnt(db, "bind", loc[h])
    BY <1>0, <1>4 DEF Learnt, PolicyPoints, BindPoints
  <2> QED
    BY <2>1, <2>2, SoundQuery
<1>5. CASE Bind(h) /\ pc[h] = "bind"
  <2>1. Write(h, [db EXCEPT !.bindings[loc[h].id] = loc[h].arg])
    BY <1>5 DEF Bind, Starts
  <2>2. /\ loc[h].id \in Inbounds /\ loc[h].id \in db.inbounds /\ Loose(db, loc[h].id)
        /\ db.policies[loc[h].arg] # None
    BY <1>0, <1>5 DEF Learnt, LocInv, Knows, BindPoints, InboundPoints
  <2> QED
    BY <1>b, <2>1, <2>2
<1>6. CASE Unbind(h) /\ pc[h] = "idle"
  <2>1. PICK i \in Inbounds : Check(h, OrdinaryBinding(i), "unbindExists", [Blank EXCEPT !.id = i])
    BY <1>6 DEF Unbind
  <2>2. OrdinaryBinding(i) => Learnt(db, "unbindExists", [Blank EXCEPT !.id = i])
    BY <1>c DEF Learnt, PolicyPoints, BindPoints, Blank
  <2> QED
    BY <2>1, <2>2, SoundQuery DEF Check
<1>7. CASE Unbind(h) /\ pc[h] = "unbindExists"
  <2>1. UNCHANGED db /\ (Go(h, "unbind", loc[h]) \/ Done(h))
    BY <1>7 DEF Unbind, Starts, Check
  <2>2. Learnt(db, "unbind", loc[h])
    BY <1>0, <1>7 DEF Learnt, PolicyPoints, BindPoints
  <2> QED
    BY <2>1, <2>2, SoundQuery
<1>8. CASE Unbind(h) /\ pc[h] = "unbind"
  <2>1. Write(h, [db EXCEPT !.bindings[loc[h].id] = None])
    BY <1>8 DEF Unbind, Starts
  <2>2. loc[h].id \in Inbounds /\ Loose(db, loc[h].id)
    BY <1>0, <1>8 DEF Learnt, LocInv, Knows, InboundPoints
  <2> QED
    BY <1>b, <2>1, <2>2
<1> QED
  BY <1>1, <1>2, <1>3, <1>4, <1>5, <1>6, <1>7, <1>8 DEF Bind, Unbind, Starts

\* A template writes a policy, its rules and the binding, all of which lead somewhere.
LEMMA TemplateSound ==
  ASSUME IInv, SInv, NEW h \in Handlers, Template(h)
  PROVE  Sound(h)
<1>0. /\ StoreInv(db) /\ db \in Store /\ HandlersInv /\ Whole(db)
      /\ LocInv(db, pc[h], loc[h]) /\ Learnt(db, pc[h], loc[h]) /\ loc[h] \in Locals
  BY Start DEF LocInv, Knows
<1>1. CASE pc[h] = "idle"
  <2>1. "template" \in Kinds
    BY <1>1 DEF Template, Starts
  <2>2. PICK i \in Inbounds : Check(h, i \in db.inbounds, "templateTarget", [Blank EXCEPT !.id = i])
    BY <1>1 DEF Template
  <2>3. i \in db.inbounds => Learnt(db, "templateTarget", [Blank EXCEPT !.id = i])
    BY <2>1 DEF Learnt, PolicyPoints, BindPoints, Blank
  <2> QED
    BY <2>2, <2>3, SoundQuery DEF Check
<1>2. CASE pc[h] = "templateTarget"
  <2>1. PICK t \in Targets :
          UNCHANGED db /\ There(db, t) /\ Go(h, "template", [loc[h] EXCEPT !.arg = t])
    BY <1>2 DEF Template, Starts, Validate, Exists, There
  <2>2. "template" \in Kinds /\ loc[h].id \in db.inbounds
    BY <1>0, <1>2 DEF Learnt
  <2> DEFINE l == [loc[h] EXCEPT !.arg = t]
  <2>3. l.id = loc[h].id /\ l.arg = t
    BY <1>0 DEF Locals
  <2>4. Go(h, "template", l)
    BY <2>1
  <2> HIDE DEF l
  <2>5. Learnt(db, "template", l)
    BY <2>1, <2>2, <2>3 DEF Learnt, PolicyPoints, BindPoints
  <2> QED
    BY <2>1, <2>4, <2>5, SoundQuery
<1>3. CASE pc[h] = "template"
  <2> DEFINE i == loc[h].id
             t == loc[h].arg
  <2>1. /\ i \in Inbounds /\ i \in db.inbounds /\ t \in Targets \cup {None} /\ "template" \in Kinds
        /\ "group" \notin Kinds => There(db, t)
    BY <1>0, <1>3 DEF LocInv, Knows, InboundPoints, TargetPoints, Learnt
  <2>2. PICK p \in NewId(db.policies), rs \in NewRules(MaxSnapshot) :
          Write(h, [Inserted(db, rs, [policy |-> p, target |-> t])
                      EXCEPT !.policies[p] = [owner |-> "ordinary", default |-> t,
                                              items |-> [k \in Keys |-> {}]],
                             !.bindings[i] = p])
    BY <1>3 DEF Template, Starts
  <2>a. p \in Policies /\ rs \subseteq Rules
    BY <1>0, NewPolicy, ManyRules
  <2> DEFINE rule == [policy |-> p, target |-> t]
             row == [owner |-> "ordinary", default |-> t, items |-> [k \in Keys |-> {}]]
             d == [Inserted(db, rs, rule)
                     EXCEPT !.policies[p] = row, !.bindings[i] = p]
  <2>3. row \in PolicyRow /\ row # None /\ row.default = t
        /\ rule.policy = p /\ rule.target = t /\ p # None
    BY <2>1, <2>a, IdAssumption DEF PolicyRow, Ids
  <2>4. Write(h, d)
    BY <2>2
  <2> HIDE DEF i, t, rule, row
  <2>5. /\ d.policies = [db.policies EXCEPT ![p] = row]
        /\ d.rules = [r \in Rules |-> IF r \in rs THEN rule ELSE db.rules[r]]
        /\ d.bindings = [db.bindings EXCEPT ![i] = p]
        /\ d.pools = db.pools /\ d.egresses = db.egresses /\ d.inbounds = db.inbounds
    BY <1>0, <2>a DEF Inserted, Store
  <2> HIDE DEF d
  <2>6. /\ d.policies[p] = row /\ \A q \in Policies \ {p} : d.policies[q] = db.policies[q]
        /\ d.bindings[i] = p /\ \A j \in Inbounds \ {i} : d.bindings[j] = db.bindings[j]
    BY <1>0, <2>1, <2>5, <2>a, Fields
  <2>7. Owned(d)
    <3>1. ASSUME NEW r \in Rules, d.rules[r] # None PROVE d.policies[d.rules[r].policy] # None
      <4>1. CASE r \in rs
        BY <2>3, <2>5, <2>6, <4>1
      <4>2. CASE r \notin rs
        BY <1>0, <2>3, <2>5, <2>6, <3>1, <4>2, Rows DEF Whole, Owned
      <4> QED
        BY <4>1, <4>2
    <3>2. ASSUME NEW j \in Inbounds, d.bindings[j] # None
          PROVE  j \in d.inbounds /\ d.policies[d.bindings[j]] # None
      <4>1. CASE j = i
        BY <2>1, <2>3, <2>5, <2>6, <4>1
      <4>2. CASE j # i
        BY <1>0, <2>3, <2>5, <2>6, <3>2, <4>2, Rows DEF Whole, Owned
      <4> QED
        BY <4>1, <4>2
    <3> QED
      BY <3>1, <3>2 DEF Owned
  <2>8. "group" \notin Kinds => Resolved(d)
    BY <1>0, <2>1, <2>3, <2>5, <2>6 DEF Whole, Resolved, There
  <2>9. Whole(d)
    BY <2>1, <2>7, <2>8 DEF Whole
  <2> QED
    BY <1>0, <2>4, <2>9, SoundWrite
<1> QED
  BY <1>1, <1>2, <1>3 DEF Template, Starts

-----------------------------------------------------------------------------
(* TrafficRuleGroupService *)

\* A new group names nothing.
LEMMA NewGroupSound ==
  ASSUME IInv, SInv, NEW h \in Handlers, NEW p \in NewId(db.policies),
         NEW owner \in {"group", "builtin"}
  PROVE  Whole(NewGroup(p, owner)) /\ NewGroup(p, owner).policies[p] # None
<1>0. StoreInv(db) /\ db \in Store /\ Whole(db) /\ p \in Policies
  BY Start, NewPolicy
<1> DEFINE row == [owner |-> owner, default |-> None, items |-> [k \in Keys |-> {}]]
           d == NewGroup(p, owner)
<1>1. row \in PolicyRow /\ row.default = None
  BY DEF PolicyRow
<1>2. /\ d.policies = [db.policies EXCEPT ![p] = row]
      /\ d.rules = db.rules /\ d.bindings = db.bindings /\ d.pools = db.pools
      /\ d.egresses = db.egresses /\ d.inbounds = db.inbounds
  BY <1>0 DEF NewGroup, Store
<1>3. Harmless(db, d)
  BY <1>0, GroupWritten
<1> HIDE DEF row, d
<1>4. Whole(d)
  BY <1>0, <1>1, <1>2, <1>3, PolicySound
<1>5. d.policies[p] # None
  BY <1>0, <1>1, <1>2, Fields, IdAssumption
<1> QED
  BY <1>4, <1>5 DEF d

\* Seeding a built-in group: the policy is there until its last rule is, or it goes with
\* those it has.
LEMMA EnsureBuiltinGroupsSound ==
  ASSUME IInv, SInv, NEW h \in Handlers, EnsureBuiltinGroups(h)
  PROVE  Sound(h)
<1>0. /\ StoreInv(db) /\ db \in Store /\ HandlersInv /\ Whole(db)
      /\ LocInv(db, pc[h], loc[h]) /\ Learnt(db, pc[h], loc[h])
  BY Start
<1>1. CASE pc[h] = "idle"
  <2>1. "group" \in Kinds
        /\ Check(h, \A p \in Policies : Group(p) => db.policies[p].owner # "builtin",
                 "builtinInsert", Blank)
    BY <1>1 DEF EnsureBuiltinGroups, Starts
  <2>2. Learnt(db, "builtinInsert", Blank)
    BY <2>1 DEF Learnt, PolicyPoints, BindPoints
  <2> QED
    BY <2>1, <2>2, SoundQuery DEF Check
<1>2. CASE pc[h] = "builtinInsert"
  <2>1. PICK p \in NewId(db.policies) :
          db' = NewGroup(p, "builtin") /\ Go(h, "seed", [Blank EXCEPT !.id = p])
    BY <1>2 DEF EnsureBuiltinGroups, Starts
  <2>2. Whole(db') /\ db'.policies[p] # None /\ "group" \in Kinds
    BY <1>0, <1>2, <2>1, NewGroupSound DEF Learnt
  <2>3. Learnt(db', "seed", [Blank EXCEPT !.id = p])
    BY <2>2 DEF Learnt, PolicyPoints, BindPoints, Blank
  <2>4. pc'[h] = "seed" /\ loc'[h] = [Blank EXCEPT !.id = p]
    BY <1>0, <2>1, Gone
  <2> QED
    BY <2>2, <2>3, <2>4 DEF Sound
<1>3. CASE pc[h] = "seed"
  <2>1. /\ loc[h].id \in Policies /\ ~SimpleIn(db, loc[h].id) /\ db.policies[loc[h].id] # None
        /\ "group" \in Kinds
    BY <1>0, <1>3 DEF LocInv, Knows, PolicyPoints, Safe, Learnt
  <2>2. CASE Write(h, WithoutPolicy(db, loc[h].id))
    BY <1>0, <2>1, <2>2, PolicyGoneSound, SoundWrite
  <2>3. CASE ~Write(h, WithoutPolicy(db, loc[h].id))
    <3>1. PICK r \in NewId(db.rules) :
            /\ db' = Inserted(db, {r}, [policy |-> loc[h].id, target |-> None])
            /\ UNCHANGED <<pc, loc>> \/ Done(h)
      BY <1>3, <2>3 DEF EnsureBuiltinGroups, Starts
    <3>2. Harmless(db, db')
      BY EnsureBuiltinGroupsNext
    <3>3. Whole(db') /\ db'.policies = db.policies
      BY <1>0, <2>1, <3>1, <3>2, NewRule, RuleInsertSound DEF Inserted, Store
    <3>4. CASE Done(h)
      BY <1>0, <3>3, <3>4, SoundOver
    <3>5. CASE UNCHANGED <<pc, loc>>
      <4>1. pc'[h] = "seed" /\ loc'[h] = loc[h]
        BY <1>3, <3>5
      <4>2. Learnt(db', "seed", loc[h])
        BY <2>1, <3>3 DEF Learnt, PolicyPoints, BindPoints
      <4> QED
        BY <3>3, <4>1, <4>2 DEF Sound
    <3> QED
      BY <3>1, <3>4, <3>5
  <2> QED
    BY <2>2, <2>3
<1> QED
  BY <1>1, <1>2, <1>3 DEF EnsureBuiltinGroups, Starts

\* The other requests about rule groups only start what others write.
LEMMA GroupSound ==
  ASSUME IInv, SInv, NEW h \in Handlers, GroupRequest(h)
  PROVE  Sound(h)
<1>0. /\ StoreInv(db) /\ db \in Store /\ HandlersInv /\ Whole(db)
      /\ LocInv(db, pc[h], loc[h]) /\ Learnt(db, pc[h], loc[h]) /\ loc[h] \in Locals
  BY Start DEF LocInv, Knows
<1>1. CASE GroupCreate(h)
  <2>1. PICK p \in NewId(db.policies) : Write(h, NewGroup(p, "group"))
    BY <1>1 DEF GroupCreate
  <2> QED
    BY <1>0, <2>1, NewGroupSound, SoundWrite
<1>2. CASE EnsureBuiltinGroups(h)
  BY <1>2, EnsureBuiltinGroupsSound
<1>3. CASE GroupUpdate(h)
  <2>1. PICK p \in Policies :
          \/ Check(h, Group(p), "policySave", [Blank EXCEPT !.id = p, !.row = db.policies[p]])
          \/ Check(h, Group(p), "policyRead", [Blank EXCEPT !.id = p])
    BY <1>3 DEF GroupUpdate
  <2>2. Group(p) => Learnt(db, "policySave", [Blank EXCEPT !.id = p, !.row = db.policies[p]])
    BY KnowsRow DEF Group, Blank
  <2>3. Group(p) => Learnt(db, "policyRead", [Blank EXCEPT !.id = p])
    BY KnowsPolicy DEF Group, Blank
  <2> QED
    BY <2>1, <2>2, <2>3, SoundQuery DEF Check
<1>4. CASE GroupDelete(h)
  <2>1. PICK p \in Policies :
          Check(h, Group(p) /\ db.policies[p].owner = "group", "policyDelete",
                [Blank EXCEPT !.id = p])
    BY <1>4 DEF GroupDelete
  <2>2. Group(p) => Learnt(db, "policyDelete", [Blank EXCEPT !.id = p])
    BY KnowsPolicy DEF Group, Blank
  <2> QED
    BY <2>1, <2>2, SoundQuery DEF Check
<1>5. CASE AddDomainRule(h)
  <2>1. PICK p \in Policies : Check(h, Group(p), "ruleInsert", [Blank EXCEPT !.id = p])
    BY <1>5 DEF AddDomainRule
  <2>2. "group" \in Kinds
    BY <1>5 DEF AddDomainRule, Starts
  <2>3. Group(p) => Learnt(db, "ruleInsert", [Blank EXCEPT !.id = p])
    BY <2>2 DEF Learnt, PolicyPoints, BindPoints, Blank, Group
  <2> QED
    BY <2>1, <2>3, SoundQuery DEF Check
<1>6. CASE ChangeDomainRule(h) /\ pc[h] = "idle"
  <2>1. "group" \in Kinds
    BY <1>6 DEF ChangeDomainRule, Starts
  <2>2. PICK p \in Policies : \E r \in RulesOf(db, p) :
          Check(h, Group(p), "groupRule", [Blank EXCEPT !.id = r, !.arg = p])
    BY <1>6 DEF ChangeDomainRule
  <2>3. PICK r \in RulesOf(db, p) :
          Check(h, Group(p), "groupRule", [Blank EXCEPT !.id = r, !.arg = p])
    BY <2>2
  <2>4. Learnt(db, "groupRule", [Blank EXCEPT !.id = r, !.arg = p])
    BY <2>1 DEF Learnt, PolicyPoints, BindPoints, Blank
  <2> QED
    BY <2>3, <2>4, SoundQuery DEF Check
<1>7. CASE ChangeDomainRule(h) /\ pc[h] = "groupRule"
  <2> DEFINE row == db.rules[loc[h].id]
             found == row # None /\ row.policy = loc[h].arg
             l == [loc[h] EXCEPT !.row = row, !.arg = IF found THEN row.target ELSE @]
  <2>1. /\ UNCHANGED db
        /\ \/ Done(h)
           \/ Go(h, "ruleDelete", loc[h])
           \/ found /\ Go(h, "ruleSave", l)
    BY <1>7 DEF ChangeDomainRule, Starts, Check
  <2>2. loc[h].id \in Rules /\ "group" \in Kinds /\ l.row = row
    BY <1>0, <1>7 DEF LocInv, Knows, RulePoints, Learnt, Locals
  <2>3. Learnt(db, "ruleDelete", loc[h])
    BY DEF Learnt, PolicyPoints, BindPoints
  <2>4. row # None => db.policies[row.policy] # None
    BY <1>0, <2>2 DEF Whole, Owned
  <2> HIDE DEF l
  <2>5. row # None => Learnt(db, "ruleSave", l)
    BY <2>2, <2>4, KnowsRuleRow
  <2> QED
    BY <2>1, <2>3, <2>5, SoundQuery
<1> QED
  BY <1>1, <1>2, <1>3, <1>4, <1>5, <1>6, <1>7 DEF GroupRequest, ChangeDomainRule, Starts

-----------------------------------------------------------------------------
(* RuleService, the simple page *)

\* The request stored the simple policy p of inbound i and changed rules of p.
StoredFor(d, e, i, p) ==
  /\ e.egresses = d.egresses /\ e.inbounds = d.inbounds /\ e.pools = d.pools
  /\ e.policies[p] # None /\ \A q \in Policies \ {p} : e.policies[q] = d.policies[q]
  /\ e.bindings[i] = p /\ \A j \in Inbounds \ {i} : e.bindings[j] = d.bindings[j]
  /\ \A r \in Rules : e.rules[r] # d.rules[r] =>
       /\ d.rules[r] = None \/ d.rules[r].policy = p
       /\ e.rules[r] = None \/ (e.rules[r].policy = p /\ e.rules[r].target \in d.egresses)

\* Such a policy names what was there or what the request has found.
LEMMA StoredSound ==
  ASSUME NEW d, NEW e, StoreInv(d), StoreInv(e), Whole(d), NEW i \in d.inbounds, NEW p \in Policies,
         d.bindings[i] \in {None, p}, StoredFor(d, e, i, p),
         \/ e.policies[p].default \in d.egresses \cup {None}
         \/ d.policies[p] # None /\ e.policies[p].default = d.policies[p].default,
         "template" \notin Kinds => e.policies[p].default # None \/ RulesOf(e, p) # {}
  PROVE  Whole(e)
<1> USE DEF StoredFor
<1>0. i \in Inbounds /\ p # None
  BY Fields, IdAssumption DEF StoreInv, Ids
<1>1. Owned(e)
  <2>1. ASSUME NEW r \in Rules, e.rules[r] # None PROVE e.policies[e.rules[r].policy] # None
    <3>1. CASE e.rules[r] = d.rules[r]
      BY <2>1, <3>1, Rows DEF Whole, Owned, StoreInv
    <3>2. CASE e.rules[r] # d.rules[r]
      BY <2>1, <3>2
    <3> QED
      BY <3>1, <3>2
  <2>2. ASSUME NEW j \in Inbounds, e.bindings[j] # None
        PROVE  j \in e.inbounds /\ e.policies[e.bindings[j]] # None
    <3>1. CASE j = i
      BY <3>1
    <3>2. CASE j # i
      BY <2>2, <3>2, Rows DEF Whole, Owned, StoreInv
    <3> QED
      BY <3>1, <3>2
  <2> QED
    BY <2>1, <2>2 DEF Owned
<1>2. ASSUME "group" \notin Kinds PROVE Resolved(e)
  <2>1. Resolved(d) /\ \A t : There(e, t) = There(d, t)
    BY <1>2 DEF Whole, There
  <2>2. \A q \in Policies : e.policies[q] # None =>
          e.policies[q].default = None \/ There(e, e.policies[q].default)
    BY <2>1 DEF Resolved, There
  <2>3. \A r \in Rules : e.rules[r] # None => There(e, e.rules[r].target)
    BY <2>1 DEF Resolved, There
  <2> QED
    BY <2>1, <2>2, <2>3 DEF Resolved
<1>3. ASSUME "template" \notin Kinds, NEW q \in Policies, SimpleIn(e, q)
      PROVE  /\ \E j \in Inbounds : e.bindings[j] = q
             /\ e.policies[q].default # None \/ RulesOf(e, q) # {}
  <2>1. CASE q = p
    BY <1>0, <1>3, <2>1
  <2>2. CASE q # p
    <3>1. SimpleIn(d, q) /\ q # None
      BY <1>3, <2>2, IdAssumption DEF SimpleIn, Ids
    <3>2. PICK j \in Inbounds : d.bindings[j] = q
      BY <1>3, <3>1 DEF Whole, Reached
    <3>3. RulesOf(e, q) = RulesOf(d, q)
      <4>1. ASSUME NEW r \in Rules
            PROVE  /\ d.rules[r] # None /\ d.rules[r].policy = q => e.rules[r] = d.rules[r]
                   /\ e.rules[r] # None /\ e.rules[r].policy = q => e.rules[r] = d.rules[r]
        BY <2>2
      <4> QED
        BY <4>1 DEF RulesOf
    <3> QED
      BY <1>3, <2>2, <3>1, <3>2, <3>3 DEF Whole, Reached
  <2> QED
    BY <2>1, <2>2
<1> QED
  BY <1>1, <1>2, <1>3 DEF Whole, Reached

\* The simple policy p of inbound i goes, with its rows and its binding.
LEMMA WipedSound ==
  ASSUME NEW d, NEW e, StoreInv(d), Whole(d), NEW i \in Inbounds, NEW p \in Policies,
         Wiped(d, e, i, p), RulesOf(e, p) = {},
         d.bindings[i] \in {None, p}, \A j \in Inbounds \ {i} : d.bindings[j] # p,
         e.egresses = d.egresses, d.inbounds \ {i} \subseteq e.inbounds
  PROVE  Whole(e)
<1> USE DEF Wiped
<1>1. Owned(e)
  <2>1. ASSUME NEW r \in Rules, e.rules[r] # None PROVE e.policies[e.rules[r].policy] # None
    <3>1. e.rules[r] = d.rules[r] /\ e.rules[r].policy # p
      BY <2>1 DEF RulesOf
    <3> QED
      BY <2>1, <3>1, Rows DEF Whole, Owned, StoreInv
  <2>2. ASSUME NEW j \in Inbounds, e.bindings[j] # None
        PROVE  j \in e.inbounds /\ e.policies[e.bindings[j]] # None
    <3>1. j # i /\ e.bindings[j] = d.bindings[j] /\ d.bindings[j] # p
      BY <2>2
    <3> QED
      BY <2>2, <3>1, Rows DEF Whole, Owned, StoreInv
  <2> QED
    BY <2>1, <2>2 DEF Owned
<1>2. ASSUME "group" \notin Kinds PROVE Resolved(e)
  <2>1. Resolved(d) /\ \A t : There(e, t) = There(d, t)
    BY <1>2 DEF Whole, There
  <2>2. \A q \in Policies : e.policies[q] # None => e.policies[q] = d.policies[q]
    OBVIOUS
  <2>3. \A r \in Rules : e.rules[r] # None => e.rules[r] = d.rules[r]
    OBVIOUS
  <2> QED
    BY <2>1, <2>2, <2>3 DEF Resolved
<1>3. ASSUME "template" \notin Kinds, NEW q \in Policies, SimpleIn(e, q)
      PROVE  /\ \E j \in Inbounds : e.bindings[j] = q
             /\ e.policies[q].default # None \/ RulesOf(e, q) # {}
  <2>1. q # p /\ SimpleIn(d, q) /\ q # None /\ e.policies[q] = d.policies[q]
    BY <1>3, IdAssumption DEF SimpleIn, Ids
  <2>2. PICK j \in Inbounds : d.bindings[j] = q
    BY <1>3, <2>1 DEF Whole, Reached
  <2>3. RulesOf(e, q) = RulesOf(d, q)
    <3>1. ASSUME NEW r \in Rules
          PROVE  /\ d.rules[r] # None /\ d.rules[r].policy = q => e.rules[r] = d.rules[r]
                 /\ e.rules[r] # None => e.rules[r] = d.rules[r]
      BY <2>1
    <3> QED
      BY <3>1 DEF RulesOf
  <2> QED
    BY <1>3, <2>1, <2>2, <2>3 DEF Whole, Reached
<1> QED
  BY <1>1, <1>2, <1>3 DEF Whole, Reached

\* What a request of the simple page starts from.
LEMMA SimpleStart ==
  ASSUME IInv, SInv, NEW h \in Handlers, SimpleRequest(h) \/ DelInbound(h), ~reissued'
  PROVE  /\ StoreInv(db) /\ db \in Store /\ HandlersInv /\ Whole(db)
         /\ StoreInv(db')
  BY Start, SimpleNext, DelInboundNext DEF Keeps

\* The policy of a creation keeps its default, or has none yet.
LEMMA ChosenDefault ==
  ASSUME NEW i \in Inbounds, NEW x \in ExecutionPolicies(i)
  PROVE  /\ x = <<x[1], x[2]>>
         /\ \/ x[2].default = None
            \/ db.policies[x[1]] # None /\ x[2].default = db.policies[x[1]].default
<1>1. CASE db.bindings[i] = None
  BY <1>1 DEF ExecutionPolicies
<1>2. CASE db.bindings[i] # None
  <2>1. x[1] = db.bindings[i] /\ Simple(x[1]) /\ x[2] = Converted(x[1]) /\ x = <<x[1], x[2]>>
    BY <1>2 DEF ExecutionPolicies
  <2>2. Converted(x[1]).default = db.policies[x[1]].default
    BY DEF Converted
  <2> QED
    BY <2>1, <2>2 DEF Simple
<1> QED
  BY <1>1, <1>2

\* A created rule leads to the egress that was looked up in the same transaction.
LEMMA CreateSound ==
  ASSUME IInv, SInv, NEW h \in Handlers, SimpleCreate(h), ~reissued'
  PROVE  Sound(h)
<1>0. StoreInv(db) /\ db \in Store /\ HandlersInv /\ Whole(db) /\ StoreInv(db')
  BY SimpleStart DEF SimpleRequest
<1>a. ASSUME NEW d, NEW new, Issue(h, d, new) PROVE db' = d /\ Done(h) /\ new \cap Named = {}
  BY <1>a DEF Issue
<1>1. PICK i \in db.inbounds, e \in db.egresses : \E x \in ExecutionPolicies(i) :
        LET p == x[1]
            row == x[2]
            new == {p} \ Present(db.policies)
            Policy(r) == [db EXCEPT !.policies[p] = r, !.bindings[i] = p]
        IN  \/ /\ row.default \notin Egresses
               /\ Issue(h, Policy([row EXCEPT !.default = e]), new)
            \/ \E k \in Keys : \E rs \in NewRules(IF k \in Custom THEN 1 ELSE MaxSnapshot) :
                 /\ row.items[k] = {} /\ KeepsDefault(row)
                 /\ Issue(h, Inserted(Policy([row EXCEPT !.items[k] = rs]), rs,
                                      [policy |-> p, target |-> e]),
                          new \cup rs)
  BY DEF SimpleCreate
<1>2. PICK x \in ExecutionPolicies(i) :
        LET p == x[1]
            row == x[2]
            new == {p} \ Present(db.policies)
            Policy(r) == [db EXCEPT !.policies[p] = r, !.bindings[i] = p]
        IN  \/ /\ row.default \notin Egresses
               /\ Issue(h, Policy([row EXCEPT !.default = e]), new)
            \/ \E k \in Keys : \E rs \in NewRules(IF k \in Custom THEN 1 ELSE MaxSnapshot) :
                 /\ row.items[k] = {} /\ KeepsDefault(row)
                 /\ Issue(h, Inserted(Policy([row EXCEPT !.items[k] = rs]), rs,
                                      [policy |-> p, target |-> e]),
                          new \cup rs)
  BY <1>1
<1> DEFINE p == x[1]
           row == x[2]
           ids == {p} \ Present(db.policies)
           Policy(r) == [db EXCEPT !.policies[p] = r, !.bindings[i] = p]
<1>b. ids \cap Named = {}
  <2>1. CASE Issue(h, Policy([row EXCEPT !.default = e]), ids)
    BY <2>1, <1>a
  <2>2. ASSUME NEW k \in Keys, NEW rs,
               Issue(h, Inserted(Policy([row EXCEPT !.items[k] = rs]), rs,
                                 [policy |-> p, target |-> e]),
                     ids \cup rs)
        PROVE  ids \cap Named = {}
    BY <2>2, <1>a
  <2> QED
    BY <1>2, <2>1, <2>2
<1>3. i \in Inbounds /\ e \in Egresses /\ e \in db.egresses /\ i \in db.inbounds /\ e # None
  BY <1>0, Fields, IdAssumption DEF Ids
<1>4. p \in Policies /\ Held(db, i, p, row)
  <2>1. <<x[1], x[2]>> = x
    BY <1>3, ChosenDefault
  <2> QED
    BY <1>0, <1>3, <1>b, <2>1, Chosen
<1>5. Fits(db, p, row) /\ row \in PolicyRow /\ db.bindings[i] \in {None, p}
  BY <1>4 DEF Held, Fits
<1>6. CASE db' = Policy([row EXCEPT !.default = e]) /\ Done(h)
  <2> DEFINE new == [row EXCEPT !.default = e]
             d == Policy(new)
  <2>1. new \in PolicyRow /\ new # None /\ new.default = e
    BY <1>3, <1>5, IdAssumption DEF PolicyRow, Targets
  <2> HIDE DEF new, row
  <2>2. /\ d.egresses = db.egresses /\ d.inbounds = db.inbounds /\ d.pools = db.pools
        /\ d.rules = db.rules
        /\ d.policies[p] = new /\ \A q \in Policies \ {p} : d.policies[q] = db.policies[q]
        /\ d.bindings[i] = p /\ \A j \in Inbounds \ {i} : d.bindings[j] = db.bindings[j]
    BY <1>0, <1>3, <1>4, <2>1 DEF Store
  <2>3. db' = d /\ Done(h)
    BY <1>6 DEF new
  <2> HIDE DEF d, p
  <2>4. StoredFor(db, d, i, p)
    BY <2>1, <2>2 DEF StoredFor
  <2>5. Whole(d)
    BY <1>0, <1>3, <1>4, <1>5, <2>1, <2>2, <2>3, <2>4, StoredSound
  <2> QED
    BY <1>0, <2>3, <2>5, SoundOver
<1>7. ASSUME NEW k \in Keys, NEW rs \in NewRules(IF k \in Custom THEN 1 ELSE MaxSnapshot),
             Done(h), db' = Inserted(Policy([row EXCEPT !.items[k] = rs]), rs,
                                     [policy |-> p, target |-> e])
      PROVE  Sound(h)
  <2> DEFINE new == [row EXCEPT !.items[k] = rs]
             rule == [policy |-> p, target |-> e]
             d == Inserted(Policy(new), rs, rule)
  <2>b. rs # {}
    BY FS_EmptySet DEF NewRules
  <2>6. \A r \in rs : db.rules[r] = None
    BY <1>0, ManyRules
  <2>1. rs \subseteq Rules /\ rs # {}
    BY <1>0, <2>b, ManyRules
  <2>2. new \in PolicyRow /\ new # None /\ new.default = row.default
    BY <1>5, <2>1, IdAssumption DEF PolicyRow
  <2>3. rule.policy = p /\ rule.target = e /\ rule # None
    BY <1>3, <1>4, IdAssumption DEF RuleRow, Targets
  <2>a. \/ row.default = None
        \/ db.policies[p] # None /\ row.default = db.policies[p].default
    BY <1>3, ChosenDefault
  <2> HIDE DEF new, rule, row
  <2>4. /\ d.egresses = db.egresses /\ d.inbounds = db.inbounds /\ d.pools = db.pools
        /\ d.rules = [r \in Rules |-> IF r \in rs THEN rule ELSE db.rules[r]]
        /\ d.policies[p] = new /\ \A q \in Policies \ {p} : d.policies[q] = db.policies[q]
        /\ d.bindings[i] = p /\ \A j \in Inbounds \ {i} : d.bindings[j] = db.bindings[j]
    BY <1>0, <1>3, <1>4, <2>1, <2>2 DEF Store, Inserted
  <2>5. db' = d /\ Done(h)
    BY <1>7 DEF new, rule
  <2> HIDE DEF d, p
  <2>7. \A r \in Rules : d.rules[r] # db.rules[r] =>
          db.rules[r] = None /\ d.rules[r].policy = p /\ d.rules[r].target \in db.egresses
    BY <1>3, <2>1, <2>3, <2>4, <2>6
  <2>8. StoredFor(db, d, i, p)
    BY <2>2, <2>4, <2>7 DEF StoredFor
  <2>9. RulesOf(d, p) # {}
    BY <2>1, <2>3, <2>4 DEF RulesOf
  <2>10. Whole(d)
    BY <1>0, <1>3, <1>4, <1>5, <2>2, <2>4, <2>5, <2>8, <2>9, <2>a, StoredSound
  <2> QED
    BY <1>0, <2>5, <2>10, SoundOver
<1>8. CASE Issue(h, Policy([row EXCEPT !.default = e]), ids)
  BY <1>6, <1>8, <1>a
<1>9. ASSUME NEW k \in Keys, NEW rs \in NewRules(IF k \in Custom THEN 1 ELSE MaxSnapshot),
             Issue(h, Inserted(Policy([row EXCEPT !.items[k] = rs]), rs,
                               [policy |-> p, target |-> e]),
                   ids \cup rs)
      PROVE  Sound(h)
  <2>1. Done(h) /\ db' = Inserted(Policy([row EXCEPT !.items[k] = rs]), rs,
                                  [policy |-> p, target |-> e])
    BY <1>9, <1>a
  <2> QED
    BY <1>7, <2>1
<1> QED
  BY <1>2, <1>8, <1>9

\* A policy on the page has the inbound it was found by.
LEMMA SelectedInbound ==
  ASSUME StoreInv(db), NEW p \in Policies, Selected(p)
  PROVE  /\ SimpleIn(db, p) /\ db.policies[p] \in PolicyRow /\ p # None
         /\ \E i \in db.inbounds :
              /\ i \in Inbounds /\ db.bindings[i] = p
              /\ \A j \in Inbounds \ {i} : db.bindings[j] # p
<1>1. SimpleIn(db, p) /\ db.policies[p] \in PolicyRow /\ p # None
  BY SelectedHeld, IdAssumption DEF Ids
<1>2. PICK i \in db.inbounds : db.bindings[i] = p
  BY DEF Selected
<1>3. i \in Inbounds
  BY Fields DEF StoreInv
<1>4. \A j \in Inbounds \ {i} : db.bindings[j] # p
  BY <1>1, <1>2, <1>3 DEF StoreInv, BoundOnce
<1> QED
  BY <1>1, <1>2, <1>3, <1>4

\* Rows that get another egress, in a policy that is stored with them.
LEMMA ReroutedSound ==
  ASSUME StoreInv(db), Whole(db), NEW i \in db.inbounds, NEW p \in Policies,
         SimpleIn(db, p), db.bindings[i] = p,
         NEW e \in db.egresses, NEW rs, rs \subseteq RulesOf(db, p), rs # {},
         NEW new \in PolicyRow, new.default = db.policies[p].default,
         NEW d, d = [Retargeted(db, rs, e) EXCEPT !.policies[p] = new], StoreInv(d)
  PROVE  Whole(d)
<1> DEFINE c == Retargeted(db, rs, e)
<1>1. /\ db \in Store /\ e \in Egresses /\ i \in Inbounds /\ p # None /\ new # None
      /\ db.policies[p] # None
  BY Fields, IdAssumption DEF StoreInv, Ids, SimpleIn
<1>2. Rerouted(db, c, p, rs, e)
  BY <1>1, RetargetedRules
<1>3. c.egresses = db.egresses /\ c.inbounds = db.inbounds
  BY <1>1 DEF Retargeted, Store
<1> HIDE DEF c
<1> USE DEF Rerouted
<1>4. /\ d.egresses = db.egresses /\ d.inbounds = db.inbounds /\ d.pools = db.pools
      /\ d.rules = c.rules /\ d.bindings = db.bindings
      /\ d.policies[p] = new /\ \A q \in Policies \ {p} : d.policies[q] = db.policies[q]
  BY <1>1, <1>2, <1>3 DEF Store, c
<1>5. \A r \in Rules : c.rules[r] # db.rules[r] =>
        db.rules[r].policy = p /\ c.rules[r].policy = p /\ c.rules[r].target \in db.egresses
  BY <1>2
<1>6. StoredFor(db, d, i, p)
  BY <1>1, <1>4, <1>5 DEF StoredFor
<1>7. RulesOf(d, p) # {}
  BY <1>2, <1>4 DEF RulesOf
<1> QED
  BY <1>1, <1>4, <1>6, <1>7, StoredSound

\* So does a changed one.
LEMMA UpdateSound ==
  ASSUME IInv, SInv, NEW h \in Handlers, SimpleUpdate(h), ~reissued'
  PROVE  Sound(h)
<1>0. StoreInv(db) /\ db \in Store /\ HandlersInv /\ Whole(db) /\ StoreInv(db')
  BY SimpleStart DEF SimpleRequest
<1>1. PICK p \in Policies, e \in db.egresses :
        /\ Selected(p) /\ db.policies[p].owner = "exec"
        /\ \/ /\ db.policies[p].default \in Egresses
              /\ Write(h, [db EXCEPT !.policies[p].default = e])
           \/ \E k \in Keys \ Custom :
                ItemIntact(p, k) /\ Write(h, RetargetItem(p, k, e))
           \/ \E k, l \in Custom :
                /\ ItemIntact(p, k) /\ KeepsDefault(db.policies[p])
                /\ l = k \/ db.policies[p].items[l] = {}
                /\ Write(h, [RetargetItem(p, k, e)
                               EXCEPT !.policies[p].items[k] = {},
                                      !.policies[p].items[l] = db.policies[p].items[k]])
  BY DEF SimpleUpdate
<1> DEFINE row == db.policies[p]
<1>2. /\ SimpleIn(db, p) /\ row \in PolicyRow /\ p \in Policies /\ p # None
      /\ e \in Egresses /\ e # None
  <2>1. Selected(p)
    BY <1>1
  <2>2. e \in Egresses /\ e # None
    BY <1>0, Fields, IdAssumption DEF Ids
  <2> QED
    BY <1>0, <2>1, <2>2, SelectedInbound
<1>3. PICK i \in db.inbounds : i \in Inbounds /\ db.bindings[i] = p
  BY <1>0, <1>1, SelectedInbound
<1>4. CASE Write(h, [db EXCEPT !.policies[p].default = e])
  <2> DEFINE new == [row EXCEPT !.default = e]
             d == [db EXCEPT !.policies[p].default = e]
  <2>1. new # None /\ new \in PolicyRow /\ new.default = e
    BY <1>2, IdAssumption DEF PolicyRow, Targets
  <2>2. d.policies = [db.policies EXCEPT ![p] = new]
    BY <1>0 DEF Store
  <2> HIDE DEF new, row
  <2>3. /\ d.egresses = db.egresses /\ d.inbounds = db.inbounds /\ d.pools = db.pools
        /\ d.rules = db.rules /\ d.bindings = db.bindings
        /\ d.policies[p] = new /\ \A q \in Policies \ {p} : d.policies[q] = db.policies[q]
    BY <1>0, <1>2, <2>2 DEF Store
  <2>4. Write(h, d) /\ db' = d
    BY <1>4 DEF Write
  <2> HIDE DEF d
  <2>5. StoredFor(db, d, i, p)
    BY <1>3, <2>1, <2>3 DEF StoredFor
  <2>6. Whole(d)
    BY <1>0, <1>2, <1>3, <2>1, <2>3, <2>4, <2>5, StoredSound
  <2> QED
    BY <1>0, <2>4, <2>6, SoundWrite
<1>5. ASSUME NEW k \in Keys, ItemIntact(p, k), NEW new \in PolicyRow, new.default = row.default,
             Write(h, [RetargetItem(p, k, e) EXCEPT !.policies[p] = new])
      PROVE  Sound(h)
  <2> DEFINE rs == row.items[k]
             d == [Retargeted(db, rs, e) EXCEPT !.policies[p] = new]
  <2>1. rs \subseteq RulesOf(db, p) /\ rs # {}
    BY <1>5 DEF ItemIntact
  <2>2. Write(h, d) /\ db' = d
    BY <1>5 DEF RetargetItem, Write
  <2> HIDE DEF rs
  <2>3. Whole(d)
    BY <1>0, <1>2, <1>3, <1>5, <2>1, <2>2, ReroutedSound
  <2> QED
    BY <1>0, <2>2, <2>3, SoundWrite
<1>6. ASSUME NEW k \in Keys, ItemIntact(p, k)
      PROVE  RetargetItem(p, k, e) \in Store /\ RetargetItem(p, k, e).policies = db.policies
  <2>1. Rerouted(db, RetargetItem(p, k, e), p, row.items[k], e)
    BY <1>0, <1>2, <1>6, RetargetedRules DEF RetargetItem, ItemIntact
  <2> QED
    BY <2>1 DEF Rerouted
<1>7. ASSUME NEW k \in Keys \ Custom, ItemIntact(p, k), Write(h, RetargetItem(p, k, e))
      PROVE  Sound(h)
  <2> DEFINE c == RetargetItem(p, k, e)
  <2>1. c.policies = db.policies /\ c \in Store
    BY <1>6, <1>7
  <2>2. [c EXCEPT !.policies[p] = row] = c
    <3> HIDE DEF c
    <3> QED
      BY <1>0, <2>1 DEF Store
  <2> QED
    BY <1>2, <1>5, <1>7, <2>2
<1>8. ASSUME NEW k \in Custom, NEW l \in Custom, ItemIntact(p, k),
             Write(h, [RetargetItem(p, k, e) EXCEPT !.policies[p].items[k] = {},
                                                    !.policies[p].items[l] = row.items[k]])
      PROVE  Sound(h)
  <2> DEFINE new == [row EXCEPT !.items = [[@ EXCEPT ![k] = {}] EXCEPT ![l] = row.items[k]]]
             c == RetargetItem(p, k, e)
  <2>1. k \in Keys /\ l \in Keys
    BY IdAssumption
  <2>2. c.policies = db.policies /\ c \in Store
    BY <1>6, <1>8, <2>1
  <2>3. [c EXCEPT !.policies[p].items[k] = {}, !.policies[p].items[l] = row.items[k]]
        = [c EXCEPT !.policies[p] = new]
    <3> HIDE DEF c
    <3>1. c.policies \in [Policies -> PolicyRow \cup {None}] /\ c.policies[p] = row
      BY <1>2, <2>2, Fields
    <3>2. [[c.policies[p] EXCEPT !.items = [@ EXCEPT ![k] = {}]] EXCEPT !.items[l] = row.items[k]]
          = new
      BY <3>1, <1>2 DEF PolicyRow
    <3>3. [[c.policies EXCEPT ![p].items[k] = {}] EXCEPT ![p].items[l] = row.items[k]]
          = [c.policies EXCEPT ![p] = new]
      BY <1>0, <3>1, <3>2
    <3> QED
      BY <2>2, <3>3 DEF Store
  <2>4. new \in PolicyRow /\ new.default = row.default
    BY <1>2, <2>1 DEF PolicyRow
  <2> HIDE DEF new
  <2> QED
    BY <1>5, <1>8, <2>1, <2>3, <2>4
<1> QED
  BY <1>1, <1>4, <1>7, <1>8

\* So does the only rule of a policy in the older format.
LEMMA LegacyUpdateSound ==
  ASSUME IInv, SInv, NEW h \in Handlers, LegacyUpdate(h), ~reissued'
  PROVE  Sound(h)
<1>0. StoreInv(db) /\ db \in Store /\ HandlersInv /\ Whole(db) /\ StoreInv(db')
  BY SimpleStart DEF SimpleRequest
<1>1. PICK p \in Policies, e \in db.egresses :
        /\ Selected(p) /\ db.policies[p].owner = "legacy"
        /\ Write(h, IF LegacyKey = All THEN [db EXCEPT !.policies[p].default = e]
                                       ELSE Retargeted(db, RulesOf(db, p), e))
  BY DEF LegacyUpdate
<1> DEFINE row == db.policies[p]
           rs == RulesOf(db, p)
<1>2. /\ SimpleIn(db, p) /\ row \in PolicyRow /\ p \in Policies /\ p # None /\ row # None
      /\ e \in Egresses /\ e # None
  BY <1>0, <1>1, SelectedInbound, Fields, IdAssumption DEF Ids, SimpleIn
<1>3. PICK i \in db.inbounds : i \in Inbounds /\ db.bindings[i] = p
  BY <1>0, <1>1, SelectedInbound
<1>4. CASE LegacyKey = All
  <2> DEFINE new == [row EXCEPT !.default = e]
             d == [db EXCEPT !.policies[p].default = e]
  <2>1. new # None /\ new \in PolicyRow /\ new.default = e
    BY <1>2, IdAssumption DEF PolicyRow, Targets
  <2>2. d.policies = [db.policies EXCEPT ![p] = new]
    BY <1>0 DEF Store
  <2> HIDE DEF new, row
  <2>3. /\ d.egresses = db.egresses /\ d.inbounds = db.inbounds /\ d.pools = db.pools
        /\ d.rules = db.rules /\ d.bindings = db.bindings
        /\ d.policies[p] = new /\ \A q \in Policies \ {p} : d.policies[q] = db.policies[q]
    BY <1>0, <1>2, <2>2 DEF Store
  <2>4. Write(h, d) /\ db' = d
    BY <1>1, <1>4 DEF Write
  <2> HIDE DEF d
  <2>5. StoredFor(db, d, i, p)
    BY <1>3, <2>1, <2>3 DEF StoredFor
  <2>6. Whole(d)
    BY <1>0, <1>2, <1>3, <2>1, <2>3, <2>4, <2>5, StoredSound
  <2> QED
    BY <1>0, <2>4, <2>6, SoundWrite
<1>5. CASE LegacyKey # All
  <2> DEFINE d == Retargeted(db, rs, e)
  <2>1. Rerouted(db, d, p, rs, e)
    BY <1>0, <1>2, RetargetedRules
  <2>2. d.egresses = db.egresses /\ d.inbounds = db.inbounds
    BY <1>0 DEF Retargeted, Store
  <2>3. Write(h, d) /\ db' = d
    BY <1>1, <1>5 DEF Write
  <2> HIDE DEF d, rs
  <2> USE DEF Rerouted
  <2>4. \A r \in Rules : d.rules[r] # db.rules[r] =>
          db.rules[r].policy = p /\ d.rules[r].policy = p /\ d.rules[r].target \in db.egresses
    BY <2>1
  <2>5. StoredFor(db, d, i, p)
    BY <1>2, <1>3, <2>1, <2>2, <2>4 DEF StoredFor
  <2>6. d.policies[p] = row /\ RulesOf(d, p) = RulesOf(db, p)
    BY <2>1
  <2>7. "template" \notin Kinds => d.policies[p].default # None \/ RulesOf(d, p) # {}
    BY <1>0, <1>2, <2>6 DEF Whole, Reached
  <2>8. Whole(d)
    BY <1>0, <1>2, <1>3, <2>3, <2>5, <2>6, <2>7, StoredSound
  <2> QED
    BY <1>0, <2>3, <2>8, SoundWrite
<1> QED
  BY <1>4, <1>5

\* After a delete nothing is left of the policy, or it has a default or a rule.
LEMMA CleanupSound ==
  ASSUME StoreInv(db), Whole(db), NEW i \in db.inbounds, NEW p \in Policies, SimpleIn(db, p),
         db.bindings[i] = p, \A j \in Inbounds \ {i} : db.bindings[j] # p,
         NEW d \in Store, d.pools = db.pools, d.bindings = db.bindings,
         d.egresses = db.egresses, d.inbounds = db.inbounds,
         \A q \in Policies \ {p} : d.policies[q] = db.policies[q],
         d.policies[p] # None, d.policies[p].owner = "exec",
         d.policies[p].default \in {None, db.policies[p].default},
         \A r \in Rules : d.rules[r] # db.rules[r] =>
           db.rules[r] # None /\ db.rules[r].policy = p /\ d.rules[r] = None,
         NEW e, e = Cleanup(d, p), StoreInv(e)
  PROVE  Whole(e)
<1>0. i \in Inbounds /\ p # None
  BY Fields, IdAssumption DEF StoreInv, Ids
<1>1. CASE /\ \A k \in Keys : d.policies[p].items[k] = {}
           /\ d.policies[p].default \notin Egresses
           /\ RulesOf(d, p) = {}
  <2>1. e = WithoutPolicy(d, p)
    BY <1>1 DEF Cleanup
  <2>2. Wiped(d, e, i, p)
    BY <1>0, <2>1, PolicyWiped
  <2>3. e.egresses = db.egresses /\ e.inbounds = db.inbounds
        /\ e.rules = [r \in Rules |-> IF r \in RulesOf(d, p) THEN None ELSE d.rules[r]]
    BY <2>1 DEF WithoutPolicy, Store
  <2>4. RulesOf(e, p) = {}
    BY <2>3 DEF RulesOf
  <2>5. Wiped(db, e, i, p)
    BY <2>2 DEF Wiped
  <2> QED
    BY <1>0, <2>3, <2>4, <2>5, WipedSound
<1>2. CASE ~(/\ \A k \in Keys : d.policies[p].items[k] = {}
             /\ d.policies[p].default \notin Egresses
             /\ RulesOf(d, p) = {})
  <2>1. e = d
    BY <1>2 DEF Cleanup
  <2>2. StoredFor(db, d, i, p)
    BY <1>0 DEF StoredFor
  <2>3. d.policies[p].default # None \/ RulesOf(d, p) # {}
    <3>1. PolicyInv(d, p) /\ SimpleIn(d, p)
      BY <2>1 DEF StoreInv, SimpleIn
    <3>2. \A k \in Keys : d.policies[p].items[k] \subseteq RulesOf(d, p)
      BY <3>1 DEF PolicyInv, ExecAgree
    <3>3. None \notin Egresses
      BY IdAssumption DEF Ids
    <3> QED
      BY <1>2, <3>2, <3>3
  <2>4. d.policies[p].default \in db.egresses \cup {None}
        \/ (db.policies[p] # None /\ d.policies[p].default = db.policies[p].default)
    BY DEF SimpleIn
  <2> QED
    BY <1>0, <2>1, <2>2, <2>3, <2>4, StoredSound
<1> QED
  BY <1>1, <1>2

\* A deleted rule takes its policy along when it was the last, so nothing is left behind.
LEMMA DeleteSound ==
  ASSUME IInv, SInv, NEW h \in Handlers, SimpleDelete(h), ~reissued'
  PROVE  Sound(h)
<1>0. StoreInv(db) /\ db \in Store /\ HandlersInv /\ Whole(db) /\ StoreInv(db')
  BY SimpleStart DEF SimpleRequest
<1>1. PICK p \in Policies :
        /\ Selected(p)
        /\ LET row == db.policies[p]
               legacy == row.owner = "legacy"
           IN  \/ legacy /\ Write(h, WithoutPolicy(db, p))
               \/ /\ ~legacy /\ row.default \in Egresses
                  /\ Write(h, Cleanup([db EXCEPT !.policies[p].default = None], p))
               \/ \E k \in Keys :
                    /\ ~legacy /\ ItemIntact(p, k) /\ KeepsDefault(row)
                    /\ Write(h, Cleanup([db EXCEPT
                           !.policies[p].items[k] = {},
                           !.rules = [r \in Rules |-> IF r \in row.items[k] THEN None ELSE @[r]]],
                         p))
  BY DEF SimpleDelete
<1> DEFINE row == db.policies[p]
<1>2. SimpleIn(db, p) /\ row \in PolicyRow /\ p # None
  <2>1. Selected(p)
    BY <1>1
  <2> QED
    BY <1>0, <2>1, SelectedInbound
<1>3. PICK i \in db.inbounds :
        /\ i \in Inbounds /\ db.bindings[i] = p
        /\ \A j \in Inbounds \ {i} : db.bindings[j] # p
  <2>1. Selected(p)
    BY <1>1
  <2> QED
    BY <1>0, <2>1, SelectedInbound
<1>4. row.owner \in {"exec", "legacy"}
  BY <1>2 DEF SimpleIn
<1>5. CASE Write(h, WithoutPolicy(db, p))
  <2> DEFINE e == WithoutPolicy(db, p)
  <2>1. Wiped(db, e, i, p)
    BY <1>0, <1>3, PolicyWiped
  <2>2. /\ e.egresses = db.egresses /\ e.inbounds = db.inbounds
        /\ e.rules = [r \in Rules |-> IF r \in RulesOf(db, p) THEN None ELSE db.rules[r]]
    BY <1>0 DEF WithoutPolicy, Store
  <2> HIDE DEF e
  <2>3. RulesOf(e, p) = {}
    BY <2>2 DEF RulesOf
  <2>4. Whole(e)
    BY <1>0, <1>3, <2>1, <2>2, <2>3, WipedSound
  <2> QED
    BY <1>0, <1>5, <2>4, SoundWrite DEF e
<1>6. ASSUME NEW d \in Store, NEW new \in PolicyRow,
             d.policies = [db.policies EXCEPT ![p] = new],
             new.owner = "exec", new.default \in {None, row.default},
             d.pools = db.pools, d.bindings = db.bindings,
             d.egresses = db.egresses, d.inbounds = db.inbounds,
             \A r \in Rules : d.rules[r] # db.rules[r] =>
               db.rules[r] # None /\ db.rules[r].policy = p /\ d.rules[r] = None,
             Write(h, Cleanup(d, p))
      PROVE  Sound(h)
  <2> DEFINE e == Cleanup(d, p)
  <2>1. /\ d.policies[p] = new /\ new # None
        /\ \A q \in Policies \ {p} : d.policies[q] = db.policies[q]
    BY <1>0, <1>6, Fields, IdAssumption
  <2>2. db' = e
    BY <1>6 DEF Write
  <2>3. StoreInv(e)
    BY <1>0, <2>2
  <2> HIDE DEF e
  <2>4. e = Cleanup(d, p)
    BY DEF e
  <2>5. Whole(e)
    BY <1>0, <1>2, <1>3, <1>6, <2>1, <2>3, <2>4, CleanupSound
  <2> QED
    BY <1>0, <1>6, <2>4, <2>5, SoundWrite
<1>7. CASE /\ row.owner = "exec"
           /\ Write(h, Cleanup([db EXCEPT !.policies[p].default = None], p))
  <2> DEFINE new == [row EXCEPT !.default = None]
             d == [db EXCEPT !.policies[p].default = None]
  <2>1. new \in PolicyRow /\ new.owner = "exec" /\ new.default = None
    BY <1>2, <1>7 DEF PolicyRow
  <2>2. d.policies = [db.policies EXCEPT ![p] = new]
    BY <1>0 DEF Store
  <2> HIDE DEF new
  <2>3. /\ d \in Store /\ d.pools = db.pools /\ d.rules = db.rules
        /\ d.bindings = db.bindings /\ d.egresses = db.egresses /\ d.inbounds = db.inbounds
    BY <1>0, <2>1, <2>2 DEF Store
  <2>4. Write(h, Cleanup(d, p))
    BY <1>7
  <2> HIDE DEF d
  <2> QED
    BY <1>6, <2>1, <2>2, <2>3, <2>4
<1>8. ASSUME NEW k \in Keys, row.owner = "exec", ItemIntact(p, k),
             Write(h, Cleanup([db EXCEPT
                 !.policies[p].items[k] = {},
                 !.rules = [r \in Rules |-> IF r \in row.items[k] THEN None ELSE @[r]]], p))
      PROVE  Sound(h)
  <2> DEFINE rs == row.items[k]
             new == [row EXCEPT !.items[k] = {}]
             d == [db EXCEPT !.policies[p].items[k] = {},
                             !.rules = [r \in Rules |-> IF r \in rs THEN None ELSE @[r]]]
  <2>1. new \in PolicyRow /\ new.owner = "exec" /\ new.default = row.default
    BY <1>2, <1>8 DEF PolicyRow
  <2>2. d.policies = [db.policies EXCEPT ![p] = new]
    BY <1>0 DEF Store
  <2> HIDE DEF new
  <2>3. /\ d \in Store /\ d.pools = db.pools
        /\ d.rules = [r \in Rules |-> IF r \in rs THEN None ELSE db.rules[r]]
        /\ d.bindings = db.bindings /\ d.egresses = db.egresses /\ d.inbounds = db.inbounds
    BY <1>0, <2>1, <2>2 DEF Store
  <2>4. Write(h, Cleanup(d, p))
    BY <1>8
  <2> HIDE DEF d
  <2>5. rs \subseteq RulesOf(db, p)
    BY <1>8 DEF ItemIntact
  <2>6. \A r \in Rules : d.rules[r] # db.rules[r] =>
          db.rules[r] # None /\ db.rules[r].policy = p /\ d.rules[r] = None
    BY <2>3, <2>5 DEF RulesOf
  <2> QED
    BY <1>6, <2>1, <2>2, <2>3, <2>4, <2>6
<1> QED
  BY <1>1, <1>4, <1>5, <1>7, <1>8

-----------------------------------------------------------------------------
(* InboundService *)

\* A new inbound is not bound yet.
LEMMA AddInboundSound ==
  ASSUME IInv, SInv, NEW h \in Handlers, AddInbound(h)
  PROVE  Sound(h)
<1>0. StoreInv(db) /\ db \in Store /\ HandlersInv /\ Whole(db)
  BY Start
<1>1. PICK i \in Inbounds : Write(h, [db EXCEPT !.inbounds = @ \cup {i}])
  BY DEF AddInbound
<1> DEFINE d == [db EXCEPT !.inbounds = @ \cup {i}]
<1>2. /\ d \in Store /\ d.egresses = db.egresses /\ d.pools = db.pools
      /\ d.policies = db.policies /\ d.rules = db.rules /\ d.bindings = db.bindings
      /\ db.inbounds \subseteq d.inbounds
  BY <1>0 DEF Store
<1> HIDE DEF d
<1>3. Harmless(db, d)
  BY <1>0, <1>2, EgressWritten
<1>4. \A t : There(db, t) <=> There(d, t)
  BY <1>2 DEF There
<1>5. Whole(d)
  BY <1>0, <1>2, <1>3, <1>4, EgressSound DEF Whole, Resolved
<1> QED
  BY <1>0, <1>1, <1>5, SoundWrite DEF d

\* An inbound goes with its binding, and with its simple policy, which nobody else has.
LEMMA DelInboundSound ==
  ASSUME IInv, SInv, NEW h \in Handlers, DelInbound(h), ~reissued'
  PROVE  Sound(h)
<1>0. StoreInv(db) /\ db \in Store /\ HandlersInv /\ Whole(db) /\ StoreInv(db')
  BY SimpleStart
<1>1. PICK i \in Inbounds : Write(h, [CleanedUp(i) EXCEPT !.inbounds = @ \ {i}])
  BY DEF DelInbound
<1> DEFINE p == db.bindings[i]
           unbound == [db EXCEPT !.bindings[i] = None]
           d == [CleanedUp(i) EXCEPT !.inbounds = @ \ {i}]
<1>2. /\ unbound \in Store /\ unbound.pools = db.pools
      /\ unbound.policies = db.policies /\ unbound.rules = db.rules
      /\ unbound.bindings = [db.bindings EXCEPT ![i] = None]
      /\ unbound.egresses = db.egresses /\ unbound.inbounds = db.inbounds
  BY <1>0 DEF Store
<1> HIDE DEF unbound
<1>3. CASE p # None /\ Simple(p) /\ \A j \in Inbounds \ {i} : db.bindings[j] # p
  <2>1. CleanedUp(i) = WithoutPolicy(unbound, p)
    BY <1>3 DEF CleanedUp, unbound
  <2>2. p \in Policies
    BY <1>0, <1>3, Rows
  <2>3. unbound.bindings[i] = None /\ \A j \in Inbounds \ {i} : unbound.bindings[j] = db.bindings[j]
    BY <1>0, <1>2, Fields
  <2> DEFINE e == WithoutPolicy(unbound, p)
  <2>4. Wiped(unbound, e, i, p)
    BY <1>2, <1>3, <2>2, <2>3, PolicyWiped
  <2>5. /\ e.egresses = db.egresses /\ e.inbounds = db.inbounds
        /\ e.rules = [r \in Rules |-> IF r \in RulesOf(unbound, p) THEN None ELSE db.rules[r]]
        /\ RulesOf(unbound, p) = RulesOf(db, p)
    BY <1>2 DEF WithoutPolicy, Store, RulesOf
  <2>6. d = [e EXCEPT !.inbounds = @ \ {i}]
    BY <2>1
  <2> HIDE DEF e
  <2>7. /\ d \in Store /\ d.pools = e.pools /\ d.policies = e.policies
        /\ d.bindings = e.bindings /\ d.rules = e.rules /\ d.egresses = db.egresses
        /\ d.inbounds = db.inbounds \ {i}
    BY <2>4, <2>5, <2>6 DEF Wiped, Store
  <2> HIDE DEF d
  <2>8. RulesOf(d, p) = {}
    BY <2>5, <2>7 DEF RulesOf
  <2>9. Wiped(db, d, i, p)
    BY <1>2, <2>3, <2>4, <2>7 DEF Wiped
  <2>10. Whole(d)
    <3> HIDE DEF p
    <3>1. db.bindings[i] = p
      BY DEF p
    <3> QED
      BY <1>0, <1>3, <2>2, <2>7, <2>8, <2>9, <3>1, WipedSound
  <2> QED
    BY <1>0, <1>1, <2>10, SoundWrite DEF d
<1>4. CASE ~(p # None /\ Simple(p) /\ \A j \in Inbounds \ {i} : db.bindings[j] # p)
  <2>1. CleanedUp(i) = unbound
    BY <1>4 DEF CleanedUp, unbound
  <2>2. /\ d \in Store /\ d.pools = db.pools /\ d.policies = db.policies
        /\ d.bindings = [db.bindings EXCEPT ![i] = None] /\ d.rules = db.rules
        /\ d.egresses = db.egresses /\ d.inbounds = db.inbounds \ {i}
    BY <1>2, <2>1 DEF Store
  <2> HIDE DEF d
  <2>3. Harmless(db, d)
    BY <1>0, <2>2, BindingWritten
  <2>4. Loose(db, i)
    BY <1>0, <1>4 DEF Loose, Simple, SimpleIn, StoreInv, BoundOnce
  <2>5. Whole(d)
    BY <1>0, <2>2, <2>3, <2>4, BindingSound
  <2> QED
    BY <1>0, <1>1, <2>5, SoundWrite DEF d
<1> QED
  BY <1>3, <1>4

-----------------------------------------------------------------------------
(* All steps together *)

\* The database the panel finds is whole, an older version's too.
LEMMA WholeInit == ASSUME Init PROVE Whole(db)
<1>1. PICK es \in SUBSET Egresses, is \in SUBSET Inbounds :
        \/ db = Empty(es, is)
        \/ \E i \in is, e \in es, p \in Policies, rs \in SUBSET Rules :
             /\ rs = {} <=> LegacyKey = All
             /\ db = Legacy(Empty(es, is), i, e, p, rs)
  BY DEF Init
<1>2. CASE db = Empty(es, is)
  <2>1. /\ db.policies = [p \in Policies |-> None] /\ db.rules = [r \in Rules |-> None]
        /\ db.bindings = [i \in Inbounds |-> None] /\ db.pools = [q \in Pools |-> None]
    BY <1>2 DEF Empty
  <2> QED
    BY <2>1 DEF Whole, Owned, Resolved, Reached, SimpleIn
<1>3. ASSUME NEW i \in is, NEW e \in es, NEW p \in Policies, NEW rs \in SUBSET Rules,
             rs = {} <=> LegacyKey = All,
             db = Legacy(Empty(es, is), i, e, p, rs)
      PROVE  Whole(db)
  <2> DEFINE row == [owner |-> "legacy", items |-> [k \in Keys |-> {}],
                     default |-> IF LegacyKey = All THEN e ELSE None]
             rule == [policy |-> p, target |-> e]
  <2>1. row \in PolicyRow /\ row # None /\ row.default = IF LegacyKey = All THEN e ELSE None
    BY IdAssumption DEF PolicyRow, Targets
  <2>2. rule.policy = p /\ rule.target = e /\ rule # None
    BY IdAssumption DEF RuleRow, Targets
  <2>3. db = [Inserted(Empty(es, is), rs, rule)
                EXCEPT !.policies[p] = row, !.bindings[i] = p]
    BY <1>3 DEF Legacy
  <2>4. i \in Inbounds /\ p # None /\ e # None /\ i \in is /\ e \in es
    BY IdAssumption DEF Ids
  <2> HIDE DEF row, rule
  <2>5. /\ db.policies = [q \in Policies |-> IF q = p THEN row ELSE None]
        /\ db.rules = [r \in Rules |-> IF r \in rs THEN rule ELSE None]
        /\ db.bindings = [j \in Inbounds |-> IF j = i THEN p ELSE None]
        /\ db.pools = [q \in Pools |-> None]
        /\ db.egresses = es /\ db.inbounds = is
    BY <2>3, <2>4 DEF Inserted, Empty
  <2>6. Owned(db)
    BY <2>1, <2>2, <2>4, <2>5 DEF Owned
  <2>7. Resolved(db)
    BY <2>1, <2>2, <2>4, <2>5 DEF Resolved, There
  <2>8. Reached(db)
    <3> SUFFICES ASSUME NEW q \in Policies, SimpleIn(db, q)
                 PROVE  /\ \E j \in Inbounds : db.bindings[j] = q
                        /\ db.policies[q].default # None \/ RulesOf(db, q) # {}
      BY DEF Reached
    <3>1. q = p /\ db.bindings[i] = p /\ db.policies[p] = row
      BY <2>4, <2>5 DEF SimpleIn
    <3>2. LegacyKey # All => rs # {} /\ rs \subseteq RulesOf(db, p)
      BY <1>3, <2>2, <2>5 DEF RulesOf
    <3> QED
      BY <2>1, <2>4, <3>1, <3>2
  <2> QED
    BY <2>6, <2>7, <2>8 DEF Whole
<1> QED
  BY <1>1, <1>2, <1>3

\* The invariant holds when the panel starts.
LEMMA SInvInit == ASSUME Init PROVE SInv
<1>1. \A h \in Handlers : pc[h] = "idle" /\ loc[h] = Blank
  BY DEF Init
<1> QED
  BY <1>1, WholeInit, LearntNothing DEF SInv

\* Every step of a request gives what it has to.
LEMMA NextSound ==
  ASSUME IInv, SInv, NEW h \in Handlers,
         ~reissued',
         \/ SimpleRequest(h) \/ AdvancedRequest(h) \/ GroupRequest(h) \/ EgressRequest(h)
         \/ AddInbound(h) \/ DelInbound(h) \/ Fails(h)
  PROVE  Sound(h)
<1>1. CASE SimpleRequest(h)
  BY <1>1, CreateSound, UpdateSound, LegacyUpdateSound, DeleteSound DEF SimpleRequest
<1>2. CASE AdvancedRequest(h)
  BY <1>2, PolicyRequestsSound, RuleRequestsSound, BindingRequestsSound, TemplateSound
  DEF AdvancedRequest
<1>3. CASE GroupRequest(h)
  BY <1>3, GroupSound
<1>4. CASE EgressRequest(h)
  BY <1>4, EgressWriteSound, EgressDeleteSound, PoolSound DEF EgressRequest
<1>5. CASE DelInbound(h)
  BY <1>5, DelInboundSound
<1>6. CASE Fails(h)
  <2>1. HandlersInv /\ Whole(db') /\ Done(h)
    BY <1>6 DEF Fails, IInv, SInv
  <2> QED
    BY <2>1, SoundOver
<1>7. CASE AddInbound(h)
  BY <1>7, AddInboundSound
<1> QED
  BY <1>1, <1>2, <1>3, <1>4, <1>5, <1>6, <1>7

\* Between requests only rows name rows, and the policies they name are there.
LEMMA SerialNamed ==
  ASSUME OneHandler, IInv, SInv, NEW h \in Handlers, pc[h] = "idle", NEW n \in Named
  PROVE  n = None \/ (n \in Policies /\ db.policies[n] # None)
<1>1. db \in Store /\ Owned(db)
  BY DEF IInv, StoreInv, SInv, Whole
<1>2. {g \in Handlers : pc[g] # "idle"} = {}
  BY DEF OneHandler
<1>3. \/ \E r \in Present(db.rules) : n = db.rules[r].policy
      \/ \E i \in Inbounds : n = db.bindings[i]
  BY <1>2 DEF Named
<1>4. \A r \in Present(db.rules) :
        db.rules[r].policy \in Policies /\ db.policies[db.rules[r].policy] # None
  BY <1>1, Fields, Rows DEF Present, Owned
<1>5. \A i \in Inbounds : db.bindings[i] # None =>
        db.bindings[i] \in Policies /\ db.policies[db.bindings[i]] # None
  BY <1>1, Rows DEF Owned
<1> QED
  BY <1>3, <1>4, <1>5

\* With one handler no id is given out while somebody still names it.
LEMMA SerialIssuesNone ==
  ASSUME OneHandler, IInv, SInv, ~reissued, [Next]_vars
  PROVE  ~reissued'
<1>1. CASE UNCHANGED vars
  BY <1>1 DEF vars
<1>2. ASSUME NEW h \in Handlers, SimpleCreate(h) PROVE ~reissued'
  <2>0. db \in Store /\ pc[h] = "idle"
    BY <1>2 DEF IInv, StoreInv, SimpleCreate, Starts
  <2>1. PICK i \in db.inbounds, e \in db.egresses : \E x \in ExecutionPolicies(i) :
          LET p == x[1]
              row == x[2]
              new == {p} \ Present(db.policies)
              Policy(r) == [db EXCEPT !.policies[p] = r, !.bindings[i] = p]
          IN  \/ /\ row.default \notin Egresses
                 /\ Issue(h, Policy([row EXCEPT !.default = e]), new)
              \/ \E k \in Keys : \E rs \in NewRules(IF k \in Custom THEN 1 ELSE MaxSnapshot) :
                   /\ row.items[k] = {} /\ KeepsDefault(row)
                   /\ Issue(h, Inserted(Policy([row EXCEPT !.items[k] = rs]), rs,
                                        [policy |-> p, target |-> e]),
                            new \cup rs)
    BY <1>2 DEF SimpleCreate
  <2>2. PICK x \in ExecutionPolicies(i), rs \in SUBSET Rules :
          reissued' = (reissued \/ (({x[1]} \ Present(db.policies)) \cup rs) \cap Named # {})
    <3>1. PICK x \in ExecutionPolicies(i) :
          LET p == x[1]
              row == x[2]
              new == {p} \ Present(db.policies)
              Policy(r) == [db EXCEPT !.policies[p] = r, !.bindings[i] = p]
          IN  \/ /\ row.default \notin Egresses
                 /\ Issue(h, Policy([row EXCEPT !.default = e]), new)
              \/ \E k \in Keys : \E rs \in NewRules(IF k \in Custom THEN 1 ELSE MaxSnapshot) :
                   /\ row.items[k] = {} /\ KeepsDefault(row)
                   /\ Issue(h, Inserted(Policy([row EXCEPT !.items[k] = rs]), rs,
                                        [policy |-> p, target |-> e]),
                            new \cup rs)
      BY <2>1
    <3> DEFINE new == {x[1]} \ Present(db.policies)
    <3>2. ASSUME NEW d, Issue(h, d, new)
          PROVE  \E rs \in SUBSET Rules : reissued' = (reissued \/ (new \cup rs) \cap Named # {})
      <4>1. reissued' = (reissued \/ new \cap Named # {})
        BY <3>2 DEF Issue
      <4>2. new \cup {} = new /\ {} \in SUBSET Rules
        OBVIOUS
      <4> HIDE DEF new
      <4> QED
        BY <4>1, <4>2
    <3>3. ASSUME NEW n, NEW rs \in NewRules(n), NEW d, Issue(h, d, new \cup rs)
          PROVE  \E s \in SUBSET Rules : reissued' = (reissued \/ (new \cup s) \cap Named # {})
      <4>1. rs \in SUBSET Rules
        BY <2>0, <3>3, Fields DEF NewRules, Above
      <4>2. reissued' = (reissued \/ (new \cup rs) \cap Named # {})
        BY <3>3 DEF Issue
      <4> HIDE DEF new
      <4> QED
        BY <4>1, <4>2
    <3> QED
      BY <3>1, <3>2, <3>3
  <2>3. \A n \in Named : n = None \/ (n \in Policies /\ db.policies[n] # None)
    BY <2>0, SerialNamed
  <2>4. x[1] # None
    <3>1. \A q \in NewId(db.policies) : q \in Policies
      BY <2>0, Fields DEF NewId, Above
    <3> QED
      BY <3>1, IdAssumption DEF ExecutionPolicies, Ids
  <2>5. x[1] \in Named => x[1] \in Present(db.policies)
    BY <2>0, <2>3, <2>4, Fields DEF Present
  <2>6. \A r \in rs : r \notin Named
    BY <2>3, IdAssumption DEF Ids
  <2>7. (({x[1]} \ Present(db.policies)) \cup rs) \cap Named = {}
    BY <2>5, <2>6
  <2> QED
    BY <2>2, <2>7
<1>3. ASSUME NEW h \in Handlers,
             \/ SimpleUpdate(h) \/ LegacyUpdate(h) \/ SimpleDelete(h)
             \/ AdvancedRequest(h) \/ GroupRequest(h) \/ EgressRequest(h)
             \/ AddInbound(h) \/ DelInbound(h) \/ Fails(h)
      PROVE  ~reissued'
  BY <1>3, OthersIssueNone
<1> QED
  BY <1>1, <1>2, <1>3 DEF Next, SimpleRequest

\* With one handler, what it knows is all that has to be kept.
LEMMA SerialInductive ==
  ASSUME OneHandler, IInv, SInv, [Next]_vars, ~reissued'
  PROVE  SInv'
<1>1. CASE Next
  <2>1. PICK h \in Handlers :
          \/ SimpleRequest(h) \/ AdvancedRequest(h) \/ GroupRequest(h) \/ EgressRequest(h)
          \/ AddInbound(h) \/ DelInbound(h) \/ Fails(h)
    BY <1>1 DEF Next
  <2>2. Whole(db') /\ Learnt(db', pc'[h], loc'[h])
    BY <2>1, NextSound DEF Sound
  <2>3. \A g \in Handlers : g = h
    BY DEF OneHandler
  <2> QED
    BY <2>2, <2>3 DEF SInv
<1>2. CASE UNCHANGED vars
  BY <1>2 DEF vars, SInv
<1> QED
  BY <1>1, <1>2

\* The tables are whole in every reachable state, between the statements of a request too.
LEMMA SerialInvariantHolds ==
  ASSUME OneHandler PROVE Spec => [](IInv /\ SInv /\ ~reissued)
<1>1. Init => IInv /\ SInv /\ ~reissued
  BY IInvInit, SInvInit DEF Init
<1>2. IInv /\ SInv /\ ~reissued /\ [Next]_vars => (IInv /\ SInv /\ ~reissued)'
  <2> SUFFICES ASSUME IInv, SInv, ~reissued, [Next]_vars
               PROVE  IInv' /\ SInv' /\ ~reissued'
    OBVIOUS
  <2>1. ~reissued'
    BY SerialIssuesNone
  <2> QED
    BY <2>1, Inductive, SerialInductive
<1> QED
  BY <1>1, <1>2, PTL DEF Spec

-----------------------------------------------------------------------------
(* Results *)

\* When requests do not overlap and no rule group becomes an ordinary policy, nothing
\* names an egress or pool that is not there: the counts of ensureNotReferenced, and the
\* tests of the target before each write, leave out no table.
THEOREM NothingDangles ==
  ASSUME OneHandler, "group" \notin Kinds
  PROVE  Spec => []TargetsExist
<1>1. SInv => TargetsExist
  <2> SUFFICES ASSUME Resolved(db) PROVE TargetsExist
    BY DEF SInv, Whole
  <2> QED
    BY DEF Resolved, TargetsExist, There, Exists, KeepsDefault
<1> QED
  BY <1>1, SerialInvariantHolds, PTL

\* When requests do not overlap, no rule and no binding is left without its policy, and no
\* binding without its inbound: every deletion takes along what depends on the row.
THEOREM NoRowOrphaned ==
  ASSUME OneHandler
  PROVE  Spec => []NoOrphanRows
<1>1. SInv => NoOrphanRows
  BY DEF SInv, Whole, Owned, NoOrphanRows
<1> QED
  BY <1>1, SerialInvariantHolds, PTL

\* When requests do not overlap and no template is applied, a simple policy is bound to one
\* inbound and says something, so the page can show it and delete it.
THEOREM AlwaysReachable ==
  ASSUME OneHandler, "template" \notin Kinds
  PROVE  Spec => []SimpleReachable
<1>1. IInv /\ SInv => SimpleReachable
  <2> SUFFICES ASSUME StoreInv(db), Reached(db), NEW p \in Policies, SimpleIn(db, p)
               PROVE  /\ Cardinality({i \in Inbounds : db.bindings[i] = p}) = 1
                      /\ db.policies[p].default # None \/ RulesOf(db, p) # {}
    BY DEF IInv, SInv, Whole, SimpleReachable, Simple, SimpleIn
  <2>1. PICK i \in Inbounds : db.bindings[i] = p
    BY DEF Reached
  <2>2. p # None
    BY IdAssumption DEF Ids
  <2>3. {j \in Inbounds : db.bindings[j] = p} = {i}
    BY <2>1, <2>2 DEF StoreInv, BoundOnce
  <2>4. Cardinality({i}) = 1
    BY FS_Singleton
  <2> QED
    BY <2>3, <2>4 DEF Reached
<1> QED
  BY <1>1, SerialInvariantHolds, PTL
=============================================================================
