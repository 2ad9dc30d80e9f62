---------------------------- MODULE RoutingOrder ----------------------------
(***************************************************************************)
(* Which rule of the simple page a visit follows.                          *)
(*                                                                         *)
(* The rules of one inbound overlap: a domain may be named exactly, by a   *)
(* suffix, a keyword or a regular expression, and the lists of several     *)
(* rule groups may hold it.  Xray takes the first rule that matches.  The  *)
(* generation sorts them by a rank that it reads from the metadata of the  *)
(* policy; before a rule is saved another function of the panel ranks the  *)
(* same rules again, to tell the administrator which of two will win.      *)
(*                                                                         *)
(* The inbound has a policy in the present format, whose requests are      *)
(* transactions (PolicyStore shows that), so one request is one step here. *)
(***************************************************************************)
EXTENDS Integers, Sequences, FiniteSets, Functions

CONSTANTS
  Domains,    \* names that are visited, and the values of exact and suffix rules
  Under,      \* pairs <<d, s>>: d is s or ends in "." and s
  Patterns,   \* keywords and regular expressions
  Matched,    \* per pattern the names that contain or match it
  Groups,     \* rule groups
  GroupType,  \* per group "custom", "ai", "game" or "streaming"
  GroupRules, \* per group its enabled rules, a sequence
  Egresses,
  None,
  RuleIds,    \* row ids of the rules, handed out in order; that SQLite may give a
              \* deleted id to the next row instead changes no order, nobody holds it
  MaxItems    \* bound on the rules of the page

Matchers == [mode : {"exact", "suffix"}, value : Domains]
            \cup [mode : {"keyword", "regexp"}, value : Patterns]

ASSUME RelationAssumption ==
  /\ Under \subseteq Domains \X Domains
  /\ \A d \in Domains : <<d, d>> \in Under
  /\ \A p, q \in Under : p[2] = q[1] => <<p[1], q[2]>> \in Under
  /\ Matched \in [Patterns -> SUBSET Domains]
ASSUME GroupAssumption ==
  /\ GroupType \in [Groups -> {"custom", "ai", "game", "streaming"}]
  /\ \A g \in Groups : GroupRules[g] \in Seq(Matchers) /\ GroupRules[g] # <<>>
ASSUME MaxAssumption == MaxItems \in Nat
ASSUME IdAssumption ==
  /\ RuleIds \subseteq Nat
  /\ None \notin Egresses \cup Groups \cup [matcher : Matchers, target : Egresses]

VARIABLES
  items,    \* the items of the policy's remark, in the order of their creation
  rules,    \* the rows: matcher and egress, None for an id without a row
  default,  \* the rule for all traffic: the policy's default target
  next      \* the next id of the table of rules

vars == <<items, rules, default, next>>

\* An item is a custom domain, with its one rule, or a group, with the rules that
\* the group had when it was chosen.
Item == [group : Groups \cup {None}, ids : Seq(RuleIds)]
Rows == {r \in RuleIds : rules[r] # None}
IdsOf(item) == Range(item.ids)
MatchersOf(item) == [k \in DOMAIN item.ids |-> rules[item.ids[k]].matcher]

\* What a rule's matcher matches, in Xray.
Covers(m) ==
  CASE m.mode = "exact"  -> {m.value}
    [] m.mode = "suffix" -> {d \in Domains : <<d, m.value>> \in Under}
    [] OTHER             -> Matched[m.value]

-----------------------------------------------------------------------------
(* The generation *)

DomainPriority == [exact |-> 10, suffix |-> 20, keyword |-> 30, regexp |-> 40]
GroupPriority == [custom |-> 50, ai |-> 60, game |-> 70, streaming |-> 80]

\* simpleRoutingItemPriority: the mode of the row, or the type of the group.
ItemPriority(item, r) ==
  IF item.group # None   THEN GroupPriority[GroupType[item.group]]
  ELSE IF r \in Rows     THEN DomainPriority[rules[r].matcher.mode]
  ELSE 49

\* rankByRuleID: priority, position of the item, position in the item.  A row
\* that no item lists comes last, in the order of the ids.
Rank(r) ==
  IF \E n \in DOMAIN items : r \in IdsOf(items[n])
    THEN LET n == CHOOSE n \in DOMAIN items : r \in IdsOf(items[n])
         IN  <<ItemPriority(items[n], r), n,
               CHOOSE k \in DOMAIN items[n].ids : items[n].ids[k] = r>>
    ELSE <<1000, 0, r>>

\* Mutant: older items first.
RankBeforeByAge(a, b) ==
  \/ a[2] < b[2]
  \/ a[2] = b[2] /\ a[1] < b[1]
  \/ a[2] = b[2] /\ a[1] = b[1] /\ a[3] < b[3]

RankBefore(a, b) ==
  \/ a[1] < b[1]
  \/ a[1] = b[1] /\ a[2] < b[2]
  \/ a[1] = b[1] /\ a[2] = b[2] /\ a[3] < b[3]

\* sortedRoutingRulesForPolicy: sorted by a strict order of the rows.
Before(q, r) == RankBefore(Rank(q), Rank(r))

\* The rules of the inbound in this order, then the default; what they leave goes
\* to Xray's own routing.
Route(d) ==
  LET hit == {r \in Rows : d \in Covers(rules[r].matcher)}
      rank == [r \in hit |-> Rank(r)]
  IN  IF hit = {} THEN default
      ELSE rules[CHOOSE r \in hit : \A q \in hit \ {r} : RankBefore(rank[r], rank[q])].target

-----------------------------------------------------------------------------
(* The preview of conflicts *)

\* Mutant: custom groups were moved behind the built-in ones, in this table only.
BusinessGroupReordered == [custom |-> 90, ai |-> 60, game |-> 70, streaming |-> 80]

\* simpleBusinessPriority has numbers of its own.
BusinessDomain == [exact |-> 10, suffix |-> 20, keyword |-> 30, regexp |-> 40]
BusinessGroup == [custom |-> 50, ai |-> 60, game |-> 70, streaming |-> 80]

BusinessPriority(group, m) ==
  IF group # None THEN BusinessGroup[GroupType[group]] ELSE BusinessDomain[m.mode]

\* simpleRuleOverlap: a keyword is looked for in the other value, and a regular
\* expression may always overlap.  Keywords are taken not to contain names or each
\* other.
Overlap(a, b) ==
  \/ "regexp" \in {a.mode, b.mode}
  \/ a.mode = "keyword" /\ b.mode = "keyword" /\ a.value = b.value
  \/ a.mode = "keyword" /\ b.mode # "keyword" /\ b.value \in Matched[a.value]
  \/ b.mode = "keyword" /\ a.mode # "keyword" /\ a.value \in Matched[b.value]
  \/ a.mode \in {"exact", "suffix"} /\ b.mode \in {"exact", "suffix"}
     /\ \/ a.value = b.value
        \/ b.mode = "suffix" /\ <<a.value, b.value>> \in Under
        \/ a.mode = "suffix" /\ <<b.value, a.value>> \in Under

Direction(p, q) ==
  IF p < q THEN "current" ELSE IF p > q THEN "existing" ELSE "same"

\* CheckSimpleRuleConflicts for the item that takes place n, with the rows cur of
\* matchers ms: the conflicts with the rows of the other items.
Conflicts(group, cur, ms, n) ==
  LET With(k, j) ==
        {[current |-> cur[k], existing |-> r,
          direction |-> Direction(BusinessPriority(group, ms[k]),
                                  BusinessPriority(items[j].group, rules[r].matcher))] :
           r \in {q \in IdsOf(items[j]) : Overlap(ms[k], rules[q].matcher)}}
  IN  UNION {UNION {With(k, j) : j \in DOMAIN items \ {n}} : k \in DOMAIN cur}

-----------------------------------------------------------------------------
(* The requests of the page *)

\* simpleExecutionItemKey.  A built-in group is known by its type.
GroupKey(g) == IF GroupType[g] = "custom" THEN <<"group", g>> ELSE <<"builtin", GroupType[g]>>
Key(item) ==
  IF item.group = None THEN <<"custom", rules[item.ids[1]].matcher>> ELSE GroupKey(item.group)
Used(key) == \E n \in DOMAIN items : Key(items[n]) = key

\* appendGroupSnapshotRules and AddRule: rows for the matchers ms, the item at the end.
AddItem(group, ms, e) ==
  LET ids == [k \in DOMAIN ms |-> next + k - 1]
  IN  /\ Len(items) < MaxItems /\ Range(ids) \subseteq RuleIds
      /\ rules' = [r \in RuleIds |-> IF r \in Range(ids)
                                        THEN [matcher |-> ms[r - next + 1], target |-> e]
                                        ELSE rules[r]]
      /\ items' = Append(items, [group |-> group, ids |-> ids])
      /\ next' = next + Len(ms)
      /\ UNCHANGED default

CreateCustom(m, e) == ~Used(<<"custom", m>>) /\ AddItem(None, <<m>>, e)

CreateGroup(g, e) == ~Used(GroupKey(g)) /\ AddItem(g, GroupRules[g], e)

CreateAll(e) ==
  /\ default = None /\ default' = e
  /\ UNCHANGED <<items, rules, next>>

\* Mutant: the new matcher is not compared with the other rules.
UpdateCustomUnchecked(n, m, e) ==
  /\ items[n].group = None
  /\ LET r == items[n].ids[1]
     IN  rules' = [rules EXCEPT ![r] = [matcher |-> m, target |-> e]]
  /\ UNCHANGED <<items, default, next>>

\* updateCustomDomainSimpleRule: the row gets another matcher and egress; the item
\* keeps its place.
UpdateCustom(n, m, e) ==
  /\ items[n].group = None
  /\ LET r == items[n].ids[1] IN
     /\ m # rules[r].matcher => ~Used(<<"custom", m>>)
     /\ rules' = [rules EXCEPT ![r] = [matcher |-> m, target |-> e]]
  /\ UNCHANGED <<items, default, next>>

\* updateSimpleRule of a group: its rows get another egress.
UpdateGroup(n, e) ==
  /\ items[n].group # None
  /\ rules' = [r \in RuleIds |-> IF r \in IdsOf(items[n]) THEN [rules[r] EXCEPT !.target = e]
                                                         ELSE rules[r]]
  /\ UNCHANGED <<items, default, next>>

UpdateAll(e) ==
  /\ default # None /\ default' = e
  /\ UNCHANGED <<items, rules, next>>

\* The items whose places are in S, in their order.
Kept(S) ==
  [k \in 1..Cardinality(S) |->
     items[CHOOSE m \in S : Cardinality({l \in S : l <= m}) = k]]

\* Mutant: every item of the same kind leaves the remark.
DeleteItemKind(n) ==
  /\ rules' = [r \in RuleIds |-> IF r \in IdsOf(items[n]) THEN None ELSE rules[r]]
  /\ items' = Kept({m \in DOMAIN items : (items[m].group = None) # (items[n].group = None)})
  /\ UNCHANGED <<default, next>>

\* deleteSimpleRule: the rows of the item, and every item with its key.
DeleteItem(n) ==
  /\ rules' = [r \in RuleIds |-> IF r \in IdsOf(items[n]) THEN None ELSE rules[r]]
  /\ items' = Kept({m \in DOMAIN items : Key(items[m]) # Key(items[n])})
  /\ UNCHANGED <<default, next>>

DeleteAll ==
  /\ default # None /\ default' = None
  /\ UNCHANGED <<items, rules, next>>

-----------------------------------------------------------------------------
Init ==
  /\ items = <<>> /\ rules = [r \in RuleIds |-> None] /\ default = None
  /\ next = 1

Next ==
  \/ \E e \in Egresses :
       \/ \E m \in Matchers : CreateCustom(m, e)
       \/ \E g \in Groups : CreateGroup(g, e)
       \/ CreateAll(e) \/ UpdateAll(e)
       \/ \E n \in DOMAIN items : UpdateGroup(n, e) \/ \E m \in Matchers : UpdateCustom(n, m, e)
  \/ \E n \in DOMAIN items : DeleteItem(n)
  \/ DeleteAll

Spec == Init /\ [][Next]_vars

-----------------------------------------------------------------------------
(* Properties *)

\* Every row belongs to one place of one item, and every id of an item has its row.
TypeOK ==
  /\ items \in Seq(Item) /\ Len(items) <= MaxItems
  /\ rules \in [RuleIds -> [matcher : Matchers, target : Egresses] \cup {None}]
  /\ default \in Egresses \cup {None}
  /\ next \in Nat
  /\ Rows = UNION {IdsOf(items[n]) : n \in DOMAIN items}
  /\ \A n, m \in DOMAIN items :
       \A k \in DOMAIN items[n].ids, l \in DOMAIN items[m].ids :
         items[n].ids[k] = items[m].ids[l] => n = m /\ k = l

\* The documented order, docs/history/01_FIX_01_10.md:107-117.
Documented == <<"exact", "suffix", "keyword", "regexp", "custom", "ai", "game", "streaming">>
Class(r) ==
  LET n == CHOOSE n \in DOMAIN items : r \in IdsOf(items[n])
  IN  IF items[n].group = None THEN rules[r].matcher.mode ELSE GroupType[items[n].group]
Place(r) == CHOOSE k \in DOMAIN Documented : Documented[k] = Class(r)

\* A visit leaves through the egress of a rule of the best documented class among
\* those that match, whenever and in whatever order the rules were created, edited
\* and deleted; the default gets what no rule matches.
BestClassWins ==
  \A d \in Domains :
    LET match == {r \in Rows : d \in Covers(rules[r].matcher)}
        best == {r \in match : \A q \in match : Place(r) <= Place(q)}
    IN  IF match = {} THEN Route(d) = default
                      ELSE \E r \in best : Route(d) = rules[r].target

\* What the preview says of the rules of an item, when it is added or edited as it is
\* now, is what Xray does with a visit that both rules match.
PreviewTrue ==
  \A n \in DOMAIN items :
    \A c \in Conflicts(items[n].group, items[n].ids, MatchersOf(items[n]), n) :
    /\ c.direction = "current" => Before(c.current, c.existing)
    /\ c.direction = "existing" => Before(c.existing, c.current)

\* A request re-routes no name but those that a rule it adds, changes or removes
\* matches, or that no rule matches and for which it changes the default.
OthersKeepRoute ==
  [][\A d \in Domains :
       \/ \E r \in RuleIds :
            /\ rules'[r] # rules[r]
            /\ \/ r \in Rows /\ d \in Covers(rules[r].matcher)
               \/ r \in Rows' /\ d \in Covers(rules'[r].matcher)
       \/ Route(d)' = Route(d)
       \/ default' # default /\ \A r \in Rows : d \notin Covers(rules[r].matcher)]_vars
=============================================================================
