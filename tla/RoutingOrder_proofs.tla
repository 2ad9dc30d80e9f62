------------------------ MODULE RoutingOrder_proofs ------------------------
(***************************************************************************)
(* A visit follows the documented order, the preview tells the truth and   *)
(* no other visit is re-routed, for any names, patterns, groups and rules. *)
(*                                                                         *)
(* All of it rests on one fact about the state: every row has exactly one  *)
(* place in the metadata of the policy.  The rank is then a strict order   *)
(* of the rows, a visit has one winner, and a request that moves places    *)
(* moves them without exchanging two.                                      *)
(***************************************************************************)
EXTENDS RoutingOrder, FiniteSetTheorems, TLAPS

Types ==
  /\ items \in Seq(Item) /\ Len(items) <= MaxItems
  /\ rules \in [RuleIds -> [matcher : Matchers, target : Egresses] \cup {None}]
  /\ default \in Egresses \cup {None}
  /\ next \in Nat \ {0}

\* Row k of item n is r.
Lists(n, k, r) == n \in DOMAIN items /\ k \in DOMAIN items[n].ids /\ items[n].ids[k] = r

Listed ==
  /\ \A n, k, r : Lists(n, k, r) => r \in Rows
  /\ \A r \in Rows : \E n, k : Lists(n, k, r)

Distinct == \A n, m, k, l, r : Lists(n, k, r) /\ Lists(m, l, r) => n = m /\ k = l

\* The ids to come are above those in use.
FreshInv == \A r \in Rows : r < next

\* A custom domain has one row, a group at least one.
IdsInv ==
  \A n \in DOMAIN items : /\ items[n].ids # <<>>
                          /\ items[n].group = None => Len(items[n].ids) = 1

KeyAt(n) == Key(items[n])

\* Two items never have the same key, so that a deletion takes one item.
KeysInv == \A n, m \in DOMAIN items : KeyAt(n) = KeyAt(m) => n = m

IInv == Types /\ Listed /\ Distinct /\ FreshInv /\ IdsInv /\ KeysInv

-----------------------------------------------------------------------------
(* Least elements and sequences without one *)

\* A set of natural numbers that is not empty has a least one.
LEMMA Least == ASSUME NEW S \in SUBSET Nat, S # {} PROVE \E m \in S : \A k \in S : m <= k
<1> DEFINE R == {p \in Nat \X Nat : p[1] < p[2]}
<1>1. IsWellFoundedOn(R, Nat)
  BY NatLessThanWellFounded DEF OpToRel
<1>2. \A m, k \in Nat : <<k, m>> \in R <=> k < m
  OBVIOUS
<1> HIDE DEF R
<1>3. PICK m \in S : \A k \in S : <<k, m>> \notin R
  BY <1>1, WFMin
<1>4. ASSUME NEW k \in S PROVE m <= k
  <2>1. m \in Nat /\ k \in Nat /\ ~(k < m)
    BY <1>2, <1>3
  <2> QED
    BY <2>1
<1> QED
  BY <1>4

\* Among things that are ranked some come first, and they have the same rank.
LEMMA First ==
  ASSUME NEW H, H # {}, NEW rank, rank \in [H -> Nat \X Nat \X Nat]
  PROVE  \E w \in H : \A q \in H : rank[q] = rank[w] \/ RankBefore(rank[w], rank[q])
<1>0. \A q \in H : /\ rank[q] = <<rank[q][1], rank[q][2], rank[q][3]>>
                   /\ rank[q][1] \in Nat /\ rank[q][2] \in Nat /\ rank[q][3] \in Nat
  OBVIOUS
<1> DEFINE A == {rank[q][1] : q \in H}
<1>1. PICK a \in A : \A k \in A : a <= k
  <2>1. A \in SUBSET Nat /\ A # {}
    BY <1>0
  <2> QED
    BY <2>1, Least
<1> DEFINE HA == {q \in H : rank[q][1] = a}
           B == {rank[q][2] : q \in HA}
<1>2. PICK b \in B : \A k \in B : b <= k
  <2>1. B \in SUBSET Nat /\ B # {}
    BY <1>0, <1>1
  <2> HIDE DEF B
  <2> QED
    BY <2>1, Least
<1> DEFINE HB == {q \in HA : rank[q][2] = b}
           C == {rank[q][3] : q \in HB}
<1>3. PICK c \in C : \A k \in C : c <= k
  <2>1. C \in SUBSET Nat /\ C # {}
    BY <1>0, <1>2
  <2> HIDE DEF C
  <2> QED
    BY <2>1, Least
<1>4. PICK w \in HB : rank[w][3] = c
  BY <1>3
<1>5. w \in H /\ rank[w][1] = a /\ rank[w][2] = b /\ rank[w][3] = c
  BY <1>4
<1>6. ASSUME NEW q \in H PROVE rank[q] = rank[w] \/ RankBefore(rank[w], rank[q])
  <2>1. a <= rank[q][1]
    BY <1>1
  <2>2. rank[q][1] = a => b <= rank[q][2]
    BY <1>2
  <2>3. rank[q][1] = a /\ rank[q][2] = b => c <= rank[q][3]
    BY <1>3
  <2> QED
    BY <1>0, <1>5, <2>1, <2>2, <2>3 DEF RankBefore
<1> QED
  BY <1>5, <1>6

\* A rank is not before itself, and of two ranks not each before the other.
LEMMA Strict ==
  ASSUME NEW a \in Nat \X Nat \X Nat, NEW b \in Nat \X Nat \X Nat
  PROVE  /\ ~RankBefore(a, a)
         /\ ~(RankBefore(a, b) /\ RankBefore(b, a))
BY DEF RankBefore

\* Keeping all items but one closes the gap and exchanges nothing.
LEMMA KeptAllButOne ==
  ASSUME items \in Seq(Item), NEW n \in DOMAIN items
  PROVE  Kept(DOMAIN items \ {n}) =
           [k \in 1..(Len(items) - 1) |-> items[IF k < n THEN k ELSE k + 1]]
<1> DEFINE L == Len(items)
           S == DOMAIN items \ {n}
           at(k) == IF k < n THEN k ELSE k + 1
<1>1. DOMAIN items = 1..L /\ L \in Nat /\ n \in 1..L
  OBVIOUS
<1>2. S = 1..L \ {n}
  BY <1>1
<1> HIDE DEF L
<1>3. Cardinality(S) = L - 1
  <2>1. IsFiniteSet(1..L) /\ Cardinality(1..L) = L
    BY <1>1, FS_Interval
  <2> QED
    BY <1>1, <1>2, <2>1, FS_RemoveElement
<1>4. ASSUME NEW m \in S
      PROVE  Cardinality({l \in S : l <= m}) = IF n < m THEN m - 1 ELSE m
  <2>1. m \in 1..L /\ m # n
    BY <1>2
  <2>2. {l \in S : l <= m} = 1..m \ {n}
    BY <1>2, <2>1
  <2>3. IsFiniteSet(1..m) /\ Cardinality(1..m) = m
    BY <2>1, FS_Interval
  <2>4. Cardinality(1..m \ {n}) = IF n \in 1..m THEN m - 1 ELSE m
    BY <2>3, FS_RemoveElement
  <2>5. n \in 1..m <=> n < m
    BY <1>1, <2>1
  <2> QED
    BY <2>2, <2>4, <2>5
<1> HIDE DEF S
<1>5. ASSUME NEW k \in 1..(L - 1)
      PROVE  (CHOOSE m \in S : Cardinality({l \in S : l <= m}) = k) = at(k)
  <2>1. at(k) \in S /\ Cardinality({l \in S : l <= at(k)}) = k
    <3>1. at(k) \in S
      BY <1>1, <1>2
    <3>2. Cardinality({l \in S : l <= at(k)}) = IF n < at(k) THEN at(k) - 1 ELSE at(k)
      BY <1>4, <3>1
    <3> QED
      BY <1>1, <3>1, <3>2
  <2>2. ASSUME NEW m \in S, Cardinality({l \in S : l <= m}) = k PROVE m = at(k)
    <3>1. (IF n < m THEN m - 1 ELSE m) = k /\ m \in 1..L /\ m # n
      BY <1>2, <1>4, <2>2
    <3> QED
      BY <1>1, <3>1
  <2> HIDE DEF at
  <2> QED
    BY <2>1, <2>2
<1>6. Kept(S) = [k \in 1..(L - 1) |-> items[at(k)]]
  <2>1. Kept(S) = [k \in 1..(L - 1) |->
                     items[CHOOSE m \in S : Cardinality({l \in S : l <= m}) = k]]
    BY <1>3 DEF Kept
  <2> HIDE DEF at
  <2> QED
    BY <1>5, <2>1
<1> QED
  BY <1>6 DEF S, L

-----------------------------------------------------------------------------
(* Ranks *)

\* What an item of the metadata is made of.
LEMMA ItemTyped ==
  ASSUME Types, NEW n, n \in DOMAIN items
  PROVE  /\ n \in Nat \ {0} /\ items[n] \in Item
         /\ items[n].group \in Groups \cup {None}
         /\ items[n].ids \in Seq(RuleIds) /\ DOMAIN items[n].ids = 1..Len(items[n].ids)
         /\ \A r : r \in IdsOf(items[n]) <=> \E k : Lists(n, k, r)
<1>1. n \in Nat \ {0} /\ items[n] \in Item
  BY DEF Types
<1>2. items[n].group \in Groups \cup {None} /\ items[n].ids \in Seq(RuleIds)
  BY <1>1 DEF Item
<1>3. DOMAIN items[n].ids = 1..Len(items[n].ids)
  BY <1>2
<1>4. \A r : r \in IdsOf(items[n]) <=> \E k : Lists(n, k, r)
  BY DEF IdsOf, Range, Lists
<1> QED
  BY <1>1, <1>2, <1>3, <1>4

\* What a row is made of.
LEMMA RowTyped ==
  ASSUME Types, NEW r \in Rows
  PROVE  /\ r \in RuleIds /\ r \in Nat
         /\ rules[r] \in [matcher : Matchers, target : Egresses]
         /\ rules[r].matcher.mode \in {"exact", "suffix", "keyword", "regexp"}
<1>1. r \in RuleIds /\ r \in Nat /\ rules[r] \in [matcher : Matchers, target : Egresses]
  BY IdAssumption DEF Rows, Types
<1>2. rules[r].matcher \in Matchers
  BY <1>1
<1>3. rules[r].matcher.mode \in {"exact", "suffix", "keyword", "regexp"}
  BY <1>2 DEF Matchers
<1> QED
  BY <1>1, <1>3

\* The class of a row that item n lists.
ClassAt(n, r) ==
  IF items[n].group = None THEN rules[r].matcher.mode ELSE GroupType[items[n].group]

Classes == {"exact", "suffix", "keyword", "regexp", "custom", "ai", "game", "streaming"}

\* The place of a class in the documented order.
PlaceOf(class) == CHOOSE k \in DOMAIN Documented : Documented[k] = class

\* The priorities of the code are ten times the documented places.
LEMMA TenTimes ==
  ASSUME NEW class \in Classes
  PROVE  /\ PlaceOf(class) \in 1..8
         /\ class \in {"exact", "suffix", "keyword", "regexp"}
              => DomainPriority[class] = 10 * PlaceOf(class)
         /\ class \in {"custom", "ai", "game", "streaming"}
              => GroupPriority[class] = 10 * PlaceOf(class)
<1>1. DOMAIN Documented = 1..8
  BY DEF Documented
<1>2. ASSUME NEW k \in 1..8, Documented[k] = class PROVE PlaceOf(class) = k
  <2>1. \A l \in 1..8 : Documented[l] = class => l = k
    BY <1>2 DEF Documented
  <2> QED
    BY <1>1, <1>2, <2>1 DEF PlaceOf
<1>3. CASE class = "exact"
  <2>1. PlaceOf(class) = 1
    BY <1>2, <1>3 DEF Documented
  <2> QED
    BY <1>3, <2>1 DEF DomainPriority
<1>4. CASE class = "suffix"
  <2>1. PlaceOf(class) = 2
    BY <1>2, <1>4 DEF Documented
  <2> QED
    BY <1>4, <2>1 DEF DomainPriority
<1>5. CASE class = "keyword"
  <2>1. PlaceOf(class) = 3
    BY <1>2, <1>5 DEF Documented
  <2> QED
    BY <1>5, <2>1 DEF DomainPriority
<1>6. CASE class = "regexp"
  <2>1. PlaceOf(class) = 4
    BY <1>2, <1>6 DEF Documented
  <2> QED
    BY <1>6, <2>1 DEF DomainPriority
<1>7. CASE class = "custom"
  <2>1. PlaceOf(class) = 5
    BY <1>2, <1>7 DEF Documented
  <2> QED
    BY <1>7, <2>1 DEF GroupPriority
<1>8. CASE class = "ai"
  <2>1. PlaceOf(class) = 6
    BY <1>2, <1>8 DEF Documented
  <2> QED
    BY <1>8, <2>1 DEF GroupPriority
<1>9. CASE class = "game"
  <2>1. PlaceOf(class) = 7
    BY <1>2, <1>9 DEF Documented
  <2> QED
    BY <1>9, <2>1 DEF GroupPriority
<1>10. CASE class = "streaming"
  <2>1. PlaceOf(class) = 8
    BY <1>2, <1>10 DEF Documented
  <2> QED
    BY <1>10, <2>1 DEF GroupPriority
<1> QED
  BY <1>3, <1>4, <1>5, <1>6, <1>7, <1>8, <1>9, <1>10 DEF Classes

\* The rank of the row that item n lists at k, and its documented class.
LEMMA RankIs ==
  ASSUME IInv, NEW n, NEW k, NEW r, Lists(n, k, r)
  PROVE  /\ Rank(r) = <<10 * Place(r), n, k>>
         /\ Rank(r) = <<ItemPriority(items[n], r), n, k>>
         /\ Place(r) \in 1..8 /\ Rank(r) \in Nat \X Nat \X Nat
<1> USE DEF IInv
<1>1. r \in Rows /\ n \in DOMAIN items
  BY DEF Listed, Lists
<1>2. (CHOOSE m \in DOMAIN items : r \in IdsOf(items[m])) = n
  <2>1. r \in IdsOf(items[n])
    BY <1>1, ItemTyped
  <2>2. ASSUME NEW m \in DOMAIN items, r \in IdsOf(items[m]) PROVE m = n
    <3>1. PICK l : Lists(m, l, r)
      BY <2>2, ItemTyped
    <3> QED
      BY <3>1 DEF Distinct
  <2> QED
    BY <1>1, <2>1, <2>2
<1>3. (CHOOSE l \in DOMAIN items[n].ids : items[n].ids[l] = r) = k
  <2>1. k \in DOMAIN items[n].ids /\ items[n].ids[k] = r
    BY DEF Lists
  <2>2. ASSUME NEW l \in DOMAIN items[n].ids, items[n].ids[l] = r PROVE l = k
    <3>1. Lists(n, l, r)
      BY <1>1, <2>2 DEF Lists
    <3> QED
      BY <3>1 DEF Distinct
  <2> QED
    BY <2>1, <2>2
<1>4. Rank(r) = <<ItemPriority(items[n], r), n, k>>
  <2>1. \E m \in DOMAIN items : r \in IdsOf(items[m])
    BY <1>1, ItemTyped
  <2> QED
    BY <1>2, <1>3, <2>1 DEF Rank
<1>5. ItemPriority(items[n], r) = 10 * PlaceOf(ClassAt(n, r)) /\ PlaceOf(ClassAt(n, r)) \in 1..8
  <2>1. CASE items[n].group = None
    <3>1. rules[r].matcher.mode \in {"exact", "suffix", "keyword", "regexp"}
      BY <1>1, RowTyped
    <3>2. ClassAt(n, r) = rules[r].matcher.mode /\ ClassAt(n, r) \in Classes
      BY <2>1, <3>1 DEF ClassAt, Classes
    <3> QED
      BY <1>1, <2>1, <3>1, <3>2, TenTimes DEF ItemPriority
  <2>2. CASE items[n].group # None
    <3>1. GroupType[items[n].group] \in {"custom", "ai", "game", "streaming"}
      BY <1>1, <2>2, ItemTyped, GroupAssumption
    <3>2. ClassAt(n, r) = GroupType[items[n].group] /\ ClassAt(n, r) \in Classes
      BY <2>2, <3>1 DEF ClassAt, Classes
    <3> QED
      BY <2>2, <3>1, <3>2, TenTimes DEF ItemPriority
  <2> QED
    BY <2>1, <2>2
<1>6. Place(r) = PlaceOf(ClassAt(n, r))
  BY <1>2 DEF Place, PlaceOf, Class, ClassAt
<1>7. n \in Nat /\ k \in Nat
  BY <1>1, ItemTyped DEF Lists
<1> QED
  BY <1>4, <1>5, <1>6, <1>7

\* Two rows with the same rank are one.
LEMMA RankInjective ==
  ASSUME IInv, NEW r \in Rows, NEW q \in Rows, Rank(r) = Rank(q)
  PROVE  r = q
<1>1. PICK n, k : Lists(n, k, r)
  BY DEF IInv, Listed
<1>2. PICK m, l : Lists(m, l, q)
  BY DEF IInv, Listed
<1>3. <<10 * Place(r), n, k>> = <<10 * Place(q), m, l>>
  BY <1>1, <1>2, RankIs
<1>4. n = m /\ k = l
  BY <1>3
<1> QED
  BY <1>1, <1>2, <1>4 DEF Lists

\* The rank of a row, whatever its place.
LEMMA RowRank ==
  ASSUME IInv, NEW r \in Rows
  PROVE  Rank(r) \in Nat \X Nat \X Nat /\ Rank(r)[1] = 10 * Place(r) /\ Place(r) \in 1..8
<1>1. PICK n, k : Lists(n, k, r)
  BY DEF IInv, Listed
<1> QED
  BY <1>1, RankIs

-----------------------------------------------------------------------------
(* The winner of a visit *)

\* The rows that match a visit.
Hit(d) == {r \in Rows : d \in Covers(rules[r].matcher)}

\* Row w comes before all others that match.
Wins(w, d) == w \in Hit(d) /\ \A q \in Hit(d) \ {w} : Before(w, q)

\* A visit that some row matches has a winner.
LEMMA WinnerExists == ASSUME IInv, NEW d, Hit(d) # {} PROVE \E w : Wins(w, d)
<1> DEFINE H == Hit(d)
           rank == [r \in H |-> Rank(r)]
<1>1. rank \in [H -> Nat \X Nat \X Nat] /\ \A r \in H : r \in Rows /\ rank[r] = Rank(r)
  BY RowRank DEF Hit
<1>2. H # {}
  OBVIOUS
<1> HIDE DEF H, rank
<1>3. PICK w \in H : \A q \in H : rank[q] = rank[w] \/ RankBefore(rank[w], rank[q])
  BY <1>1, <1>2, First
<1>4. ASSUME NEW q \in H \ {w} PROVE Before(w, q)
  <2>1. rank[q] # rank[w]
    BY <1>1, <1>3, RankInjective
  <2> QED
    BY <1>1, <1>3, <2>1 DEF Before
<1> QED
  BY <1>3, <1>4 DEF Wins, H

\* It is the row that the visit follows.
LEMMA WinnerRoutes == ASSUME IInv, NEW d, NEW w, Wins(w, d) PROVE Route(d) = rules[w].target
<1> DEFINE H == Hit(d)
           rank == [r \in H |-> Rank(r)]
           P(r) == \A q \in H \ {r} : RankBefore(rank[r], rank[q])
<1>1. w \in H /\ H # {} /\ \A r \in H : r \in Rows /\ rank[r] = Rank(r)
  BY DEF Wins, Hit
<1>2. P(w)
  BY <1>1 DEF Wins, Before
<1>3. ASSUME NEW r \in H, P(r) PROVE r = w
  <2>1. rank[r] \in Nat \X Nat \X Nat /\ rank[w] \in Nat \X Nat \X Nat
    BY <1>1, RowRank
  <2>2. r # w => RankBefore(rank[r], rank[w]) /\ RankBefore(rank[w], rank[r])
    BY <1>1, <1>2, <1>3
  <2> QED
    BY <2>1, <2>2, Strict
<1>4. (CHOOSE r \in H : P(r)) = w
  <2> HIDE DEF P
  <2> QED
    BY <1>1, <1>2, <1>3
<1>5. Route(d) = rules[CHOOSE r \in H : P(r)].target
  BY <1>1 DEF Route, Hit
<1> QED
  BY <1>4, <1>5

\* Nothing matches: the default.
LEMMA DefaultRoutes == ASSUME NEW d, Hit(d) = {} PROVE Route(d) = default
BY DEF Route, Hit

\* The winner is of the best documented class.
LEMMA BestWins == ASSUME IInv PROVE BestClassWins
<1> SUFFICES ASSUME NEW d \in Domains
             PROVE  LET best == {r \in Hit(d) : \A q \in Hit(d) : Place(r) <= Place(q)}
                    IN  IF Hit(d) = {} THEN Route(d) = default
                                       ELSE \E r \in best : Route(d) = rules[r].target
  BY DEF BestClassWins, Hit
<1>1. CASE Hit(d) = {}
  BY <1>1, DefaultRoutes
<1>2. CASE Hit(d) # {}
  <2>1. PICK w : Wins(w, d)
    BY <1>2, WinnerExists
  <2>2. Route(d) = rules[w].target
    BY <2>1, WinnerRoutes
  <2>3. ASSUME NEW q \in Hit(d) PROVE Place(w) <= Place(q)
    <3>1. w \in Rows /\ q \in Rows
      BY <2>1 DEF Wins, Hit
    <3>2. /\ Rank(w)[1] = 10 * Place(w) /\ Place(w) \in 1..8
          /\ Rank(q)[1] = 10 * Place(q) /\ Place(q) \in 1..8
      BY <3>1, RowRank
    <3>3. CASE q = w
      BY <3>2, <3>3
    <3>4. CASE q # w
      <4>1. RankBefore(Rank(w), Rank(q))
        BY <2>1, <3>4 DEF Wins, Before
      <4> QED
        BY <3>2, <4>1 DEF RankBefore
    <3> QED
      BY <3>3, <3>4
  <2> QED
    BY <1>2, <2>1, <2>2, <2>3 DEF Wins
<1> QED
  BY <1>1, <1>2

-----------------------------------------------------------------------------
(* The preview *)

\* The preview gives a row the priority that the generation gives it.
LEMMA SamePriority ==
  ASSUME IInv, NEW n, NEW k, NEW r, Lists(n, k, r)
  PROVE  /\ BusinessPriority(items[n].group, rules[r].matcher) = ItemPriority(items[n], r)
         /\ ItemPriority(items[n], r) = Rank(r)[1]
<1>1. r \in Rows
  BY DEF IInv, Listed
<1>2. BusinessPriority(items[n].group, rules[r].matcher) = ItemPriority(items[n], r)
  BY <1>1 DEF BusinessPriority, ItemPriority, BusinessDomain, BusinessGroup, DomainPriority,
              GroupPriority
<1>3. Rank(r) = <<ItemPriority(items[n], r), n, k>>
  BY RankIs
<1> QED
  BY <1>2, <1>3

\* The order of the priorities is the order of the rows.
LEMMA Previewed == ASSUME IInv PROVE PreviewTrue
<1> SUFFICES ASSUME NEW n \in DOMAIN items,
                    NEW c, c \in Conflicts(items[n].group, items[n].ids,
                                           MatchersOf(items[n]), n)
             PROVE  /\ c.direction = "current" => Before(c.current, c.existing)
                    /\ c.direction = "existing" => Before(c.existing, c.current)
  BY DEF PreviewTrue
<1> DEFINE ms == MatchersOf(items[n])
           Conflict(k, r, j) ==
             [current |-> items[n].ids[k], existing |-> r,
              direction |-> Direction(BusinessPriority(items[n].group, ms[k]),
                                      BusinessPriority(items[j].group, rules[r].matcher))]
<1>1. PICK k \in DOMAIN items[n].ids, j \in DOMAIN items \ {n} :
        \E r \in IdsOf(items[j]) : c = Conflict(k, r, j)
  BY DEF Conflicts
<1>2. PICK r \in IdsOf(items[j]) : c = Conflict(k, r, j)
  BY <1>1
<1> DEFINE q == items[n].ids[k]
<1>3. Lists(n, k, q)
  BY <1>1 DEF Lists
<1>4. PICK l : Lists(j, l, r)
  BY <1>1, <1>2, ItemTyped DEF IInv
<1>5. ms[k] = rules[q].matcher
  BY <1>1 DEF MatchersOf
<1>6. q \in Rows /\ r \in Rows
  BY <1>3, <1>4 DEF IInv, Listed
<1>7. /\ c.current = q /\ c.existing = r
      /\ c.direction = Direction(Rank(q)[1], Rank(r)[1])
  <2>1. /\ BusinessPriority(items[n].group, ms[k]) = Rank(q)[1]
        /\ BusinessPriority(items[j].group, rules[r].matcher) = Rank(r)[1]
    BY <1>3, <1>4, <1>5, SamePriority
  <2> QED
    BY <1>2, <2>1
<1> HIDE DEF q
<1>8. /\ c.direction = "current" => Rank(q)[1] < Rank(r)[1]
      /\ c.direction = "existing" => Rank(r)[1] < Rank(q)[1]
  BY <1>6, <1>7, RowRank DEF Direction
<1> QED
  BY <1>7, <1>8 DEF Before, RankBefore

-----------------------------------------------------------------------------
(* The requests keep the invariant *)

\* At the start there is no row and no item.
LEMMA InitInv == ASSUME Init PROVE IInv
<1>1. items = <<>> /\ DOMAIN items = {} /\ Len(items) = 0 /\ Rows = {} /\ next = 1
  BY DEF Init, Rows
<1>2. Types
  BY <1>1, MaxAssumption DEF Init, Types
<1> QED
  BY <1>1, <1>2 DEF IInv, Listed, Distinct, FreshInv, IdsInv, KeysInv, Lists

\* A request that changes matchers and egresses of rows only.
LEMMA Rewritten ==
  ASSUME IInv, items' = items, next' = next, default' \in Egresses \cup {None},
         rules' \in [RuleIds -> [matcher : Matchers, target : Egresses] \cup {None}],
         \A r \in RuleIds : rules'[r] = None <=> rules[r] = None
  PROVE  Types' /\ Listed' /\ Distinct' /\ FreshInv' /\ IdsInv' /\ Rows' = Rows
<1>1. Rows' = Rows
  BY DEF Rows
<1>2. \A n, k, r : Lists(n, k, r)' <=> Lists(n, k, r)
  BY DEF Lists
<1> QED
  BY <1>1, <1>2 DEF IInv, Types, Listed, Distinct, FreshInv, IdsInv

\* The keys of items whose rows keep their matchers stay.
LEMMA KeysKept ==
  ASSUME IInv, items' = items,
         \A n \in DOMAIN items : items[n].group = None
           => rules'[items[n].ids[1]].matcher = rules[items[n].ids[1]].matcher
  PROVE  KeysInv'
<1>1. \A n \in DOMAIN items : KeyAt(n)' = KeyAt(n)
  BY DEF KeyAt, Key
<1> QED
  BY <1>1 DEF IInv, KeysInv

\* A request for the rule for all traffic.
DefaultRequest == DeleteAll \/ \E e \in Egresses : CreateAll(e) \/ UpdateAll(e)

\* The default changes and nothing else.
LEMMA DefaultStep ==
  ASSUME IInv, DefaultRequest
  PROVE  IInv'
<1>1. items' = items /\ rules' = rules /\ next' = next /\ default' \in Egresses \cup {None}
  BY DEF DefaultRequest, CreateAll, UpdateAll, DeleteAll
<1>2. rules \in [RuleIds -> [matcher : Matchers, target : Egresses] \cup {None}]
  BY DEF IInv, Types
<1> QED
  BY <1>1, <1>2, Rewritten, KeysKept DEF IInv

\* The rows of an item exist and have a matcher and an egress.
LEMMA ItemRows ==
  ASSUME IInv, NEW n \in DOMAIN items
  PROVE  /\ \A r \in IdsOf(items[n]) :
              /\ r \in Rows /\ r \in RuleIds /\ rules[r] # None
              /\ rules[r] \in [matcher : Matchers, target : Egresses]
         /\ Lists(n, 1, items[n].ids[1])
         /\ items[n].group = None =>
              \A r : r \in IdsOf(items[n]) <=> r = items[n].ids[1]
<1> USE DEF IInv
<1>1. ASSUME NEW r \in IdsOf(items[n])
      PROVE  /\ r \in Rows /\ r \in RuleIds /\ rules[r] # None
             /\ rules[r] \in [matcher : Matchers, target : Egresses]
  <2>1. r \in Rows
    BY ItemTyped DEF Listed
  <2> QED
    BY <2>1, RowTyped DEF Rows
<1>2. /\ items[n].ids \in Seq(RuleIds) /\ items[n].ids # <<>>
      /\ DOMAIN items[n].ids = 1..Len(items[n].ids)
  BY ItemTyped DEF IdsInv
<1>3. 1 \in DOMAIN items[n].ids
  BY <1>2
<1>4. Lists(n, 1, items[n].ids[1])
  BY <1>3 DEF Lists
<1>5. ASSUME items[n].group = None, NEW r PROVE r \in IdsOf(items[n]) <=> r = items[n].ids[1]
  <2>1. Len(items[n].ids) = 1
    BY <1>5 DEF IdsInv
  <2>2. DOMAIN items[n].ids = {1}
    BY <1>2, <2>1
  <2> QED
    BY <2>2, ItemTyped DEF Lists
<1> QED
  BY <1>1, <1>4, <1>5

\* The row of a custom domain gets a matcher that no other item has.
LEMMA UpdateCustomStep ==
  ASSUME IInv, NEW n \in DOMAIN items, NEW m \in Matchers, NEW e \in Egresses,
         UpdateCustom(n, m, e)
  PROVE  IInv'
<1> DEFINE r == items[n].ids[1]
           row == [matcher |-> m, target |-> e]
<1>1. /\ items[n].group = None /\ items' = items /\ next' = next /\ default' = default
      /\ m # rules[r].matcher => ~Used(<<"custom", m>>)
      /\ rules' = [rules EXCEPT ![r] = row]
  BY DEF UpdateCustom
<1>2. Lists(n, 1, r) /\ r \in Rows /\ r \in RuleIds /\ rules[r] # None
  <2>1. Lists(n, 1, r) /\ r \in IdsOf(items[n])
    BY <1>1, ItemRows
  <2> QED
    BY <2>1, ItemRows
<1>3. row \in [matcher : Matchers, target : Egresses] /\ row # None /\ row.matcher = m
  BY IdAssumption
<1> HIDE DEF r, row
<1>4. /\ rules \in [RuleIds -> [matcher : Matchers, target : Egresses] \cup {None}]
      /\ default' \in Egresses \cup {None}
  BY <1>1 DEF IInv, Types
<1>5. /\ rules' \in [RuleIds -> [matcher : Matchers, target : Egresses] \cup {None}]
      /\ rules'[r] = row /\ \A q \in RuleIds : q # r => rules'[q] = rules[q]
  BY <1>1, <1>2, <1>3, <1>4
<1>6. \A q \in RuleIds : rules'[q] = None <=> rules[q] = None
  BY <1>2, <1>3, <1>5
<1>7. Types' /\ Listed' /\ Distinct' /\ FreshInv' /\ IdsInv'
  BY <1>1, <1>4, <1>5, <1>6, Rewritten
<1>8. KeysInv'
  <2>1. KeyAt(n)' = <<"custom", m>>
    BY <1>1, <1>3, <1>5 DEF KeyAt, Key, r
  <2>2. ASSUME NEW j \in DOMAIN items, j # n PROVE KeyAt(j)' = KeyAt(j)
    <3>1. Lists(j, 1, items[j].ids[1])
      BY ItemRows
    <3>2. items[j].ids[1] # r /\ items[j].ids[1] \in RuleIds
      <4>1. items[j].ids[1] # r
        BY <1>2, <2>2, <3>1 DEF IInv, Distinct
      <4> QED
        BY <3>1, <4>1 DEF IInv, Listed, Rows
    <3> QED
      BY <1>1, <1>5, <3>2 DEF KeyAt, Key
  <2>3. ASSUME NEW j \in DOMAIN items, j # n PROVE KeyAt(j) # <<"custom", m>>
    <3>1. CASE m = rules[r].matcher
      <4>1. KeyAt(n) = <<"custom", m>>
        BY <1>1, <3>1 DEF KeyAt, Key, r
      <4> QED
        BY <2>3, <4>1 DEF IInv, KeysInv
    <3>2. CASE m # rules[r].matcher
      BY <1>1, <3>2 DEF Used, KeyAt
    <3> QED
      BY <3>1, <3>2
  <2> QED
    BY <1>1, <2>1, <2>2, <2>3 DEF IInv, KeysInv
<1> QED
  BY <1>7, <1>8 DEF IInv

\* The rows of a group get another egress.
LEMMA UpdateGroupStep ==
  ASSUME IInv, NEW n \in DOMAIN items, NEW e \in Egresses, UpdateGroup(n, e)
  PROVE  /\ IInv'
         /\ \A r \in Rows : rules'[r].matcher = rules[r].matcher
         /\ \A r \in Rows : r \notin IdsOf(items[n]) => rules'[r] = rules[r]
<1>1. /\ items' = items /\ next' = next /\ default' = default
      /\ rules' = [r \in RuleIds |-> IF r \in IdsOf(items[n]) THEN [rules[r] EXCEPT !.target = e]
                                                            ELSE rules[r]]
  BY DEF UpdateGroup
<1>2. /\ rules \in [RuleIds -> [matcher : Matchers, target : Egresses] \cup {None}]
      /\ default' \in Egresses \cup {None}
  BY <1>1 DEF IInv, Types
<1>3. ASSUME NEW r \in RuleIds
      PROVE  /\ rules'[r] \in [matcher : Matchers, target : Egresses] \cup {None}
             /\ rules'[r] = None <=> rules[r] = None
             /\ r \notin IdsOf(items[n]) => rules'[r] = rules[r]
             /\ r \in Rows => rules'[r].matcher = rules[r].matcher
  <2>1. CASE r \in IdsOf(items[n])
    <3>1. rules[r] # None /\ rules[r] \in [matcher : Matchers, target : Egresses]
      BY <2>1, ItemRows
    <3>2. rules'[r] = [rules[r] EXCEPT !.target = e]
      BY <1>1, <2>1
    <3>3. /\ rules'[r] \in [matcher : Matchers, target : Egresses]
          /\ rules'[r].matcher = rules[r].matcher
      BY <3>1, <3>2
    <3> QED
      BY <2>1, <3>1, <3>3, IdAssumption
  <2>2. CASE r \notin IdsOf(items[n])
    BY <1>1, <1>2, <2>2
  <2> QED
    BY <2>1, <2>2
<1>4. rules' \in [RuleIds -> [matcher : Matchers, target : Egresses] \cup {None}]
  BY <1>1, <1>3
<1>5. Types' /\ Listed' /\ Distinct' /\ FreshInv' /\ IdsInv'
  BY <1>1, <1>2, <1>3, <1>4, Rewritten
<1>6. \A r \in Rows : rules'[r].matcher = rules[r].matcher
  BY <1>3 DEF Rows
<1>7. KeysInv'
  <2>1. \A j \in DOMAIN items : items[j].ids[1] \in Rows
    BY ItemRows DEF IInv, Listed
  <2> QED
    BY <1>1, <1>6, <2>1, KeysKept
<1> QED
  BY <1>3, <1>5, <1>6, <1>7 DEF IInv, Rows

\* What AddItem does to the tables: the rows there stay, the new ones are those of the new
\* item, which is the last.
Extended(new, ms, e, L) ==
  /\ new \in Item /\ new.ids # <<>> /\ Len(new.ids) = Len(ms) /\ DOMAIN new.ids = DOMAIN ms
  /\ L \in Nat /\ DOMAIN items = 1..L
  /\ items' \in Seq(Item) /\ Len(items') = L + 1 /\ L + 1 <= MaxItems
  /\ DOMAIN items' = 1..(L + 1) /\ items'[L + 1] = new
  /\ \A n \in DOMAIN items : n # L + 1 /\ items'[n] = items[n]
  /\ next' = next + Len(ms) /\ next' \in Nat \ {0} /\ default' = default
  /\ rules' \in [RuleIds -> [matcher : Matchers, target : Egresses] \cup {None}]
  /\ \A r \in Rows : rules'[r] = rules[r] /\ r < next
  /\ \A k \in DOMAIN ms : /\ new.ids[k] = next + k - 1 /\ new.ids[k] \in RuleIds
                          /\ rules'[new.ids[k]] = [matcher |-> ms[k], target |-> e]
  /\ \A r \in RuleIds : r \notin Rows /\ rules'[r] # None => \E k \in DOMAIN ms : new.ids[k] = r

\* AddItem extends the tables.
LEMMA Added ==
  ASSUME IInv, NEW group \in Groups \cup {None}, NEW ms \in Seq(Matchers), ms # <<>>,
         NEW e \in Egresses, AddItem(group, ms, e)
  PROVE  Extended([group |-> group, ids |-> [k \in DOMAIN ms |-> next + k - 1]], ms, e,
                  Len(items))
<1> DEFINE ids == [k \in DOMAIN ms |-> next + k - 1]
           new == [group |-> group, ids |-> ids]
           L == Len(items)
<1>1. /\ items \in Seq(Item) /\ next \in Nat \ {0}
      /\ rules \in [RuleIds -> [matcher : Matchers, target : Egresses] \cup {None}]
      /\ \A r \in Rows : r < next
  BY DEF IInv, Types, FreshInv
<1>2. /\ Len(items) < MaxItems /\ Range(ids) \subseteq RuleIds
      /\ rules' = [r \in RuleIds |-> IF r \in Range(ids)
                                        THEN [matcher |-> ms[r - next + 1], target |-> e]
                                        ELSE rules[r]]
      /\ items' = Append(items, new)
      /\ next' = next + Len(ms) /\ default' = default
  BY DEF AddItem
<1>3. /\ DOMAIN ms = 1..Len(ms) /\ Len(ms) \in Nat \ {0}
      /\ \A k \in DOMAIN ms : k \in Nat \ {0} /\ ms[k] \in Matchers
  BY DEF Range
<1>4. \A k \in DOMAIN ms : ids[k] = next + k - 1 /\ ids[k] \in RuleIds
  BY <1>2 DEF Range
<1>5. \A r : r \in Range(ids) <=> \E k \in DOMAIN ms : r = next + k - 1
  BY DEF Range
<1>6. ids \in Seq(RuleIds) /\ Len(ids) = Len(ms) /\ ids # <<>> /\ DOMAIN ids = DOMAIN ms
  <2>1. ids \in [1..Len(ms) -> RuleIds]
    BY <1>3, <1>4
  <2>2. ids \in Seq(RuleIds) /\ Len(ids) = Len(ms)
    BY <1>3, <2>1
  <2> QED
    BY <1>3, <2>2
<1>7. \A k \in DOMAIN ms : rules'[ids[k]] = [matcher |-> ms[k], target |-> e]
  <2> SUFFICES ASSUME NEW k \in DOMAIN ms
               PROVE  rules'[ids[k]] = [matcher |-> ms[k], target |-> e]
    OBVIOUS
  <2>1. ids[k] \in Range(ids) /\ ids[k] \in RuleIds
    BY <1>4, <1>5
  <2>2. rules'[ids[k]] = [matcher |-> ms[ids[k] - next + 1], target |-> e]
    BY <1>2, <2>1
  <2>3. ids[k] - next + 1 = k
    BY <1>1, <1>3, <1>4
  <2> QED
    BY <2>2, <2>3
<1>8. \A r \in RuleIds : r \notin Range(ids) => rules'[r] = rules[r]
  BY <1>2
<1>9. rules' \in [RuleIds -> [matcher : Matchers, target : Egresses] \cup {None}]
  <2>1. ASSUME NEW r \in RuleIds
        PROVE  rules'[r] \in [matcher : Matchers, target : Egresses] \cup {None}
    <3>1. CASE r \in Range(ids)
      <4>1. PICK k \in DOMAIN ms : r = ids[k]
        BY <1>4, <1>5, <3>1
      <4>2. ms[k] \in Matchers /\ rules'[r] = [matcher |-> ms[k], target |-> e]
        BY <1>3, <1>7, <4>1
      <4> QED
        BY <4>2
    <3>2. CASE r \notin Range(ids)
      BY <1>1, <1>8, <3>2
    <3> QED
      BY <3>1, <3>2
  <2> QED
    BY <1>2, <2>1
<1>10. \A r \in Rows : r < next /\ r \in RuleIds /\ r \notin Range(ids)
  <2> SUFFICES ASSUME NEW r \in Rows PROVE r < next /\ r \in RuleIds /\ r \notin Range(ids)
    OBVIOUS
  <2>1. r < next /\ r \in RuleIds /\ r \in Nat
    BY <1>1, IdAssumption DEF Rows
  <2>2. \A k \in DOMAIN ms : r # next + k - 1
    BY <1>1, <1>3, <2>1
  <2> QED
    BY <1>5, <2>1, <2>2
<1> HIDE DEF ids
<1>11. new \in Item /\ new.ids = ids
  BY <1>6 DEF Item
<1> HIDE DEF new
<1>12. /\ L \in Nat /\ DOMAIN items = 1..L /\ items' \in Seq(Item) /\ Len(items') = L + 1
       /\ DOMAIN items' = 1..(L + 1) /\ items'[L + 1] = new
       /\ \A n \in DOMAIN items : n # L + 1 /\ items'[n] = items[n]
  BY <1>1, <1>2, <1>11
<1>13. L + 1 <= MaxItems
  BY <1>2, <1>12, MaxAssumption
<1>14. \A r \in Rows : rules'[r] = rules[r]
  BY <1>8, <1>10
<1>15. \A r \in RuleIds : r \notin Rows /\ rules'[r] # None => \E k \in DOMAIN ms : ids[k] = r
  BY <1>4, <1>5, <1>8 DEF Rows
<1>16. next' \in Nat \ {0}
  BY <1>1, <1>2, <1>3
<1>17. Extended(new, ms, e, L)
  <2> HIDE DEF L
  <2> QED
    BY <1>2, <1>4, <1>6, <1>7, <1>9, <1>10, <1>11, <1>12, <1>13, <1>14, <1>15, <1>16
       DEF Extended
<1> QED
  BY <1>17 DEF new, ids

\* Rows that a request leaves alone keep their order: there is a map from the old places
\* of such rows to the new ones that exchanges no two items.
Ordered ==
  \E at \in [DOMAIN items -> Nat] :
    \A n, k, q, m, l, r :
      /\ Lists(n, k, q) /\ rules'[q] = rules[q]
      /\ Lists(m, l, r) /\ rules'[r] = rules[r]
      => /\ Lists(at[n], k, q)' /\ items'[at[n]] = items[n]
         /\ n < m => at[n] < at[m]

\* It is so when every item stays where it is.
LEMMA InPlace ==
  ASSUME Types, \A n \in DOMAIN items : n \in DOMAIN items' /\ items'[n] = items[n]
  PROVE  Ordered
<1>0. PICK at : at = [n \in DOMAIN items |-> n]
  OBVIOUS
<1>1. at \in [DOMAIN items -> Nat]
  BY <1>0, ItemTyped
<1>2. ASSUME NEW n, NEW k, NEW q, NEW m, NEW l, NEW r, Lists(n, k, q), Lists(m, l, r)
      PROVE  /\ Lists(at[n], k, q)' /\ items'[at[n]] = items[n]
             /\ n < m => at[n] < at[m]
  BY <1>0, <1>2 DEF Lists
<1> QED
  BY <1>1, <1>2, Zenon DEF Ordered

\* A new item whose key no other has.
LEMMA AddStep ==
  ASSUME IInv, NEW group \in Groups \cup {None}, NEW ms \in Seq(Matchers), ms # <<>>,
         NEW e \in Egresses, AddItem(group, ms, e), group = None => Len(ms) = 1,
         ~Used(IF group = None THEN <<"custom", ms[1]>> ELSE GroupKey(group))
  PROVE  IInv' /\ Ordered
<1>1. PICK new, L : Extended(new, ms, e, L) /\ new.group = group
  <2> DEFINE new == [group |-> group, ids |-> [k \in DOMAIN ms |-> next + k - 1]]
  <2>1. Extended(new, ms, e, Len(items)) /\ new.group = group
    BY Added
  <2> HIDE DEF new
  <2> QED
    BY <2>1
<1>2. Types /\ Listed /\ Distinct /\ FreshInv /\ IdsInv /\ KeysInv
  BY DEF IInv
<1>3. Types'
  <2>1. default' = default
    BY <1>1 DEF Extended
  <2>2. default' \in Egresses \cup {None}
    BY <1>2, <2>1 DEF Types
  <2>3. /\ items' \in Seq(Item) /\ Len(items') <= MaxItems /\ next' \in Nat \ {0}
        /\ rules' \in [RuleIds -> [matcher : Matchers, target : Egresses] \cup {None}]
    BY <1>1 DEF Extended
  <2> QED
    BY <2>2, <2>3 DEF Types
<1>4. /\ \A n, k, r : Lists(n, k, r)' <=> \/ Lists(n, k, r)
                                          \/ n = L + 1 /\ k \in DOMAIN ms /\ r = new.ids[k]
      /\ \A n, k, r : Lists(n, k, r) => n # L + 1
  BY <1>1 DEF Extended, Lists
<1>5. \A k \in DOMAIN ms : new.ids[k] \notin Rows
  <2> SUFFICES ASSUME NEW k \in DOMAIN ms, new.ids[k] \in Rows PROVE FALSE
    OBVIOUS
  <2>1. new.ids[k] = next + k - 1 /\ new.ids[k] < next
    BY <1>1 DEF Extended
  <2>2. k \in Nat \ {0}
    OBVIOUS
  <2>3. next \in Nat
    BY <1>2 DEF Types
  <2> QED
    BY <2>1, <2>2, <2>3
<1>6. \A r : r \in Rows' <=> r \in Rows \/ \E k \in DOMAIN ms : r = new.ids[k]
  <2>1. ASSUME NEW r \in Rows PROVE r \in Rows'
    BY <1>1 DEF Extended, Rows
  <2>2. ASSUME NEW k \in DOMAIN ms PROVE new.ids[k] \in Rows'
    <3>1. /\ new.ids[k] \in RuleIds /\ rules'[new.ids[k]] = [matcher |-> ms[k], target |-> e]
          /\ ms[k] \in Matchers
      BY <1>1 DEF Extended
    <3>2. rules'[new.ids[k]] # None
      BY <3>1, IdAssumption
    <3> QED
      BY <3>1, <3>2 DEF Rows
  <2>3. ASSUME NEW r \in Rows', r \notin Rows PROVE \E k \in DOMAIN ms : r = new.ids[k]
    BY <1>1, <2>3 DEF Extended, Rows
  <2> QED
    BY <2>1, <2>2, <2>3
<1>7. Listed'
  <2>1. \A n, k, r : Lists(n, k, r)' => r \in Rows'
    BY <1>2, <1>4, <1>6 DEF Listed
  <2>2. ASSUME NEW r \in Rows' PROVE \E n, k : Lists(n, k, r)'
    <3>1. CASE r \in Rows
      BY <1>2, <1>4, <3>1 DEF Listed
    <3>2. CASE r \notin Rows
      <4>1. PICK k \in DOMAIN ms : r = new.ids[k]
        BY <1>6, <3>2
      <4>2. Lists(L + 1, k, r)'
        BY <1>4, <4>1
      <4> QED
        BY <4>2
    <3> QED
      BY <3>1, <3>2
  <2> QED
    BY <2>1, <2>2 DEF Listed
<1>8. Distinct'
  <2> SUFFICES ASSUME NEW n, NEW m, NEW k, NEW l, NEW r, Lists(n, k, r)', Lists(m, l, r)'
               PROVE  n = m /\ k = l
    BY DEF Distinct
  <2>1. CASE Lists(n, k, r) /\ Lists(m, l, r)
    BY <1>2, <2>1 DEF Distinct
  <2>2. CASE n = L + 1 /\ k \in DOMAIN ms /\ r = new.ids[k]
    <3>1. r \notin Rows
      BY <1>5, <2>2
    <3>2. m = L + 1 /\ l \in DOMAIN ms /\ r = new.ids[l]
      BY <1>2, <1>4, <3>1 DEF Listed
    <3>3. /\ next + k - 1 = next + l - 1 /\ k \in Nat /\ l \in Nat
      <4>1. new.ids[k] = next + k - 1 /\ new.ids[l] = next + l - 1
        BY <1>1, <2>2, <3>2 DEF Extended
      <4>2. k \in Nat /\ l \in Nat
        BY <2>2, <3>2
      <4> QED
        BY <2>2, <3>2, <4>1, <4>2
    <3>4. next \in Nat
      BY <1>2 DEF Types
    <3> QED
      BY <2>2, <3>2, <3>3, <3>4
  <2>3. CASE m = L + 1 /\ l \in DOMAIN ms /\ r = new.ids[l]
    <3>1. r \notin Rows
      BY <1>5, <2>3
    <3>2. n = L + 1 /\ k \in DOMAIN ms /\ r = new.ids[k]
      BY <1>2, <1>4, <3>1 DEF Listed
    <3>3. /\ next + k - 1 = next + l - 1 /\ k \in Nat /\ l \in Nat
      <4>1. new.ids[k] = next + k - 1 /\ new.ids[l] = next + l - 1
        BY <1>1, <2>3, <3>2 DEF Extended
      <4>2. k \in Nat /\ l \in Nat
        BY <2>3, <3>2
      <4> QED
        BY <2>3, <3>2, <4>1, <4>2
    <3>4. next \in Nat
      BY <1>2 DEF Types
    <3> QED
      BY <2>3, <3>2, <3>3, <3>4
  <2> QED
    BY <1>4, <2>1, <2>2, <2>3
<1>9. FreshInv'
  <2> SUFFICES ASSUME NEW r \in Rows' PROVE r < next'
    BY DEF FreshInv
  <2>1. next' = next + Len(ms) /\ next \in Nat /\ Len(ms) \in Nat /\ DOMAIN ms = 1..Len(ms)
    BY <1>1, <1>2 DEF Extended, Types
  <2>2. CASE r \in Rows
    <3>1. r < next /\ r \in Nat
      BY <1>2, <2>2, RowTyped DEF FreshInv
    <3> QED
      BY <2>1, <3>1
  <2>3. CASE r \notin Rows
    <3>1. PICK k \in DOMAIN ms : r = new.ids[k]
      BY <1>6, <2>3
    <3>2. r = next + k - 1 /\ k \in 1..Len(ms)
      BY <1>1, <2>1, <3>1 DEF Extended
    <3> QED
      BY <2>1, <3>2
  <2> QED
    BY <2>2, <2>3
<1>10. IdsInv'
  <2> SUFFICES ASSUME NEW n \in DOMAIN items'
               PROVE  /\ items'[n].ids # <<>>
                      /\ items'[n].group = None => Len(items'[n].ids) = 1
    BY DEF IdsInv
  <2>1. CASE n \in DOMAIN items
    BY <1>1, <1>2, <2>1 DEF Extended, IdsInv
  <2>2. CASE n \notin DOMAIN items
    <3>1. items'[n] = new
      BY <1>1, <2>2 DEF Extended
    <3> QED
      BY <1>1, <3>1 DEF Extended
  <2> QED
    BY <2>1, <2>2
<1>11. KeysInv'
  <2> DEFINE key == IF group = None THEN <<"custom", ms[1]>> ELSE GroupKey(group)
  <2>1. \A n \in DOMAIN items : KeyAt(n)' = KeyAt(n) /\ KeyAt(n) # key
    <3> SUFFICES ASSUME NEW n \in DOMAIN items PROVE KeyAt(n)' = KeyAt(n) /\ KeyAt(n) # key
      OBVIOUS
    <3>1. items[n].ids[1] \in Rows
      BY <1>2, ItemRows DEF Listed
    <3>2. items'[n] = items[n] /\ rules'[items[n].ids[1]] = rules[items[n].ids[1]]
      BY <1>1, <3>1 DEF Extended
    <3>3. KeyAt(n)' = KeyAt(n)
      BY <3>2 DEF KeyAt, Key
    <3>4. KeyAt(n) # key
      BY DEF Used, KeyAt
    <3> QED
      BY <3>3, <3>4
  <2>2. KeyAt(L + 1)' = key
    <3>1. KeyAt(L + 1)' = IF new.group = None THEN <<"custom", rules'[new.ids[1]].matcher>>
                                              ELSE GroupKey(new.group)
      <4>1. items'[L + 1] = new
        BY <1>1 DEF Extended
      <4> QED
        BY <4>1 DEF KeyAt, Key
    <3>2. CASE group = None
      <4>1. rules'[new.ids[1]] = [matcher |-> ms[1], target |-> e]
        <5>1. 1 \in DOMAIN ms
          BY <1>1 DEF Extended
        <5> QED
          BY <1>1, <5>1 DEF Extended
      <4> QED
        BY <1>1, <3>1, <3>2, <4>1
    <3>3. CASE group # None
      BY <1>1, <3>1, <3>3
    <3> QED
      BY <3>2, <3>3
  <2>3. \A n \in DOMAIN items' : n \in DOMAIN items \/ n = L + 1
    BY <1>1 DEF Extended
  <2> HIDE DEF key
  <2> SUFFICES ASSUME NEW n \in DOMAIN items', NEW m \in DOMAIN items',
                      KeyAt(n)' = KeyAt(m)'
               PROVE  n = m
    BY DEF KeysInv
  <2>4. CASE n \in DOMAIN items /\ m \in DOMAIN items
    <3>1. KeyAt(n) = KeyAt(m)
      BY <2>1, <2>4
    <3> QED
      BY <1>2, <2>4, <3>1 DEF KeysInv
  <2> QED
    BY <2>1, <2>2, <2>3, <2>4
<1>12. Ordered
  <2>1. \A n \in DOMAIN items : n \in DOMAIN items' /\ items'[n] = items[n]
    BY <1>1 DEF Extended
  <2> QED
    BY <1>2, <2>1, InPlace
<1> QED
  BY <1>3, <1>7, <1>8, <1>9, <1>10, <1>11, <1>12 DEF IInv

\* What a deletion does to the tables: the item n is gone and the later ones close up.
Closed(n) ==
  /\ DOMAIN items' = 1..(Len(items) - 1) /\ items' \in Seq(Item) /\ Len(items') = Len(items) - 1
  /\ \A j \in 1..(Len(items) - 1) :
       /\ items'[j] = items[IF j < n THEN j ELSE j + 1]
       /\ (IF j < n THEN j ELSE j + 1) \in DOMAIN items \ {n}
  /\ next' = next /\ default' = default
  /\ rules' = [r \in RuleIds |-> IF r \in IdsOf(items[n]) THEN None ELSE rules[r]]

\* Deleting an item takes it and nothing else out of the metadata.
LEMMA Deleted == ASSUME IInv, NEW n \in DOMAIN items, DeleteItem(n) PROVE Closed(n)
<1>1. items \in Seq(Item) /\ Len(items) \in Nat /\ DOMAIN items = 1..Len(items) /\ n \in Nat
  BY DEF IInv, Types
<1>2. {m \in DOMAIN items : Key(items[m]) # Key(items[n])} = DOMAIN items \ {n}
  BY DEF IInv, KeysInv, KeyAt
<1>3. items' = [k \in 1..(Len(items) - 1) |-> items[IF k < n THEN k ELSE k + 1]]
  <2>1. items' = Kept(DOMAIN items \ {n})
    BY <1>2 DEF DeleteItem
  <2> QED
    BY <1>1, <2>1, KeptAllButOne
<1>4. ASSUME NEW j \in 1..(Len(items) - 1)
      PROVE  /\ items'[j] = items[IF j < n THEN j ELSE j + 1]
             /\ (IF j < n THEN j ELSE j + 1) \in DOMAIN items \ {n}
             /\ items'[j] \in Item
  <2>1. (IF j < n THEN j ELSE j + 1) \in DOMAIN items \ {n}
    BY <1>1
  <2>2. items'[j] = items[IF j < n THEN j ELSE j + 1]
    BY <1>3
  <2> QED
    BY <1>1, <2>1, <2>2
<1>5. Len(items) - 1 \in Nat
  BY <1>1
<1>6. items' \in [1..(Len(items) - 1) -> Item]
  BY <1>3, <1>4
<1>7. items' \in Seq(Item) /\ Len(items') = Len(items) - 1 /\ DOMAIN items' = 1..(Len(items) - 1)
  BY <1>5, <1>6
<1> QED
  BY <1>4, <1>7 DEF Closed, DeleteItem

\* The rows of the item go with it, and the others keep their places.
LEMMA DeleteStep ==
  ASSUME IInv, NEW n \in DOMAIN items, DeleteItem(n)
  PROVE  IInv' /\ Ordered
<1>0. Closed(n) /\ Types /\ Listed /\ Distinct /\ FreshInv /\ IdsInv /\ KeysInv
  BY Deleted DEF IInv
<1>1. PICK L : L = Len(items) /\ L \in Nat /\ DOMAIN items = 1..L /\ n \in 1..L
  BY <1>0 DEF Types
<1> DEFINE back(j) == IF j < n THEN j ELSE j + 1
           front(m) == IF m < n THEN m ELSE m - 1
<1>2. /\ DOMAIN items' = 1..(L - 1)
      /\ \A j \in DOMAIN items' : items'[j] = items[back(j)] /\ back(j) \in DOMAIN items \ {n}
  BY <1>0, <1>1 DEF Closed
<1>3. \A m \in DOMAIN items \ {n} : front(m) \in DOMAIN items' /\ back(front(m)) = m
  BY <1>1, <1>2
<1>4. \A j \in DOMAIN items' : front(back(j)) = j
  BY <1>1, <1>2
<1>5. \A j, m \in DOMAIN items' : back(j) = back(m) => j = m
  BY <1>1, <1>2
<1>6. \A l, m \in DOMAIN items \ {n} : l < m => front(l) < front(m)
  BY <1>1
<1> HIDE DEF back, front
<1>7. \A j, k, r : Lists(j, k, r)' => Lists(back(j), k, r) /\ back(j) # n
  BY <1>2 DEF Lists
<1>8. \A m, k, r : Lists(m, k, r) /\ m # n
                     => Lists(front(m), k, r)' /\ items'[front(m)] = items[m]
  BY <1>2, <1>3 DEF Lists
<1>9. \A r : r \in Rows' <=> r \in Rows /\ r \notin IdsOf(items[n])
  BY <1>0 DEF Closed, Rows
<1>10. \A r \in RuleIds : r \notin IdsOf(items[n]) => rules'[r] = rules[r]
  BY <1>0 DEF Closed
<1>11. \A r : r \in IdsOf(items[n]) <=> \E k : Lists(n, k, r)
  BY <1>0, ItemTyped
<1>12. \A m, k, r : Lists(m, k, r) /\ m # n => r \notin IdsOf(items[n])
  BY <1>0, <1>11 DEF Distinct
<1>13. Types'
  <2>1. default' = default /\ next' = next
    BY <1>0 DEF Closed
  <2>2. /\ default' \in Egresses \cup {None} /\ next' \in Nat \ {0}
        /\ rules \in [RuleIds -> [matcher : Matchers, target : Egresses] \cup {None}]
        /\ Len(items) <= MaxItems
    BY <1>0, <2>1 DEF Types
  <2>3. items' \in Seq(Item) /\ Len(items') <= MaxItems
    <3>1. items' \in Seq(Item) /\ Len(items') = L - 1 /\ L <= MaxItems
      BY <1>0, <1>1, <2>2 DEF Closed
    <3> QED
      BY <1>1, <3>1, MaxAssumption
  <2>4. rules' \in [RuleIds -> [matcher : Matchers, target : Egresses] \cup {None}]
    BY <1>0, <2>2 DEF Closed
  <2> QED
    BY <2>2, <2>3, <2>4 DEF Types
<1>14. Listed'
  <2>1. ASSUME NEW j, NEW k, NEW r, Lists(j, k, r)' PROVE r \in Rows'
    BY <1>0, <1>7, <1>9, <1>12, <2>1 DEF Listed
  <2>2. ASSUME NEW r \in Rows' PROVE \E j, k : Lists(j, k, r)'
    <3>1. r \in Rows /\ r \notin IdsOf(items[n])
      BY <1>9
    <3>2. PICK m, k : Lists(m, k, r)
      BY <1>0, <3>1 DEF Listed
    <3>3. m # n
      BY <1>11, <3>1, <3>2
    <3> QED
      BY <1>8, <3>2, <3>3
  <2> QED
    BY <2>1, <2>2 DEF Listed
<1>15. Distinct'
  <2> SUFFICES ASSUME NEW j, NEW m, NEW k, NEW l, NEW r, Lists(j, k, r)', Lists(m, l, r)'
               PROVE  j = m /\ k = l
    BY DEF Distinct
  <2>1. back(j) = back(m) /\ k = l
    BY <1>0, <1>7 DEF Distinct
  <2>2. j \in DOMAIN items' /\ m \in DOMAIN items'
    BY DEF Lists
  <2> QED
    BY <1>5, <2>1, <2>2
<1>16. FreshInv'
  BY <1>0, <1>9 DEF FreshInv, Closed
<1>17. IdsInv'
  BY <1>0, <1>2 DEF IdsInv
<1>18. KeysInv'
  <2>1. ASSUME NEW j \in DOMAIN items' PROVE KeyAt(j)' = KeyAt(back(j))
    <3>1. items'[j] = items[back(j)] /\ back(j) \in DOMAIN items \ {n}
      BY <1>2
    <3>2. Lists(back(j), 1, items[back(j)].ids[1])
      BY <3>1, ItemRows
    <3>3. rules'[items[back(j)].ids[1]] = rules[items[back(j)].ids[1]]
      BY <1>0, <1>10, <1>12, <3>1, <3>2 DEF Listed, Rows
    <3> QED
      BY <3>1, <3>3 DEF KeyAt, Key
  <2> SUFFICES ASSUME NEW j \in DOMAIN items', NEW m \in DOMAIN items', KeyAt(j)' = KeyAt(m)'
               PROVE  j = m
    BY DEF KeysInv
  <2>2. back(j) = back(m)
    BY <1>0, <1>2, <2>1 DEF KeysInv
  <2> QED
    BY <1>5, <2>2
<1>19. Ordered
  <2>0. PICK at : at = [m \in DOMAIN items |-> front(m)]
    OBVIOUS
  <2>1. at \in [DOMAIN items -> Nat]
    BY <1>1, <2>0 DEF front
  <2>2. ASSUME NEW i, NEW k, NEW q, NEW m, NEW l, NEW r,
               Lists(i, k, q), rules'[q] = rules[q], Lists(m, l, r), rules'[r] = rules[r]
        PROVE  /\ Lists(at[i], k, q)' /\ items'[at[i]] = items[i]
               /\ i < m => at[i] < at[m]
    <3>1. ASSUME NEW h, NEW p, NEW s, Lists(h, p, s), rules'[s] = rules[s]
          PROVE  h # n /\ h \in DOMAIN items
      <4>1. s \in Rows
        BY <1>0, <3>1 DEF Listed
      <4>2. s \notin IdsOf(items[n])
        BY <1>0, <3>1, <4>1 DEF Rows, Closed
      <4> QED
        BY <1>11, <3>1, <4>2 DEF Lists
    <3>2. i # n /\ m # n /\ i \in DOMAIN items /\ m \in DOMAIN items
      BY <2>2, <3>1
    <3>3. at[i] = front(i) /\ at[m] = front(m)
      BY <2>0, <3>2
    <3> QED
      BY <1>6, <1>8, <2>2, <3>2, <3>3
  <2> QED
    BY <2>1, <2>2, Zenon DEF Ordered
<1> QED
  BY <1>13, <1>14, <1>15, <1>16, <1>17, <1>18, <1>19 DEF IInv

\* A request for a rule of the page that is not the rule for all traffic.
ItemRequest ==
  \/ \E e \in Egresses :
       \/ \E m \in Matchers : CreateCustom(m, e)
       \/ \E g \in Groups : CreateGroup(g, e)
       \/ \E n \in DOMAIN items : UpdateGroup(n, e) \/ \E m \in Matchers : UpdateCustom(n, m, e)
  \/ \E n \in DOMAIN items : DeleteItem(n)

\* Such a request keeps the invariant and the order of the rows it leaves alone.
LEMMA ItemStep == ASSUME IInv, ItemRequest PROVE IInv' /\ Ordered /\ default' = default
<1>1. CASE \E e \in Egresses, m \in Matchers : CreateCustom(m, e)
  <2>1. PICK e \in Egresses, m \in Matchers : CreateCustom(m, e)
    BY <1>1
  <2> DEFINE ms == <<m>>
  <2>2. ms \in Seq(Matchers) /\ ms # <<>> /\ Len(ms) = 1 /\ ms[1] = m
    OBVIOUS
  <2>3. ~Used(<<"custom", ms[1]>>) /\ AddItem(None, ms, e) /\ default' = default
    BY <2>1 DEF CreateCustom, AddItem
  <2> HIDE DEF ms
  <2> QED
    BY <2>2, <2>3, AddStep
<1>2. CASE \E e \in Egresses, g \in Groups : CreateGroup(g, e)
  <2>1. PICK e \in Egresses, g \in Groups : CreateGroup(g, e)
    BY <1>2
  <2> DEFINE ms == GroupRules[g]
  <2>2. ms \in Seq(Matchers) /\ ms # <<>> /\ g # None
    BY GroupAssumption, IdAssumption
  <2>3. ~Used(GroupKey(g)) /\ AddItem(g, ms, e) /\ default' = default
    BY <2>1 DEF CreateGroup, AddItem
  <2> HIDE DEF ms
  <2> QED
    BY <2>2, <2>3, AddStep
<1>3. CASE \E e \in Egresses, n \in DOMAIN items : UpdateGroup(n, e)
  <2>1. PICK e \in Egresses, n \in DOMAIN items : UpdateGroup(n, e)
    BY <1>3
  <2>2. items' = items /\ default' = default
    BY <2>1 DEF UpdateGroup
  <2> QED
    BY <2>1, <2>2, UpdateGroupStep, InPlace DEF IInv
<1>4. CASE \E e \in Egresses, n \in DOMAIN items, m \in Matchers : UpdateCustom(n, m, e)
  <2>1. PICK e \in Egresses, n \in DOMAIN items, m \in Matchers : UpdateCustom(n, m, e)
    BY <1>4
  <2>2. items' = items /\ default' = default
    BY <2>1 DEF UpdateCustom
  <2> QED
    BY <2>1, <2>2, UpdateCustomStep, InPlace DEF IInv
<1>5. CASE \E n \in DOMAIN items : DeleteItem(n)
  BY <1>5, DeleteStep DEF DeleteItem
<1> QED
  BY <1>1, <1>2, <1>3, <1>4, <1>5 DEF ItemRequest

\* A request either changes the default or is one for an item.
LEMMA Requests == ASSUME Next PROVE ItemRequest \/ DefaultRequest
BY DEF Next, ItemRequest, DefaultRequest

\* Every step keeps the invariant.
LEMMA IInvNext == IInv /\ [Next]_vars => IInv'
<1> SUFFICES ASSUME IInv, [Next]_vars PROVE IInv'
  OBVIOUS
<1>1. CASE UNCHANGED vars
  BY <1>1 DEF vars, IInv, Types, Listed, Distinct, FreshInv, IdsInv, KeysInv, KeyAt, Key,
              Lists, Rows
<1>2. CASE Next
  BY <1>2, ItemStep, DefaultStep, Requests
<1> QED
  BY <1>1, <1>2

\* The invariant holds in every state of every run.
LEMMA IInvAlways == Spec => []IInv
BY InitInv, IInvNext, PTL DEF Spec

-----------------------------------------------------------------------------
(* No other visit is re-routed *)

\* What is known of ranks and winners, stated so that it can be said of the next state.
RankFact ==
  \A n, k, r : Lists(n, k, r) => /\ r \in Rows
                                 /\ Rank(r) = <<ItemPriority(items[n], r), n, k>>
                                 /\ Rank(r) \in Nat \X Nat \X Nat
RouteFact == \A d, w : Wins(w, d) => Route(d) = rules[w].target
DefaultFact == \A d : Hit(d) = {} => Route(d) = default

\* The facts hold where the invariant does, after a step as before it.
LEMMA FactsNext == IInv' => RankFact' /\ RouteFact' /\ DefaultFact'
<1>1. IInv => RankFact /\ RouteFact /\ DefaultFact
  BY RankIs, WinnerRoutes, DefaultRoutes DEF IInv, Listed, RankFact, RouteFact, DefaultFact
<1> QED
  BY <1>1, PTL

\* Rows that a request leaves alone keep their order.
LEMMA BeforeKept ==
  ASSUME IInv, IInv', Ordered, NEW q \in Rows, NEW r \in Rows,
         rules'[q] = rules[q], rules'[r] = rules[r], Before(q, r)
  PROVE  Before(q, r)'
<1>1. PICK n, k : Lists(n, k, q)
  BY DEF IInv, Listed
<1>2. PICK m, l : Lists(m, l, r)
  BY DEF IInv, Listed
<1>3. PICK at \in [DOMAIN items -> Nat] :
        \A n_1, k_1, q_1, m_1, l_1, r_1 :
          /\ Lists(n_1, k_1, q_1) /\ rules'[q_1] = rules[q_1]
          /\ Lists(m_1, l_1, r_1) /\ rules'[r_1] = rules[r_1]
          => /\ Lists(at[n_1], k_1, q_1)' /\ items'[at[n_1]] = items[n_1]
             /\ n_1 < m_1 => at[n_1] < at[m_1]
  BY Zenon DEF Ordered
<1>4. /\ Lists(at[n], k, q)' /\ items'[at[n]] = items[n]
      /\ Lists(at[m], l, r)' /\ items'[at[m]] = items[m]
      /\ n < m => at[n] < at[m]
  BY <1>1, <1>2, <1>3
<1>5. /\ Rank(q) = <<ItemPriority(items[n], q), n, k>> /\ Rank(q) \in Nat \X Nat \X Nat
      /\ Rank(r) = <<ItemPriority(items[m], r), m, l>> /\ Rank(r) \in Nat \X Nat \X Nat
  BY <1>1, <1>2, RankIs
<1>6. /\ Rank(q)' = <<ItemPriority(items[n], q), at[n], k>>
      /\ Rank(r)' = <<ItemPriority(items[m], r), at[m], l>>
  <2>1. /\ q \in Rows' /\ Rank(q)' = <<ItemPriority(items[at[n]], q)', at[n], k>>
        /\ r \in Rows' /\ Rank(r)' = <<ItemPriority(items[at[m]], r)', at[m], l>>
    BY <1>4, FactsNext DEF RankFact
  <2> QED
    BY <1>4, <2>1 DEF ItemPriority
<1>7. at[n] \in Nat /\ at[m] \in Nat
  BY <1>1, <1>2, <1>3 DEF Lists
<1> QED
  BY <1>4, <1>5, <1>6, <1>7 DEF Before, RankBefore

\* Rows that match a visit and that the request leaves alone.
LEMMA HitKept ==
  ASSUME NEW d,
         \A r \in RuleIds : rules'[r] # rules[r] =>
           /\ ~(r \in Rows /\ d \in Covers(rules[r].matcher))
           /\ ~(r \in Rows' /\ d \in Covers(rules'[r].matcher))
  PROVE  Hit(d)' = Hit(d) /\ \A r \in Hit(d) : r \in Rows /\ rules'[r] = rules[r]
<1>1. \A r \in Hit(d) : r \in RuleIds /\ r \in Rows /\ rules'[r] = rules[r] /\ r \in Rows'
  BY DEF Hit, Rows
<1>2. \A r \in Hit(d)' : r \in RuleIds /\ r \in Rows' /\ rules'[r] = rules[r] /\ r \in Rows
  BY DEF Hit, Rows
<1>3. \A r \in Hit(d) : r \in Hit(d)'
  BY <1>1 DEF Hit
<1>4. \A r \in Hit(d)' : r \in Hit(d)
  BY <1>2 DEF Hit
<1> QED
  BY <1>1, <1>3, <1>4

\* A visit keeps its winner, and with it its route.
LEMMA RouteKept ==
  ASSUME IInv, IInv', NEW d,
         Hit(d)' = Hit(d), \A r \in Hit(d) : r \in Rows /\ rules'[r] = rules[r],
         \A q, r \in Hit(d) : Before(q, r) => Before(q, r)',
         Hit(d) = {} => default' = default
  PROVE  Route(d)' = Route(d)
<1>1. CASE Hit(d) = {}
  BY <1>1, DefaultRoutes, FactsNext DEF DefaultFact
<1>2. CASE Hit(d) # {}
  <2>1. PICK w : Wins(w, d)
    BY <1>2, WinnerExists
  <2>2. Wins(w, d)'
    BY <2>1 DEF Wins
  <2>3. Route(d) = rules[w].target /\ Route(d)' = rules'[w].target
    BY <2>1, <2>2, WinnerRoutes, FactsNext DEF RouteFact
  <2> QED
    BY <2>1, <2>3 DEF Wins
<1> QED
  BY <1>1, <1>2

-----------------------------------------------------------------------------
(* Theorems *)

\* The invariant gives the types, and that every row has one place in the metadata.
LEMMA IInvTypes == ASSUME IInv PROVE TypeOK
<1>1. Types /\ Listed /\ Distinct
  BY DEF IInv
<1>2. Rows = UNION {IdsOf(items[n]) : n \in DOMAIN items}
  <2>1. ASSUME NEW r \in Rows PROVE \E n \in DOMAIN items : r \in IdsOf(items[n])
    <3>1. PICK n, k : Lists(n, k, r)
      BY <1>1 DEF Listed
    <3> QED
      BY <1>1, <3>1, ItemTyped DEF Lists
  <2>2. ASSUME NEW n \in DOMAIN items, NEW r \in IdsOf(items[n]) PROVE r \in Rows
    BY <1>1, ItemTyped DEF Listed
  <2> QED
    BY <2>1, <2>2
<1>3. \A n, m \in DOMAIN items :
        \A k \in DOMAIN items[n].ids, l \in DOMAIN items[m].ids :
          items[n].ids[k] = items[m].ids[l] => n = m /\ k = l
  <2> SUFFICES ASSUME NEW n \in DOMAIN items, NEW m \in DOMAIN items,
                      NEW k \in DOMAIN items[n].ids, NEW l \in DOMAIN items[m].ids,
                      items[n].ids[k] = items[m].ids[l]
               PROVE  n = m /\ k = l
    OBVIOUS
  <2>1. Lists(n, k, items[n].ids[k]) /\ Lists(m, l, items[n].ids[k])
    BY DEF Lists
  <2> QED
    BY <1>1, <2>1 DEF Distinct
<1> QED
  BY <1>1, <1>2, <1>3 DEF TypeOK, Types

\* The state keeps its types; every row has one place in the metadata of the policy, and
\* every place its row.
THEOREM TypeCorrect == Spec => []TypeOK
BY IInvAlways, IInvTypes, PTL

\* A visit follows a rule of the best documented class that matches it, in every state that
\* requests can lead to; the default gets what no rule matches.
THEOREM DocumentedOrder == Spec => []BestClassWins
BY IInvAlways, BestWins, PTL

\* The order that the preview of conflicts announces is the order in which Xray gets the
\* rules, although two functions of the code compute them.
THEOREM PreviewTells == Spec => []PreviewTrue
BY IInvAlways, Previewed, PTL

\* A request re-routes only visits that a rule it adds, changes or removes matches, or that
\* no rule matches when it changes the default.
THEOREM OthersStay == Spec => OthersKeepRoute
<1> DEFINE Stays(d) ==
             \/ \E r \in RuleIds :
                  /\ rules'[r] # rules[r]
                  /\ \/ r \in Rows /\ d \in Covers(rules[r].matcher)
                     \/ r \in Rows' /\ d \in Covers(rules'[r].matcher)
             \/ Route(d)' = Route(d)
             \/ default' # default /\ \A r \in Rows : d \notin Covers(rules[r].matcher)
<1>1. ASSUME IInv, IInv', Next, NEW d \in Domains PROVE Stays(d)
  <2> SUFFICES ASSUME \A r \in RuleIds :
                        rules'[r] # rules[r]
                          => /\ ~(r \in Rows /\ d \in Covers(rules[r].matcher))
                             /\ ~(r \in Rows' /\ d \in Covers(rules'[r].matcher)),
                      ~(default' # default /\ \A r \in Rows : d \notin Covers(rules[r].matcher))
               PROVE  Route(d)' = Route(d)
    OBVIOUS
  <2>1. Hit(d)' = Hit(d) /\ \A r \in Hit(d) : r \in Rows /\ rules'[r] = rules[r]
    BY HitKept
  <2>2. Hit(d) = {} => default' = default
    BY DEF Hit
  <2>3. Ordered
    <3>1. CASE ItemRequest
      BY <1>1, <3>1, ItemStep
    <3>2. CASE DefaultRequest
      <4>1. items' = items
        BY <3>2 DEF DefaultRequest, CreateAll, UpdateAll, DeleteAll
      <4> QED
        BY <1>1, <4>1, InPlace DEF IInv
    <3> QED
      BY <1>1, <3>1, <3>2, Requests
  <2>4. \A q, r \in Hit(d) : Before(q, r) => Before(q, r)'
    BY <1>1, <2>1, <2>3, BeforeKept
  <2> QED
    BY <1>1, <2>1, <2>2, <2>4, RouteKept
<1>2. IInv /\ IInv' /\ [Next]_vars
        => [\A d \in Domains :
              \/ \E r \in RuleIds :
                   /\ rules'[r] # rules[r]
                   /\ \/ r \in Rows /\ d \in Covers(rules[r].matcher)
                      \/ r \in Rows' /\ d \in Covers(rules'[r].matcher)
              \/ Route(d)' = Route(d)
              \/ default' # default /\ \A r \in Rows : d \notin Covers(rules[r].matcher)]_vars
  BY <1>1
<1> QED
  BY <1>2, IInvAlways, PTL DEF Spec, OthersKeepRoute
=============================================================================
