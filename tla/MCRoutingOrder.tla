--------------------------- MODULE MCRoutingOrder ---------------------------
(***************************************************************************)
(* A name and its parent domain, one pattern that matches only the longer  *)
(* of the two, and a group of every type.                                  *)
(***************************************************************************)
EXTENDS RoutingOrder

MCUnder == {<<"a", "a">>, <<"b", "b">>, <<"b", "a">>}
MCMatched == [p \in {"k"} |-> {"b"}]
MCGroups == {"c1", "a1", "g1", "s1"}
MCGroupType == [c1 |-> "custom", a1 |-> "ai", g1 |-> "game", s1 |-> "streaming"]
MCGroupRules ==
  [c1 |-> <<[mode |-> "suffix", value |-> "a"], [mode |-> "keyword", value |-> "k"]>>,
   a1 |-> <<[mode |-> "exact", value |-> "b"]>>,
   g1 |-> <<[mode |-> "suffix", value |-> "b"]>>,
   s1 |-> <<[mode |-> "suffix", value |-> "a"]>>]
=============================================================================
