---------------------------- MODULE SimpleRouting ----------------------------
(***************************************************************************)
(* What the simple mode promises: every inbound has a table that says      *)
(* through which egress each kind of traffic leaves.  A request of the     *)
(* simple page changes one entry of one inbound, entirely or not at all;   *)
(* deleting an inbound, or giving it an advanced policy, clears that       *)
(* inbound's table and no other.                                           *)
(***************************************************************************)
CONSTANTS
  Inbounds,  \* inbound ids
  Traffic,   \* the kinds of traffic a simple rule is about, ALL included
  Custom,    \* those given by a domain the user may edit
  Egresses,  \* egress ids
  None       \* no entry

VARIABLE route  \* per inbound and kind of traffic the egress, or None

Entries == [Traffic -> Egresses \cup {None}]

Init == route \in [Inbounds -> Entries]

Create(i, k, e) ==
  /\ route[i][k] = None
  /\ route' = [route EXCEPT ![i][k] = e]

Update(i, k, e) ==
  /\ route[i][k] # None
  /\ route' = [route EXCEPT ![i][k] = e]

\* A custom domain is edited in place: new domain, perhaps a new egress.
Rename(i, k, l, e) ==
  /\ k # l /\ route[i][k] # None /\ route[i][l] = None
  /\ route' = [route EXCEPT ![i][k] = None, ![i][l] = e]

Delete(i, k) == route' = [route EXCEPT ![i][k] = None]

Clear(i) == route' = [route EXCEPT ![i] = [k \in Traffic |-> None]]

Next ==
  \E i \in Inbounds :
    \/ Clear(i)
    \/ \E k \in Traffic :
         \/ Delete(i, k)
         \/ \E e \in Egresses : \/ Create(i, k, e)
                                \/ Update(i, k, e)
                                \/ k \in Custom /\ \E l \in Custom : Rename(i, k, l, e)

Spec == Init /\ [][Next]_route
=============================================================================
