---------------------------- MODULE MCPolicyStore ----------------------------
(***************************************************************************)
(* Small tables for TLC.  Policies and rules are numbered, in ranges of    *)
(* their own; all other ids and the handlers are model values and          *)
(* interchangeable.                                                        *)
(***************************************************************************)
EXTENDS PolicyStore, TLC

Interchangeable == Permutations(Egresses) \cup Permutations(Inbounds)
                   \cup Permutations(Handlers)

\* Bounds of the runs about simple state: behaviours end where an id is handed out
\* while it is named, for there those properties say nothing any more; and tables
\* that no request of the run changes are full.
Bounded ==
  /\ ~reissued
  /\ "egress" \in Kinds \/ db.egresses = Egresses
  /\ "inbound" \in Kinds \/ db.inbounds = Inbounds
=============================================================================
