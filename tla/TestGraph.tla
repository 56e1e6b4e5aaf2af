------------------------------ MODULE TestGraph ------------------------------
(***************************************************************************)
(* The validated test graph every other component works on: the decorated  *)
(* tests of graph/api.py and their `use(...)` dependencies.  Machine       *)
(* sources are not nodes here: they are never scheduled and never appear   *)
(* in a report; module Executor adds them.                                 *)
(***************************************************************************)
EXTENDS Naturals, FiniteSets

CONSTANTS
  Nodes,     \* the collected TestNodes of a run, internal setups included
  NodeDeps   \* NodeDeps[n] is the set of TestNodes n uses

(***************************************************************************)
(* TestGraph.validate rejects every graph with a dependency cycle before   *)
(* anything runs.  A finite graph is acyclic exactly when every nonempty   *)
(* set of nodes has a member that uses no other member of the set.         *)
(***************************************************************************)
Acyclic(N, deps) ==
  \A S \in SUBSET N : S # {} => \E n \in S : deps[n] \cap S = {}

ASSUME GraphAssumption ==
  /\ IsFiniteSet(Nodes)
  /\ NodeDeps \in [Nodes -> SUBSET Nodes]
  /\ Acyclic(Nodes, NodeDeps)

\* A set of nodes that holds everything its members use.
DependencyClosed(S) == \A n \in S : NodeDeps[n] \subseteq S

(***************************************************************************)
(* Upstream[n] is n with everything it depends on, directly or not: the    *)
(* smallest dependency-closed set that holds n.                            *)
(***************************************************************************)
Upstream ==
  [n \in Nodes |->
     {m \in Nodes : \A S \in SUBSET Nodes :
                       n \in S /\ DependencyClosed(S) => m \in S}]

\* The direct and indirect consumers of n, n itself excluded.
Consumers == [n \in Nodes |-> {m \in Nodes \ {n} : n \in Upstream[m]}]
==============================================================================
