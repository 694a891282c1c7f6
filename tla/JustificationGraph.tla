---------------------------- MODULE JustificationGraph ----------------------------
(***************************************************************************)
(* The graph of justifications and supersessions (src/packages/            *)
(* protocol-core/src/dag.ts): an append-only list of edges between claims  *)
(* and evidence, and the adjacency addEdge searches for cycles.            *)
(***************************************************************************)
EXTENDS Naturals, SequencesExt

CONSTANTS Nodes,       \* ids of claims and of evidence
          MaxEdges     \* bound on the list

ASSUME GraphAssumption == IsFiniteSet(Nodes) /\ MaxEdges \in Nat

VARIABLES edges, adjacency

graphVars == <<edges, adjacency>>

DAG_CONSTRAINED == {"JUSTIFIES", "REFINES", "NARROWS", "EXTENDS", "SUPERSEDES"}

EdgeKind == DAG_CONSTRAINED \cup {"CONTRADICTS", "RELATES_TO"}

Edge == [from : Nodes, to : Nodes, kind : EdgeKind]

GraphInit == edges = <<>> /\ adjacency = [n \in Nodes |-> {}]

-----------------------------------------------------------------------------
\* The nodes reached from start in at most |Nodes| steps, start among them.
Reachable(next, start) ==
  LET within[n \in Nat] ==
        IF n = 0 THEN {start}
        ELSE LET near == within[n - 1] IN near \cup UNION {next[m] : m \in near}
  IN within[Cardinality(Nodes)]

\* A slip: only a direct edge back is looked for.
DirectlyBack(start, target) == target \in adjacency[start]

\* findPath: a path of edges of any kind.
FindPath(start, target) == target \in Reachable(adjacency, start)

\* CycleError otherwise.
MayAdd(edge) ==
  /\ edge.from # edge.to
  /\ edge.kind \in DAG_CONSTRAINED => ~FindPath(edge.to, edge.from)

AddEdge(edge) ==
  /\ Len(edges) < MaxEdges
  /\ MayAdd(edge)
  /\ edges' = Append(edges, edge)
  /\ adjacency' = [adjacency EXCEPT ![edge.from] = @ \cup {edge.to}]

GraphNext == \E edge \in Edge : AddEdge(edge)

-----------------------------------------------------------------------------
SupportersOf(claim) ==
  {edges[i].from : i \in {j \in DOMAIN edges : edges[j].to = claim /\ edges[j].kind = "JUSTIFIES"}}

RelationshipsOf(claim) ==
  {edges[i] : i \in {j \in DOMAIN edges :
     claim \in {edges[j].from, edges[j].to} /\ edges[j].kind # "JUSTIFIES"}}

\* The claim that the first of its SUPERSEDES edges names, if there is one.
Successor(claim) ==
  LET superseding == {i \in DOMAIN edges :
                        edges[i].from = claim /\ edges[i].kind = "SUPERSEDES"}
  IN IF superseding = {} THEN {} ELSE {edges[Min(superseding)].to}

SuccessorChain(claim) ==
  LET walk[n \in Nat] ==
        IF n = 0 THEN <<claim>>
        ELSE LET chain == walk[n - 1]
                 next == Successor(Last(chain)) \ Range(chain)
             IN IF next = {} THEN chain ELSE Append(chain, CHOOSE m \in next : TRUE)
  IN Tail(walk[Cardinality(Nodes)])

-----------------------------------------------------------------------------
Dependencies ==
  [n \in Nodes |-> {edges[i].to : i \in {j \in DOMAIN edges :
                      edges[j].from = n /\ edges[j].kind \in DAG_CONSTRAINED}}]

(***************************************************************************)
(* No claim comes to depend on itself, directly or through a chain of      *)
(* justifications and supersessions of any kinds, in whatever order the    *)
(* edges were added; and the successors of a claim end in one claim that   *)
(* nothing supersedes, with no claim met twice and each step of the way    *)
(* among the relationships of both its ends.                               *)
(***************************************************************************)
DependenciesAcyclic ==
  /\ \A n \in Nodes : \A m \in Dependencies[n] : n \notin Reachable(Dependencies, m)
  /\ \A n \in Nodes : SupportersOf(n) \cap Reachable(Dependencies, n) = {}
  /\ \A n \in Nodes :
       LET chain == <<n>> \o SuccessorChain(n)
       IN /\ IsInjective(chain) /\ Successor(Last(chain)) = {}
          /\ \A i \in 1..(Len(chain) - 1) :
               [from |-> chain[i], to |-> chain[i + 1], kind |-> "SUPERSEDES"]
                 \in RelationshipsOf(chain[i]) \cap RelationshipsOf(chain[i + 1])
=============================================================================
