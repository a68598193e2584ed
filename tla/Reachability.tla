---------------------------- MODULE Reachability ----------------------------
(***************************************************************************)
(* What can be reached in a graph, without recursion: the smallest set     *)
(* that holds the start and is closed under the graph's edges.             *)
(***************************************************************************)

Closed(edges, S) == \A e \in edges : e[1] \in S => e[2] \in S

\* The nodes an edge path of any length, zero included, leads to from a.
Reach(nodes, edges, a) ==
  {b \in nodes : \A S \in SUBSET nodes : a \in S /\ Closed(edges, S) => b \in S}

\* No edge can be followed back to where it begins.
NoCycle(nodes, edges) == \A e \in edges : e[1] \notin Reach(nodes, edges, e[2])
=============================================================================
