---------------------------- MODULE RequiresGraph ----------------------------
(***************************************************************************)
(* The dependency graph that REQUIRES statements describe.  A component is *)
(* a directory with a flavour (`dir^flavour'), and graph[c] is the set   *)
(* of components its REQUIRES statement names.  build_requires writes, for *)
(* the directory it runs in, the edges of this graph and the list TREEDIRS *)
(* of the components that can be reached; this module says what that list  *)
(* has to be.                                                              *)
(***************************************************************************)

\* A set of components that contains the requirements of each of its members.
Closed(graph, S) == \A c \in S : graph[c] \subseteq S

\* T is what can be reached from start: the least closed set that contains it.
Reachable(graph, start, T) ==
    /\ T \subseteq DOMAIN graph
    /\ start \subseteq T
    /\ Closed(graph, T)
    /\ \A S \in SUBSET DOMAIN graph :
          start \subseteq S /\ Closed(graph, S) => T \subseteq S

\* T is the TREEDIRS list of component c.
IsTree(graph, c, T) == Reachable(graph, graph[c], T)

=============================================================================
