---------------------------- MODULE ShortestPath ----------------------------
(***************************************************************************)
(* The route of a walk in the digital world: graph.ts turns nodes and edges *)
(* into an adjacency list and dijkstra.ts searches it, settling one node a  *)
(* turn.  The search is checked against the paths themselves.               *)
(***************************************************************************)
EXTENDS Integers, Sequences, FiniteSetsExt

CONSTANTS
  NodeCount,    \* nodes of the world, 1..NodeCount
  Distances     \* distances an edge can have

Node      == 1..NodeCount
NoEdge    == -100    \* no neighbour
Unreached == -1      \* a distance of Infinity: the search knows no negative one

ASSUME RouteAssumption ==
  NodeCount \in Nat \ {0} /\ Distances \subseteq Int /\ NoEdge \notin Distances

VARIABLES road, from, to, distances, previous, visited, route

routeVars == <<road, from, to, distances, previous, visited, route>>

Searching == [state |-> "search", nodes |-> <<>>, distance |-> 0]
NoRoute   == [state |-> "none", nodes |-> <<>>, distance |-> 0]

\* buildGraph: an edge leads one way, or both ways with the one distance.
AdjacencyLists ==
  LET edges == [{p \in Node \X Node : p[1] < p[2]} ->
                  {[dist |-> NoEdge, both |-> FALSE]}
                    \cup [dist : Distances, both : BOOLEAN]]
  IN  {[p \in Node \X Node |->
          IF p[1] < p[2] THEN e[p].dist
          ELSE IF p[1] > p[2] /\ e[<<p[2], p[1]>>].both THEN e[<<p[2], p[1]>>].dist
          ELSE NoEdge] : e \in edges}

RouteInit ==
  /\ road \in AdjacencyLists
  /\ from \in Node /\ to \in Node
  /\ distances = [p \in Node |-> IF p = from THEN 0 ELSE Unreached]
  /\ previous = [p \in Node |-> 0]
  /\ visited = {}
  /\ route = IF from = to THEN [state |-> "found", nodes |-> <<from>>, distance |-> 0]
             ELSE IF \E p \in DOMAIN road : road[p] # NoEdge /\ road[p] < 0
                    THEN NoRoute
                    ELSE Searching

\* The unvisited node at the least distance, the first of the map among equals.
Open    == {p \in Node \ visited : distances[p] # Unreached}
nearest_First == Min(Open)
nearest == Min({p \in Open : \A q \in Open : distances[p] <= distances[q]})

SettleNode ==
  /\ route.state = "search" /\ Open # {} /\ nearest # to
  /\ visited' = visited \cup {nearest}
  /\ LET alt(p)    == distances[nearest] + road[<<nearest, p>>]
         better(p) == /\ p \notin visited' /\ road[<<nearest, p>>] # NoEdge
                      /\ distances[p] = Unreached \/ alt(p) < distances[p]
     IN  /\ distances' = [p \in Node |-> IF better(p) THEN alt(p) ELSE distances[p]]
         /\ previous'  = [p \in Node |-> IF better(p) THEN nearest ELSE previous[p]]
  /\ UNCHANGED <<road, from, to, route>>

\* The walk back from the target over "previous", a node a turn.
WalkBack ==
  LET walk[n \in 1..NodeCount] ==
        IF n = 1 THEN <<to>>
        ELSE IF previous[Head(walk[n - 1])] = 0 THEN walk[n - 1]
        ELSE <<previous[Head(walk[n - 1])]>> \o walk[n - 1]
  IN  walk[NodeCount]

Finish ==
  /\ route.state = "search"
  /\ Open # {} => nearest = to
  /\ route' = IF distances[to] = Unreached THEN NoRoute
              ELSE [state |-> "found", nodes |-> WalkBack, distance |-> distances[to]]
  /\ UNCHANGED <<road, from, to, distances, previous, visited>>

RouteNext == SettleNode \/ Finish

RouteSpec == RouteInit /\ [][RouteNext]_routeVars

-----------------------------------------------------------------------------
(* The reference: every way through the graph that passes no node twice. *)

Paths == {s \in UNION {[1..n -> Node] : n \in 1..NodeCount} :
            /\ s[1] = from /\ s[Len(s)] = to
            /\ \A i, j \in 1..Len(s) : s[i] = s[j] => i = j
            /\ \A i \in 1..(Len(s) - 1) : road[<<s[i], s[i + 1]>>] # NoEdge}

Length(s) == LET sum[i \in 1..Len(s)] ==
                   IF i = 1 THEN 0 ELSE sum[i - 1] + road[<<s[i - 1], s[i]>>]
             IN  sum[Len(s)]

\* RouteIsShortest: the route handed to the animator is a way from the being's
\* node to the target, as long as it says and none shorter exists; without a
\* negative distance, there is a route whenever there is a way (W13).
RouteIsShortest ==
  /\ route.state = "found" =>
       /\ route.nodes \in Paths /\ Length(route.nodes) = route.distance
       /\ \A s \in Paths : route.distance <= Length(s)
  /\ route.state = "none" =>
       Paths = {} \/ \E p \in DOMAIN road : road[p] # NoEdge /\ road[p] < 0
=============================================================================
