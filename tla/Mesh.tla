-------------------------------- MODULE Mesh --------------------------------
(***************************************************************************)
(* The mesh engine (engine/mesh_engine.go): the link probes of the agents  *)
(* become an undirected graph, Dijkstra's algorithm finds the cheapest     *)
(* routes from the control node, and a fingerprint of the probes decides   *)
(* whether the table is a new version.  Compute holds the engine's mutex,  *)
(* so that one computation runs at a time.                                 *)
(***************************************************************************)
EXTENDS Integers, Sequences, FiniteSets, FiniteSetsExt

CONSTANTS
  Agent,       \* agent identifiers
  Source,      \* the control node
  Probe,       \* the probes there may be: [from, to, rtt]
  HopCost,     \* cfg.HopFactor
  HopLimit,    \* cfg.MaxHops; 0: none
  MaxProbes,   \* bound: probes of one computation
  MaxComputes  \* bound: computations

ASSUME MeshAssumption ==
  /\ IsFiniteSet(Agent) /\ Source \in Agent
  /\ HopCost \in Nat \ {0} /\ HopLimit \in Nat
  /\ MaxProbes \in Nat /\ MaxComputes \in Nat
  /\ Probe \subseteq [from : Agent, to : Agent, rtt : Nat]

VARIABLES
  probes,     \* the input of the computation
  graph,      \* cost of the link of two agents, for the pairs that have one
  dist, pred, \* Dijkstra's maps; their domains are the agents reached
  hops,
  visited,
  lastFP, version,
  routes,     \* the entries of the table that was returned last
  computes    \* computations begun; the phase of the one under way
meshVars == <<probes, graph, dist, pred, hops, visited, lastFP, version, routes, computes>>

Cost(p) == p.rtt + HopCost
EndsOf(p) == {p.from, p.to}

\* Probes from an agent to itself are ignored; of several probes of one pair,
\* in either direction, the cheapest counts.
BuildGraph(ps) ==
  [l \in {EndsOf(p) : p \in {q \in ps : q.from # q.to}} |-> Min({Cost(p) : p \in {q \in ps : EndsOf(q) = l}})]

\* Rtt is in half milliseconds here; the fingerprint has whole milliseconds.
ProbePrint(ps) == {[p EXCEPT !.rtt = p.rtt \div 2] : p \in ps}

MeshInit ==
  /\ probes = {} /\ graph = <<>> /\ dist = <<>> /\ pred = <<>> /\ hops = <<>> /\ visited = {}
  /\ lastFP = {} /\ version = 0 /\ routes = <<>>
  /\ computes = [n |-> 0, running |-> FALSE]

Compute(ps) ==
  /\ ~computes.running /\ computes.n < MaxComputes
  /\ computes' = [n |-> computes.n + 1, running |-> TRUE]
  /\ probes' = ps
  /\ graph' = BuildGraph(ps)
  /\ LET known == UNION DOMAIN BuildGraph(ps) IN
       dist' = IF Source \in known THEN [a \in {Source} |-> 0] ELSE <<>>
  /\ hops' = [a \in {Source} |-> 0]
  /\ pred' = <<>> /\ visited' = {}
  /\ UNCHANGED <<lastFP, version, routes>>

\* What is in the heap.
Queued == DOMAIN dist \ visited
Nearest_Any == Queued
\* The heap pops one of the nearest.
Nearest == {u \in Queued : \A v \in Queued : dist[u] <= dist[v]}

Closer(u) ==
  {v \in Agent \ (visited \cup {u}) :
     {u, v} \in DOMAIN graph /\ (v \in DOMAIN dist => dist[u] + graph[{u, v}] < dist[v])}

\* The nearest agent is settled, and the links to its neighbours are relaxed.
Settle(u) ==
  /\ computes.running /\ u \in Nearest
  /\ visited' = visited \cup {u}
  /\ dist' = [v \in DOMAIN dist \cup Closer(u) |-> IF v \in Closer(u) THEN dist[u] + graph[{u, v}] ELSE dist[v]]
  /\ pred' = [v \in DOMAIN pred \cup Closer(u) |-> IF v \in Closer(u) THEN u ELSE pred[v]]
  /\ hops' = [v \in DOMAIN hops \cup Closer(u) |-> IF v \in Closer(u) THEN hops[u] + 1 ELSE hops[v]]
  /\ UNCHANGED <<probes, graph, lastFP, version, routes, computes>>

\* The path that the predecessors give, with at most n more steps back.
Back[n \in 0..Cardinality(Agent)] ==
  [a \in Agent |->
     IF n = 0 \/ a = Source \/ a \notin DOMAIN pred THEN <<a>> ELSE Append(Back[n - 1][pred[a]], a)]
RebuildPath(dst) == Back[Cardinality(Agent)][dst]

Entry(dst) ==
  LET path == RebuildPath(dst) IN
  [next |-> path[2], hops |-> hops[dst], cost |-> dist[dst], path |-> path]

ReturnTable ==
  /\ computes.running /\ Queued = {}
  /\ routes' = [d \in {a \in DOMAIN dist \ {Source} : HopLimit > 0 => hops[a] <= HopLimit} |-> Entry(d)]
  /\ version' = IF ProbePrint(probes) = lastFP THEN version ELSE version + 1
  /\ lastFP' = ProbePrint(probes)
  /\ computes' = [computes EXCEPT !.running = FALSE]
  /\ UNCHANGED <<probes, graph, dist, pred, hops, visited>>

ProbeSets == UNION {kSubset(k, Probe) : k \in 0..MaxProbes}

MeshNext ==
  \/ \E ps \in ProbeSets : Compute(ps)
  \/ \E u \in Agent : Settle(u)
  \/ ReturnTable

-----------------------------------------------------------------------------
\* The paths from the source that repeat no agent.
SimplePaths ==
  {p \in UNION {[1..n -> Agent] : n \in 2..Cardinality(Agent)} :
     p[1] = Source /\ \A i, j \in DOMAIN p : i # j => p[i] # p[j]}
Link(p, i) == {p[i], p[i + 1]}
Walkable(p) == \A i \in 1..(Len(p) - 1) : Link(p, i) \in DOMAIN graph
PathCost(p) ==
  LET upTo[i \in 1..Len(p)] == IF i = 1 THEN 0 ELSE upTo[i - 1] + graph[Link(p, i - 1)]
  IN  upTo[Len(p)]
PathsTo(a) == {p \in SimplePaths : p[Len(p)] = a /\ Walkable(p)}
Cheapest(a) ==
  LET paths == PathsTo(a)
      least == Min({PathCost(p) : p \in paths})
  IN  {p \in paths : PathCost(p) = least}

\* The table that is returned holds a cheapest route, with its own cost, hop
\* count and next hop, to every agent that can be reached; an agent is left
\* out only when a cheapest route to it is longer than the hop limit.
RoutesOptimal ==
  computes.n > 0 /\ ~computes.running =>
    \A a \in Agent \ {Source} :
      IF a \in DOMAIN routes
      THEN LET r == routes[a] IN
           /\ r.path \in Cheapest(a) /\ r.cost = PathCost(r.path)
           /\ r.hops = Len(r.path) - 1 /\ r.next = r.path[2]
           /\ HopLimit > 0 => r.hops <= HopLimit
      ELSE PathsTo(a) = {} \/ \E p \in Cheapest(a) : HopLimit > 0 /\ Len(p) - 1 > HopLimit
=============================================================================
