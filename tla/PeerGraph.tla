----------------------------- MODULE PeerGraph -----------------------------
(***************************************************************************)
(* The graph of a crawl and its measures (src/arweave/peer-graph.ts).  A   *)
(* graph G is a record of nodes and edges; an edge comes from a node and   *)
(* may lead to an address that is none.  Fractions are pairs, and          *)
(* betweenness is in units of 1/Unit(G), which every number of shortest    *)
(* paths divides: the rounding of floating point is left out.              *)
(***************************************************************************)
EXTENDS Grouping, Sequences

\* getNeighbors: who the node lists and who lists it, a node or not.
Neighbors(G, a) ==
  {b \in G.node \cup {e[2] : e \in G.edge} : <<a, b>> \in G.edge \/ <<b, a>> \in G.edge}

\* markBidirectionalEdges: an address that lists itself is its own reverse.
Bidirectional(G) == {e \in G.edge : <<e[2], e[1]>> \in G.edge}

\* calculateClusteringCoefficient: zero with fewer than two neighbours.
ClusteringCoefficient(G, a) ==
  LET pairs == kSubset(2, Neighbors(G, a))
      IsJoined(pair) == \E p, q \in pair : p # q /\ <<p, q>> \in G.edge
  IN  <<Cardinality({pair \in pairs : IsJoined(pair)}), Cardinality(pairs)>>

\* Mutant of Component: only along the edges, and not against them.
ComponentListed(G, a) ==
  LET reached[d \in 0 .. Cardinality(G.node)] ==
        IF d = 0 THEN {a}
        ELSE LET before == reached[d - 1]
             IN  before \cup {e[2] : e \in {f \in G.edge : f[1] \in before}}
  IN  reached[Cardinality(G.node)]

\* findConnectedComponents: breadth first, through addresses that are no nodes too.
Component(G, a) ==
  LET reached[d \in 0 .. Cardinality(G.node \cup {e[2] : e \in G.edge})] ==
        IF d = 0 THEN {a}
        ELSE LET before == reached[d - 1]
             IN  before \cup UNION {Neighbors(G, b) : b \in before}
  IN  reached[Cardinality(G.node \cup {e[2] : e \in G.edge})]

Components(G) == {Component(G, a) : a \in G.node}

\* calculateDensity: of the edges between any two nodes, those to no node counted in.
Density(G) ==
  LET n == Cardinality(G.node)
  IN  IF n < 2 THEN <<0, 1>> ELSE <<Cardinality(G.edge), n * (n - 1)>>
-----------------------------------------------------------------------------
(***************************************************************************)
(* calculateBetweennessCentrality, Brandes' algorithm.  What it reads of   *)
(* the queue and the stack is the layer of a node: its distance from the   *)
(* source.  Addresses that are no nodes have none and are passed over.     *)
(***************************************************************************)
\* The nodes at each distance from the source.
Layers(G, source) ==
  LET n == Cardinality(G.node)
      within[d \in 0 .. n] ==
        IF d = 0 THEN {source}
        ELSE LET before == within[d - 1]
             IN  before \cup (G.node \cap UNION {Neighbors(G, v) : v \in before})
  IN  Tabulated([d \in 0 .. n |-> IF d = 0 THEN {source} ELSE within[d] \ within[d - 1]])

\* sigma: the number of shortest paths from the source, layer by layer.
PathCounts(G, layers) ==
  LET n == Cardinality(G.node)
      counts[d \in 0 .. n] ==
        IF d = 0 THEN [w \in G.node |-> IF w \in layers[0] THEN 1 ELSE 0]
        ELSE LET before == counts[d - 1]
             IN  Tabulated([w \in G.node |->
                    IF w \in layers[d]
                    THEN SumFunctionOnSet(before, layers[d - 1] \cap Neighbors(G, w))
                    ELSE before[w]])
  IN  counts[n]

\* A multiple of every number of shortest paths between two nodes.
Unit(G) ==
  ProductSet((UNION {Range(PathCounts(G, Layers(G, s))) : s \in G.node}) \ {0})

\* delta: what depends on v of the paths from the source, the farthest layer first.
Dependencies(G, unit, source) ==
  LET n == Cardinality(G.node)
      layers == Layers(G, source)
      sigma == PathCounts(G, layers)
      delta[k \in 0 .. n] ==
        IF k = 0 THEN [v \in G.node |-> 0]
        ELSE LET below == delta[k - 1]
                 After(v) == layers[n - k + 1] \cap Neighbors(G, v)
                 Share(v, w) == (sigma[v] * (unit + below[w])) \div sigma[w]
             IN  Tabulated([v \in G.node |->
                    IF v \in layers[n - k]
                    THEN SumFunctionOnSet([w \in After(v) |-> Share(v, w)], After(v))
                    ELSE below[v]])
  IN  delta[n]

\* Mutant of Betweenness: the source is counted for its own paths.
BetweennessWithSource(G) ==
  LET n == Cardinality(G.node)
      unit == Unit(G)
      dependencies == Tabulated([s \in G.node |-> Dependencies(G, unit, s)])
      Sum(v) == SumFunctionOnSet([s \in G.node |-> dependencies[s][v]], G.node)
  IN  Tabulated([v \in G.node |->
         IF n > 2 THEN <<2 * Sum(v), unit * (n - 1) * (n - 2)>> ELSE <<Sum(v), unit>>])

\* Every pair is counted from both ends, and the factor doubles it again.
Betweenness(G) ==
  LET n == Cardinality(G.node)
      unit == Unit(G)
      dependencies == Tabulated([s \in G.node |-> Dependencies(G, unit, s)])
      Sum(v) == SumFunctionOnSet([s \in G.node |-> dependencies[s][v]], G.node \ {v})
  IN  Tabulated([v \in G.node |->
         IF n > 2 THEN <<2 * Sum(v), unit * (n - 1) * (n - 2)>> ELSE <<Sum(v), unit>>])
-----------------------------------------------------------------------------
(***************************************************************************)
(* The definition of betweenness: of the pairs of other nodes, and of the  *)
(* shortest paths between them, the share that leads through the node.     *)
(***************************************************************************)
Adjacent(G, a) == {b \in G.node \ {a} : {<<a, b>>, <<b, a>>} \cap G.edge # {}}

\* The number of walks of each length between two nodes.
Walks(G) ==
  LET walks[k \in 0 .. Cardinality(G.node)] ==
        IF k = 0 THEN [p \in G.node \X G.node |-> IF p[1] = p[2] THEN 1 ELSE 0]
        ELSE LET before == walks[k - 1]
             IN  Tabulated([p \in G.node \X G.node |->
                   SumFunctionOnSet([u \in G.node |-> before[<<p[1], u>>]], Adjacent(G, p[2]))])
  IN  Tabulated(walks)

\* The length of a shortest walk, which is a path; with none, one more than any.
Distance(walks, s, t) ==
  Min({k \in DOMAIN walks : walks[k][<<s, t>>] > 0} \cup {Cardinality(DOMAIN walks)})

ShortestPaths(walks, s, t) ==
  IF Distance(walks, s, t) \in DOMAIN walks THEN walks[Distance(walks, s, t)][<<s, t>>] ELSE 0

PairDependency(unit, walks, s, t, v) ==
  IF /\ Distance(walks, s, t) \in DOMAIN walks
     /\ Distance(walks, s, v) + Distance(walks, v, t) = Distance(walks, s, t)
  THEN (unit * ShortestPaths(walks, s, v) * ShortestPaths(walks, v, t))
         \div ShortestPaths(walks, s, t)
  ELSE 0

\* Over the unordered pairs of other nodes.
BetweennessByDefinition(G, unit) ==
  LET walks == Walks(G)
      Others(v) == kSubset(2, G.node \ {v})
      Of(pair, v) == LET s == CHOOSE x \in pair : TRUE
                         t == CHOOSE x \in pair : x # s
                     IN  PairDependency(unit, walks, s, t, v)
  IN  Tabulated([v \in G.node |->
         SumFunctionOnSet([pair \in Others(v) |-> Of(pair, v)], Others(v))])
=============================================================================
