----------------------------- MODULE NodeReport -----------------------------
(***************************************************************************)
(* What the Arweave analyzer makes of a crawl (ArweaveNodeAnalyzer in      *)
(* src/arweave/arweave-analyzer.ts): the peer graph and its measures, the  *)
(* places of the nodes (src/utils/geo-location.ts), clusters, scores and   *)
(* the summary.  The crawl is Crawler's; once its workers are done nothing *)
(* interrupts the analysis but the lookup of the places, of which any may  *)
(* fail.                                                                   *)
(*                                                                         *)
(* Scores are in hundredths and the overall one in ten-thousandths.  The   *)
(* thresholds of the code and the lengths its lists are cut to are         *)
(* constants, so that a small crawl reaches them.  Left out: the counts of *)
(* peers that /info claims, averages and percentages, the order of lists,  *)
(* the list of the hundred highest scores, and the three files.            *)
(***************************************************************************)
EXTENDS Crawler, PeerGraph

CONSTANTS
  Range24, Range16,  \* [IPv4 -> its ranges]
  Version,           \* [IPv4 -> the release it runs]
  Place,             \* [IPv4 -> what ip-api.com says: country, city, isp, asn, provider, hosting]
  Lookups,           \* sets of hosts whose lookup may succeed: {} with SKIP_GEO
  Many,              \* the thresholds: range24, range16, city, isp, asn, site, alike
  Shown              \* how many providers and ranges a view shows: 10 and 20

ASSUME LookupsAreHosts == Lookups \subseteq SUBSET IPv4
ASSUME ThresholdsAreNat ==
  Many \in [{"range24", "range16", "city", "isp", "asn", "site", "alike"} -> Nat \ {0}]
ASSUME ListsAreCut == Shown \in [{"providers", "ranges"} -> Nat \ {0}]

VARIABLES
  results,  \* [nodes -> an analysis]
  summary   \* what generateSummary returned, or NoSummary

reportVars == <<results, summary>>

Unknown == "unknown"
NoSummary == <<>>
Nowhere == [country |-> None, city |-> None, isp |-> None, asn |-> None,
            provider |-> None, hosting |-> FALSE]

Graph == [node |-> Crawled, edge |-> edges]
-----------------------------------------------------------------------------
(***************************************************************************)
(* Places: batchGeoLocation keeps the answers that say "success" and loses *)
(* a batch that fails.  Two addresses of one host have one place.          *)
(***************************************************************************)
PlaceOf(a, answered) == IF a[1] \in answered THEN Place[a[1]] ELSE Nowhere

\* analyzeNode: an IPv6 address has no range.  Clusters and scores come later.
NoCluster == <<>>

RangeOf(ranges, a) == IF a[1] \in IPv4 THEN ranges[a[1]] ELSE Unknown

Analyzed(answered) ==
  LET centrality == Betweenness(Graph)
  IN  Tabulated([a \in Crawled |->
        [isResponsive |-> nodes[a].isResponsive,
         version |-> IF nodes[a].isResponsive THEN Version[a[1]] ELSE None,
         ipRange24 |-> RangeOf(Range24, a), ipRange16 |-> RangeOf(Range16, a),
         place |-> PlaceOf(a, answered),
         betweenness |-> centrality[a],
         clustering |-> ClusteringCoefficient(Graph, a),
         clusterId |-> NoCluster, clusterSize |-> 0, suspicionNotes |-> {}, overall |-> 0]])
-----------------------------------------------------------------------------
(***************************************************************************)
(* Clusters.  A cluster is named by its kind and what its nodes share; the *)
(* numbers of the code stand for that.                                     *)
(***************************************************************************)
\* Phase 1: nodes of one /24, also of those that did not answer.
InRange(analyses) ==
  LET KeyOf(a) == analyses[a].ipRange24
  IN  {S \in Groups({a \in DOMAIN analyses : KeyOf(a) # Unknown}, KeyOf) :
         Cardinality(S) >= Many.range24}

\* Mutant of OnSite: nodes that have a cluster get another.
OnSiteAgain(analyses) ==
  LET KeyOf(a) == <<analyses[a].place.isp, analyses[a].place.city, analyses[a].place.country>>
  IN  {S \in Groups({a \in DOMAIN analyses :
                       /\ analyses[a].place.isp # None
                       /\ analyses[a].place.city # None}, KeyOf) :
         Cardinality(S) >= Many.site}

\* Phase 2: the others, by provider and city.
OnSite(analyses) ==
  LET KeyOf(a) == <<analyses[a].place.isp, analyses[a].place.city, analyses[a].place.country>>
  IN  {S \in Groups({a \in DOMAIN analyses \ UNION InRange(analyses) :
                       /\ analyses[a].place.isp # None
                       /\ analyses[a].place.city # None}, KeyOf) :
         Cardinality(S) >= Many.site}

\* The second phase comes last: its cluster would replace one of the first.
Clustered(analyses) ==
  LET onSite == OnSite(analyses)
      inRange == InRange(analyses)
  IN  Tabulated([a \in DOMAIN analyses |->
         IF \E S \in onSite : a \in S
         THEN [members |-> CHOOSE S \in onSite : a \in S,
               clusterId |-> <<"infra", analyses[a].place.isp, analyses[a].place.city,
                             analyses[a].place.country>>,
               notes |-> {"isp_city_concentration"}
                         \cup IF a \in UNION inRange THEN {"same_ip_range_24"} ELSE {}]
         ELSE IF \E S \in inRange : a \in S
         THEN [members |-> CHOOSE S \in inRange : a \in S,
               clusterId |-> <<"ip24", analyses[a].ipRange24>>,
               notes |-> {"same_ip_range_24"}]
         ELSE [members |-> {}, clusterId |-> NoCluster, notes |-> {}]])
-----------------------------------------------------------------------------
(***************************************************************************)
(* Scores.  Nodes without a place share the city "undefined", and nodes    *)
(* without a range the range "unknown".                                    *)
(***************************************************************************)
SameCity(analyses, a) ==
  Cardinality({b \in DOMAIN analyses : analyses[b].place.city = analyses[a].place.city
                                       /\ analyses[b].place.country = analyses[a].place.country})
SameIsp(analyses, a) ==
  IF analyses[a].place.isp = None THEN 0
  ELSE Cardinality({b \in DOMAIN analyses : analyses[b].place.isp = analyses[a].place.isp})
SameAsn(analyses, a) ==
  IF analyses[a].place.asn = None THEN 0
  ELSE Cardinality({b \in DOMAIN analyses : analyses[b].place.asn = analyses[a].place.asn})
SameRange24(analyses, a) ==
  Cardinality({b \in DOMAIN analyses : analyses[b].ipRange24 = analyses[a].ipRange24})
SameRange16(analyses, a) ==
  Cardinality({b \in DOMAIN analyses : analyses[b].ipRange16 = analyses[a].ipRange16})

GeographicScore(analyses, a) ==
  Min({100, Brings(SameCity(analyses, a), Many.city, 30, 5, 60)
            + Brings(SameIsp(analyses, a), Many.isp, 20, 3, 50)
            + Brings(SameAsn(analyses, a), Many.asn, 20, 2, 40)
            + IF analyses[a].place.hosting THEN 10 ELSE 0})

NetworkScore(analyses, a) ==
  Min({100, Brings(SameRange24(analyses, a), Many.range24, 40, 15, 90)
            + Brings(SameRange16(analyses, a), Many.range16, 20, 5, 50)})

\* The share of one provider among all nodes, located or not.
ProviderShareExceeds(analyses, a, parts) ==
  /\ analyses[a].place.provider # None
  /\ parts * Cardinality({b \in DOMAIN analyses :
                            analyses[b].place.provider = analyses[a].place.provider})
       > Cardinality(DOMAIN analyses)

InfrastructureScore(analyses, clusters, a) ==
  (IF ProviderShareExceeds(analyses, a, 5) THEN 50
   ELSE IF ProviderShareExceeds(analyses, a, 10) THEN 30
   ELSE IF ProviderShareExceeds(analyses, a, 20) THEN 15 ELSE 0)
  + IF analyses[a].place.hosting /\ clusters[a].clusterId # NoCluster THEN 20 ELSE 0

\* One release on every node of the cluster that told it, and on enough of them.
RunsOneVersion(analyses, S) ==
  LET told == {b \in S : analyses[b].version # None}
  IN  Cardinality(told) >= Many.alike /\ Cardinality({analyses[b].version : b \in told}) = 1

TechnicalScore(analyses, clusters, a) ==
  IF clusters[a].clusterId = NoCluster THEN 0
  ELSE (IF 10 * analyses[a].clustering[1] > 8 * analyses[a].clustering[2] THEN 20 ELSE 0)
       + IF RunsOneVersion(analyses, clusters[a].members) THEN 10 ELSE 0

Overall(analyses, clusters, a) ==
  Min({10000, 30 * GeographicScore(analyses, a) + 30 * NetworkScore(analyses, a)
              + 25 * InfrastructureScore(analyses, clusters, a)
              + 15 * TechnicalScore(analyses, clusters, a)})

Noted(analyses, clusters, a) ==
  clusters[a].notes
  \cup (IF SameCity(analyses, a) >= Many.city THEN {"geographic_concentration"} ELSE {})
  \cup (IF SameIsp(analyses, a) >= Many.isp THEN {"isp_concentration"} ELSE {})
  \cup (IF SameAsn(analyses, a) >= Many.asn THEN {"asn_concentration"} ELSE {})
  \cup (IF analyses[a].place.hosting THEN {"datacenter_hosting"} ELSE {})
  \cup (IF SameRange24(analyses, a) >= Many.range24 THEN {"same_ip_range_24"} ELSE {})
  \cup (IF SameRange16(analyses, a) >= Many.range16 THEN {"same_ip_range_16"} ELSE {})
  \cup (IF ProviderShareExceeds(analyses, a, 5) THEN {"provider_dominance"} ELSE {})
  \cup (IF clusters[a].clusterId # NoCluster /\ RunsOneVersion(analyses, clusters[a].members)
        THEN {"identical_version"} ELSE {})

Scored(analyses) ==
  LET clusters == Clustered(analyses)
  IN  [a \in DOMAIN analyses |->
        [analyses[a] EXCEPT !.clusterId = clusters[a].clusterId,
                            !.clusterSize = Cardinality(clusters[a].members),
                            !.suspicionNotes = Noted(analyses, clusters, a),
                            !.overall = Overall(analyses, clusters, a)]]
-----------------------------------------------------------------------------
(***************************************************************************)
(* The summary.                                                            *)
(***************************************************************************)
\* calculateInfrastructureImpact, for the nodes that answered and for all of them: its
\* two lists are cut, so what it returns depends on the order of groups of one size.
Impact(analyses, S, providers, ranges) ==
  LET Isp(a) == analyses[a].place.isp
      Country(a) == analyses[a].place.country
      Asn(a) == analyses[a].place.asn
      IsHosted(a) == analyses[a].place.hosting
  IN  [totalDatacenterHosted |-> Count(S, IsHosted),
       topProviders |-> providers,
       countryDistribution |-> KnownGroups(S, Country),
       ipRangeConcentration |-> ranges,
       uniqueIsps |-> Cardinality(KnownGroups(S, Isp)),
       uniqueAsns |-> Cardinality(KnownGroups(S, Asn))]

Providers(analyses, S) ==
  LET Isp(a) == analyses[a].place.isp IN KnownGroups(S, Isp)

CrowdedRanges(analyses, S) ==
  LET RangeAt(a) == analyses[a].ipRange24
  IN  {R \in Groups({a \in S : RangeAt(a) # Unknown}, RangeAt) : Cardinality(R) >= Many.range24}

Impacts(analyses, S) ==
  {Impact(analyses, S, providers, ranges) :
     providers \in Top(Providers(analyses, S), Shown.providers),
     ranges \in Top(CrowdedRanges(analyses, S), Shown.ranges)}

Answering(analyses) == {a \in DOMAIN analyses : analyses[a].isResponsive}

\* Of an address that lists itself the two directions are one edge, and half is counted.
Summary(analyses, ofAnswering, ofAll) ==
  LET all == DOMAIN analyses
      answering == Answering(analyses)
      ClusterOf(a) == analyses[a].clusterId
      IsClustered(a) == analyses[a].clusterId # NoCluster
      IsHigh(a) == analyses[a].overall > 7000
      IsMedium(a) == analyses[a].overall > 4000 /\ analyses[a].overall <= 7000
      IsLow(a) == analyses[a].overall <= 4000
  IN  [totalNodesDiscovered |-> Cardinality(all),
       totalNodesResponsive |-> Cardinality(answering),
       totalNodesFailed |-> Cardinality(all) - Cardinality(answering),
       totalEdges |-> Cardinality(edges),
       twiceBidirectionalEdges |-> Cardinality(Bidirectional(Graph)),
       clusteredNodes |-> Count(all, IsClustered),
       highCentralization |-> Count(all, IsHigh),
       mediumCentralization |-> Count(all, IsMedium),
       lowCentralization |-> Count(all, IsLow),
       networkDensity |-> Density(Graph),
       components |-> Components(Graph),
       clusters |-> Groups({a \in all : IsClustered(a)}, ClusterOf),
       responsiveNodes |-> ofAnswering,
       allNodes |-> ofAll]

Summaries(analyses) ==
  {Summary(analyses, ofAnswering, ofAll) :
     ofAnswering \in Impacts(analyses, Answering(analyses)),
     ofAll \in Impacts(analyses, DOMAIN analyses)}
-----------------------------------------------------------------------------
ReportInit ==
  /\ Init
  /\ results = [a \in {} |-> Nowhere]
  /\ summary = NoSummary

Crawling == Next /\ UNCHANGED reportVars

\* analyze, from the crawl to the files; without a node it returns early.
Report ==
  /\ Finished
  /\ Crawled # {}
  /\ summary = NoSummary
  /\ \E answered \in Lookups : results' = Scored(Analyzed(answered))
  /\ summary' \in Summaries(results')
  /\ UNCHANGED vars

ReportNext == Crawling \/ Report

ReportSpec ==
  /\ ReportInit /\ [][ReportNext]_<<vars, reportVars>>
  /\ \A w \in Workers : WF_vars(Proceeds(w))
-----------------------------------------------------------------------------
(***************************************************************************)
(* Properties.                                                             *)
(***************************************************************************)
IsReported == summary # NoSummary

\* Brandes' algorithm (peer-graph.ts:141-217) counts what betweenness is defined to
\* count: the shares of the shortest paths between two other nodes that lead through a
\* node.  Of n nodes there are (n-1)(n-2)/2 such pairs, so that the code's factor
\* (peer-graph.ts:208-210, "divide by 2") makes the centre of a star 2 and not 1.
BetweennessCountsShortestPaths ==
  IsReported =>
    LET n == Cardinality(Crawled)
        unit == Unit(Graph)
        paths == BetweennessByDefinition(Graph, unit)
    IN  \A a \in Crawled :
          results[a].betweenness =
            IF n > 2 THEN <<2 * 2 * paths[a], unit * (n - 1) * (n - 2)>> ELSE <<0, unit>>

\* The islands of the graph (peer-graph.ts:220-250) are apart and each holds a seed,
\* whatever the workers' order and whatever failed: a node is found because it was given
\* or because a node lists it.  So a report shows no more islands than seeds.
EveryComponentHasASeed ==
  IsReported =>
    /\ \A C \in summary.components : C \cap Elements(NormalizeAll(Seeds)) # {}
    /\ \A C, D \in summary.components : C # D => C \cap D = {}

NetworkClusters(analyses, report) ==
  {S \in report.clusters : \A a \in S : analyses[a].clusterId[1] = "ip24"}

IsFull(providers) == Cardinality(providers) = Shown.providers

AddsUp(analyses, report) ==
  /\ DOMAIN analyses = Crawled /\ report.totalNodesDiscovered = Cardinality(Crawled)
  /\ report.totalNodesResponsive = responsive /\ report.totalNodesFailed = failed
  /\ report.clusteredNodes = Cardinality(UNION report.clusters)
  /\ \A S, R \in report.clusters : S # R => S \cap R = {}
  /\ \A S \in report.clusters : \A a \in S : analyses[a].clusterSize = Cardinality(S)
  /\ report.highCentralization + report.mediumCentralization + report.lowCentralization
       = Cardinality(Crawled)
  /\ {a \in Crawled : /\ "same_ip_range_24" \in analyses[a].suspicionNotes
                      /\ analyses[a].ipRange24 # Unknown}
       = UNION NetworkClusters(analyses, report)
  /\ report.allNodes.ipRangeConcentration
       \in Top(NetworkClusters(analyses, report), Shown.ranges)
  /\ report.responsiveNodes.totalDatacenterHosted <= report.allNodes.totalDatacenterHosted
  /\ \A S \in report.responsiveNodes.topProviders :
       \/ \E R \in report.allNodes.topProviders : S \subseteq R
       \/ /\ IsFull(report.allNodes.topProviders)
          /\ \A R \in report.allNodes.topProviders : Cardinality(R) >= Cardinality(S)

\* The sections of one report tell one story: the totals are those of the crawl's own
\* counters; a node is in one cluster at most, and the cluster has the size the node
\* shows; the levels of the score part the nodes; the nodes with the note of a range are
\* those of the network clusters, and the ranges of the infrastructure view, which is
\* cut to the first of them (arweave-analyzer.ts:596-610), are the largest of these
\* clusters; and a provider the view of the nodes that answered shows is in the view of
\* all nodes with at least these nodes, unless that one is full (line 580) and shows
\* none with fewer.
ReportAddsUp == IsReported => AddsUp(results, summary)
=============================================================================
