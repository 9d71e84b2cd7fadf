-------------------------- MODULE GatewayAnalysis ---------------------------
(***************************************************************************)
(* What the daily analysis makes of the gateways (the synchronous part of  *)
(* GatewayCentralizationAnalyzer, src/analyzer.ts) and how it is published *)
(* (src/publish/contract.ts).  `rows` has the gateways at their places in  *)
(* the list of the registry, with what was found out about each:           *)
(*   fqdn, base, pattern, wallet, stake, registered (in hours), ip, range, *)
(*   place (city, country, isp, asn, spot, hosting), print, migrated       *)
(* where None stands for a name that did not resolve, a host nobody        *)
(* located and a server that did not answer.  A group is a set of indices  *)
(* of rows, and its first gateway is the one with the least.               *)
(*                                                                         *)
(* Scores are in hundredths, the overall one in ten-thousandths, exactly:  *)
(* the rounding of floating point is left out, and so are averages,        *)
(* percentages, what a list shows beyond its members, and the list of the  *)
(* hundred gateways with the highest scores.                               *)
(***************************************************************************)
EXTENDS Grouping, Sequences

CONSTANTS
  MinStake,  \* config.minStake
  Far,       \* pairs of spots more than 100 km apart
  Many,      \* thresholds: city, isp, hosted, asn (5, 10, 5 and 15)
  MaxProviders  \* how many providers the summary shows: 10

ASSUME ProvidersAreCut == MaxProviders \in Nat \ {0}
ASSUME ThresholdsAreNat == Many \in [{"city", "isp", "hosted", "asn"} -> Nat \ {0}]

Unclustered == <<>>
NoPrint == [server |-> None, http |-> None, issuer |-> None, speed |-> None, release |-> None]

AllRows(rows) == DOMAIN rows
Resolved(rows) == {i \in AllRows(rows) : rows[i].ip # None}
-----------------------------------------------------------------------------
(***************************************************************************)
(* detectClusters.                                                         *)
(***************************************************************************)
\* Mutant of DomainGroups: names that did not resolve are grouped too.
DomainGroupsOfAll(rows) ==
  LET Base(i) == rows[i].base
  IN  {S \in Groups(AllRows(rows), Base) : Cardinality(S) >= 2}

DomainGroups(rows) ==
  LET Base(i) == rows[i].base
  IN  {S \in Groups(Resolved(rows), Base) : Cardinality(S) >= 2}

\* At least 80% in one /24, or 70% with one provider and country and half in one /24.
SharesInfrastructure(rows, S) ==
  LET RangeAt(i) == rows[i].range
      Site(i) == <<rows[i].place.isp, rows[i].place.country>>
      n == Cardinality(S)
      inOneRange == Largest(S, RangeAt)
      onOneSite == Largest({i \in S : {rows[i].place.isp, rows[i].place.country} \cap {None} = {}},
                           Site)
  IN  \/ 10 * inOneRange >= 8 * n
      \/ 10 * onOneSite >= 7 * n /\ 2 * inOneRange >= n

DomainClusters(rows) == {S \in DomainGroups(rows) : SharesInfrastructure(rows, S)}

\* Mutant of ExactIpClusters: also those that have a cluster by their domain.
ExactIpClustersOfAll(rows) ==
  LET Ip(i) == rows[i].ip
  IN  {S \in Groups(Resolved(rows), Ip) :
         Cardinality(S) >= 3 /\ Cardinality({rows[i].base : i \in S}) >= 2}

\* Three of those left, of two domains, on one address.
ExactIpClusters(rows) ==
  LET Ip(i) == rows[i].ip
  IN  {S \in Groups(Resolved(rows) \ UNION DomainClusters(rows), Ip) :
         Cardinality(S) >= 3 /\ Cardinality({rows[i].base : i \in S}) >= 2}

\* A run numbers its clusters as it meets them, those by domain first.
NumberOf(S, clusters) == Cardinality({T \in clusters : Min(T) <= Min(S)})

\* The greatest stake, and of equals the first.
Leader(rows, S) ==
  Min({i \in S : \A j \in S : rows[i].stake >= rows[j].stake})

\* [id, members, primary] of each cluster.
Clusters(rows) ==
  LET byDomain == DomainClusters(rows)
      byIp == ExactIpClusters(rows)
  IN  {[id |-> <<"domain", NumberOf(S, byDomain)>>, members |-> S, primary |-> Leader(rows, S)] :
         S \in byDomain}
      \cup {[id |-> <<"ip-exact", Cardinality(byDomain) + NumberOf(S, byIp)>>,
             members |-> S, primary |-> Min(S)] : S \in byIp}
-----------------------------------------------------------------------------
(***************************************************************************)
(* Scores of a cluster, which its members share: temporal, technical and   *)
(* stake, and whether its gateways are close to each other.                *)
(***************************************************************************)
\* By the longest time between two registrations that follow each other, and by the average.
TemporalScore(rows, S) ==
  LET times == {rows[i].registered : i \in S}
      Earlier(t) == {u \in times : u < t}
  IN  IF \A t \in times : Earlier(t) # {} => t - Max(Earlier(t)) < 24 THEN 90
      ELSE IF Max(times) - Min(times) < 168 * (Cardinality(S) - 1) THEN 60 ELSE 20

Prints(rows, S) == {rows[i].print : i \in {j \in S : rows[j].print # NoPrint}}
HavePrints(rows, S) == Cardinality({i \in S : rows[i].print # NoPrint}) >= 2
HaveOneSpeed(rows, S) == HavePrints(rows, S) /\ Cardinality({p.speed : p \in Prints(rows, S)}) = 1

TechnicalScore(rows, S) ==
  LET prints == Prints(rows, S)
  IN  IF ~HavePrints(rows, S) THEN 0
      ELSE (IF Cardinality({p.server : p \in prints}) = 1 /\ \A p \in prints : p.server # None
            THEN 30 ELSE 0)
           + (IF Cardinality({p.http : p \in prints}) = 1 THEN 20 ELSE 0)
           + (IF Cardinality({p.issuer : p \in prints}) = 1 THEN 20 ELSE 0)
           + (IF HaveOneSpeed(rows, S) THEN 30 ELSE 0)

\* Three within a tenth of their average; nothing is within a tenth of zero.
AllAtMinimum(rows, S) == \A i \in S : rows[i].stake <= MinStake
AreSimilar(rows, S) ==
  LET Stake(i) == rows[i].stake
      sum == SumFunction([i \in S |-> rows[i].stake])
      n == Cardinality(S)
  IN  n >= 3 /\ \A i \in S : 10 * (n * Stake(i) - sum) < sum /\ 10 * (sum - n * Stake(i)) < sum

StakeScore(rows, S) ==
  IF AllAtMinimum(rows, S) THEN 50 ELSE IF AreSimilar(rows, S) THEN 30 ELSE 0

AreClose(rows, S) ==
  LET spots == {rows[i].place.spot : i \in {j \in S : rows[j].place.spot # None}}
  IN  /\ Cardinality({i \in S : rows[i].place.spot # None}) >= 2
      /\ (spots \X spots) \cap Far = {}
-----------------------------------------------------------------------------
(***************************************************************************)
(* Scores of a gateway.                                                    *)
(***************************************************************************)
\* Who resolved and has the property, and the group of row i among them.
Known(rows, property) == {i \in Resolved(rows) : rows[i].place[property] # None}
Peers(S, i, Key(_)) == IF i \in S THEN {j \in S : Key(j) = Key(i)} ELSE {}

SameCity(rows, i) ==
  LET City(j) == <<rows[j].place.city, rows[j].place.country>>
  IN  Peers(Known(rows, "city"), i, City)
SameIsp(rows, i) == LET Isp(j) == rows[j].place.isp IN Peers(Known(rows, "isp"), i, Isp)
SameAsn(rows, i) == LET Asn(j) == rows[j].place.asn IN Peers(Known(rows, "asn"), i, Asn)
SameRange(rows, i) == LET RangeAt(j) == rows[j].range IN Peers(Resolved(rows), i, RangeAt)

\* A provider hosts if its first gateway says so.
IsHosted(rows, i) ==
  Cardinality(SameIsp(rows, i)) >= Many.hosted /\ rows[Min(SameIsp(rows, i))].place.hosting

GeographicScore(rows, i, cluster) ==
  Max({Brings(Cardinality(SameCity(rows, i)), Many.city, 30, 10, 80),
       Brings(Cardinality(SameIsp(rows, i)), Many.isp, 20, 5, 70),
       Brings(Cardinality(SameAsn(rows, i)), Many.asn, 30, 5, 80),
       IF IsHosted(rows, i) THEN 50 ELSE 0,
       IF cluster # {} /\ AreClose(rows, cluster) THEN 60 ELSE 0})

\* The number of gateways of the domain, if it is more than one, clustered or not.
DomainGroupSize(rows, i) ==
  Max({0} \cup {Cardinality(S) : S \in {T \in DomainGroups(rows) : i \in T}})

DomainScore(rows, i) ==
  LET n == DomainGroupSize(rows, i)
  IN  IF n <= 1 THEN 0
      ELSE Min({100, 30 + (n - 1) * 20 + IF rows[i].pattern # "unique" THEN 20 ELSE 0})

NetworkScore(rows, i) == Brings(Cardinality(SameRange(rows, i)), 3, 30, 10, 100)

\* `own` is the cluster of the gateway, if any.  What did not resolve keeps its zeroes.
Overall(rows, i, own) ==
  LET S == UNION {c.members : c \in own}
  IN  IF i \notin Resolved(rows) THEN 0
      ELSE 25 * DomainScore(rows, i) + 15 * NetworkScore(rows, i)
           + 25 * GeographicScore(rows, i, S)
           + IF S = {} THEN 0
             ELSE 10 * StakeScore(rows, S) + 15 * TemporalScore(rows, S)
                  + 10 * TechnicalScore(rows, S)

\* The notes of a gateway: of its own, its peers and its cluster.
Notes(rows, i, own) ==
  LET S == UNION {c.members : c \in own}
      isByDomain == \E c \in own : c.id[1] = "domain"
      Said(note, holds) == IF holds THEN {note} ELSE {}
  IN  Said("minimum_stake", rows[i].stake <= MinStake)
      \cup Said("geographic_concentration", Cardinality(SameCity(rows, i)) >= Many.city)
      \cup Said("isp_concentration", Cardinality(SameIsp(rows, i)) >= Many.isp)
      \cup Said("asn_concentration", Cardinality(SameAsn(rows, i)) >= Many.asn)
      \cup Said("datacenter_hosting", IsHosted(rows, i))
      \cup IF S = {} THEN {}
           ELSE Said(IF isByDomain THEN "multiple_per_domain" ELSE "same_exact_ip", TRUE)
                \cup Said("sequential_pattern", /\ isByDomain /\ Cardinality(S) >= 3
                                               /\ rows[i].pattern # "unique")
                \cup Said("rapid_registration", TemporalScore(rows, S) = 90)
                \cup Said("close_registration_times", TemporalScore(rows, S) = 60)
                \cup Said("identical_performance", HaveOneSpeed(rows, S))
                \cup Said("geographic_proximity", AreClose(rows, S))
                \cup Said("all_minimum_stake", AllAtMinimum(rows, S))
                \cup Said("similar_stakes", AreSimilar(rows, S))

\* [rows -> a GatewayAnalysis]
Analyzed(rows) ==
  LET clusters == Clusters(rows)
      Own(i) == {c \in clusters : i \in c.members}
      Analysis(i, own) ==
        [clusterId |-> IF own = {} THEN Unclustered ELSE (CHOOSE c \in own : TRUE).id,
         clusterSize |-> Cardinality(UNION {c.members : c \in own}),
         isPrimary |-> \A c \in own : c.primary = i,
         domainGroupSize |-> IF i \in Resolved(rows) THEN DomainGroupSize(rows, i) ELSE 0,
         overall |-> Overall(rows, i, own),
         suspicionNotes |-> Notes(rows, i, own)]
  IN  Tabulated([i \in AllRows(rows) |-> Analysis(i, Own(i))])
-----------------------------------------------------------------------------
(***************************************************************************)
(* generateSummary: over the names that resolved, but for the migrations   *)
(* and the pool of rewards, which count all.  The summary has those two    *)
(* only when there was a check, and when a reward is known.                *)
(***************************************************************************)
\* The rows are sorted by score before the summary is made.
IsBefore(results, i, j) ==
  \/ results[i].overall > results[j].overall
  \/ results[i].overall = results[j].overall /\ i < j

\* The order of the list of providers: the larger first, and of two equal ones the one
\* whose first gateway comes first.
Precedes(results, S, T) ==
  \/ Cardinality(S) > Cardinality(T)
  \/ Cardinality(S) = Cardinality(T) /\ \E i \in S : \A j \in T : IsBefore(results, i, j)

TopProviders(results, groups) ==
  {S \in groups : Cardinality({T \in groups : Precedes(results, T, S)}) < MaxProviders}

InfrastructureImpact(rows, results) ==
  LET Isp(i) == rows[i].place.isp
      Country(i) == rows[i].place.country
      Asn(i) == rows[i].place.asn
      IsInDatacenter(i) == rows[i].place.hosting
      isps == KnownGroups(Resolved(rows), Isp)
  IN  [totalDatacenterHosted |-> Count(Resolved(rows), IsInDatacenter),
       topProviders |-> TopProviders(results, isps),
       countryDistribution |-> KnownGroups(Resolved(rows), Country),
       uniqueIsps |-> Cardinality(isps),
       uniqueAsns |-> Cardinality(KnownGroups(Resolved(rows), Asn))]

VersionStats(rows) ==
  LET Release(i) == rows[i].print.release IN KnownGroups(Resolved(rows), Release)

\* Shares of the pool: of a cluster as many as it has gateways.
EconomicImpact(rows) ==
  LET rewards == [c \in Clusters(rows) |-> Cardinality(c.members)]
  IN  [pool |-> Cardinality(AllRows(rows)),
       rewardsByCluster |-> rewards, topCentralizedRewards |-> SumFunction(rewards)]

MigrationStats(rows) ==
  LET IsMigrated(i) == rows[i].migrated
      stakes == [i \in AllRows(rows) |-> rows[i].stake]
  IN  [migratedCount |-> Count(AllRows(rows), IsMigrated),
       totalStake |-> SumFunction(stakes),
       migratedStake |-> SumFunctionOnSet(stakes, {i \in AllRows(rows) : IsMigrated(i)})]

Summary(rows, results) ==
  LET IsClustered(i) == results[i].clusterId # Unclustered
      IsHigh(i) == results[i].overall > 7000
  IN  [totalResolved |-> Cardinality(Resolved(rows)),
       totalFailedDns |-> Cardinality(AllRows(rows) \ Resolved(rows)),
       clusteredGateways |-> Count(Resolved(rows), IsClustered),
       highCentralization |-> Count(Resolved(rows), IsHigh),
       clusters |-> Clusters(rows),
       economicImpact |-> EconomicImpact(rows),
       infrastructureImpact |-> InfrastructureImpact(rows, results),
       migrationStats |-> MigrationStats(rows),
       versionStats |-> VersionStats(rows)]
-----------------------------------------------------------------------------
(***************************************************************************)
(* The published documents.  A cluster is told by a key that lasts longer  *)
(* than a run: its domain or its address, which network.json looks up by   *)
(* name among the rows, the last of that name in the order of the report.  *)
(***************************************************************************)
IpByFqdn(rows, results, fqdn) ==
  LET named == {i \in AllRows(rows) : rows[i].fqdn = fqdn}
  IN  rows[CHOOSE i \in named : \A j \in named \ {i} : IsBefore(results, j, i)].ip

\* Mutant of ClusterKey: without the rows a key falls back to the number of the run.
ClusterKeyWithoutRows(rows, results, cluster) ==
  IF cluster.id[1] = "domain" THEN <<"domain", rows[Min(cluster.members)].base>>
  ELSE <<"ip-exact", ToString(cluster.id)>>

\* clusterKey: the address of the first of its names that has one.
ClusterKey(rows, results, cluster) ==
  LET Ip(i) == IpByFqdn(rows, results, rows[i].fqdn)
      known == {i \in cluster.members : Ip(i) # None}
  IN  IF cluster.id[1] = "domain" THEN <<"domain", rows[Min(cluster.members)].base>>
      ELSE IF known = {} THEN <<"ip-exact", ToString(cluster.id)>>
      ELSE <<"ip-exact",
             Ip(CHOOSE i \in known : \A j \in known \ {i} : IsBefore(results, i, j))>>

\* clusterKeyForGateway: <<>> for none.
GatewayKey(rows, results, i) ==
  IF results[i].clusterId = Unclustered THEN <<>>
  ELSE IF results[i].clusterId[1] = "domain" THEN <<"domain", rows[i].base>>
  ELSE <<"ip-exact", rows[i].ip>>
=============================================================================
