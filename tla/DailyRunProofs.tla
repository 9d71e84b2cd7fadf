--------------------------- MODULE DailyRunProofs ---------------------------
(***************************************************************************)
(* Proofs about DailyRun: for any rows, that the clusters of               *)
(* GatewayAnalysis part the gateways, that names which do not resolve      *)
(* leave no trace in what is said of the others and that the documents     *)
(* join; and, over any number of runs, that every gateway is fetched once  *)
(* and what the cache of the migrations and the run log keep.              *)
(***************************************************************************)
EXTENDS DailyRun, FiniteSetTheorems, SequenceTheorems, WellFoundedInduction, TLAPS

(***************************************************************************)
(* Numbers.                                                                *)
(***************************************************************************)
\* A set of numbers has a least one.
LEMMA MinIsThere ==
  ASSUME NEW S \in SUBSET Nat, S # {}
  PROVE  Min(S) \in S /\ \A n \in S : Min(S) <= n
<1>1. PICK x \in S : \A y \in S : <<y, x>> \notin OpToRel(<, Nat)
  BY NatLessThanWellFounded, WFMin
<1>2. ASSUME NEW y \in S
      PROVE  x <= y
  <2>1. x \in Nat /\ y \in Nat /\ <<y, x>> \in Nat \X Nat
    OBVIOUS
  <2>2. <<y, x>> \in OpToRel(<, Nat) <=> y < x
    BY <2>1 DEF OpToRel
  <2>3. ~(y < x)
    BY <1>1, <2>2, Zenon
  <2>. QED
    BY <2>1, <2>3
<1>. QED
  BY <1>2 DEF Min

\* A finite one has a greatest.
LEMMA MaxIsThere ==
  ASSUME NEW S \in SUBSET Nat, IsFiniteSet(S), S # {}
  PROVE  Max(S) \in S /\ \A n \in S : n <= Max(S)
<1> DEFINE Above(x) == {y \in S : y > x}
           above == {Above(x) : x \in S}
<1>1. above \subseteq FiniteSubsetsOf(S) /\ above # {}
  <2>1. ASSUME NEW x \in S
        PROVE  Above(x) \in FiniteSubsetsOf(S)
    BY FS_Subset DEF FiniteSubsetsOf
  <2> QED
    BY <2>1
<1>2. PICK fewest \in above : \A other \in above : <<other, fewest>> \notin StrictSubsetOrdering(S)
  BY <1>1, FS_StrictSubsetOrderingWellFounded, WFMin, Zenon
<1>3. PICK x \in S : fewest = Above(x)
  BY <1>2
<1>4. ASSUME NEW y \in S
      PROVE  y <= x
  <2>1. SUFFICES ASSUME y > x
                 PROVE  FALSE
    OBVIOUS
  <2>2. /\ \A z \in Above(y) : z \in Above(x)
        /\ y \in Above(x) /\ y \notin Above(y)
    <3>1. x \in Nat /\ y \in Nat /\ ~(y > y)
      OBVIOUS
    <3>2. ASSUME NEW z \in S, z > y
          PROVE  z > x
      BY <2>1, <3>1, <3>2
    <3> QED
      BY <2>1, <3>1, <3>2
  <2>3. Above(y) \in above /\ Above(y) \in SUBSET S /\ Above(x) \in SUBSET S
    OBVIOUS
  <2> HIDE DEF Above
  <2> QED
    BY <1>2, <1>3, <2>2, <2>3 DEF StrictSubsetOrdering
<1> QED
  BY <1>4 DEF Max

\* The lesser of two numbers.
LEMMA LesserOfTwo ==
  ASSUME NEW a \in Int, NEW b \in Int
  PROVE  Min({a, b}) = IF a <= b THEN a ELSE b
BY DEF Min

LEMMA LesserIsNat ==
  ASSUME NEW a \in Nat, NEW b \in Nat
  PROVE  Min({a, b}) \in Nat
BY LesserOfTwo
-----------------------------------------------------------------------------
(***************************************************************************)
(* Clusters.                                                               *)
(***************************************************************************)
\* Two groups by a field have no gateway in common.
LEMMA DomainClustersAreDisjoint ==
  ASSUME NEW rows, NEW S \in DomainClusters(rows), NEW T \in DomainClusters(rows), S # T
  PROVE  S \cap T = {}
BY DEF DomainClusters, DomainGroups, Groups

LEMMA ExactIpClustersAreDisjoint ==
  ASSUME NEW rows, NEW S \in ExactIpClusters(rows), NEW T \in ExactIpClusters(rows), S # T
  PROVE  S \cap T = {}
BY DEF ExactIpClusters, Groups

\* Whatever the gateways are, in whatever order, none is a member of two clusters
\* (analyzer.ts:478-586), and a cluster has gateways that resolved and no others.
THEOREM ClustersAreDisjoint ==
  ASSUME NEW rows,
         NEW S \in DomainClusters(rows) \cup ExactIpClusters(rows),
         NEW T \in DomainClusters(rows) \cup ExactIpClusters(rows)
  PROVE  /\ S \subseteq Resolved(rows)
         /\ S # T => S \cap T = {}
<1>1. \A D \in DomainClusters(rows) : D \subseteq Resolved(rows)
  BY DEF DomainClusters, DomainGroups, Groups
<1>2. \A E \in ExactIpClusters(rows) : E \subseteq Resolved(rows) \ UNION DomainClusters(rows)
  BY DEF ExactIpClusters, Groups
<1>3. ASSUME NEW D \in DomainClusters(rows), NEW E \in ExactIpClusters(rows)
      PROVE  D \cap E = {}
  BY <1>2
<1>. QED
  BY <1>1, <1>2, <1>3, DomainClustersAreDisjoint, ExactIpClustersAreDisjoint
-----------------------------------------------------------------------------
(***************************************************************************)
(* The gateways that resolved, when only they are looked at.               *)
(***************************************************************************)
\* The gateways that resolved, at their places, and no others.
Rest(rows) == [i \in Resolved(rows) |-> rows[i]]

LEMMA RestIsResolved ==
  ASSUME NEW rows
  PROVE  /\ DOMAIN Rest(rows) = Resolved(rows)
         /\ Resolved(Rest(rows)) = Resolved(rows)
         /\ \A i \in Resolved(rows) : Rest(rows)[i] = rows[i]
BY DEF Rest, Resolved, AllRows

\* Each group, cluster, count and score is the same of the rest as of all.
LEMMA SameDomainGroups ==
  ASSUME NEW rows
  PROVE  DomainGroups(Rest(rows)) = DomainGroups(rows)
<1>. DEFINE Keys(r) == {r[i].base : i \in Resolved(rows)}
           Group(r, k) == {i \in Resolved(rows) : r[i].base = k}
           Parts(r) == {Group(r, k) : k \in Keys(r)}
<1>1. Keys(Rest(rows)) = Keys(rows)
  BY RestIsResolved
<1>2. \A k : Group(Rest(rows), k) = Group(rows, k)
  BY RestIsResolved
<1>3. Parts(Rest(rows)) = Parts(rows)
  <2>. HIDE DEF Keys, Group
  <2>. QED
    BY <1>1, <1>2
<1>4. /\ DomainGroups(rows) = {S \in Parts(rows) : Cardinality(S) >= 2}
      /\ DomainGroups(Rest(rows)) = {S \in Parts(Rest(rows)) : Cardinality(S) >= 2}
  BY RestIsResolved DEF DomainGroups, Groups
<1>. HIDE DEF Parts
<1>. QED
  BY <1>3, <1>4

LEMMA SameShares ==
  ASSUME NEW rows, NEW S \in SUBSET Resolved(rows)
  PROVE  SharesInfrastructure(Rest(rows), S) <=> SharesInfrastructure(rows, S)
<1>. DEFINE Sites(r) == {i \in S : {r[i].place.isp, r[i].place.country} \cap {None} = {}}
           Ranges(r) == {r[i].range : i \in S}
           OfRange(r, k) == {i \in S : r[i].range = k}
           OnSite(r) == {<<r[i].place.isp, r[i].place.country>> : i \in Sites(r)}
           OfSite(r, k) == {i \in Sites(r) : <<r[i].place.isp, r[i].place.country>> = k}
           Most(P) == Max({0} \cup {Cardinality(G) : G \in P})
           InOneRange(r) == Most({OfRange(r, k) : k \in Ranges(r)})
           OnOneSite(r) == Most({OfSite(r, k) : k \in OnSite(r)})
           n == Cardinality(S)
<1>1. \A i \in S : Rest(rows)[i] = rows[i]
  BY RestIsResolved
<1>2. Sites(Rest(rows)) = Sites(rows) /\ Sites(rows) \subseteq S
  BY <1>1
<1>3. Ranges(Rest(rows)) = Ranges(rows) /\ \A k : OfRange(Rest(rows), k) = OfRange(rows, k)
  BY <1>1
<1>4. OnSite(Rest(rows)) = OnSite(rows) /\ \A k : OfSite(Rest(rows), k) = OfSite(rows, k)
  <2>. HIDE DEF Sites
  <2>. QED
    BY <1>1, <1>2
<1>5. \A r : SharesInfrastructure(r, S) <=>
                \/ 10 * InOneRange(r) >= 8 * n
                \/ 10 * OnOneSite(r) >= 7 * n /\ 2 * InOneRange(r) >= n
  BY Zenon DEF SharesInfrastructure, Largest, Groups
<1>6. InOneRange(Rest(rows)) = InOneRange(rows) /\ OnOneSite(Rest(rows)) = OnOneSite(rows)
  <2>. HIDE DEF OfRange, Ranges, OnSite, OfSite, Most
  <2>. QED
    BY <1>3, <1>4
<1>. HIDE DEF InOneRange, OnOneSite, n
<1>. QED
  BY <1>5, <1>6, Zenon

LEMMA SameLeader ==
  ASSUME NEW rows, NEW S \in SUBSET Resolved(rows)
  PROVE  Leader(Rest(rows), S) = Leader(rows, S)
BY RestIsResolved DEF Leader

LEMMA SameTemporal ==
  ASSUME NEW rows, NEW S \in SUBSET Resolved(rows)
  PROVE  TemporalScore(Rest(rows), S) = TemporalScore(rows, S)
<1>1. {Rest(rows)[i].registered : i \in S} = {rows[i].registered : i \in S}
  BY RestIsResolved
<1>. QED
  BY <1>1, Zenon DEF TemporalScore

LEMMA SameTechnical ==
  ASSUME NEW rows, NEW S \in SUBSET Resolved(rows)
  PROVE  /\ Prints(Rest(rows), S) = Prints(rows, S)
         /\ HavePrints(Rest(rows), S) = HavePrints(rows, S)
         /\ HaveOneSpeed(Rest(rows), S) = HaveOneSpeed(rows, S)
         /\ TechnicalScore(Rest(rows), S) = TechnicalScore(rows, S)
<1>1. {i \in S : Rest(rows)[i].print # NoPrint} = {i \in S : rows[i].print # NoPrint}
  BY RestIsResolved
<1>2. Prints(Rest(rows), S) = Prints(rows, S)
  BY RestIsResolved DEF Prints
<1>3. HavePrints(Rest(rows), S) = HavePrints(rows, S)
  BY <1>1, Zenon DEF HavePrints
<1>4. HaveOneSpeed(Rest(rows), S) = HaveOneSpeed(rows, S)
  BY <1>2, <1>3, Zenon DEF HaveOneSpeed
<1>. QED
  BY <1>2, <1>3, <1>4, Zenon DEF TechnicalScore

LEMMA SameStakes ==
  ASSUME NEW rows, NEW S \in SUBSET Resolved(rows)
  PROVE  /\ AllAtMinimum(Rest(rows), S) <=> AllAtMinimum(rows, S)
         /\ AreSimilar(Rest(rows), S) <=> AreSimilar(rows, S)
         /\ StakeScore(Rest(rows), S) = StakeScore(rows, S)
<1>1. AllAtMinimum(Rest(rows), S) <=> AllAtMinimum(rows, S)
  BY RestIsResolved DEF AllAtMinimum
<1>2. [i \in S |-> Rest(rows)[i].stake] = [i \in S |-> rows[i].stake]
  BY RestIsResolved
<1>3. \A i \in S : Rest(rows)[i].stake = rows[i].stake
  BY RestIsResolved
<1>4. AreSimilar(Rest(rows), S) <=> AreSimilar(rows, S)
  BY <1>2, <1>3 DEF AreSimilar
<1>. QED
  BY <1>1, <1>4, Zenon DEF StakeScore

LEMMA SameSpots ==
  ASSUME NEW rows, NEW S \in SUBSET Resolved(rows)
  PROVE  AreClose(Rest(rows), S) <=> AreClose(rows, S)
<1>1. {i \in S : Rest(rows)[i].place.spot # None} = {i \in S : rows[i].place.spot # None}
  BY RestIsResolved
<1>2. {Rest(rows)[i].place.spot : i \in {j \in S : Rest(rows)[j].place.spot # None}}
        = {rows[i].place.spot : i \in {j \in S : rows[j].place.spot # None}}
  BY RestIsResolved
<1>. QED
  BY <1>1, <1>2, Zenon DEF AreClose

LEMMA SamePeers ==
  ASSUME NEW rows, NEW i \in Resolved(rows)
  PROVE  /\ SameCity(Rest(rows), i) = SameCity(rows, i)
         /\ SameIsp(Rest(rows), i) = SameIsp(rows, i)
         /\ SameAsn(Rest(rows), i) = SameAsn(rows, i)
         /\ SameRange(Rest(rows), i) = SameRange(rows, i)
<1>1. \A property : Known(Rest(rows), property) = Known(rows, property)
  BY RestIsResolved DEF Known
<1>2. \A property : Known(rows, property) \subseteq Resolved(rows)
  BY DEF Known
<1>3. SameCity(Rest(rows), i) = SameCity(rows, i)
  <2>. DEFINE City(r, j) == <<r[j].place.city, r[j].place.country>>
              K == Known(rows, "city")
  <2>1. \A j \in K : City(Rest(rows), j) = City(rows, j)
    BY <1>2, RestIsResolved
  <2>2. City(Rest(rows), i) = City(rows, i)
    BY RestIsResolved
  <2>3. \A r : SameCity(r, i) = IF i \in Known(r, "city")
                               THEN {j \in Known(r, "city") : City(r, j) = City(r, i)} ELSE {}
    BY Zenon DEF SameCity, Peers
  <2>. HIDE DEF City
  <2>. QED
    BY <1>1, <2>1, <2>2, <2>3
<1>4. SameIsp(Rest(rows), i) = SameIsp(rows, i)
  BY <1>1, <1>2, RestIsResolved DEF SameIsp, Peers
<1>5. SameAsn(Rest(rows), i) = SameAsn(rows, i)
  BY <1>1, <1>2, RestIsResolved DEF SameAsn, Peers
<1>6. SameRange(Rest(rows), i) = SameRange(rows, i)
  BY <1>1, <1>2, RestIsResolved DEF SameRange, Peers
<1>. QED
  BY <1>3, <1>4, <1>5, <1>6

LEMMA SameClusters ==
  ASSUME NEW rows
  PROVE  /\ DomainClusters(Rest(rows)) = DomainClusters(rows)
         /\ ExactIpClusters(Rest(rows)) = ExactIpClusters(rows)
         /\ Clusters(Rest(rows)) = Clusters(rows)
<1>1. DomainClusters(Rest(rows)) = DomainClusters(rows)
  <2>1. \A S \in DomainGroups(rows) : S \in SUBSET Resolved(rows)
    BY DEF DomainGroups, Groups
  <2>2. \A S \in DomainGroups(rows) :
          SharesInfrastructure(Rest(rows), S) <=> SharesInfrastructure(rows, S)
    BY <2>1, SameShares
  <2>. QED
    BY <2>2, SameDomainGroups DEF DomainClusters
<1>2. ExactIpClusters(Rest(rows)) = ExactIpClusters(rows)
  <2>. DEFINE Left == Resolved(rows) \ UNION DomainClusters(rows)
              Ips(r) == {r[i].ip : i \in Left}
              OfIp(r, k) == {i \in Left : r[i].ip = k}
              Parts(r) == {OfIp(r, k) : k \in Ips(r)}
              Bases(r, S) == {r[i].base : i \in S}
  <2>1. \A i \in Left : Rest(rows)[i] = rows[i]
    BY RestIsResolved
  <2>2. Ips(Rest(rows)) = Ips(rows) /\ \A k : OfIp(Rest(rows), k) = OfIp(rows, k)
    <3>. HIDE DEF Left
    <3>. QED
      BY <2>1
  <2>3. Parts(Rest(rows)) = Parts(rows)
    <3>. HIDE DEF Ips, OfIp
    <3>. QED
      BY <2>2
  <2>4. \A S \in Parts(rows) : Bases(Rest(rows), S) = Bases(rows, S)
    <3>1. \A S \in Parts(rows) : S \subseteq Left
      OBVIOUS
    <3>. HIDE DEF Left, Parts
    <3>. QED
      BY <2>1, <3>1
  <2>5. ExactIpClusters(rows)
          = {S \in Parts(rows) : Cardinality(S) >= 3 /\ Cardinality(Bases(rows, S)) >= 2}
    BY Zenon DEF ExactIpClusters, Groups
  <2>6. ExactIpClusters(Rest(rows))
          = {S \in Parts(Rest(rows)) :
               Cardinality(S) >= 3 /\ Cardinality(Bases(Rest(rows), S)) >= 2}
    <3>1. Left = Resolved(Rest(rows)) \ UNION DomainClusters(Rest(rows))
      BY <1>1, RestIsResolved
    <3>2. ExactIpClusters(Rest(rows))
            = {S \in Groups(Left, LAMBDA i : Rest(rows)[i].ip) :
                 Cardinality(S) >= 3 /\ Cardinality(Bases(Rest(rows), S)) >= 2}
      BY <3>1, Zenon DEF ExactIpClusters, Groups
    <3>. QED
      BY <3>2, Zenon DEF Groups
  <2>. HIDE DEF Parts, Bases
  <2>. QED
    BY <2>3, <2>4, <2>5, <2>6
<1>3. Clusters(Rest(rows)) = Clusters(rows)
  <2>1. \A S \in DomainClusters(rows) : Leader(Rest(rows), S) = Leader(rows, S)
    BY SameLeader DEF DomainClusters, DomainGroups, Groups
  <2>. DEFINE OfDomain(r, S) ==
                [id |-> <<"domain", NumberOf(S, DomainClusters(rows))>>, members |-> S,
                 primary |-> Leader(r, S)]
              OfIp(S) ==
                [id |-> <<"ip-exact", Cardinality(DomainClusters(rows))
                                        + NumberOf(S, ExactIpClusters(rows))>>,
                 members |-> S, primary |-> Min(S)]
  <2>2. /\ Clusters(rows) = {OfDomain(rows, S) : S \in DomainClusters(rows)}
                              \cup {OfIp(S) : S \in ExactIpClusters(rows)}
        /\ Clusters(Rest(rows)) = {OfDomain(Rest(rows), S) : S \in DomainClusters(rows)}
                                    \cup {OfIp(S) : S \in ExactIpClusters(rows)}
    BY <1>1, <1>2, Zenon DEF Clusters
  <2>3. \A S \in DomainClusters(rows) : OfDomain(Rest(rows), S) = OfDomain(rows, S)
    BY <2>1, Zenon
  <2>. HIDE DEF OfDomain, OfIp
  <2>. QED
    BY <2>2, <2>3
<1>. QED
  BY <1>1, <1>2, <1>3

LEMMA SameHosting ==
  ASSUME NEW rows, NEW i \in Resolved(rows), Resolved(rows) \subseteq Nat
  PROVE  IsHosted(Rest(rows), i) <=> IsHosted(rows, i)
<1>1. SameIsp(Rest(rows), i) = SameIsp(rows, i)
  BY SamePeers
<1>2. SameIsp(rows, i) \in SUBSET Resolved(rows)
  BY DEF SameIsp, Peers, Known
<1>3. CASE SameIsp(rows, i) = {}
  <2>1. Many.hosted \in Nat \ {0} /\ Cardinality({}) = 0
    BY ThresholdsAreNat, FS_EmptySet
  <2>. QED
    BY <1>1, <1>3, <2>1 DEF IsHosted
<1>4. CASE SameIsp(rows, i) # {}
  <2>1. Min(SameIsp(rows, i)) \in Resolved(rows)
    BY <1>2, <1>4, MinIsThere
  <2>2. Rest(rows)[Min(SameIsp(rows, i))] = rows[Min(SameIsp(rows, i))]
    BY <2>1, RestIsResolved
  <2>. QED
    BY <1>1, <2>2, Zenon DEF IsHosted
<1>. QED
  BY <1>3, <1>4

LEMMA MembersResolved ==
  ASSUME NEW rows, NEW c \in Clusters(rows)
  PROVE  c.members \in SUBSET Resolved(rows)
<1>1. c.members \in DomainClusters(rows) \cup ExactIpClusters(rows)
  BY DEF Clusters
<1>2. \A S \in DomainClusters(rows) \cup ExactIpClusters(rows) : S \subseteq Resolved(rows)
  BY DEF DomainClusters, DomainGroups, ExactIpClusters, Groups
<1>. QED
  BY <1>1, <1>2

LEMMA SameOverall ==
  ASSUME NEW rows, NEW i \in Resolved(rows), NEW own \in SUBSET Clusters(rows),
         Resolved(rows) \subseteq Nat
  PROVE  /\ DomainGroupSize(Rest(rows), i) = DomainGroupSize(rows, i)
         /\ Overall(Rest(rows), i, own) = Overall(rows, i, own)
         /\ Notes(Rest(rows), i, own) = Notes(rows, i, own)
<1>. DEFINE S == UNION {c.members : c \in own}
            rest == Rest(rows)
<1>1. S \in SUBSET Resolved(rows)
  BY MembersResolved
<1>2. rest[i] = rows[i] /\ i \in Resolved(rows) /\ i \in Resolved(rest)
  BY RestIsResolved
<1>3. /\ SameCity(rest, i) = SameCity(rows, i) /\ SameIsp(rest, i) = SameIsp(rows, i)
      /\ SameAsn(rest, i) = SameAsn(rows, i) /\ SameRange(rest, i) = SameRange(rows, i)
      /\ IsHosted(rest, i) = IsHosted(rows, i)
  <2>1. IsHosted(rest, i) <=> IsHosted(rows, i)
    BY SameHosting
  <2>2. IsHosted(rest, i) \in BOOLEAN /\ IsHosted(rows, i) \in BOOLEAN
    BY Zenon DEF IsHosted
  <2>. QED
    BY <2>1, <2>2, SamePeers
<1>4. /\ StakeScore(rest, S) = StakeScore(rows, S)
      /\ TemporalScore(rest, S) = TemporalScore(rows, S)
      /\ TechnicalScore(rest, S) = TechnicalScore(rows, S)
      /\ HaveOneSpeed(rest, S) = HaveOneSpeed(rows, S)
      /\ AllAtMinimum(rest, S) = AllAtMinimum(rows, S)
      /\ AreSimilar(rest, S) = AreSimilar(rows, S)
      /\ AreClose(rest, S) = AreClose(rows, S)
  <2>. HIDE DEF S
  <2>1. /\ AllAtMinimum(rest, S) <=> AllAtMinimum(rows, S)
        /\ AreSimilar(rest, S) <=> AreSimilar(rows, S)
        /\ AreClose(rest, S) <=> AreClose(rows, S)
    BY <1>1, SameStakes, SameSpots
  <2>2. \A r : /\ AllAtMinimum(r, S) \in BOOLEAN
               /\ AreSimilar(r, S) \in BOOLEAN
               /\ AreClose(r, S) \in BOOLEAN
    BY Zenon DEF AllAtMinimum, AreSimilar, AreClose
  <2>. QED
    BY <1>1, <2>1, <2>2, SameStakes, SameTemporal, SameTechnical
<1>5. DomainGroupSize(rest, i) = DomainGroupSize(rows, i)
  BY SameDomainGroups, Zenon DEF DomainGroupSize
<1>6. /\ DomainScore(rest, i) = DomainScore(rows, i)
      /\ NetworkScore(rest, i) = NetworkScore(rows, i)
      /\ GeographicScore(rest, i, S) = GeographicScore(rows, i, S)
  <2>. HIDE DEF S, rest
  <2>. QED
    BY <1>2, <1>3, <1>4, <1>5, Zenon DEF DomainScore, NetworkScore, GeographicScore
<1>7. \A r : /\ Overall(r, i, own)
                 = IF i \notin Resolved(r) THEN 0
                   ELSE 25 * DomainScore(r, i) + 15 * NetworkScore(r, i)
                        + 25 * GeographicScore(r, i, S)
                        + IF S = {} THEN 0
                          ELSE 10 * StakeScore(r, S) + 15 * TemporalScore(r, S)
                               + 10 * TechnicalScore(r, S)
  BY Zenon DEF Overall
<1>8. Overall(rest, i, own) = Overall(rows, i, own)
  <2>. HIDE DEF S, rest
  <2>. QED
    BY <1>2, <1>4, <1>6, <1>7, Zenon
<1>9. Notes(rest, i, own) = Notes(rows, i, own)
  <2>. DEFINE Said(note, holds) == IF holds THEN {note} ELSE {}
              isByDomain == \E c \in own : c.id[1] = "domain"
              OfGateway(r) ==
                Said("minimum_stake", r[i].stake <= MinStake)
                \cup Said("geographic_concentration", Cardinality(SameCity(r, i)) >= Many.city)
                \cup Said("isp_concentration", Cardinality(SameIsp(r, i)) >= Many.isp)
                \cup Said("asn_concentration", Cardinality(SameAsn(r, i)) >= Many.asn)
                \cup Said("datacenter_hosting", IsHosted(r, i))
              OfCluster(r) ==
                Said(IF isByDomain THEN "multiple_per_domain" ELSE "same_exact_ip", TRUE)
                \cup Said("sequential_pattern", /\ isByDomain /\ Cardinality(S) >= 3
                                                /\ r[i].pattern # "unique")
                \cup Said("rapid_registration", TemporalScore(r, S) = 90)
                \cup Said("close_registration_times", TemporalScore(r, S) = 60)
                \cup Said("identical_performance", HaveOneSpeed(r, S))
                \cup Said("geographic_proximity", AreClose(r, S))
                \cup Said("all_minimum_stake", AllAtMinimum(r, S))
                \cup Said("similar_stakes", AreSimilar(r, S))
  <2>1. \A r : Notes(r, i, own) = OfGateway(r) \cup IF S = {} THEN {} ELSE OfCluster(r)
    BY Zenon DEF Notes
  <2>. HIDE DEF S, rest, Said, isByDomain
  <2>2. OfGateway(rest) = OfGateway(rows)
    BY <1>2, <1>3, Zenon
  <2>3. OfCluster(rest) = OfCluster(rows)
    BY <1>2, <1>4, Zenon
  <2>. HIDE DEF OfGateway, OfCluster
  <2>. QED
    BY <2>1, <2>2, <2>3
<1>. QED
  BY <1>5, <1>8, <1>9

\* A table is the function it tabulates.
LEMMA TableIsItself ==
  ASSUME NEW f
  PROVE  Tabulated(f) = f
BY DEF Tabulated

\* What is said of a gateway, in terms of the cluster it is in.
Analysis(rows, i, own) ==
  [clusterId |-> IF own = {} THEN Unclustered ELSE (CHOOSE c \in own : TRUE).id,
   clusterSize |-> Cardinality(UNION {c.members : c \in own}),
   isPrimary |-> \A c \in own : c.primary = i,
   domainGroupSize |-> IF i \in Resolved(rows) THEN DomainGroupSize(rows, i) ELSE 0,
   overall |-> Overall(rows, i, own),
   suspicionNotes |-> Notes(rows, i, own)]

LEMMA AnalyzedIs ==
  ASSUME NEW rows
  PROVE  /\ DOMAIN Analyzed(rows) = DOMAIN rows
         /\ \A i \in DOMAIN rows :
              Analyzed(rows)[i] = Analysis(rows, i, {c \in Clusters(rows) : i \in c.members})
<1>. DEFINE f == [i \in DOMAIN rows |->
                    Analysis(rows, i, {c \in Clusters(rows) : i \in c.members})]
<1>1. Analyzed(rows) = Tabulated(f)
  BY Zenon DEF Analyzed, Analysis, AllRows
<1>2. Analyzed(rows) = f
  BY <1>1, TableIsItself
<1>. QED
  BY <1>2

LEMMA SameAnalysis ==
  ASSUME NEW rows, NEW i \in Resolved(rows), Resolved(rows) \subseteq Nat
  PROVE  Analyzed(rows)[i] = Analyzed(Rest(rows))[i]
<1>. DEFINE own == {c \in Clusters(rows) : i \in c.members}
            rest == Rest(rows)
<1>1. i \in DOMAIN rows /\ i \in DOMAIN rest /\ i \in Resolved(rest)
  BY RestIsResolved DEF Resolved, AllRows
<1>2. Analyzed(rows)[i] = Analysis(rows, i, own)
  BY <1>1, AnalyzedIs
<1>3. Analyzed(rest)[i] = Analysis(rest, i, own)
  BY <1>1, AnalyzedIs, SameClusters
<1>4. Analysis(rest, i, own) = Analysis(rows, i, own)
  <2>1. own \in SUBSET Clusters(rows)
    OBVIOUS
  <2>. HIDE DEF own, rest
  <2>2. /\ DomainGroupSize(rest, i) = DomainGroupSize(rows, i)
        /\ Overall(rest, i, own) = Overall(rows, i, own)
        /\ Notes(rest, i, own) = Notes(rows, i, own)
    BY <2>1, SameOverall DEF rest
  <2>. QED
    BY <1>1, <2>2, Zenon DEF Analysis
<1>. QED
  BY <1>2, <1>3, <1>4

\* Whatever the gateways are: each one that resolved gets the clusters, scores and notes it would
\* get were those whose name failed not in the registry at all (analyzer.ts:942 filters them
\* out once, and every comparison is among the rest).
THEOREM FailedNamesLeaveNoTrace ==
  ASSUME NEW rows, DOMAIN rows \subseteq Nat
  PROVE  \A i \in Resolved(rows) :
           Analyzed(rows)[i] = Analyzed([j \in Resolved(rows) |-> rows[j]])[i]
<1>1. Resolved(rows) \subseteq Nat
  BY DEF Resolved, AllRows
<1>. QED
  BY <1>1, SameAnalysis DEF Rest
-----------------------------------------------------------------------------
\* What the rows are of which the analysis is made.
AreRows(rows) ==
  /\ DOMAIN rows \subseteq Nat /\ IsFiniteSet(DOMAIN rows)
  /\ \A i \in DOMAIN rows : rows[i].stake \in Nat

\* Clusters are sets of places, finite and not empty, and there are finitely many.
LEMMA ClustersOfRows ==
  ASSUME NEW rows, AreRows(rows)
  PROVE  /\ Resolved(rows) \in SUBSET Nat /\ IsFiniteSet(Resolved(rows))
         /\ IsFiniteSet(DomainClusters(rows)) /\ IsFiniteSet(ExactIpClusters(rows))
         /\ \A S \in DomainClusters(rows) \cup ExactIpClusters(rows) :
              S \in SUBSET Nat /\ IsFiniteSet(S) /\ S # {}
<1>1. Resolved(rows) \in SUBSET Nat /\ IsFiniteSet(Resolved(rows))
  <2>1. Resolved(rows) \in SUBSET (DOMAIN rows)
    BY DEF Resolved, AllRows
  <2>. QED
    BY <2>1, FS_Subset DEF AreRows
<1>2. \A S \in DomainClusters(rows) \cup ExactIpClusters(rows) : S \in SUBSET Resolved(rows)
  BY ClustersAreDisjoint
<1>3. IsFiniteSet(DomainClusters(rows)) /\ IsFiniteSet(ExactIpClusters(rows))
  <2>1. IsFiniteSet(SUBSET Resolved(rows))
    BY <1>1, FS_SUBSET
  <2>2. /\ DomainClusters(rows) \in SUBSET (SUBSET Resolved(rows))
        /\ ExactIpClusters(rows) \in SUBSET (SUBSET Resolved(rows))
    BY <1>2
  <2>. QED
    BY <2>1, <2>2, FS_Subset
<1>4. \A S \in DomainClusters(rows) \cup ExactIpClusters(rows) : Cardinality(S) >= 2
  <2>1. \A S \in DomainClusters(rows) : Cardinality(S) >= 2
    BY DEF DomainClusters, DomainGroups
  <2>2. ASSUME NEW S \in ExactIpClusters(rows)
        PROVE  Cardinality(S) >= 2
    <3>1. IsFiniteSet(S)
      BY <1>1, <1>2, FS_Subset
    <3>2. Cardinality(S) \in Nat
      BY <3>1, FS_CardinalityType
    <3>3. Cardinality(S) >= 3
      BY DEF ExactIpClusters
    <3>. QED
      BY <3>2, <3>3
  <2>. QED
    BY <2>1, <2>2
<1>5. ASSUME NEW S \in DomainClusters(rows) \cup ExactIpClusters(rows)
      PROVE  IsFiniteSet(S) /\ S # {}
  <2>1. IsFiniteSet(S)
    BY <1>1, <1>2, FS_Subset
  <2>2. Cardinality(S) >= 2 /\ Cardinality({}) = 0
    BY <1>4, FS_EmptySet
  <2>. QED
    BY <2>1, <2>2
<1>. QED
  BY <1>1, <1>2, <1>3, <1>5

\* The number of a cluster is its own.
LEMMA NumbersDiffer ==
  ASSUME NEW P, IsFiniteSet(P),
         \A S \in P : S \in SUBSET Nat /\ S # {},
         \A S, T \in P : S # T => S \cap T = {},
         NEW S \in P, NEW T \in P, S # T
  PROVE  NumberOf(S, P) \in Nat /\ NumberOf(S, P) # NumberOf(T, P)
<1>1. \A U \in P : Min(U) \in U /\ Min(U) \in Nat
  BY MinIsThere
<1>2. Min(S) # Min(T)
  BY <1>1
<1>. DEFINE UpTo(U) == {V \in P : Min(V) <= Min(U)}
<1>3. \A U \in P : UpTo(U) \in SUBSET P /\ IsFiniteSet(UpTo(U))
  BY FS_Subset
<1>4. \A U \in P : NumberOf(U, P) = Cardinality(UpTo(U)) /\ Cardinality(UpTo(U)) \in Nat
  BY <1>3, FS_CardinalityType DEF NumberOf
<1>5. ASSUME NEW A \in P, NEW B \in P, Min(A) < Min(B)
      PROVE  Cardinality(UpTo(A)) # Cardinality(UpTo(B))
  <2>1. UpTo(A) \in SUBSET UpTo(B)
    BY <1>1, <1>5
  <2>2. B \in UpTo(B) /\ B \notin UpTo(A)
    BY <1>1, <1>5
  <2>. QED
    BY <1>3, <2>1, <2>2, FS_Subset
<1>6. Min(S) < Min(T) \/ Min(T) < Min(S)
  BY <1>1, <1>2
<1>. HIDE DEF UpTo
<1>. QED
  BY <1>4, <1>5, <1>6

\* The fields of a cluster.
LEMMA FieldsOfClusters ==
  ASSUME NEW rows, NEW c \in Clusters(rows)
  PROVE  /\ c = [id |-> c.id, members |-> c.members, primary |-> c.primary]
         /\ \/ /\ c.members \in DomainClusters(rows)
               /\ c.id = <<"domain", NumberOf(c.members, DomainClusters(rows))>>
               /\ c.primary = Leader(rows, c.members)
            \/ /\ c.members \in ExactIpClusters(rows)
               /\ c.id = <<"ip-exact", Cardinality(DomainClusters(rows))
                                         + NumberOf(c.members, ExactIpClusters(rows))>>
               /\ c.primary = Min(c.members)
BY DEF Clusters

\* A gateway is in one cluster, and a cluster has one id.
LEMMA OneClusterEach ==
  ASSUME NEW rows, AreRows(rows), NEW c \in Clusters(rows), NEW d \in Clusters(rows)
  PROVE  /\ c.members \cap d.members # {} => c = d
         /\ c.id = d.id => c = d
<1>. DEFINE D == DomainClusters(rows)
            E == ExactIpClusters(rows)
<1>1. \A S, T \in D \cup E : S # T => S \cap T = {}
  BY ClustersAreDisjoint
<1>2. /\ IsFiniteSet(D) /\ IsFiniteSet(E)
      /\ \A S \in D \cup E : S \in SUBSET Nat /\ S # {}
  BY ClustersOfRows
<1>3. D \cap E = {}
  BY <1>2 DEF ExactIpClusters, Groups
<1>4. c.members \in D \cup E /\ d.members \in D \cup E
  BY FieldsOfClusters
<1>5. c.members = d.members => c = d
  BY <1>3, FieldsOfClusters
<1>6. c.members \cap d.members # {} => c.members = d.members
  BY <1>1, <1>4
<1>7. ASSUME c.id = d.id, c.members # d.members
      PROVE  FALSE
  <2>1. \/ c.members \in D /\ d.members \in D
        \/ c.members \in E /\ d.members \in E
    <3>1. /\ (c.members \in D /\ c.id[1] = "domain") \/ (c.members \in E /\ c.id[1] = "ip-exact")
          /\ (d.members \in D /\ d.id[1] = "domain") \/ (d.members \in E /\ d.id[1] = "ip-exact")
      BY FieldsOfClusters
    <3>. QED
      BY <1>7, <3>1
  <2>2. CASE c.members \in D /\ d.members \in D
    <3>1. c.id[2] = NumberOf(c.members, D) /\ d.id[2] = NumberOf(d.members, D)
      BY <1>3, <2>2, FieldsOfClusters
    <3>. HIDE DEF D
    <3>. QED
      BY <1>1, <1>2, <1>7, <2>2, <3>1, NumbersDiffer
  <2>3. CASE c.members \in E /\ d.members \in E
    <3>1. /\ c.id[2] = Cardinality(D) + NumberOf(c.members, E)
          /\ d.id[2] = Cardinality(D) + NumberOf(d.members, E)
      BY <1>3, <2>3, FieldsOfClusters
    <3>. HIDE DEF D, E
    <3>2. /\ NumberOf(c.members, E) \in Nat /\ NumberOf(d.members, E) \in Nat
          /\ NumberOf(c.members, E) # NumberOf(d.members, E)
      BY <1>1, <1>2, <1>7, <2>3, NumbersDiffer
    <3>3. Cardinality(D) \in Nat
      BY <1>2, FS_CardinalityType
    <3>. QED
      BY <1>7, <3>1, <3>2, <3>3
  <2>. QED
    BY <2>1, <2>2, <2>3
<1>. QED
  BY <1>5, <1>6, <1>7

\* The primary gateway of a cluster is one of it.
LEMMA PrimaryIsMember ==
  ASSUME NEW rows, AreRows(rows), NEW c \in Clusters(rows)
  PROVE  c.primary \in c.members
<1>. DEFINE S == c.members
<1>1. S \in DomainClusters(rows) \cup ExactIpClusters(rows)
  BY FieldsOfClusters
<1>2. /\ S \in SUBSET Nat /\ IsFiniteSet(S) /\ S # {}
      /\ S \subseteq DOMAIN rows
  <2>1. S \subseteq DOMAIN rows
    BY MembersResolved DEF Resolved, AllRows
  <2>. QED
    BY <1>1, <2>1, ClustersOfRows
<1>. HIDE DEF S
<1>3. Leader(rows, S) \in S
  <2>. DEFINE stakes == {rows[i].stake : i \in S}
              f == [i \in S |-> rows[i].stake]
              best == {i \in S : \A j \in S : rows[i].stake >= rows[j].stake}
  <2>1. \A i \in S : rows[i].stake \in Nat
    BY <1>2 DEF AreRows
  <2>2. IsFiniteSet(stakes)
    <3>1. f \in Surjection(S, stakes)
      BY DEF Surjection
    <3>. QED
      BY <1>2, <3>1, FS_Surjection
  <2>3. stakes \in SUBSET Nat /\ stakes # {}
    BY <1>2, <2>1
  <2>4. Max(stakes) \in stakes /\ \A n \in stakes : n <= Max(stakes)
    <3>. HIDE DEF stakes
    <3>. QED
      BY <2>2, <2>3, MaxIsThere
  <2>5. PICK i \in S : rows[i].stake = Max(stakes)
    BY <2>4
  <2>6. \A j \in S : rows[i].stake >= rows[j].stake
    <3>1. \A j \in S : rows[j].stake \in stakes
      OBVIOUS
    <3>. HIDE DEF stakes
    <3>. QED
      BY <2>1, <2>4, <2>5, <3>1
  <2>7. best \in SUBSET Nat /\ best # {}
    BY <1>2, <2>5, <2>6
  <2>8. Min(best) \in best
    <3>. HIDE DEF best
    <3>. QED
      BY <2>7, MinIsThere
  <2>. QED
    BY <2>8 DEF Leader
<1>4. Min(S) \in S
  BY <1>2, MinIsThere
<1>. QED
  BY <1>3, <1>4, FieldsOfClusters DEF S

\* The gateways of a domain cluster have one domain, those of another several.
LEMMA DomainsOfClusters ==
  ASSUME NEW rows, AreRows(rows), NEW c \in Clusters(rows)
  PROVE  Cardinality({rows[i].base : i \in c.members}) = 1 <=> c.id[1] = "domain"
<1>1. CASE c.members \in DomainClusters(rows)
  <2>1. c.id[1] = "domain"
    <3>1. c.members \notin ExactIpClusters(rows)
      BY <1>1, ClustersOfRows DEF ExactIpClusters, Groups
    <3>. QED
      BY <3>1, FieldsOfClusters
  <2>2. PICK k : \A i \in c.members : rows[i].base = k
    BY <1>1 DEF DomainClusters, DomainGroups, Groups
  <2>3. c.members # {}
    BY <1>1, ClustersOfRows
  <2>4. {rows[i].base : i \in c.members} = {k}
    BY <2>2, <2>3
  <2>. QED
    BY <2>1, <2>4, FS_Singleton
<1>2. CASE c.members \in ExactIpClusters(rows)
  <2>1. c.id[1] = "ip-exact"
    <3>1. c.members \notin DomainClusters(rows)
      BY <1>2, ClustersOfRows DEF ExactIpClusters, Groups
    <3>. QED
      BY <3>1, FieldsOfClusters
  <2>2. Cardinality({rows[i].base : i \in c.members}) >= 2
    BY <1>2 DEF ExactIpClusters
  <2>. QED
    BY <2>1, <2>2
<1>. QED
  BY <1>1, <1>2, FieldsOfClusters

\* What is said of a gateway of a cluster, and of one of none.
LEMMA ClusterOfGateway ==
  ASSUME NEW rows, AreRows(rows), NEW i \in DOMAIN rows
  PROVE  /\ \A c \in Clusters(rows) : i \in c.members =>
              /\ Analyzed(rows)[i].clusterId = c.id
              /\ Analyzed(rows)[i].clusterSize = Cardinality(c.members)
              /\ Analyzed(rows)[i].isPrimary <=> c.primary = i
         /\ (\A c \in Clusters(rows) : i \notin c.members) =>
              Analyzed(rows)[i].clusterId = Unclustered
<1>. DEFINE own == {c \in Clusters(rows) : i \in c.members}
<1>1. Analyzed(rows)[i] = Analysis(rows, i, own)
  BY AnalyzedIs
<1>2. ASSUME NEW c \in Clusters(rows), i \in c.members
      PROVE  /\ Analyzed(rows)[i].clusterId = c.id
             /\ Analyzed(rows)[i].clusterSize = Cardinality(c.members)
             /\ Analyzed(rows)[i].isPrimary <=> c.primary = i
  <2>1. own = {c}
    BY <1>2, OneClusterEach
  <2>2. (CHOOSE d \in own : TRUE) = c /\ UNION {d.members : d \in own} = c.members /\ own # {}
    BY <2>1
  <2>3. (\A d \in own : d.primary = i) <=> c.primary = i
    BY <2>1
  <2>. HIDE DEF own
  <2>4. /\ Analyzed(rows)[i].clusterId = IF own = {} THEN Unclustered ELSE (CHOOSE d \in own : TRUE).id
        /\ Analyzed(rows)[i].clusterSize = Cardinality(UNION {d.members : d \in own})
    BY <1>1 DEF Analysis
  <2>5. Analysis(rows, i, own).isPrimary <=> \A d \in own : d.primary = i
    BY DEF Analysis
  <2>6. Analyzed(rows)[i].isPrimary <=> c.primary = i
    BY <1>1, <2>3, <2>5
  <2>. QED
    BY <2>2, <2>4, <2>6
<1>3. ASSUME \A c \in Clusters(rows) : i \notin c.members
      PROVE  Analyzed(rows)[i].clusterId = Unclustered
  <2>1. own = {}
    BY <1>3
  <2>. HIDE DEF own
  <2>. QED
    BY <1>1, <2>1 DEF Analysis
<1>. QED
  BY <1>2, <1>3

LEMMA ClustersAreFinite ==
  ASSUME NEW rows, AreRows(rows)
  PROVE  IsFiniteSet(Clusters(rows))
<1>. DEFINE C == Clusters(rows)
            M == DomainClusters(rows) \cup ExactIpClusters(rows)
            f == [c \in C |-> c.members]
<1>1. IsFiniteSet(M)
  BY ClustersOfRows, FS_Union
<1>2. \A c \in C : c.members \in M
  BY FieldsOfClusters
<1>3. \A c, d \in C : c.members = d.members => c = d
  BY <1>2, ClustersOfRows, OneClusterEach
<1>4. f \in Injection(C, M)
  <2>. HIDE DEF C, M
  <2>. QED
    BY <1>2, <1>3 DEF Injection, IsInjective
<1>. QED
  BY <1>1, <1>4, FS_Injection

\* Whatever the gateways are: a cluster is the gateways that carry its id, each with its size and
\* exactly one of them primary; it has one base domain just when it is a cluster by domain; and
\* no two clusters have one id (analyzer.ts:478-586).
THEOREM ClustersPart ==
  ASSUME NEW rows, AreRows(rows)
  PROVE  LET results == Analyzed(rows)
             clusters == Clusters(rows)
         IN  /\ \A c \in clusters :
                  /\ c.members = {i \in DOMAIN rows : results[i].clusterId = c.id}
                  /\ \A i \in c.members : results[i].clusterSize = Cardinality(c.members)
                  /\ Cardinality({i \in c.members : results[i].isPrimary}) = 1
                  /\ (Cardinality({rows[i].base : i \in c.members}) = 1) <=> (c.id[1] = "domain")
             /\ Cardinality({c.id : c \in clusters}) = Cardinality(clusters)
<1>1. ASSUME NEW c \in Clusters(rows)
      PROVE  /\ c.members = {i \in DOMAIN rows : Analyzed(rows)[i].clusterId = c.id}
             /\ \A i \in c.members : Analyzed(rows)[i].clusterSize = Cardinality(c.members)
             /\ Cardinality({i \in c.members : Analyzed(rows)[i].isPrimary}) = 1
  <2>1. c.members \subseteq DOMAIN rows
    BY MembersResolved DEF Resolved, AllRows
  <2>2. \A i \in c.members : /\ Analyzed(rows)[i].clusterId = c.id
                             /\ Analyzed(rows)[i].clusterSize = Cardinality(c.members)
                             /\ Analyzed(rows)[i].isPrimary <=> c.primary = i
    BY <2>1, ClusterOfGateway
  <2>3. ASSUME NEW i \in DOMAIN rows, Analyzed(rows)[i].clusterId = c.id
        PROVE  i \in c.members
    <3>1. c.id # Unclustered
      BY FieldsOfClusters DEF Unclustered
    <3>2. PICK d \in Clusters(rows) : i \in d.members
      BY <2>3, <3>1, ClusterOfGateway
    <3>3. d.id = c.id
      BY <2>3, <3>2, ClusterOfGateway
    <3>. QED
      BY <3>2, <3>3, OneClusterEach
  <2>4. {i \in c.members : Analyzed(rows)[i].isPrimary} = {c.primary}
    BY <2>2, PrimaryIsMember
  <2>. QED
    BY <2>1, <2>2, <2>3, <2>4, FS_Singleton
<1>2. Cardinality({c.id : c \in Clusters(rows)}) = Cardinality(Clusters(rows))
  <2>. DEFINE C == Clusters(rows)
              ids == {c.id : c \in C}
              f == [c \in C |-> c.id]
  <2>1. \A c, d \in C : c.id = d.id => c = d
    BY OneClusterEach
  <2>2. IsFiniteSet(C)
    BY ClustersAreFinite
  <2>. HIDE DEF C
  <2>3. f \in Bijection(C, ids)
    BY <2>1 DEF Bijection, Injection, Surjection, IsInjective
  <2>4. ExistsBijection(C, ids)
    BY <2>3, Zenon DEF ExistsBijection
  <2>. HIDE DEF ids, f
  <2>5. Cardinality(ids) = Cardinality(C)
    BY <2>2, <2>4, FS_Bijection
  <2>. QED
    BY <2>5 DEF ids, C
<1>3. \A c \in Clusters(rows) :
        (Cardinality({rows[i].base : i \in c.members}) = 1) <=> (c.id[1] = "domain")
  BY DomainsOfClusters
<1>. QED
  BY <1>1, <1>2, <1>3, Zenon
-----------------------------------------------------------------------------
(***************************************************************************)
(* Sums.  SumFunctionOnSet is defined by a function of the subsets, one    *)
(* element less at a time; what is proved is that it adds the elements up. *)
(***************************************************************************)
\* The element that is taken first, and the set without it.
Some(s) == CHOOSE x \in s : TRUE
Others(s) == s \ {Some(s)}

\* sum is the function of the subsets of T by which the sum of f on T is defined.
AddsUp(f, T, sum) ==
  sum = [s \in SUBSET T |-> IF s = {} THEN 0 ELSE f[Some(s)] + sum[Others(s)]]

LEMMA SumIsDefinedSo ==
  ASSUME NEW f, NEW T
  PROVE  SumFunctionOnSet(f, T) = (CHOOSE sum : AddsUp(f, T, sum))[T]
BY Zenon DEF SumFunctionOnSet, FoldFunctionOnSet, MapThenFoldSet, AddsUp, Some, Others

LEMMA AddsUpAt ==
  ASSUME NEW f, NEW T, NEW sum, AddsUp(f, T, sum), NEW s \in SUBSET T
  PROVE  /\ s = {} => sum[s] = 0
         /\ s # {} => /\ Some(s) \in s /\ Others(s) \in SUBSET T
                      /\ sum[s] = f[Some(s)] + sum[Others(s)]
<1>1. sum[s] = IF s = {} THEN 0 ELSE f[Some(s)] + sum[Others(s)]
  BY DEF AddsUp
<1>2. s # {} => Some(s) \in s
  BY DEF Some
<1>. QED
  BY <1>1, <1>2 DEF Others

\* Of finite sets, one that is not as the others is the least that is not.
LEMMA LeastSet ==
  ASSUME NEW T, IsFiniteSet(T), NEW bad \in SUBSET (SUBSET T), bad # {}
  PROVE  \E s \in bad : \A t \in bad : t \subseteq s => t = s
<1>1. bad \subseteq FiniteSubsetsOf(T)
  BY FS_FiniteSubsetsOfFinite
<1>2. PICK s \in bad : \A t \in bad : <<t, s>> \notin StrictSubsetOrdering(T)
  BY <1>1, FS_StrictSubsetOrderingWellFounded, WFMin, Zenon
<1>3. ASSUME NEW t \in bad, t \subseteq s, t # s
      PROVE  FALSE
  BY <1>2, <1>3 DEF StrictSubsetOrdering
<1>. QED
  BY <1>3

\* A sum over a set is no other as a part of a greater set.
LEMMA SumsAgree ==
  ASSUME NEW f, NEW T, NEW U \in SUBSET T, IsFiniteSet(U), NEW g, NEW h,
         AddsUp(f, T, g), AddsUp(f, U, h)
  PROVE  g[U] = h[U]
<1>. DEFINE bad == {s \in SUBSET U : g[s] # h[s]}
<1>1. SUFFICES ASSUME bad # {} PROVE FALSE
  OBVIOUS
<1>2. PICK s \in bad : \A t \in bad : t \subseteq s => t = s
  <2>1. bad \in SUBSET (SUBSET U)
    OBVIOUS
  <2>. HIDE DEF bad
  <2>. QED
    BY <1>1, <2>1, LeastSet
<1>3. s \in SUBSET U /\ s \in SUBSET T /\ g[s] # h[s]
  OBVIOUS
<1>4. CASE s = {}
  BY <1>3, <1>4, AddsUpAt
<1>5. CASE s # {}
  <2>1. g[s] = f[Some(s)] + g[Others(s)] /\ h[s] = f[Some(s)] + h[Others(s)]
    BY <1>3, <1>5, AddsUpAt
  <2>2. Others(s) \in SUBSET U /\ Others(s) \subseteq s /\ Others(s) # s
    BY <1>3, <1>5, AddsUpAt DEF Others
  <2>3. g[Others(s)] = h[Others(s)]
    BY <1>2, <2>2
  <2>. QED
    BY <1>3, <2>1, <2>3
<1>. QED
  BY <1>4, <1>5

\* Of every finite set there is such a function, built up from its least subset without one.
LEMMA SumsExist ==
  ASSUME NEW f, NEW T, IsFiniteSet(T)
  PROVE  \E g : AddsUp(f, T, g)
<1>. DEFINE bad == {t \in SUBSET T : ~ \E g : AddsUp(f, t, g)}
            Of(u) == CHOOSE g : AddsUp(f, u, g)
<1>1. SUFFICES ASSUME bad # {} PROVE FALSE
  OBVIOUS
<1>2. PICK t \in bad : \A u \in bad : u \subseteq t => u = t
  <2>1. bad \in SUBSET (SUBSET T)
    OBVIOUS
  <2>. HIDE DEF bad
  <2>. QED
    BY <1>1, <2>1, LeastSet
<1>3. t \in SUBSET T /\ ~ \E g : AddsUp(f, t, g)
  OBVIOUS
<1>. DEFINE g == [s \in SUBSET t |-> IF s = {} THEN 0 ELSE f[Some(s)] + Of(Others(s))[Others(s)]]
<1>4. ASSUME NEW u \in SUBSET t, u # t
      PROVE  AddsUp(f, u, Of(u))
  <2>1. u \notin bad /\ u \in SUBSET T
    BY <1>2, <1>3, <1>4
  <2>2. \E h : AddsUp(f, u, h)
    BY <2>1
  <2>. QED
    BY <2>2, Zenon
<1>5. ASSUME NEW u \in SUBSET t, u # t
      PROVE  g[u] = Of(u)[u]
  <2>1. AddsUp(f, u, Of(u))
    BY <1>4, <1>5
  <2>. HIDE DEF Of
  <2>2. CASE u = {}
    BY <2>1, <2>2, AddsUpAt
  <2>3. CASE u # {}
    <3>1. Of(u)[u] = f[Some(u)] + Of(u)[Others(u)]
      BY <2>1, <2>3, AddsUpAt
    <3>2. Others(u) \in SUBSET u /\ Others(u) \in SUBSET t /\ Others(u) # t
      BY <1>5 DEF Others
    <3>3. IsFiniteSet(Others(u))
      <4>1. Others(u) \in SUBSET T
        BY <1>3, <3>2
      <4>. QED
        BY <4>1, FS_Subset
    <3>4. AddsUp(f, Others(u), Of(Others(u)))
      BY <1>4, <3>2
    <3>5. Of(u)[Others(u)] = Of(Others(u))[Others(u)]
      BY <2>1, <3>2, <3>3, <3>4, SumsAgree
    <3>. QED
      BY <2>3, <3>1, <3>5
  <2>. QED
    BY <2>2, <2>3
<1>6. g = [s \in SUBSET t |-> IF s = {} THEN 0 ELSE f[Some(s)] + g[Others(s)]]
  <2>1. ASSUME NEW s \in SUBSET t, s # {}
        PROVE  g[Others(s)] = Of(Others(s))[Others(s)]
    <3>1. Others(s) \in SUBSET t /\ Others(s) # t
      BY <2>1 DEF Others, Some
    <3>. HIDE DEF g, Of
    <3>. QED
      BY <1>5, <3>1
  <2>. HIDE DEF Of
  <2>. QED
    BY <2>1
<1>. HIDE DEF g
<1>. QED
  BY <1>3, <1>6 DEF AddsUp

\* A sum is that of one less and the one.
LEMMA SumOfSet ==
  ASSUME NEW f, NEW T, IsFiniteSet(T)
  PROVE  /\ T = {} => SumFunctionOnSet(f, T) = 0
         /\ T # {} => \E x \in T : SumFunctionOnSet(f, T) = f[x] + SumFunctionOnSet(f, T \ {x})
<1>. DEFINE Of(u) == CHOOSE g : AddsUp(f, u, g)
<1>1. \A u \in SUBSET T : IsFiniteSet(u) /\ SumFunctionOnSet(f, u) = Of(u)[u]
  BY FS_Subset, SumIsDefinedSo
<1>2. \A u \in SUBSET T : AddsUp(f, u, Of(u))
  BY <1>1, SumsExist, Zenon
<1>. HIDE DEF Of
<1>3. CASE T = {}
  BY <1>1, <1>2, <1>3, AddsUpAt
<1>4. CASE T # {}
  <2>1. Some(T) \in T /\ Of(T)[T] = f[Some(T)] + Of(T)[Others(T)]
    BY <1>2, <1>4, AddsUpAt
  <2>2. Others(T) \in SUBSET T /\ Others(T) = T \ {Some(T)}
    BY DEF Others
  <2>3. Of(T)[Others(T)] = Of(Others(T))[Others(T)]
    BY <1>1, <1>2, <2>2, SumsAgree
  <2>. QED
    BY <1>1, <2>1, <2>2, <2>3
<1>. QED
  BY <1>3, <1>4

\* The sizes of disjoint sets add up to the size of their union.
LEMMA SizesAddUp ==
  ASSUME NEW C, IsFiniteSet(C), NEW size,
         \A c \in C : IsFiniteSet(c.members) /\ size[c] = Cardinality(c.members),
         \A c, d \in C : c # d => c.members \cap d.members = {}
  PROVE  SumFunctionOnSet(size, C) = Cardinality(UNION {c.members : c \in C})
<1>. DEFINE All(T) == UNION {c.members : c \in T}
            bad == {T \in SUBSET C : SumFunctionOnSet(size, T) # Cardinality(All(T))}
<1>1. SUFFICES ASSUME bad # {} PROVE FALSE
  OBVIOUS
<1>2. PICK T \in bad : \A t \in bad : t \subseteq T => t = T
  <2>1. bad \in SUBSET (SUBSET C)
    OBVIOUS
  <2>. HIDE DEF bad
  <2>. QED
    BY <1>1, <2>1, LeastSet
<1>3. T \in SUBSET C /\ IsFiniteSet(T) /\ SumFunctionOnSet(size, T) # Cardinality(All(T))
  BY FS_Subset
<1>4. CASE T = {}
  <2>1. All(T) = {}
    BY <1>4
  <2>. HIDE DEF All
  <2>. QED
    BY <1>3, <1>4, <2>1, SumOfSet, FS_EmptySet
<1>5. CASE T # {}
  <2>1. PICK x \in T : SumFunctionOnSet(size, T) = size[x] + SumFunctionOnSet(size, T \ {x})
    BY <1>3, <1>5, SumOfSet
  <2>. DEFINE U == T \ {x}
  <2>2. U \in SUBSET C /\ U \subseteq T /\ U # T
    BY <1>3
  <2>3. SumFunctionOnSet(size, U) = Cardinality(All(U))
    BY <1>2, <2>2
  <2>4. IsFiniteSet(All(U))
    <3>. DEFINE f == [c \in U |-> c.members]
                M == {c.members : c \in U}
    <3>1. f \in Surjection(U, M) /\ IsFiniteSet(U)
      BY <2>2, FS_Subset DEF Surjection
    <3>2. IsFiniteSet(M)
      BY <3>1, FS_Surjection
    <3>3. \A S \in M : IsFiniteSet(S)
      BY <2>2
    <3>. HIDE DEF M
    <3>4. IsFiniteSet(UNION M)
      BY <3>2, <3>3, FS_UNION
    <3>. QED
      BY <3>4 DEF M
  <2>5. x \in C /\ IsFiniteSet(x.members) /\ size[x] = Cardinality(x.members)
    BY <1>3
  <2>6. All(T) = x.members \cup All(U) /\ x.members \cap All(U) = {}
    BY <1>3
  <2>. HIDE DEF All, U
  <2>7. Cardinality(All(T)) = Cardinality(x.members) + Cardinality(All(U)) - Cardinality({})
    BY <2>4, <2>5, <2>6, FS_Union
  <2>8. Cardinality({}) = 0 /\ Cardinality(x.members) \in Nat /\ Cardinality(All(U)) \in Nat
    BY <2>4, <2>5, FS_EmptySet, FS_CardinalityType
  <2>. QED
    BY <1>3, <2>1, <2>3, <2>5, <2>7, <2>8 DEF U
<1>. QED
  BY <1>4, <1>5
-----------------------------------------------------------------------------
\* Scores are numbers.
LEMMA BringsIsNat ==
  ASSUME NEW n \in Nat, NEW many \in Nat, NEW base \in Nat, NEW step \in Nat, NEW cap \in Nat
  PROVE  Brings(n, many, base, step, cap) \in Nat
<1>1. CASE n < many
  BY <1>1 DEF Brings
<1>2. CASE ~(n < many)
  <2>1. n - many \in Nat
    BY <1>2
  <2>2. (n - many) * step \in Nat
    BY <2>1
  <2>3. base + (n - many) * step \in Nat
    BY <2>2
  <2>4. Min({base + (n - many) * step, cap}) \in Nat
    BY <2>3, LesserIsNat
  <2>. QED
    BY <1>2, <2>4, Zenon DEF Brings
<1>. QED
  BY <1>1, <1>2

LEMMA PeersAreFew ==
  ASSUME NEW rows, AreRows(rows), NEW i
  PROVE  /\ Cardinality(SameCity(rows, i)) \in Nat
         /\ Cardinality(SameIsp(rows, i)) \in Nat
         /\ Cardinality(SameAsn(rows, i)) \in Nat
         /\ Cardinality(SameRange(rows, i)) \in Nat
<1>1. /\ SameCity(rows, i) \in SUBSET Resolved(rows)
      /\ SameIsp(rows, i) \in SUBSET Resolved(rows)
      /\ SameAsn(rows, i) \in SUBSET Resolved(rows)
      /\ SameRange(rows, i) \in SUBSET Resolved(rows)
  BY DEF SameCity, SameIsp, SameAsn, SameRange, Peers, Known
<1>2. \A S \in SUBSET Resolved(rows) : Cardinality(S) \in Nat
  BY ClustersOfRows, FS_Subset, FS_CardinalityType
<1>. QED
  BY <1>1, <1>2

LEMMA DomainGroupSizeIsNat ==
  ASSUME NEW rows, AreRows(rows), NEW i
  PROVE  DomainGroupSize(rows, i) \in Nat
<1>. DEFINE groups == {T \in DomainGroups(rows) : i \in T}
            sizes == {Cardinality(S) : S \in groups}
            f == [S \in groups |-> Cardinality(S)]
<1>1. \A S \in groups : S \in SUBSET Resolved(rows)
  BY DEF DomainGroups, Groups
<1>2. IsFiniteSet(groups)
  <2>1. IsFiniteSet(SUBSET Resolved(rows))
    BY ClustersOfRows, FS_SUBSET
  <2>2. groups \in SUBSET (SUBSET Resolved(rows))
    BY <1>1
  <2>. HIDE DEF groups
  <2>. QED
    BY <2>1, <2>2, FS_Subset
<1>3. \A S \in groups : Cardinality(S) \in Nat
  BY <1>1, ClustersOfRows, FS_Subset, FS_CardinalityType
<1>. HIDE DEF groups
<1>4. IsFiniteSet(sizes)
  <2>1. f \in Surjection(groups, sizes)
    BY DEF Surjection
  <2>. QED
    BY <1>2, <2>1, FS_Surjection
<1>5. sizes \in SUBSET Nat
  BY <1>3
<1>. HIDE DEF sizes
<1>6. IsFiniteSet({0} \cup sizes) /\ {0} \cup sizes \in SUBSET Nat /\ {0} \cup sizes # {}
  <2>1. IsFiniteSet({0})
    BY FS_Singleton
  <2>2. IsFiniteSet({0} \cup sizes)
    BY <1>4, <2>1, FS_Union
  <2>. QED
    BY <1>5, <2>2
<1>7. Max({0} \cup sizes) \in Nat
  BY <1>6, MaxIsThere
<1>. QED
  BY <1>7, Zenon DEF DomainGroupSize, sizes, groups

LEMMA GreatestOfFive ==
  ASSUME NEW a \in Nat, NEW b \in Nat, NEW c \in Nat, NEW d \in Nat, NEW e \in Nat
  PROVE  Max({a, b, c, d, e}) \in Nat
<1>1. IsFiniteSet({a} \cup {b} \cup {c} \cup {d} \cup {e})
  BY FS_Singleton, FS_Union
<1>2. {a, b, c, d, e} = {a} \cup {b} \cup {c} \cup {d} \cup {e}
  OBVIOUS
<1>3. IsFiniteSet({a, b, c, d, e}) /\ {a, b, c, d, e} \in SUBSET Nat /\ {a, b, c, d, e} # {}
  BY <1>1, <1>2
<1>. QED
  BY <1>3, MaxIsThere

LEMMA OverallIsNat ==
  ASSUME NEW rows, AreRows(rows), NEW i, NEW own
  PROVE  Overall(rows, i, own) \in Nat
<1>. DEFINE S == UNION {c.members : c \in own}
<1>1. DomainScore(rows, i) \in Nat
  <2>. DEFINE n == DomainGroupSize(rows, i)
              bonus == IF rows[i].pattern # "unique" THEN 20 ELSE 0
  <2>1. n \in Nat /\ bonus \in Nat
    BY DomainGroupSizeIsNat
  <2>2. DomainScore(rows, i) = IF n <= 1 THEN 0 ELSE Min({100, 30 + (n - 1) * 20 + bonus})
    BY Zenon DEF DomainScore
  <2>. HIDE DEF n, bonus
  <2>3. n <= 1 \/ 30 + (n - 1) * 20 + bonus \in Nat
    BY <2>1
  <2>4. n <= 1 \/ Min({100, 30 + (n - 1) * 20 + bonus}) \in Nat
    BY <2>3, LesserIsNat
  <2>. QED
    BY <2>2, <2>4
<1>2. NetworkScore(rows, i) \in Nat
  BY PeersAreFew, BringsIsNat DEF NetworkScore
<1>3. GeographicScore(rows, i, S) \in Nat
  <2>. DEFINE city == Brings(Cardinality(SameCity(rows, i)), Many.city, 30, 10, 80)
              isp == Brings(Cardinality(SameIsp(rows, i)), Many.isp, 20, 5, 70)
              asn == Brings(Cardinality(SameAsn(rows, i)), Many.asn, 30, 5, 80)
              hosted == IF IsHosted(rows, i) THEN 50 ELSE 0
              close == IF S # {} /\ AreClose(rows, S) THEN 60 ELSE 0
  <2>1. Many.city \in Nat /\ Many.isp \in Nat /\ Many.asn \in Nat
    BY ThresholdsAreNat
  <2>2. city \in Nat /\ isp \in Nat /\ asn \in Nat
    BY <2>1, PeersAreFew, BringsIsNat
  <2>3. hosted \in Nat /\ close \in Nat
    OBVIOUS
  <2>4. GeographicScore(rows, i, S) = Max({city, isp, asn, hosted, close})
    BY Zenon DEF GeographicScore
  <2>. HIDE DEF city, isp, asn, hosted, close
  <2>. QED
    <3>1. Max({city, isp, asn, hosted, close}) \in Nat
      BY <2>2, <2>3, GreatestOfFive
    <3>. QED
      BY <2>4, <3>1
<1>4. StakeScore(rows, S) \in Nat
  <2>1. StakeScore(rows, S) \in {50, 30, 0}
    BY Zenon DEF StakeScore
  <2>. QED
    BY <2>1
<1>5. TemporalScore(rows, S) \in Nat
  <2>1. TemporalScore(rows, S) \in {90, 60, 20}
    BY Zenon DEF TemporalScore
  <2>. QED
    BY <2>1
<1>6. TechnicalScore(rows, S) \in Nat
  BY DEF TechnicalScore
<1>7. Overall(rows, i, own)
        = IF i \notin Resolved(rows) THEN 0
          ELSE 25 * DomainScore(rows, i) + 15 * NetworkScore(rows, i)
               + 25 * GeographicScore(rows, i, S)
               + IF S = {} THEN 0
                 ELSE 10 * StakeScore(rows, S) + 15 * TemporalScore(rows, S)
                      + 10 * TechnicalScore(rows, S)
  BY Zenon DEF Overall
<1>. HIDE DEF S
<1>. QED
  BY <1>1, <1>2, <1>3, <1>4, <1>5, <1>6, <1>7

\* Of some gateways there is one that comes before all others in the report: of those with the
\* highest score the one at the least place.
LEMMA FirstOfReport ==
  ASSUME NEW rows, AreRows(rows), NEW S \in SUBSET (DOMAIN rows), S # {}
  PROVE  \E i \in S : \A j \in S \ {i} : IsBefore(Analyzed(rows), i, j)
<1>. DEFINE score(i) == Analyzed(rows)[i].overall
            scores == {score(i) : i \in S}
            f == [i \in S |-> score(i)]
<1>1. \A i \in S : score(i) \in Nat /\ i \in Nat
  <2>1. ASSUME NEW i \in S
        PROVE  score(i) \in Nat
    <3>. DEFINE own == {c \in Clusters(rows) : i \in c.members}
    <3>1. Analyzed(rows)[i] = Analysis(rows, i, own)
      BY AnalyzedIs
    <3>. HIDE DEF own
    <3>2. score(i) = Overall(rows, i, own)
      BY <3>1 DEF Analysis
    <3>. QED
      BY <3>2, OverallIsNat
  <2>. HIDE DEF score
  <2>. QED
    BY <2>1 DEF AreRows
<1>. HIDE DEF score
<1>2. IsFiniteSet(S)
  BY FS_Subset DEF AreRows
<1>3. IsFiniteSet(scores) /\ scores \in SUBSET Nat /\ scores # {}
  <2>1. f \in Surjection(S, scores)
    BY DEF Surjection
  <2>2. IsFiniteSet(scores)
    BY <1>2, <2>1, FS_Surjection
  <2>. QED
    BY <1>1, <2>2
<1>4. Max(scores) \in scores /\ \A n \in scores : n <= Max(scores)
  <2>. HIDE DEF scores
  <2>. QED
    BY <1>3, MaxIsThere
<1>. DEFINE best == {i \in S : score(i) = Max(scores)}
<1>5. best \in SUBSET Nat /\ best # {}
  <2>1. PICK i \in S : score(i) = Max(scores)
    BY <1>4
  <2>. QED
    BY <1>1, <2>1
<1>6. Min(best) \in best /\ \A i \in best : Min(best) <= i
  <2>. HIDE DEF best
  <2>. QED
    BY <1>5, MinIsThere
<1>7. ASSUME NEW j \in S, j # Min(best)
      PROVE  IsBefore(Analyzed(rows), Min(best), j)
  <2>1. score(j) <= Max(scores) /\ score(j) \in Nat /\ Max(scores) \in Nat
    BY <1>1, <1>3, <1>4
  <2>2. score(Min(best)) = Max(scores) /\ Min(best) \in Nat /\ j \in Nat
    BY <1>1, <1>6
  <2>3. score(j) = Max(scores) => Min(best) < j
    <3>1. score(j) = Max(scores) => j \in best
      OBVIOUS
    <3>. HIDE DEF best, scores
    <3>. QED
      BY <1>6, <1>7, <2>2, <3>1
  <2>. HIDE DEF best, scores
  <2>4. \/ score(Min(best)) > score(j)
        \/ score(Min(best)) = score(j) /\ Min(best) < j
    BY <2>1, <2>2, <2>3
  <2>. QED
    BY <2>4, Zenon DEF IsBefore, score
<1>. QED
  BY <1>6, <1>7
-----------------------------------------------------------------------------
\* With the names all different, a name is looked up for the row that has it.
LEMMA LookedUp ==
  ASSUME NEW rows, NEW results, NEW i \in DOMAIN rows,
         \A j \in DOMAIN rows : rows[j].fqdn = rows[i].fqdn => j = i
  PROVE  IpByFqdn(rows, results, rows[i].fqdn) = rows[i].ip
<1>. DEFINE named == {j \in AllRows(rows) : rows[j].fqdn = rows[i].fqdn}
<1>1. named = {i}
  BY DEF AllRows
<1>2. (CHOOSE j \in named : \A k \in named \ {j} : IsBefore(results, k, j)) = i
  <2>. HIDE DEF named
  <2>1. \A k \in named \ {i} : IsBefore(results, k, i)
    BY <1>1
  <2>2. \E j \in named : \A k \in named \ {j} : IsBefore(results, k, j)
    BY <1>1, <2>1
  <2>3. (CHOOSE j \in named : \A k \in named \ {j} : IsBefore(results, k, j)) \in named
    BY <2>2, Zenon
  <2>. QED
    BY <1>1, <2>3
<1>. QED
  BY <1>2, Zenon DEF IpByFqdn

\* What the members of a cluster have in common is what tells them from others.
LEMMA KeysOfClusters ==
  ASSUME NEW rows, AreRows(rows), NEW c \in Clusters(rows)
  PROVE  \/ /\ c.id[1] = "domain" /\ c.members \in DomainClusters(rows)
            /\ \A i \in Resolved(rows) : i \in c.members <=> rows[i].base = rows[Min(c.members)].base
         \/ /\ c.id[1] = "ip-exact" /\ c.members \in ExactIpClusters(rows)
            /\ \A i \in Resolved(rows) \ UNION DomainClusters(rows) : \A j \in c.members :
                 i \in c.members <=> rows[i].ip = rows[j].ip
<1>1. Min(c.members) \in c.members
  <2>1. c.members \in SUBSET Nat /\ c.members # {}
    BY ClustersOfRows, FieldsOfClusters
  <2>. QED
    BY <2>1, MinIsThere
<1>2. CASE c.members \in DomainClusters(rows) /\ c.id[1] = "domain"
  <2>1. PICK k : c.members = {i \in Resolved(rows) : rows[i].base = k}
    BY <1>2 DEF DomainClusters, DomainGroups, Groups
  <2>. QED
    BY <1>1, <1>2, <2>1
<1>3. CASE c.members \in ExactIpClusters(rows) /\ c.id[1] = "ip-exact"
  <2>1. PICK k : c.members = {i \in Resolved(rows) \ UNION DomainClusters(rows) : rows[i].ip = k}
    BY <1>3 DEF ExactIpClusters, Groups
  <2>. QED
    BY <1>3, <2>1
<1>. QED
  BY <1>2, <1>3, FieldsOfClusters

\* The key of a cluster, with the names all different.
LEMMA ClusterKeyIs ==
  ASSUME NEW rows, AreRows(rows), NEW c \in Clusters(rows),
         \A i, j \in DOMAIN rows : rows[i].fqdn = rows[j].fqdn => i = j
  PROVE  /\ c.id[1] = "domain" =>
              ClusterKey(rows, Analyzed(rows), c) = <<"domain", rows[Min(c.members)].base>>
         /\ c.id[1] = "ip-exact" => \E j \in c.members :
              ClusterKey(rows, Analyzed(rows), c) = <<"ip-exact", rows[j].ip>>
<1>. DEFINE results == Analyzed(rows)
            Ip(i) == IpByFqdn(rows, results, rows[i].fqdn)
            known == {i \in c.members : Ip(i) # None}
            first == CHOOSE i \in known : \A j \in known \ {i} : IsBefore(results, i, j)
<1>1. /\ c.id[1] = "domain" =>
           ClusterKey(rows, results, c) = <<"domain", rows[Min(c.members)].base>>
      /\ c.id[1] = "ip-exact" /\ known # {} =>
           ClusterKey(rows, results, c) = <<"ip-exact", Ip(first)>>
  BY DEF ClusterKey
<1>2. c.members \subseteq DOMAIN rows /\ c.members # {}
      /\ \A i \in c.members : rows[i].ip # None
  <2>1. c.members \subseteq Resolved(rows)
    BY MembersResolved
  <2>. QED
    BY <2>1, ClustersOfRows, FieldsOfClusters DEF Resolved, AllRows
<1>3. \A i \in c.members : Ip(i) = rows[i].ip
  BY <1>2, LookedUp
<1>. HIDE DEF Ip, results
<1>4. known = c.members
  BY <1>2, <1>3
<1>5. \E i \in known : \A j \in known \ {i} : IsBefore(results, i, j)
  <2>1. known \in SUBSET (DOMAIN rows) /\ known # {}
    BY <1>2, <1>4
  <2>. HIDE DEF known
  <2>. QED
    BY <2>1, FirstOfReport DEF results
<1>6. first \in known
  <2>. HIDE DEF known
  <2>. QED
    BY <1>5, Zenon
<1>. HIDE DEF first, known
<1>. QED
  BY <1>1, <1>3, <1>4, <1>6 DEF results

\* Whatever the gateways are: if no two have one name, a cluster of the summary is the gateways of
\* the other document with its key (network.ts:80-127); the summary counts as clustered just the
\* gateways with a key; and the first clusters share out no more than the pool.
THEOREM DocumentsJoinByKey ==
  ASSUME NEW rows, AreRows(rows)
  PROVE  LET results == Analyzed(rows)
             summary == Summary(rows, results)
             KeyOf(i) == GatewayKey(rows, results, i)
         IN  /\ (\A i, j \in DOMAIN rows : rows[i].fqdn = rows[j].fqdn => i = j) =>
                  \A c \in summary.clusters :
                    c.members = {i \in DOMAIN rows : KeyOf(i) = ClusterKey(rows, results, c)}
             /\ summary.clusteredGateways = Cardinality({i \in DOMAIN rows : KeyOf(i) # <<>>})
             /\ summary.economicImpact.topCentralizedRewards <= summary.economicImpact.pool
<1>. DEFINE results == Analyzed(rows)
            summary == Summary(rows, results)
            KeyOf(i) == GatewayKey(rows, results, i)
<1>1. /\ summary.clusters = Clusters(rows)
      /\ summary.clusteredGateways
           = Cardinality({i \in Resolved(rows) : results[i].clusterId # Unclustered})
      /\ summary.economicImpact = EconomicImpact(rows)
  BY DEF Summary, Count
<1>2. ASSUME NEW i \in DOMAIN rows
      PROVE  /\ \A c \in Clusters(rows) : i \in c.members =>
                  /\ c.id[1] = "domain" => KeyOf(i) = <<"domain", rows[i].base>>
                  /\ c.id[1] = "ip-exact" => KeyOf(i) = <<"ip-exact", rows[i].ip>>
                  /\ results[i].clusterId # Unclustered
             /\ (\A c \in Clusters(rows) : i \notin c.members) =>
                  KeyOf(i) = <<>> /\ results[i].clusterId = Unclustered
  <2>1. ASSUME NEW c \in Clusters(rows), i \in c.members
        PROVE  /\ c.id[1] = "domain" => KeyOf(i) = <<"domain", rows[i].base>>
               /\ c.id[1] = "ip-exact" => KeyOf(i) = <<"ip-exact", rows[i].ip>>
               /\ results[i].clusterId # Unclustered
    <3>1. results[i].clusterId = c.id
      BY <2>1, ClusterOfGateway
    <3>2. c.id # Unclustered
      BY FieldsOfClusters DEF Unclustered
    <3>. HIDE DEF results
    <3>. QED
      BY <3>1, <3>2 DEF GatewayKey
  <2>2. ASSUME \A c \in Clusters(rows) : i \notin c.members
        PROVE  KeyOf(i) = <<>> /\ results[i].clusterId = Unclustered
    <3>1. results[i].clusterId = Unclustered
      BY <2>2, ClusterOfGateway
    <3>. HIDE DEF results
    <3>. QED
      BY <3>1 DEF GatewayKey
  <2>. QED
    BY <2>1, <2>2
<1>3. ASSUME \A i, j \in DOMAIN rows : rows[i].fqdn = rows[j].fqdn => i = j,
             NEW c \in Clusters(rows)
      PROVE  c.members = {i \in DOMAIN rows : KeyOf(i) = ClusterKey(rows, results, c)}
  <2>. DEFINE key == ClusterKey(rows, results, c)
  <2>1. c.members \subseteq DOMAIN rows /\ c.members \subseteq Resolved(rows)
    BY MembersResolved DEF Resolved, AllRows
  <2>2. CASE c.id[1] = "domain"
    <3>1. key = <<"domain", rows[Min(c.members)].base>>
      BY <1>3, <2>2, ClusterKeyIs
    <3>2. \A i \in Resolved(rows) : i \in c.members <=> rows[i].base = rows[Min(c.members)].base
      BY <2>2, KeysOfClusters
    <3>3. \A i \in c.members : KeyOf(i) = <<"domain", rows[i].base>>
      BY <1>2, <2>1, <2>2
    <3>. HIDE DEF results, KeyOf, key
    <3>4. ASSUME NEW i \in DOMAIN rows, KeyOf(i) = key
          PROVE  i \in c.members
      <4>1. key # <<>> /\ key[1] = "domain" /\ key[2] = rows[Min(c.members)].base
        BY <3>1
      <4>2. PICK d \in Clusters(rows) : i \in d.members
        BY <1>2, <3>4, <4>1
      <4>3. d.id[1] = "domain" \/ d.id[1] = "ip-exact"
        BY KeysOfClusters
      <4>4. i \in Resolved(rows)
        BY <4>2, MembersResolved
      <4>5. KeyOf(i) = <<"domain", rows[i].base>> \/ KeyOf(i) = <<"ip-exact", rows[i].ip>>
        BY <1>2, <4>2, <4>3
      <4>6. rows[i].base = rows[Min(c.members)].base
        BY <3>4, <4>1, <4>5
      <4>. QED
        BY <3>2, <4>4, <4>6
    <3>. QED
      BY <2>1, <3>1, <3>2, <3>3, <3>4 DEF key
  <2>3. CASE c.id[1] = "ip-exact"
    <3>1. PICK j \in c.members : key = <<"ip-exact", rows[j].ip>>
      BY <1>3, <2>3, ClusterKeyIs
    <3>2. \A i \in Resolved(rows) \ UNION DomainClusters(rows) :
            i \in c.members <=> rows[i].ip = rows[j].ip
      BY <2>3, KeysOfClusters
    <3>3. \A i \in c.members : KeyOf(i) = <<"ip-exact", rows[i].ip>>
      BY <1>2, <2>1, <2>3
    <3>. HIDE DEF results, KeyOf, key
    <3>4. c.members \subseteq Resolved(rows) \ UNION DomainClusters(rows)
      <4>1. c.members \in ExactIpClusters(rows)
        BY <2>3, KeysOfClusters
      <4>2. \A S \in ExactIpClusters(rows) : S \subseteq Resolved(rows) \ UNION DomainClusters(rows)
        BY DEF ExactIpClusters, Groups
      <4>. QED
        BY <4>1, <4>2
    <3>5. ASSUME NEW i \in DOMAIN rows, KeyOf(i) = key
          PROVE  i \in c.members
      <4>1. key # <<>> /\ key[1] = "ip-exact" /\ key[2] = rows[j].ip
        BY <3>1
      <4>2. PICK d \in Clusters(rows) : i \in d.members
        BY <1>2, <3>5, <4>1
      <4>3. \/ d.id[1] = "domain"
            \/ d.id[1] = "ip-exact" /\ d.members \in ExactIpClusters(rows)
        BY KeysOfClusters
      <4>4. d.id[1] # "domain"
        BY <1>2, <3>5, <4>1, <4>2
      <4>5. i \in Resolved(rows) \ UNION DomainClusters(rows)
        BY <4>2, <4>3, <4>4 DEF ExactIpClusters, Groups
      <4>6. rows[i].ip = rows[j].ip
        BY <1>2, <3>5, <4>1, <4>2, <4>3, <4>4
      <4>. QED
        BY <3>2, <4>5, <4>6
    <3>6. \A i \in c.members : KeyOf(i) = key
      BY <3>1, <3>2, <3>3, <3>4
    <3>. QED
      BY <2>1, <3>5, <3>6 DEF key
  <2>. QED
    BY <2>2, <2>3, KeysOfClusters
<1>4. {i \in Resolved(rows) : results[i].clusterId # Unclustered}
        = {i \in DOMAIN rows : KeyOf(i) # <<>>}
  <2>1. \A i \in DOMAIN rows : results[i].clusterId # Unclustered <=> KeyOf(i) # <<>>
    BY <1>2, KeysOfClusters
  <2>2. \A i \in DOMAIN rows : results[i].clusterId # Unclustered => i \in Resolved(rows)
    BY <1>2, MembersResolved
  <2>3. Resolved(rows) \subseteq DOMAIN rows
    BY DEF Resolved, AllRows
  <2>. HIDE DEF results, KeyOf
  <2>. QED
    BY <2>1, <2>2, <2>3
<1>5. EconomicImpact(rows).topCentralizedRewards <= EconomicImpact(rows).pool
  <2>. DEFINE C == Clusters(rows)
              size == [c \in C |-> Cardinality(c.members)]
              all == UNION {c.members : c \in C}
  <2>1. /\ EconomicImpact(rows).topCentralizedRewards = SumFunctionOnSet(size, C)
        /\ EconomicImpact(rows).pool = Cardinality(DOMAIN rows)
    BY DEF EconomicImpact, SumFunction, AllRows
  <2>2. /\ IsFiniteSet(C)
        /\ \A c \in C : IsFiniteSet(c.members) /\ size[c] = Cardinality(c.members)
        /\ \A c, d \in C : c # d => c.members \cap d.members = {}
    BY ClustersAreFinite, ClustersOfRows, FieldsOfClusters, OneClusterEach
  <2>3. all \in SUBSET (DOMAIN rows)
    BY MembersResolved DEF Resolved, AllRows
  <2>. HIDE DEF C, size
  <2>4. SumFunctionOnSet(size, C) = Cardinality(all)
    BY <2>2, SizesAddUp
  <2>. HIDE DEF all
  <2>5. Cardinality(all) <= Cardinality(DOMAIN rows)
    BY <2>3, FS_Subset DEF AreRows
  <2>. QED
    BY <2>1, <2>4, <2>5
<1>6. (\A i, j \in DOMAIN rows : rows[i].fqdn = rows[j].fqdn => i = j) =>
        \A c \in summary.clusters :
          c.members = {i \in DOMAIN rows : KeyOf(i) = ClusterKey(rows, results, c)}
  <2>. HIDE DEF results, summary, KeyOf
  <2>. QED
    BY <1>1, <1>3
<1>7. summary.clusteredGateways = Cardinality({i \in DOMAIN rows : KeyOf(i) # <<>>})
  <2>. HIDE DEF results, summary, KeyOf
  <2>. QED
    BY <1>1, <1>4
<1>8. summary.economicImpact.topCentralizedRewards <= summary.economicImpact.pool
  <2>. HIDE DEF results, summary
  <2>. QED
    BY <1>1, <1>5
<1>. QED
  BY <1>6, <1>7, <1>8, Zenon
-----------------------------------------------------------------------------
(***************************************************************************)
(* The inductive invariant is IInv but for the types of what the proofs    *)
(* do not look at.                                                         *)
(***************************************************************************)
\* The types the steps of the cache and of the log need.
KeptTypes ==
  /\ attested \subseteq Wallets
  /\ pc \in Phases
  /\ runs \in Seq({"none", "running", "ok", "failed"})
  /\ public \in [{"network", "gateways"} -> Nat]

\* The types, the cache and the log.
Kept == KeptTypes /\ MigrationsAreKept /\ CacheIsSound /\ LogIsSound

\* A set of wallets is neither Torn nor Unchecked.
LEMMA NamesAreNotMarks ==
  ASSUME KeptTypes, NEW W \in SUBSET attested
  PROVE  W # Torn /\ W # Unchecked
BY WalletsAreNames DEF KeptTypes, Torn, Unchecked

\* Of two documents the later one is of the greater run.
LEMMA LaterDocument ==
  ASSUME NEW a \in Nat, NEW b \in Nat, b <= a
  PROVE  Max({a, b}) = a
BY DEF Max

\* What half a publish leads to, in terms of the document that is ahead.
LEMMA HalfPublishedUnfolds ==
  ASSUME public \in [{"network", "gateways"} -> Nat], public.gateways <= public.network
  PROVE  HalfPublishedIsLogged
           <=> (public.network # public.gateways => runs[public.network] # "ok")
<1>1. public.network \in Nat /\ public.gateways \in Nat
  OBVIOUS
<1>2. Max({public.network, public.gateways}) = public.network
  BY <1>1, LaterDocument
<1>. QED
  BY <1>2 DEF HalfPublishedIsLogged

LEMMA KeptInit == Init => Kept
<1>. SUFFICES ASSUME Init PROVE Kept
  OBVIOUS
<1>1. KeptTypes
  BY DEF Init, KeptTypes, Phases
<1>2. MigrationsAreKept
  BY DEF Init, MigrationsAreKept
<1>3. CacheIsSound
  BY DEF Init, CacheIsSound
<1>4. LogIsSound
  <2>1. public.network = 0 /\ public.gateways = 0 /\ Len(runs) = 0
    BY DEF Init
  <2>2. HalfPublishedIsLogged
    BY <2>1 DEF HalfPublishedIsLogged
  <2>. QED
    BY <2>1, <2>2 DEF Init, LogIsSound, Day
<1>. QED
  BY <1>1, <1>2, <1>3, <1>4 DEF Kept

LEMMA TypesStep ==
  ASSUME Kept, [Next]_vars
  PROVE  KeptTypes'
<1>. USE DEF Kept, KeptTypes
<1>1. attested' \subseteq Wallets
  <2>1. CASE Attest
    BY <2>1, WalletsAreNames DEF Attest
  <2>2. CASE UNCHANGED attested
    BY <2>2
  <2>. QED
    BY <2>1, <2>2 DEF Next, vars, world, Move, Start, FetchPage, Proceeds, Cut, Crash, RetryPage,
      FetchFails, Resolve, Locate, Ask, LoadCache, QueryBatch, SaveCache, SaveFails, Analyze,
      Publish, PublishFails, FinishOk, LogFails, FinishFailed
<1>2. pc' \in Phases
  BY DEF Next, vars, Move, Attest, Start, FetchPage, Proceeds, Cut, Crash, RetryPage,
    FetchFails, Resolve, Locate, Ask, LoadCache, QueryBatch, SaveCache, SaveFails, Analyze,
    Publish, PublishFails, FinishOk, LogFails, FinishFailed, Forgotten, Phases
<1>3. runs' \in Seq({"none", "running", "ok", "failed"})
  <2>1. CASE Start
    BY <2>1 DEF Start
  <2>2. CASE FinishOk \/ FinishFailed
    <3>1. pc # "idle"
      BY <2>2 DEF FinishOk, FinishFailed
    <3>2. Day \in 1 .. Len(runs)
      BY <3>1 DEF LogIsSound, Day
    <3>. QED
      BY <2>2, <3>2 DEF FinishOk, FinishFailed, Closed
  <2>3. CASE UNCHANGED runs
    BY <2>3
  <2>. QED
    BY <2>1, <2>2, <2>3 DEF Next, vars, Move, Attest, FetchPage, Proceeds, Cut, Crash, RetryPage,
      FetchFails, Resolve, Locate, Ask, LoadCache, QueryBatch, SaveCache, SaveFails, Analyze,
      Publish, PublishFails, LogFails
<1>4. public' \in [{"network", "gateways"} -> Nat]
  <2>1. Day \in Nat /\ Written \subseteq [{"network", "gateways"} -> Nat]
    BY DEF LogIsSound, Written
  <2>2. CASE Publish \/ PublishFails \/ Crash
    BY <2>1, <2>2 DEF Publish, PublishFails, Crash
  <2>3. CASE UNCHANGED public
    BY <2>3
  <2>. QED
    BY <2>2, <2>3 DEF Next, vars, Move, Attest, Start, FetchPage, Proceeds, Cut, RetryPage,
      FetchFails, Resolve, Locate, Ask, LoadCache, QueryBatch, SaveCache, SaveFails, Analyze,
      FinishOk, LogFails, FinishFailed
<1>. QED
  BY <1>1, <1>2, <1>3, <1>4
-----------------------------------------------------------------------------
(***************************************************************************)
(* The cache of the migrations.                                            *)
(***************************************************************************)
\* What is said of the cache of the migrations.
Cache == MigrationsAreKept /\ CacheIsSound

\* Wherever else the process goes, what it remembers, what is on disk and what it fetched
\* stay; the check has not begun before its phase, and its result goes to the analysis.
LEMMA CacheUntouched ==
  ASSUME Kept, UNCHANGED <<attested, cache, told, memory, migrated>>,
         Listed' = Listed \/ pc' \in {"fetch", "resolve"},
         pc' = "analyze" => migrated = Unchecked,
         pc' \notin {"query", "save"},
         pc' \in {"idle", "fetch", "resolve", "locate", "ask", "load"} => migrated = Unchecked
  PROVE  Cache'
BY DEF Kept, Cache, MigrationsAreKept, CacheIsSound, Torn, Unchecked

LEMMA CacheForgotten ==
  ASSUME Kept, Forgotten, UNCHANGED <<attested, cache, told>>
  PROVE  Cache'
BY DEF Kept, Forgotten, Cache, MigrationsAreKept, CacheIsSound, Torn, Unchecked

LEMMA CacheStep ==
  ASSUME Kept, [Next]_vars
  PROVE  Cache'
<1>1. CASE (UNCHANGED vars) \/ Move
  <2>1. UNCHANGED <<attested, pc, fetched, cache, told, memory, migrated>>
    BY <1>1 DEF vars, Move, found, check
  <2>. QED
    BY <2>1 DEF Kept, Cache, MigrationsAreKept, CacheIsSound, Listed, ToAnalyze
<1>2. CASE Attest
  <2>1. UNCHANGED <<pc, fetched, cache, told, memory, migrated>> /\ attested \subseteq attested'
    BY <1>2 DEF Attest, found, check, history
  <2>. QED
    BY <2>1 DEF Kept, Cache, MigrationsAreKept, CacheIsSound, Listed, ToAnalyze
<1>3. CASE Start \/ FetchPage \/ RetryPage \/ FetchFails
  <2>1. /\ UNCHANGED <<attested, cache, told, memory, migrated>>
        /\ pc \in {"idle", "fetch"} /\ pc' \in {"fetch", "resolve", "fail"}
        /\ \/ fetched' = fetched
           \/ pc' \in {"fetch", "resolve"}
    BY <1>3 DEF Start, FetchPage, RetryPage, FetchFails, world, found, check, history
  <2>. QED
    BY <2>1, CacheUntouched DEF Kept, CacheIsSound, Listed, ToAnalyze
<1>4. CASE Resolve \/ Locate \/ Ask \/ Cut
  <2>1. /\ UNCHANGED <<attested, fetched, cache, told, memory, migrated>>
        /\ pc \in {"resolve", "locate", "ask"}
        /\ pc' \in {"locate", "ask", "load", "analyze", "held"}
    BY <1>4 DEF Resolve, Locate, Ask, Cut, world, found, check, history
  <2>. QED
    BY <2>1, CacheUntouched DEF Kept, CacheIsSound, Listed, ToAnalyze
<1>5. CASE LoadCache
  <2>1. /\ UNCHANGED <<attested, fetched, cache, told>> /\ Listed' = Listed
        /\ memory' = Cached /\ migrated' = Cached \cap Listed
        /\ pc' \in {"analyze", "query"} 
    BY <1>5 DEF LoadCache, world, found, history, Listed, ToAnalyze
  <2>2. Cached \subseteq attested /\ told \subseteq Cached
    BY DEF Kept, MigrationsAreKept, CacheIsSound, Cached
  <2>3. migrated' # Unchecked
    BY <2>1, <2>2, NamesAreNotMarks DEF Kept
  <2>4. cache = Torn => told = {}
    BY DEF Kept, CacheIsSound
  <2>5. cache # Torn => Cached = cache
    BY DEF Cached
  <2>. QED
    BY <2>1, <2>2, <2>3, <2>4, <2>5 DEF Cache, MigrationsAreKept, CacheIsSound, Torn, Unchecked
<1>6. CASE QueryBatch
  <2>1. /\ UNCHANGED <<attested, fetched, cache, told>> /\ Listed' = Listed
        /\ pc = "query" /\ pc' \in {"query", "save"}
    BY <1>6 DEF QueryBatch, world, found, history, Listed, ToAnalyze
  <2>2. PICK migrations \in SUBSET attested :
          memory' = memory \cup migrations /\ migrated' = migrated \cup migrations
    BY <1>6 DEF QueryBatch
  <2>3. /\ memory \subseteq attested /\ migrated \subseteq memory /\ migrated # Unchecked
        /\ told \cap Listed \subseteq migrated
        /\ cache # Torn => cache \subseteq memory
        /\ cache = Torn => told = {}
        /\ cache # Torn => told \subseteq cache /\ cache \subseteq attested
    BY <2>1 DEF Kept, CacheIsSound, MigrationsAreKept
  <2>4. migrated' # Unchecked
    BY <2>2, <2>3, NamesAreNotMarks DEF Kept
  <2>. QED
    BY <2>1, <2>2, <2>3, <2>4 DEF Cache, MigrationsAreKept, CacheIsSound, Torn, Unchecked
<1>7. CASE SaveCache
  <2>1. /\ UNCHANGED <<attested, fetched, memory, migrated>> /\ Listed' = Listed
        /\ pc = "save" /\ pc' = "analyze"
        /\ cache' = memory /\ told' = told \cup migrated
    BY <1>7 DEF SaveCache, world, found, check, Listed, ToAnalyze
  <2>2. /\ memory \subseteq attested /\ migrated \subseteq memory
        /\ told \cap Listed \subseteq migrated
        /\ told \subseteq memory
    BY <2>1 DEF Kept, CacheIsSound, MigrationsAreKept
  <2>3. memory # Torn
    BY <2>2, NamesAreNotMarks DEF Kept
  <2>. QED
    BY <2>1, <2>2, <2>3 DEF Cache, MigrationsAreKept, CacheIsSound, Torn, Unchecked
<1>8. CASE SaveFails
  <2>1. /\ UNCHANGED <<attested, memory>>
        /\ \/ UNCHANGED <<cache, told>>
           \/ cache' = Torn /\ told' = {}
        /\ migrated' = Unchecked /\ pc' = "analyze"
    BY <1>8 DEF SaveFails, world
  <2>. QED
    BY <2>1 DEF Kept, Cache, MigrationsAreKept, CacheIsSound, Torn, Unchecked
<1>9. CASE Analyze \/ Publish \/ PublishFails \/ LogFails
  <2>1. /\ UNCHANGED <<attested, fetched, cache, told, memory, migrated>>
        /\ pc' \in {"publish", "finish", "fail"}
    BY <1>9 DEF Analyze, Publish, PublishFails, LogFails, world, found, check, history
  <2>. QED
    BY <2>1, CacheUntouched DEF Listed, ToAnalyze
<1>10. CASE FinishOk \/ FinishFailed
  BY <1>10, CacheForgotten DEF FinishOk, FinishFailed, world, history
<1>11. CASE Crash
  <2>1. CASE UNCHANGED <<cache, told>>
    BY <1>11, <2>1, CacheForgotten DEF Crash, world
  <2>2. CASE cache' = Torn /\ told' = {}
    BY <1>11, <2>2 DEF Crash, world, Forgotten, Kept, Cache, MigrationsAreKept, CacheIsSound,
      Torn, Unchecked
  <2>. QED
    BY <1>11, <2>1, <2>2 DEF Crash
<1>. QED
  BY <1>1, <1>2, <1>3, <1>4, <1>5, <1>6, <1>7, <1>8, <1>9, <1>10, <1>11 DEF Next, Proceeds
-----------------------------------------------------------------------------
(***************************************************************************)
(* The run log and the documents.                                          *)
(***************************************************************************)
\* The invariant without its operator over sets.
LogFacts ==
  /\ Day \in Nat
  /\ public.network \in Nat /\ public.gateways \in Nat
  /\ public.gateways <= public.network /\ public.network <= Day
  /\ pc # "idle" => Day > 0 /\ runs[Day] \in {"running", "none"}
  /\ public.network # public.gateways /\ public.network = Day => pc \in {"idle", "fail"}
  /\ public.network # public.gateways => runs[public.network] # "ok"

LEMMA LogUnfolds ==
  ASSUME public \in [{"network", "gateways"} -> Nat]
  PROVE  LogIsSound <=> LogFacts
<1>1. public.network \in Nat /\ public.gateways \in Nat
  OBVIOUS
<1>2. public.gateways <= public.network =>
        (HalfPublishedIsLogged
           <=> (public.network # public.gateways => runs[public.network] # "ok"))
  BY HalfPublishedUnfolds
<1>. QED
  BY <1>1, <1>2 DEF LogIsSound, LogFacts

\* What a publish that breaks off leaves: the documents of this run replace others in order.
LEMMA WrittenInOrder ==
  ASSUME Kept, public' \in Written
  PROVE  /\ public'.network \in {public.network, Day}
         /\ public'.gateways \in {public.gateways, Day}
         /\ public'.gateways <= public'.network
         /\ public' = public \/ public'.network = Day
<1>1. /\ public \in [{"network", "gateways"} -> Nat] /\ Day \in Nat
      /\ public.gateways <= public.network /\ public.network <= Day
      /\ public.network \in Nat /\ public.gateways \in Nat
  BY LogUnfolds DEF Kept, KeptTypes, LogFacts
<1>2. CASE public' = public
  BY <1>1, <1>2
<1>3. CASE public' = [public EXCEPT !.network = Day]
  BY <1>1, <1>3
<1>4. CASE public' = [d \in {"network", "gateways"} |-> Day]
  BY <1>1, <1>4
<1>. QED
  BY <1>2, <1>3, <1>4 DEF Written

LEMMA LogStep ==
  ASSUME Kept, [Next]_vars
  PROVE  LogIsSound'
<1>1. public \in [{"network", "gateways"} -> Nat] /\ LogFacts
  BY LogUnfolds DEF Kept, KeptTypes
<1>2. SUFFICES LogFacts'
  <2>1. public' \in [{"network", "gateways"} -> Nat]
    BY TypesStep DEF KeptTypes
  <2>2. (public \in [{"network", "gateways"} -> Nat])' => (LogIsSound <=> LogFacts)'
    BY LogUnfolds, PTL
  <2>. QED
    BY <2>1, <2>2
<1>. USE DEF LogFacts, Day
<1>3. CASE FetchPage \/ RetryPage \/ FetchFails \/ Resolve \/ Locate \/ Ask \/ Cut \/ LoadCache
           \/ QueryBatch \/ SaveCache \/ SaveFails \/ Analyze \/ LogFails
  <2>1. UNCHANGED <<runs, public>> /\ pc \notin {"idle", "fail"} /\ pc' # "idle"
    BY <1>3 DEF FetchPage, RetryPage, FetchFails, Resolve, Locate, Ask, Cut, LoadCache,
      QueryBatch, SaveCache, SaveFails, Analyze, LogFails
  <2>. QED
    BY <1>1, <2>1
<1>4. CASE Move \/ Attest \/ UNCHANGED vars
  <2>1. UNCHANGED <<runs, public, pc>>
    BY <1>4 DEF Move, Attest, vars
  <2>. QED
    BY <1>1, <2>1
<1>5. CASE Start
  <2>1. PICK status \in {"running", "none"} : runs' = Append(runs, status)
    BY <1>5 DEF Start
  <2>2. /\ Len(runs') = Len(runs) + 1 /\ runs'[Len(runs) + 1] = status
        /\ \A n \in 1 .. Len(runs) : runs'[n] = runs[n]
    BY <2>1 DEF Kept, KeptTypes
  <2>3. UNCHANGED public /\ pc' = "fetch"
    BY <1>5 DEF Start
  <2>. QED
    BY <1>1, <2>1, <2>2, <2>3
<1>6. CASE Publish
  BY <1>1, <1>6 DEF Publish
<1>7. CASE PublishFails \/ (Crash /\ pc = "publish")
  <2>1. UNCHANGED runs /\ public' \in Written /\ pc' \in {"idle", "fail"} /\ pc # "idle"
    BY <1>7 DEF PublishFails, Crash, Forgotten
  <2>. QED
    BY <1>1, <2>1, WrittenInOrder
<1>8. CASE Crash /\ pc # "publish"
  BY <1>1, <1>8 DEF Crash, Forgotten
<1>9. CASE FinishOk \/ FinishFailed
  <2>1. UNCHANGED public /\ pc' = "idle" /\ pc \in {"finish", "fail"}
    BY <1>9 DEF FinishOk, FinishFailed, Forgotten
  <2>2. /\ Len(runs') = Len(runs)
        /\ \A n \in 1 .. Len(runs) : n # Len(runs) => runs'[n] = runs[n]
        /\ runs'[Len(runs)] = "ok" => pc = "finish"
    BY <1>1, <1>9 DEF FinishOk, FinishFailed, Closed, Kept, KeptTypes
  <2>. QED
    BY <1>1, <2>1, <2>2
<1>. QED
  BY <1>3, <1>4, <1>5, <1>6, <1>7, <1>8, <1>9 DEF Next, Proceeds
-----------------------------------------------------------------------------
LEMMA KeptAlways == Spec => []Kept
<1>1. Kept /\ [Next]_vars => Kept'
  BY TypesStep, CacheStep, LogStep DEF Kept, Cache
<1>. QED
  BY <1>1, KeptInit, PTL DEF Spec

\* No run, and no number of runs that fail, are held or die, loses a migration that was
\* reported and saved, unless a write of the cache is cut short; and none is made up.
THEOREM MigrationsStay == Spec => []MigrationsAreKept
<1>1. Kept => MigrationsAreKept
  BY DEF Kept
<1>. QED
  BY <1>1, KeptAlways, PTL

\* Whatever breaks off a publish, the two documents are of one run or the log says of the
\* later one that it did not end well.
THEOREM HalvesAreLogged == Spec => []HalfPublishedIsLogged
<1>1. Kept => HalfPublishedIsLogged
  BY DEF Kept, LogIsSound
<1>. QED
  BY <1>1, KeptAlways, PTL
-----------------------------------------------------------------------------
(***************************************************************************)
(* The pages of the registry.                                              *)
(***************************************************************************)
\* Where the next page begins.
First == IF cursor = None THEN 1 ELSE 1 + CHOOSE i \in DOMAIN registry : registry[i] = cursor

\* A registry lists every gateway, and each once.
LEMMA RegistryIsOfAll ==
  ASSUME registry \in Orders
  PROVE  /\ registry \in Seq(Gateways)
         /\ \A g \in Gateways : \E i \in 1 .. Len(registry) : registry[i] = g
         /\ \A i, j \in 1 .. Len(registry) : registry[i] = registry[j] => i = j
<1>1. registry \in Seq(Gateways) /\ ToSet(registry) = Gateways /\ IsInjective(registry)
  BY OrdersAreOfAll
<1>2. DOMAIN registry = 1 .. Len(registry)
  BY <1>1
<1>. QED
  BY <1>1, <1>2 DEF ToSet, IsInjective

\* What the next page has: from the place after the cursor, a full page or the rest.
LEMMA NextPage ==
  ASSUME registry \in Orders, cursor \in Gateways \cup {None}
  PROVE  /\ Len(registry) \in Nat
         /\ First \in 1 .. Len(registry) + 1
         /\ IF cursor = None THEN First = 1 ELSE First > 1 /\ registry[First - 1] = cursor
         /\ PageAt(First) \in Seq(Gateways)
         /\ Len(PageAt(First)) = IF First + PageSize <= Len(registry) THEN PageSize
                                 ELSE Len(registry) + 1 - First
         /\ \A i \in 1 .. Len(PageAt(First)) : PageAt(First)[i] = registry[First - 1 + i]
<1>1. /\ registry \in Seq(Gateways) /\ DOMAIN registry = 1 .. Len(registry)
      /\ Len(registry) \in Nat
      /\ \A g \in Gateways : \E i \in 1 .. Len(registry) : registry[i] = g
  BY RegistryIsOfAll
<1>2. /\ First \in 1 .. Len(registry) + 1
      /\ IF cursor = None THEN First = 1 ELSE First > 1 /\ registry[First - 1] = cursor
  <2>1. CASE cursor = None
    BY <1>1, <2>1 DEF First
  <2>2. CASE cursor \in Gateways
    <3>1. PICK i \in 1 .. Len(registry) : registry[i] = cursor
      BY <1>1, <2>2
    <3> DEFINE at == CHOOSE j \in DOMAIN registry : registry[j] = cursor
    <3>2. at \in 1 .. Len(registry) /\ registry[at] = cursor
      BY <1>1, <3>1
    <3>3. First = 1 + at /\ cursor # None
      BY <2>2, GatewaysAreNames DEF First
    <3>. HIDE DEF at
    <3>. QED
      BY <1>1, <3>2, <3>3
  <2>. QED
    BY <2>1, <2>2
<1>. DEFINE last == IF First + PageSize <= Len(registry) THEN First + PageSize - 1
                    ELSE Len(registry)
<1>3. PageAt(First) = SubSeq(registry, First, last) /\ last \in Nat /\ last <= Len(registry)
  <2>1. Min({First + PageSize - 1, Len(registry)}) = last
    BY <1>1, <1>2, LesserOfTwo, LimitsAreNat
  <2>2. last \in Nat /\ last <= Len(registry)
    BY <1>1, <1>2, LimitsAreNat
  <2>. QED
    BY <2>1, <2>2 DEF PageAt
<1>4. \A i \in First .. last : registry[i] \in Gateways
  BY <1>1, <1>2, <1>3
<1>5. /\ SubSeq(registry, First, last) \in Seq(Gateways)
      /\ Len(SubSeq(registry, First, last)) = IF First <= last THEN last - First + 1 ELSE 0
      /\ \A i \in 1 .. last - First + 1 : SubSeq(registry, First, last)[i] = registry[First + i - 1]
  <2>. HIDE DEF last
  <2>1. First \in Int /\ last \in Int
    BY <1>2, <1>3
  <2>. QED
    BY <1>4, <2>1, SubSeqProperties
<1>6. Len(PageAt(First)) = IF First + PageSize <= Len(registry) THEN PageSize
                           ELSE Len(registry) + 1 - First
  BY <1>1, <1>2, <1>3, <1>5, LimitsAreNat
<1>7. \A i \in 1 .. Len(PageAt(First)) : PageAt(First)[i] = registry[First - 1 + i]
  <2>1. Len(PageAt(First)) = last - First + 1
    BY <1>1, <1>2, <1>6, LimitsAreNat
  <2>. HIDE DEF last
  <2>. QED
    BY <1>2, <1>3, <1>5, <2>1
<1>. QED
  BY <1>1, <1>2, <1>3, <1>5, <1>6, <1>7

(***************************************************************************)
(* While the registry keeps its order, what was fetched is its beginning,  *)
(* and the cursor is the last of it.                                       *)
(***************************************************************************)
PagesInOrder ==
  /\ pc = "idle" => Len(fetched) = 0 /\ cursor = None
  /\ steady /\ pc \in {"fetch", "resolve"} =>
       /\ Len(fetched) <= Len(registry)
       /\ \A i \in 1 .. Len(fetched) : fetched[i] = registry[i]
       /\ pc = "fetch" => IF Len(fetched) = 0 THEN cursor = None
                          ELSE cursor = registry[Len(fetched)]
       /\ pc = "resolve" => Len(fetched) = Len(registry)

\* The types of what the pages bring.
PageTypes ==
  /\ registry \in Orders
  /\ cursor \in Gateways \cup {None}
  /\ fetched \in Seq(Gateways)

\* What the fetching of the pages keeps.
Paging == PageTypes /\ PagesInOrder

\* What a page adds.
LEMMA FetchPageAdds ==
  ASSUME PageTypes, FetchPage
  PROVE  /\ fetched' \in Seq(Gateways)
         /\ Len(fetched') = Len(fetched) + Len(PageAt(First))
         /\ \A i \in 1 .. Len(fetched) : fetched'[i] = fetched[i]
         /\ \A i \in 1 .. Len(PageAt(First)) :
              fetched'[Len(fetched) + i] = registry[First - 1 + i]
         /\ IF First + PageSize <= Len(registry)
            THEN pc' = "fetch" /\ cursor' = registry[First - 1 + PageSize]
            ELSE pc' = "resolve" /\ cursor' = None
<1>1. /\ fetched' = fetched \o PageAt(First)
      /\ cursor' = IF First + PageSize <= Len(registry) THEN Last(PageAt(First)) ELSE None
      /\ pc' = IF First + PageSize <= Len(registry) THEN "fetch" ELSE "resolve"
  BY DEF FetchPage, First
<1>2. /\ PageAt(First) \in Seq(Gateways)
      /\ Len(PageAt(First)) = IF First + PageSize <= Len(registry) THEN PageSize
                              ELSE Len(registry) + 1 - First
      /\ \A i \in 1 .. Len(PageAt(First)) : PageAt(First)[i] = registry[First - 1 + i]
  BY NextPage DEF PageTypes
<1>3. First + PageSize <= Len(registry) => Last(PageAt(First)) = registry[First - 1 + PageSize]
  BY <1>2, LimitsAreNat DEF Last
<1>. HIDE DEF First
<1>4. /\ fetched' \in Seq(Gateways)
      /\ Len(fetched') = Len(fetched) + Len(PageAt(First))
      /\ \A i \in 1 .. Len(fetched) : fetched'[i] = fetched[i]
      /\ \A i \in 1 .. Len(PageAt(First)) : fetched'[Len(fetched) + i] = PageAt(First)[i]
  BY <1>1, <1>2 DEF PageTypes
<1>. QED
  BY <1>1, <1>2, <1>3, <1>4

LEMMA PagingInit == Init => Paging
BY DEF Init, Paging, PageTypes, PagesInOrder

LEMMA PagingStep ==
  ASSUME Paging, [Next]_vars
  PROVE  Paging'
<1>1. CASE FetchPage
  <2>1. /\ registry' = registry /\ steady' = steady /\ pc = "fetch"
        /\ registry \in Seq(Gateways) /\ fetched \in Seq(Gateways)
        /\ Len(fetched) \in Nat
        /\ \A i, j \in 1 .. Len(registry) : registry[i] = registry[j] => i = j
    BY <1>1, RegistryIsOfAll DEF FetchPage, world, history, Paging, PageTypes
  <2>2. /\ Len(registry) \in Nat
        /\ First \in 1 .. Len(registry) + 1
        /\ IF cursor = None THEN First = 1 ELSE First > 1 /\ registry[First - 1] = cursor
        /\ Len(PageAt(First)) = IF First + PageSize <= Len(registry) THEN PageSize
                                ELSE Len(registry) + 1 - First
    BY NextPage DEF Paging, PageTypes
  <2>3. /\ fetched' \in Seq(Gateways)
        /\ Len(fetched') = Len(fetched) + Len(PageAt(First))
        /\ \A i \in 1 .. Len(fetched) : fetched'[i] = fetched[i]
        /\ \A i \in 1 .. Len(PageAt(First)) :
             fetched'[Len(fetched) + i] = registry[First - 1 + i]
        /\ IF First + PageSize <= Len(registry)
           THEN pc' = "fetch" /\ cursor' = registry[First - 1 + PageSize]
           ELSE pc' = "resolve" /\ cursor' = None
    BY <1>1, FetchPageAdds DEF Paging
  <2>4. cursor' \in Gateways \cup {None}
    BY <2>1, <2>2, <2>3, LimitsAreNat
  <2>5. ASSUME steady
        PROVE  /\ Len(fetched') <= Len(registry)
               /\ \A i \in 1 .. Len(fetched') : fetched'[i] = registry[i]
               /\ pc' = "fetch" => Len(fetched') # 0 /\ cursor' = registry[Len(fetched')]
               /\ pc' = "resolve" => Len(fetched') = Len(registry)
    <3>1. /\ Len(fetched) <= Len(registry)
          /\ \A i \in 1 .. Len(fetched) : fetched[i] = registry[i]
          /\ IF Len(fetched) = 0 THEN cursor = None ELSE cursor = registry[Len(fetched)]
      BY <2>1, <2>5 DEF Paging, PagesInOrder
    <3>2. First = Len(fetched) + 1
      <4>1. CASE Len(fetched) = 0
        BY <2>2, <3>1, <4>1
      <4>2. CASE Len(fetched) # 0
        <5>1. cursor \in Gateways /\ cursor # None
          BY <2>1, <3>1, <4>2, GatewaysAreNames
        <5>. QED
          BY <2>1, <2>2, <3>1, <4>2, <5>1
      <4>. QED
        BY <4>1, <4>2
    <3>. HIDE DEF First
    <3>3. \A i \in 1 .. Len(fetched') : fetched'[i] = registry[i]
      <4>1. ASSUME NEW i \in 1 .. Len(fetched'), i > Len(fetched)
            PROVE  fetched'[i] = registry[i]
        <5>1. i - Len(fetched) \in 1 .. Len(PageAt(First))
          BY <2>1, <2>2, <2>3, <4>1, LimitsAreNat
        <5>2. fetched'[Len(fetched) + (i - Len(fetched))]
                = registry[First - 1 + (i - Len(fetched))]
          BY <2>3, <5>1
        <5>. QED
          BY <2>1, <3>2, <4>1, <5>2
      <4>. QED
        BY <2>1, <2>3, <3>1, <4>1
    <3>. QED
      BY <2>1, <2>2, <2>3, <3>2, <3>3, LimitsAreNat
  <2>. HIDE DEF First
  <2>. QED
    BY <2>1, <2>3, <2>4, <2>5 DEF Paging, PageTypes, PagesInOrder
<1>2. CASE Start
  BY <1>2 DEF Start, world, found, Paging, PageTypes, PagesInOrder
<1>3. CASE Move
  BY <1>3 DEF Move, found, Paging, PageTypes, PagesInOrder
<1>4. CASE RetryPage \/ Attest \/ UNCHANGED vars
  <2>1. UNCHANGED <<registry, pc, cursor, fetched, steady>>
    BY <1>4 DEF RetryPage, Attest, vars, world, found, history
  <2>. QED
    BY <2>1 DEF Paging, PageTypes, PagesInOrder
<1>5. CASE Forgotten /\ UNCHANGED registry
  BY <1>5 DEF Forgotten, Paging, PageTypes, PagesInOrder
<1>6. CASE pc' \notin {"idle", "fetch", "resolve"} /\ UNCHANGED <<registry, cursor, fetched>>
  BY <1>6 DEF Paging, PageTypes, PagesInOrder
<1>7. CASE FetchFails \/ Resolve \/ Locate \/ Ask \/ LoadCache \/ QueryBatch \/ SaveCache
           \/ SaveFails \/ Analyze \/ Publish \/ PublishFails \/ LogFails \/ Cut
  BY <1>6, <1>7 DEF FetchFails, Resolve, Locate, Ask, LoadCache, QueryBatch, SaveCache, SaveFails,
    Analyze, Publish, PublishFails, LogFails, Cut, world, found
<1>8. CASE FinishOk \/ FinishFailed \/ Crash
  BY <1>5, <1>8 DEF FinishOk, FinishFailed, Crash, world
<1>. QED
  BY <1>1, <1>2, <1>3, <1>4, <1>7, <1>8 DEF Next, Proceeds

\* For every size of page, every registry and however often a page is asked for again: while
\* the registry keeps its order a run gets every gateway that joined, once, and no other
\* (gateway-fetcher.ts:36-87).
THEOREM EveryGatewayOnce == Spec => []EveryGatewayIsFetchedOnce
<1>1. Paging => EveryGatewayIsFetchedOnce
  <2>1. SUFFICES ASSUME Paging, pc = "resolve", steady
                 PROVE  /\ {fetched[i] : i \in ToAnalyze} = {g \in Gateways : IsAnalyzed(g)}
                        /\ \A i, j \in ToAnalyze : fetched[i] = fetched[j] => i = j
    BY DEF EveryGatewayIsFetchedOnce
  <2>2. /\ Len(fetched) = Len(registry) /\ DOMAIN fetched = 1 .. Len(registry)
        /\ \A i \in 1 .. Len(registry) : fetched[i] = registry[i] /\ fetched[i] \in Gateways
    BY <2>1 DEF Paging, PageTypes, PagesInOrder
  <2>3. /\ \A g \in Gateways : \E i \in 1 .. Len(registry) : registry[i] = g
        /\ \A i, j \in 1 .. Len(registry) : registry[i] = registry[j] => i = j
    BY <2>1, RegistryIsOfAll DEF Paging, PageTypes
  <2>. QED
    BY <2>2, <2>3 DEF ToAnalyze
<1>2. Paging /\ [Next]_vars => Paging'
  BY PagingStep
<1>. QED
  BY <1>1, <1>2, PagingInit, PTL DEF Spec
-----------------------------------------------------------------------------
(***************************************************************************)
(* Types.                                                                  *)
(***************************************************************************)
\* The batches of the query are cut from a sequence of the wallets.
LEMMA SetAsSequence ==
  ASSUME NEW S, IsFiniteSet(S)
  PROVE  /\ SetToSeq(S) \in Seq(S)
         /\ Len(SetToSeq(S)) = Cardinality(S)
<1>1. Cardinality(S) \in Nat /\ ExistsBijection(1 .. Cardinality(S), S)
  BY FS_CardinalityType
<1>2. \E f \in [1 .. Cardinality(S) -> S] : IsInjective(f)
  BY <1>1, Zenon DEF ExistsBijection, Bijection, Injection
<1>3. SetToSeq(S) \in [1 .. Cardinality(S) -> S]
  BY <1>2, Zenon DEF SetToSeq
<1>. QED
  BY <1>1, <1>3

LEMMA TypeInit == Init => TypeOK
<1>. SUFFICES ASSUME Init PROVE TypeOK
  OBVIOUS
<1>1. DOMAIN ips \subseteq DOMAIN fetched /\ Range(ips) \subseteq DOMAIN Range24 \cup {None}
  BY DEF Init, Range
<1>2. toQuery \in Seq(Wallets) /\ fetched \in Seq(Gateways)
      /\ runs \in Seq({"none", "running", "ok", "failed"})
  BY DEF Init
<1>. QED
  BY <1>1, <1>2, LimitsAreNat DEF Init, TypeOK, Phases

\* The types of what one run finds out.
FoundTypes ==
  /\ attempt \in 0 .. PageRetries
  /\ DOMAIN ips \subseteq DOMAIN fetched /\ Range(ips) \subseteq DOMAIN Range24 \cup {None}
  /\ located \subseteq DOMAIN Range24
  /\ answered \subseteq DOMAIN Fingerprint
  /\ toQuery \in Seq(Wallets)

LEMMA FoundStep ==
  ASSUME TypeOK, Kept, Paging', [Next]_vars
  PROVE  FoundTypes'
<1>. USE DEF TypeOK
<1>1. attempt' \in 0 .. PageRetries
  BY LimitsAreNat DEF Next, vars, Move, Attest, Start, FetchPage, Proceeds, Cut, Crash, RetryPage,
    FetchFails, Resolve, Locate, Ask, LoadCache, QueryBatch, SaveCache, SaveFails, Analyze,
    Publish, PublishFails, FinishOk, LogFails, FinishFailed, Forgotten
<1>2. DOMAIN ips' \subseteq DOMAIN fetched' /\ Range(ips') \subseteq DOMAIN Range24 \cup {None}
  <2>1. CASE Resolve
    BY <2>1 DEF Resolve, ToAnalyze, Range
  <2>2. CASE FetchPage
    BY <2>2, FetchPageAdds DEF FetchPage, PageTypes
  <2>3. CASE Forgotten
    BY <2>3 DEF Forgotten, Range
  <2>4. CASE UNCHANGED <<fetched, ips>>
    BY <2>4
  <2>. QED
    BY <2>1, <2>2, <2>3, <2>4 DEF Next, vars, found, Move, Attest, Start, Proceeds, Cut, Crash,
      RetryPage, FetchFails, Locate, Ask, LoadCache, QueryBatch, SaveCache, SaveFails, Analyze,
      Publish, PublishFails, FinishOk, LogFails, FinishFailed
<1>3. located' \subseteq DOMAIN Range24
  <2>1. CASE Locate
    BY <2>1, LookupsAreOfAddresses DEF Locate
  <2>. QED
    BY <2>1 DEF Next, vars, found, Move, Attest, Start, FetchPage, Proceeds, Cut, Crash, RetryPage,
      FetchFails, Resolve, Ask, LoadCache, QueryBatch, SaveCache, SaveFails, Analyze,
      Publish, PublishFails, FinishOk, LogFails, FinishFailed, Forgotten
<1>4. answered' \subseteq DOMAIN Fingerprint
  <2>1. CASE Ask
    BY <2>1, LookupsAreOfAddresses DEF Ask
  <2>. QED
    BY <2>1 DEF Next, vars, found, Move, Attest, Start, FetchPage, Proceeds, Cut, Crash, RetryPage,
      FetchFails, Resolve, Locate, LoadCache, QueryBatch, SaveCache, SaveFails, Analyze,
      Publish, PublishFails, FinishOk, LogFails, FinishFailed, Forgotten
<1>5. toQuery' \in Seq(Wallets)
  <2>1. CASE LoadCache
    <3>1. Listed \ Cached \subseteq Wallets
      BY DEF Listed, ToAnalyze, OfWallet, Wallets
    <3>2. IsFiniteSet(Listed \ Cached)
      BY <3>1, WalletsAreNames, FS_Subset
    <3>3. SetToSeq(Listed \ Cached) \in Seq(Listed \ Cached)
      BY <3>2, SetAsSequence
    <3>4. \A s : s \in Seq(Listed \ Cached) => s \in Seq(Wallets)
      BY <3>1, SeqMonotonic
    <3>. QED
      BY <2>1, <3>3, <3>4 DEF LoadCache
  <2>2. CASE QueryBatch
    <3>. DEFINE n == Min({BatchSize, Len(toQuery)})
    <3>1. toQuery' = SubSeq(toQuery, n + 1, Len(toQuery))
      BY <2>2 DEF QueryBatch
    <3>2. Len(toQuery) \in Nat /\ n \in Nat
      <4>1. Len(toQuery) \in Nat /\ BatchSize \in Nat
        BY LimitsAreNat
      <4>. QED
        BY <4>1, LesserIsNat
    <3>3. \A i \in n + 1 .. Len(toQuery) : toQuery[i] \in Wallets
      BY <3>2
    <3>. HIDE DEF n
    <3>4. n + 1 \in Int /\ Len(toQuery) \in Int
      BY <3>2
    <3>. QED
      BY <3>1, <3>3, <3>4, SubSeqProperties
  <2>3. CASE Forgotten
    BY <2>3 DEF Forgotten
  <2>4. CASE UNCHANGED toQuery
    BY <2>4
  <2>. QED
    BY <2>1, <2>2, <2>3, <2>4 DEF Next, vars, check, Move, Attest, Start, FetchPage, Proceeds,
      Cut, Crash, RetryPage, FetchFails, Resolve, Locate, Ask, SaveCache, SaveFails, Analyze,
      Publish, PublishFails, FinishOk, LogFails, FinishFailed
<1>. QED
  BY <1>1, <1>2, <1>3, <1>4, <1>5 DEF FoundTypes

\* The other types follow from what the cache keeps.
LEMMA TypeStep ==
  ASSUME TypeOK, Kept, Paging, [Next]_vars
  PROVE  TypeOK'
<1>1. /\ attested' \subseteq Wallets /\ pc' \in Phases
      /\ runs' \in Seq({"none", "running", "ok", "failed"})
      /\ public' \in [{"network", "gateways"} -> Nat]
  BY TypesStep DEF KeptTypes
<1>2. /\ registry' \in Orders /\ cursor' \in Gateways \cup {None} /\ fetched' \in Seq(Gateways)
  BY PagingStep DEF Paging, PageTypes
<1>3. /\ migrated' = Unchecked \/ migrated' \subseteq Wallets
      /\ memory' \subseteq Wallets
      /\ cache' = Torn \/ cache' \subseteq Wallets
      /\ told' \subseteq Wallets
  <2>1. MigrationsAreKept' /\ CacheIsSound'
    BY CacheStep DEF Cache
  <2>2. /\ memory' \subseteq attested' /\ (migrated' # Unchecked => migrated' \subseteq memory')
        /\ (cache' = Torn => told' = {})
        /\ (cache' # Torn => told' \subseteq cache' /\ cache' \subseteq attested')
    BY <2>1 DEF MigrationsAreKept, CacheIsSound
  <2>. QED
    BY <1>1, <2>2
<1>4. moves' \in 0 .. MaxMoves /\ steady' \in BOOLEAN
  <2>1. CASE Move
    <3>1. moves \in 0 .. MaxMoves /\ MaxMoves \in Nat
      BY LimitsAreNat DEF TypeOK
    <3>2. moves < MaxMoves /\ moves' = moves + 1 /\ steady' = FALSE
      BY <2>1 DEF Move
    <3>3. moves' \in 0 .. MaxMoves
      BY <3>1, <3>2
    <3>4. steady' \in BOOLEAN
      BY <3>2, Zenon
    <3>. QED
      BY <3>3, <3>4
  <2>2. CASE Start
    BY <2>2 DEF Start, world, TypeOK
  <2>3. CASE UNCHANGED <<moves, steady>>
    BY <2>3 DEF TypeOK
  <2>. QED
    BY <2>1, <2>2, <2>3 DEF Next, vars, world, history, Attest, FetchPage, Proceeds, Cut, Crash,
      RetryPage, FetchFails, Resolve, Locate, Ask, LoadCache, QueryBatch, SaveCache, SaveFails,
      Analyze, Publish, PublishFails, FinishOk, LogFails, FinishFailed
<1>5. FoundTypes'
  BY FoundStep, PagingStep
<1>. QED
  BY <1>1, <1>2, <1>3, <1>4, <1>5 DEF TypeOK, FoundTypes

\* The invariant of the runs, for any registry, sizes of pages and batches, and number of runs.
THEOREM Invariance == Spec => []IInv
<1>. DEFINE Inv == TypeOK /\ Kept /\ Paging
<1>1. Inv => IInv
  BY DEF Kept, IInv
<1>2. Init => Inv
  BY TypeInit, KeptInit, PagingInit
<1>3. Inv /\ [Next]_vars => Inv'
  BY TypeStep, TypesStep, CacheStep, LogStep, PagingStep DEF Kept, Cache
<1>. QED
  BY <1>1, <1>2, <1>3, PTL DEF Spec
-----------------------------------------------------------------------------
(***************************************************************************)
(* The analysis of a run.                                                  *)
(***************************************************************************)
\* What a run hands to the analysis is of the kind the lemmas are about.
LEMMA RowsAreRows ==
  ASSUME TypeOK
  PROVE  AreRows(Rows)
<1>. DEFINE row(i) ==
              LET g == Registered[fetched[i]]
              IN  [fqdn |-> g.fqdn, base |-> g.base, pattern |-> g.pattern, wallet |-> g.wallet,
                   stake |-> g.stake, registered |-> g.registered,
                   ip |-> ips[i],
                   range |-> IF ips[i] = None THEN None ELSE Range24[ips[i]],
                   place |-> IF ips[i] \in located THEN Place[ips[i]] ELSE Nowhere,
                   print |-> IF g.fqdn \in answered THEN Fingerprint[g.fqdn] ELSE NoPrint,
                   migrated |-> migrated # Unchecked /\ g.wallet \in migrated]
            table == [i \in ToAnalyze |-> row(i)]
<1>1. Rows = table
  <2>1. Rows = Tabulated(table)
    BY Zenon DEF Rows
  <2>. QED
    BY <2>1, TableIsItself
<1>2. fetched \in Seq(Gateways) /\ DOMAIN fetched = 1 .. Len(fetched) /\ Len(fetched) \in Nat
  BY DEF TypeOK
<1>3. ToAnalyze \in SUBSET (1 .. Len(fetched)) /\ IsFiniteSet(1 .. Len(fetched))
  BY <1>2, FS_Interval DEF ToAnalyze
<1>4. ToAnalyze \subseteq Nat /\ IsFiniteSet(ToAnalyze)
  <2>. HIDE DEF row, table
  <2>1. ASSUME NEW i \in ToAnalyze
        PROVE  i \in Nat
    BY <1>2, <1>3
  <2>2. IsFiniteSet(ToAnalyze)
    BY <1>3, FS_Subset
  <2>. QED
    BY <2>1, <2>2
<1>5. ASSUME NEW i \in ToAnalyze
      PROVE  row(i).stake \in Nat
  <2>1. fetched[i] \in Gateways
    BY <1>2, <1>3
  <2>. QED
    BY <2>1, StakesAreNat
<1>. HIDE DEF row
<1>. QED
  BY <1>1, <1>4, <1>5 DEF AreRows

\* In every state in which a run analyzes, whatever it fetched and found out, the clusters
\* part the gateways, each with its size, its id and one primary (analyzer.ts:478-586).
THEOREM GatewaysAreParted == Spec => []ClustersPartTheGateways
<1>1. IInv => ClustersPartTheGateways
  BY RowsAreRows, ClustersPart, Zenon DEF IInv, ClustersPartTheGateways
<1>. QED
  BY <1>1, Invariance, PTL

\* What a run says of the gateways that resolved is what it would say without the others
\* (analyzer.ts:942).
THEOREM FailuresAreNeutral == Spec => []FailedNamesDoNotBias
<1>1. IInv => FailedNamesDoNotBias
  <2>1. SUFFICES ASSUME IInv
                 PROVE  \A i \in Resolved(Rows) :
                          Analyzed(Rows)[i] = Analyzed([j \in Resolved(Rows) |-> Rows[j]])[i]
    BY Zenon DEF FailedNamesDoNotBias
  <2>2. DOMAIN Rows \subseteq Nat
    <3>1. AreRows(Rows)
      BY <2>1, RowsAreRows, Zenon DEF IInv
    <3>. QED
      BY <3>1, Zenon DEF AreRows
  <2>. QED
    BY <2>2, FailedNamesLeaveNoTrace
<1>. QED
  BY <1>1, Invariance, PTL

\* The two documents of a run join by their keys, agree on how many gateways have one, and
\* share out no more than the pool.
THEOREM DocumentsOfRunsJoin == Spec => []DocumentsJoin
<1>1. IInv => DocumentsJoin
  BY RowsAreRows, DocumentsJoinByKey, Zenon DEF IInv, DocumentsJoin
<1>. QED
  BY <1>1, Invariance, PTL
=============================================================================
