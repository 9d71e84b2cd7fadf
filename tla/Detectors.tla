----------------------------- MODULE Detectors -----------------------------
(***************************************************************************)
(* The detectors of src/observers/detectors: pure functions from the       *)
(* observations of an epoch, the gateway roster and the configuration to   *)
(* findings.                                                               *)
(*                                                                         *)
(* A context is a record: epochIndex; obs, a function from the observers   *)
(* of the epoch to their observations; gateways, a function from wallets   *)
(* to facts, and degraded, from the roster; threshold and calibrated, from *)
(* buildConfig.  Observers are numbers, in the order of their names.       *)
(*                                                                         *)
(* Left out of a finding: its summary, its time and its detail, but for    *)
(* the findings a derived one was made from.                               *)
(***************************************************************************)
EXTENDS Hamming, SequencesExt

CONSTANTS
  AllEpochs,              \* the epoch of a finding about the window: null
  NoFact,                 \* a fact the roster lacks: null, or an empty base domain
  CoSubmissionWindow,     \* seconds
  SharedAsnMinObservers,
  PersistentMinEpochs,
  CompositeMinKinds,
  MinCluster,             \* of divergent_assessment
  Broken                  \* kinds whose detector throws

ASSUME AllEpochsIsNoEpoch == AllEpochs \notin Nat
ASSUME ClustersAreNotEmpty == MinCluster \in Nat \ {0}

\* SEVERITY_ORDER.
Info == 0
Low == 1
Medium == 2
High == 3

\* Confidences are whole numbers of millionths of a percent, which is exact for the
\* product of four families' doubts.
Percent(c) == c * 1000000
Certain == Percent(100)

Finding(kind, epochIndex, observers, severity, confidence, evidence) ==
  [kind |-> kind, epochIndex |-> epochIndex, observers |-> observers,
   severity |-> severity, confidence |-> confidence, evidence |-> evidence]

\* findingId: the hash of the sorted observers is taken to be as good as the set.
Id(finding) == <<finding.kind, finding.epochIndex, finding.observers>>
Ids(findings) == {Id(f) : f \in findings}

\* groupBy: sets of at least n that agree on the key.
Groups(key, n) ==
  {G \in {{o \in DOMAIN key : key[o] = key[p]} : p \in DOMAIN key} : Cardinality(G) >= n}

\* SetToSortSeq of a strict order, without its search through the permutations.
Ranked(S, Before(_, _)) ==
  [i \in 1 .. Cardinality(S) |->
     CHOOSE x \in S : Cardinality({y \in S : Before(y, x)}) = i - 1]

CapSeverity(severity, cap) == IF severity > cap THEN cap ELSE severity
Escalate(severity) == IF severity < High THEN severity + 1 ELSE High

Submitters(ctx) == DOMAIN ctx.obs
-----------------------------------------------------------------------------
(***************************************************************************)
(* Reports and results.                                                    *)
(***************************************************************************)
SharedReportTx(ctx) ==
  {Finding("shared_report_tx", ctx.epochIndex, G,
           IF Cardinality(G) >= 3 THEN High ELSE Medium, Percent(100), {}) :
     G \in Groups([o \in Submitters(ctx) |-> ctx.obs[o].reportTxId], 2)}

MaskedDigests(ctx) ==
  [o \in Submitters(ctx) |-> MaskedPrefix(ctx.obs[o].gatewayResults, ctx.obs[o].gatewayCount)]

\* Nothing to compare is not identical.
IdenticalResults(ctx) ==
  {Finding("identical_results", ctx.epochIndex, G, High, Percent(100), {}) :
     G \in {H \in Groups(MaskedDigests(ctx), 2) : \A o \in H : ctx.obs[o].gatewayCount # 0}}

SimilarityOf(ctx, p, q) ==
  Similarity(ctx.obs[p].gatewayResults, ctx.obs[q].gatewayResults,
             ctx.obs[p].gatewayCount, ctx.obs[q].gatewayCount)

\* Couples that identical_results does not cover.
Pairs(ctx) ==
  LET digests == MaskedDigests(ctx)
  IN  {c \in Submitters(ctx) \X Submitters(ctx) :
         /\ c[1] < c[2]
         /\ digests[c[1]] # digests[c[2]]
         /\ AtLeast(SimilarityOf(ctx, c[1], c[2]), ctx.threshold)}

\* connectedComponents: union-find.  Compressing paths changes no root.
RootOf(parent) ==
  LET root[x \in DOMAIN parent] == IF parent[x] = x THEN x ELSE root[parent[x]]
  IN  root

\* Mutant of Union: the second node joins the first one's group, without its root.
UnionWithoutRoot(parent, edge) == [parent EXCEPT ![edge[1]] = RootOf(parent)[edge[2]]]

Union(parent, edge) ==
  LET root == RootOf(parent)
  IN  [parent EXCEPT ![root[edge[1]]] = root[edge[2]]]

ConnectedComponents(nodes, edges) ==
  Groups(RootOf(FoldLeft(Union, [n \in nodes |-> n], edges)), 2)

\* pairwiseMatrix goes through the couples in this order.
InOrder(c, d) == c[1] < d[1] \/ (c[1] = d[1] /\ c[2] < d[2])

NearGroups(ctx) == ConnectedComponents(Submitters(ctx), Ranked(Pairs(ctx), InOrder))

\* Every reported couple in G is three points above the threshold.
IsWellAbove(ctx, G) ==
  \A c \in Pairs(ctx) : {c[1], c[2]} \subseteq G =>
    AtLeast(SimilarityOf(ctx, c[1], c[2]), Raised(ctx.threshold, <<3, 100>>))

NearIdenticalResults(ctx) ==
  {Finding("near_identical_results", ctx.epochIndex, G,
           IF ctx.calibrated /\ IsWellAbove(ctx, G) THEN High ELSE Medium,
           IF ctx.calibrated THEN Percent(90) ELSE Percent(50), {}) : G \in NearGroups(ctx)}
-----------------------------------------------------------------------------
(***************************************************************************)
(* Timing: windows are taken greedily from the earliest submission on, and *)
(* the next one starts after the last member of this one.                  *)
(***************************************************************************)
IsOneCluster(ctx, G) ==
  \E key \in {ctx.gateways[w].clusterKey : w \in DOMAIN ctx.gateways} \ {NoFact} :
    \A o \in G : o \in DOMAIN ctx.gateways /\ ctx.gateways[o].clusterKey = key

CoSubmissionWindows(ctx) ==
  LET At(o) == ctx.obs[o].submittedAt
      Earlier(p, q) == At(p) < At(q) \/ (At(p) = At(q) /\ p < q)
      sorted == Ranked(Submitters(ctx), Earlier)
      End(start) == Max({i \in start .. Len(sorted) :
                           At(sorted[i]) <= At(sorted[start]) + CoSubmissionWindow})
      Window(start) == {sorted[i] : i \in start .. End(start)}
      from[start \in 1 .. Len(sorted) + 1] ==
        IF start > Len(sorted) THEN {}
        ELSE IF Cardinality(Window(start)) < 3 \/ IsOneCluster(ctx, Window(start))
        THEN from[start + 1]
        ELSE {Window(start)} \cup from[End(start) + 1]
  IN  from[1]

CoSubmissionTiming(ctx) ==
  {Finding("co_submission_timing", ctx.epochIndex, G, Low, Percent(40), {}) :
     G \in CoSubmissionWindows(ctx)}
-----------------------------------------------------------------------------
(***************************************************************************)
(* Joins with the roster.                                                  *)
(***************************************************************************)
ObservedGateways(ctx) == Submitters(ctx) \cap DOMAIN ctx.gateways

\* Observers of the roster that have this fact, with it.
Having(ctx, fact) ==
  [o \in {g \in ObservedGateways(ctx) : ctx.gateways[g][fact] # NoFact} |-> ctx.gateways[o][fact]]

Facts(ctx, G, fact) == {ctx.gateways[o][fact] : o \in G}

SharedIp(ctx) ==
  {Finding("shared_ip", ctx.epochIndex, G,
           IF Cardinality(Facts(ctx, G, "baseDomain")) >= 2 THEN High ELSE Medium, Percent(95), {}) :
     G \in Groups(Having(ctx, "ipAddress"), 2)}

SharedIpRange(ctx) ==
  {Finding("shared_ip_range", ctx.epochIndex, G, Medium, Percent(70), {}) :
     G \in {H \in Groups(Having(ctx, "ipRange"), 3) :
              Cardinality(Facts(ctx, H, "ipAddress") \ {NoFact}) >= 2}}

SharedBaseDomain(ctx) ==
  {Finding("shared_base_domain", ctx.epochIndex, G, Medium, Percent(90), {}) :
     G \in Groups(Having(ctx, "baseDomain"), 2)}

\* A host of more than a tenth of the network is only information.
IsMajorHost(ctx, asn) ==
  LET known == {w \in DOMAIN ctx.gateways : ctx.gateways[w].asn # NoFact}
  IN  10 * Cardinality({w \in known : ctx.gateways[w].asn = asn}) > Cardinality(known)

SharedAsn(ctx) ==
  {Finding("shared_asn", ctx.epochIndex, G,
           IF \E asn \in Facts(ctx, G, "asn") : IsMajorHost(ctx, asn) THEN Info ELSE Low,
           Percent(50), {}) :
     G \in Groups(Having(ctx, "asn"), SharedAsnMinObservers)}

ClusterOverlap(ctx) ==
  {Finding("analyzer_cluster_overlap", ctx.epochIndex, G,
           IF ctx.gateways[Min(G)].clusterKind = "ip-exact" THEN High ELSE Medium, Percent(85), {}) :
     G \in Groups(Having(ctx, "clusterKey"), 2)}

\* Without any roster nobody is unmatched.
UnmatchedObserver(ctx) ==
  {Finding("unmatched_observer", ctx.epochIndex, {o}, Info, Percent(100), {}) :
     o \in IF DOMAIN ctx.gateways = {} THEN {} ELSE Submitters(ctx) \ DOMAIN ctx.gateways}
-----------------------------------------------------------------------------
(***************************************************************************)
(* Divergent assessment: observers ordered by their share of clear bits    *)
(* are cut at the widest gap that leaves MinCluster of them on each side.  *)
(***************************************************************************)
GatewayCounts(ctx) == {ctx.obs[o].gatewayCount : o \in Submitters(ctx)}

Scored(ctx) ==
  {o \in Submitters(ctx) : /\ ctx.obs[o].gatewayCount > 0
                           /\ Len(ctx.obs[o].gatewayResults) * 8 >= ctx.obs[o].gatewayCount}

\* clearBitDensity: with one count for all, clear bits are as good as their share.
ClearBits(ctx, o) ==
  ctx.obs[o].gatewayCount - Cardinality(Votes(ctx.obs[o].gatewayResults, ctx.obs[o].gatewayCount))

Levels(ctx) == {ClearBits(ctx, o) : o \in Scored(ctx)}
UpTo(ctx, level) == {o \in Scored(ctx) : ClearBits(ctx, o) <= level}

\* Mutant of Splits: one more on the low side.
SplitsUneven(ctx) ==
  {level \in Levels(ctx) : /\ Cardinality(UpTo(ctx, level)) > MinCluster
                           /\ Cardinality(Scored(ctx) \ UpTo(ctx, level)) >= MinCluster}

\* Levels after which there may be a gap: between equals there is none.
Splits(ctx) ==
  {level \in Levels(ctx) : /\ Cardinality(UpTo(ctx, level)) >= MinCluster
                           /\ Cardinality(Scored(ctx) \ UpTo(ctx, level)) >= MinCluster}

Gap(ctx, level) == Min({l \in Levels(ctx) : l > level}) - level
WidestGap(ctx) == Max({Gap(ctx, level) : level \in Splits(ctx)})

\* The gap must be 12 points wide.
IsSplit(ctx) ==
  /\ Cardinality(GatewayCounts(ctx)) = 1
  /\ \E level \in Splits(ctx) : Gap(ctx, level) * 100 >= 12 * Max(GatewayCounts(ctx))

\* The low group ends at the first of the widest gaps.
LowGroup(ctx) == UpTo(ctx, Min({level \in Splits(ctx) : Gap(ctx, level) = WidestGap(ctx)}))

DivergentAssessment(ctx) ==
  {Finding("divergent_assessment", ctx.epochIndex, Scored(ctx),
           IF WidestGap(ctx) * 100 >= 20 * Max(GatewayCounts(ctx)) THEN High ELSE Medium,
           Percent(70), {}) : split \in {s \in {TRUE} : IsSplit(ctx)}}
-----------------------------------------------------------------------------
(***************************************************************************)
(* Findings about findings.                                                *)
(***************************************************************************)
FamilyByKind ==
  [shared_report_tx |-> "report", identical_results |-> "results",
   near_identical_results |-> "results", shared_ip |-> "network", shared_ip_range |-> "network",
   shared_base_domain |-> "network", shared_asn |-> "network",
   analyzer_cluster_overlap |-> "network", co_submission_timing |-> "timing"]

Families(findings) == {FamilyByKind[f.kind] : f \in findings}
Severities(findings) == {f.severity : f \in findings}
About(findings, observers) == {f \in findings : f.observers = observers}

\* One minus the doubts, of which each family has that of its strongest member.
Corroborated(findings) ==
  LET Doubt(family) ==
        IF family \notin Families(findings) THEN 100
        ELSE (Certain - Max({f.confidence : f \in {g \in findings : FamilyByKind[g.kind] = family}}))
               \div Percent(1)
  IN  Smaller(Percent(99),
              Certain - Doubt("report") * Doubt("results") * Doubt("network") * Doubt("timing"))

\* Findings of several families about the same observers.
Composite(ctx, prior) ==
  LET contributors == {f \in prior : /\ f.epochIndex = ctx.epochIndex
                                     /\ f.kind \in DOMAIN FamilyByKind}
      group(S) == About(contributors, S)
  IN  {Finding("composite_independence_risk", ctx.epochIndex, S,
               IF /\ Cardinality(Families(group(S))) >= 2
                  /\ \E f \in group(S) : f.confidence >= Percent(90) THEN High ELSE Medium,
               Corroborated(group(S)), Ids(group(S))) :
         S \in {T \in {f.observers : f \in contributors} :
                  Cardinality(Families(group(T))) >= CompositeMinKinds}}

\* The same observers in several epochs.
Persistent(prior) ==
  LET contributors == {f \in prior : f.epochIndex # AllEpochs /\ Cardinality(f.observers) >= 2}
      group(S) == About(contributors, S)
  IN  {Finding("persistent_correlation", AllEpochs, S, Escalate(Max(Severities(group(S)))),
               Percent(90), Ids(group(S))) :
         S \in {T \in {f.observers : f \in contributors} :
                  Cardinality({f.epochIndex : f \in group(T)}) >= PersistentMinEpochs}}
-----------------------------------------------------------------------------
(***************************************************************************)
(* The detectors in their order.                                           *)
(***************************************************************************)
GatewayDependentKinds ==
  {"shared_ip", "shared_ip_range", "shared_base_domain", "shared_asn",
   "analyzer_cluster_overlap", "unmatched_observer"}

\* degrade: what rests on a missing or an old roster weighs less.
Degraded(finding) ==
  IF finding.kind \notin GatewayDependentKinds THEN finding
  ELSE [finding EXCEPT !.severity = CapSeverity(finding.severity, Medium),
                       !.confidence = (finding.confidence \div 100) * 60]

\* runDetector: one that throws leaves a finding about itself.
Ran(kind, epochIndex, found) ==
  IF kind \in Broken THEN {Finding("detector_error", epochIndex, {}, Info, Percent(100), {})}
  ELSE found

Base(ctx) ==
  LET Run(kind, found) == Ran(kind, ctx.epochIndex, found)
  IN  Run("shared_report_tx", SharedReportTx(ctx))
        \cup Run("identical_results", IdenticalResults(ctx))
        \cup Run("near_identical_results", NearIdenticalResults(ctx))
        \cup Run("co_submission_timing", CoSubmissionTiming(ctx))
        \cup Run("shared_ip", SharedIp(ctx))
        \cup Run("shared_ip_range", SharedIpRange(ctx))
        \cup Run("shared_base_domain", SharedBaseDomain(ctx))
        \cup Run("shared_asn", SharedAsn(ctx))
        \cup Run("analyzer_cluster_overlap", ClusterOverlap(ctx))
        \cup Run("unmatched_observer", UnmatchedObserver(ctx))
        \cup Run("divergent_assessment", DivergentAssessment(ctx))

\* Composite is given what is already degraded.
Weighed(ctx) == IF ctx.degraded THEN {Degraded(f) : f \in Base(ctx)} ELSE Base(ctx)

\* (A set of one binds prior, so that TLC computes it once.)
EpochFindings(ctx) ==
  UNION {prior \cup Ran("composite_independence_risk", ctx.epochIndex, Composite(ctx, prior)) :
           prior \in {Weighed(ctx)}}

\* The epochs of the window, and then the detector that looks at all of them.
WindowFindings(contexts) ==
  UNION {prior \cup Ran("persistent_correlation", Max({ctx.epochIndex : ctx \in contexts}),
                        Persistent(prior)) :
           prior \in {UNION {EpochFindings(ctx) : ctx \in contexts}}}
=============================================================================
