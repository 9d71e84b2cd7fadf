---------------------------- MODULE Calibration ----------------------------
(***************************************************************************)
(* The threshold of near_identical_results, from how alike the captured    *)
(* results are (src/observers/calibrate.ts).  A sample is an epoch and a   *)
(* couple of its observers; it is presumed related when the roster has     *)
(* the two share a fact.                                                   *)
(***************************************************************************)
EXTENDS Detectors

\* relationBetween.
IsRelated(gateways, p, q) ==
  /\ {p, q} \subseteq DOMAIN gateways
  /\ \E fact \in {"ipAddress", "ipRange", "baseDomain", "asn", "clusterKey"} :
       gateways[p][fact] = gateways[q][fact] /\ gateways[p][fact] # NoFact

\* pairwiseMatrix of every epoch.
Samples(obs) ==
  UNION {{<<e, c>> : c \in {d \in (DOMAIN obs[e]) \X (DOMAIN obs[e]) : d[1] < d[2]}} : e \in DOMAIN obs}

Related(obs, gateways) == {s \in Samples(obs) : IsRelated(gateways, s[2][1], s[2][2])}
Independent(obs, gateways) == Samples(obs) \ Related(obs, gateways)

SampleSimilarity(obs, s) ==
  LET a == obs[s[1]][s[2][1]]
      b == obs[s[1]][s[2][2]]
  IN  Similarity(a.gatewayResults, b.gatewayResults, a.gatewayCount, b.gatewayCount)

Earlier(s, t) == s[1] < t[1] \/ (s[1] = t[1] /\ InOrder(s[2], t[2]))

\* The similarities of samples, the least first.
Sorted(obs, samples) ==
  LET similarity == [s \in samples |-> SampleSimilarity(obs, s)]
      IsLess(s, t) == \/ ~AtLeast(similarity[s], similarity[t])
                      \/ AtLeast(similarity[t], similarity[s]) /\ Earlier(s, t)
      sorted == Ranked(samples, IsLess)
  IN  [i \in DOMAIN sorted |-> similarity[sorted[i]]]

\* percentile, by nearest rank, of a sequence that is not empty.
Percentile(sorted, num, den) == sorted[Max({1, (num * Len(sorted) + den - 1) \div den})]

MinRecommended == <<80, 100>>
Margin == <<2, 1000>>
One == <<1, 1>>
Greater(a, b) == IF AtLeast(a, b) THEN a ELSE b
Lesser(a, b) == IF AtLeast(a, b) THEN b ELSE a

\* Mutant of Recommended: right at the most similar independent couple.
RecommendedAtTheMost(independent) ==
  IF independent = <<>> THEN MinRecommended
  ELSE Lesser(One, Greater(Percentile(independent, 999, 1000), MinRecommended))

Recommended(independent) ==
  LET p999 == IF independent = <<>> THEN MinRecommended ELSE Percentile(independent, 999, 1000)
  IN  Lesser(One, Greater(Raised(p999, Margin), MinRecommended))

\* NO_SEPARATION: an independent couple is more alike than half of the related ones.
Separates(independent, related) ==
  IF independent = <<>> \/ related = <<>> THEN "undetermined"
  ELSE IF AtLeast(Percentile(related, 50, 100), independent[Len(independent)]) THEN "yes" ELSE "no"

\* The row that a measurement of these observations inserts.
Measured(obs, gateways) ==
  LET independent == Sorted(obs, Independent(obs, gateways))
      related == Sorted(obs, Related(obs, gateways))
  IN  [threshold |-> Recommended(independent), separates |-> Separates(independent, related),
       active |-> FALSE]
=============================================================================
