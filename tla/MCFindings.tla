----------------------------- MODULE MCFindings -----------------------------
(* Constants for Findings and FindingsDocuments.  Three observers have submitted      *)
(* combinations of five observations in one epoch, or of four of which two are of     *)
(* other gateway counts, or nothing is stored yet; or two have submitted for two      *)
(* epochs, one of them revises what it said of the second, and the other goes on.  In *)
(* one store a publish may be skipped or break off.                                   *)
EXTENDS FindingsDocuments

Observation(tx, blob, gatewayCount, at) ==
  [reportTxId |-> tx, gatewayResults |-> blob, gatewayCount |-> gatewayCount, submittedAt |-> at]

\* Seven gateways: bit 7 is padding.  Alike is linked to AllPass and to Middling, which
\* are too far from each other.
AllPass == Observation("tx1", <<0 .. 6>>, 7, 100)
Padded == Observation("tx1", <<0 .. 7>>, 7, 150)
Alike == Observation("tx2", <<1 .. 6>>, 7, 170)
Middling == Observation("tx3", <<3 .. 6>>, 7, 230)
AllFail == Observation("tx4", <<{}>>, 7, 100)
OtherCount == Observation("tx4", <<0 .. 7, {0, 3}>>, 9, 160)
Empty == Observation("tx5", <<{}>>, 0, 160)

Five == {AllPass, Padded, Alike, Middling, AllFail}

NoStart == [e \in Epochs |-> Nobody]

\* Observers 1 and 2 are on one host, and which of them says what makes no difference.
OneEpoch ==
  {[NoStart EXCEPT ![3] = s] :
     s \in {t \in [{1, 2, 4} -> Five] : t[1].submittedAt <= t[2].submittedAt}
             \cup {t \in [{1, 2, 3} -> {AllPass, Alike, OtherCount, Empty}] :
                     t[1].submittedAt <= t[2].submittedAt}}
TwoEpochs == [NoStart EXCEPT ![1] = 1 :> AllPass @@ 4 :> Alike, ![2] = 1 :> AllPass @@ 4 :> Alike]
Full == [TwoEpochs EXCEPT ![2] = 2 :> Padded @@ TwoEpochs[2]]

MCStarts ==
  [obs : OneEpoch \cup {NoStart}, rosterAt : {1}, backfill : {FALSE}, failures : {0}]
    \cup [obs : {Full}, rosterAt : {1}, backfill : {TRUE}, failures : {1}]
    \cup [obs : {TwoEpochs}, rosterAt : {2}, backfill : {TRUE}, failures : {0}]
MCSubmissions == {<<2, 4, Middling>>, <<3, 1, AllPass>>}

\* Wallet 4 has no gateway, and most gateways do not observe.  Observers 1 and 2 share an
\* address and a cluster, all three a range; the domain of 3 is not known.
Gateway(w) ==
  [ipAddress |-> IF w \in {1, 2} THEN 1 ELSE IF w = 3 THEN 3 ELSE NoFact,
   ipRange |-> IF w <= 3 THEN 1 ELSE NoFact,
   baseDomain |-> IF w \in {1, 2} THEN w ELSE NoFact,
   asn |-> IF w <= 2 THEN 1 ELSE 2,
   clusterKey |-> IF w <= 2 THEN 1 ELSE NoFact,
   clusterKind |-> "ip-exact"]

\* All on one host and one domain.
OneHost(w) ==
  [Gateway(w) EXCEPT !.asn = 1, !.baseDomain = 1, !.clusterKind = "domain", !.ipAddress = NoFact]

Wallets == (1 .. 26) \ {4}
MCRosters ==
  <<[gateways |-> [w \in Wallets |-> Gateway(w)], degraded |-> FALSE],
    [gateways |-> [w \in Wallets |-> OneHost(w)], degraded |-> TRUE]>>

MCDefaultThreshold == <<5, 7>>
=============================================================================
