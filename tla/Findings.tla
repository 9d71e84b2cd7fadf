------------------------------ MODULE Findings ------------------------------
(***************************************************************************)
(* The findings runs (src/observers/run-findings.ts): the cadence, and the *)
(* backfill an operator starts, which looks at every epoch.  A run reads   *)
(* the active calibration, the list of epochs, the epochs one by one and   *)
(* the published roster, each in a statement of its own while the capture  *)
(* and the other run commit theirs; it computes the findings and replaces  *)
(* those of its epochs in one transaction (upsertFindings).  Next to it    *)
(* run the calibrations (src/observers/calibrate.ts).                      *)
(*                                                                         *)
(* Left out: a run that stops half way, which has written nothing.  What a *)
(* run publishes is in FindingsDocuments.                                  *)
(***************************************************************************)
EXTENDS Calibration

CONSTANTS
  Epochs,            \* epoch indexes
  Observers,
  Starts,            \* a store, the roster that is published, whether an operator starts a
                     \* backfill; and, a bound, how many publishes may fail
  Submissions,       \* bound: observations that may follow: <<epoch, observer, observation>>
  Rosters,           \* the rosters that are published or grow old, one after the other
  DefaultThreshold,
  MinEpochs,         \* MIN_EPOCHS_FOR_CALIBRATION
  WindowEpochs,
  MaxObservations,   \* bound: observations in the store
  MaxCalibrations,   \* bound: calibrations
  MaxWrites          \* bound: the clock counts the writes, up to this one

ASSUME EpochsAreNat == Epochs \subseteq Nat
ASSUME StoresHaveObservers ==
  \A start \in Starts :
    /\ DOMAIN start.obs = Epochs /\ \A e \in Epochs : DOMAIN start.obs[e] \subseteq Observers
    /\ start.rosterAt \in DOMAIN Rosters
ASSUME SubmissionsHaveObservers == \A s \in Submissions : s[1] \in Epochs /\ s[2] \in Observers

\* A blob with a bit for each gateway that its count claims.
IsWhole(blob, gatewayCount) ==
  blob \in Seq(Byte) /\ gatewayCount \in Nat /\ Len(blob) * 8 >= gatewayCount

\* decodeObservationAccount: 375 bytes and no more than 3000 gateways.  (Rows older than this
\* guard may have a count of 0, which the detectors look out for, or one above 3000, which is
\* left out.)
IsObservation(observation) ==
  /\ DOMAIN observation = {"reportTxId", "gatewayResults", "gatewayCount", "submittedAt"}
  /\ IsWhole(observation.gatewayResults, observation.gatewayCount)

ASSUME ObservationsAreDecoded ==
  /\ \A start \in Starts : \A e \in Epochs : \A o \in DOMAIN start.obs[e] :
       IsObservation(start.obs[e][o])
  /\ \A s \in Submissions : IsObservation(s[3])

\* envNumber.
ASSUME ThresholdIsPositive == DefaultThreshold \in (Nat \ {0}) \X (Nat \ {0})
ASSUME ObserversAreOrdered == Observers \subseteq Nat
ASSUME ThereIsARoster == 1 \in DOMAIN Rosters
ASSUME WritesAreCounted == MaxWrites \in Nat \ {0}

Runs == {"cadence", "backfill"}

VARIABLES
  obs,         \* observations: [Epochs -> a function from observers], written by the capture
  rosterAt,    \* the index of the published roster, of which the first is there when the runs start
  calibration, \* calibration: the rows, by id
  table,       \* findings: from ids to findings and the times they were first seen
  links,       \* finding_observers
  writes,      \* the clock
  run          \* what each run has read

vars == <<obs, rosterAt, calibration, table, links, writes, run>>
-----------------------------------------------------------------------------
Nobody == [o \in {} |-> 0]
With(f, x, value) == [y \in {x} \cup DOMAIN f |-> IF y = x THEN value ELSE f[y]]
Known(store) == {e \in Epochs : DOMAIN store[e] # {}}

Uncalibrated == [threshold |-> DefaultThreshold, calibrated |-> FALSE]

\* activeCalibration: the newest of the active rows; buildConfig: or the default.
ActiveCalibration ==
  LET active == {i \in DOMAIN calibration : calibration[i].active}
  IN  IF active = {} THEN Uncalibrated
      ELSE [threshold |-> calibration[Max(active)].threshold, calibrated |-> TRUE]

Idle == [pc |-> "idle", config |-> Uncalibrated, todo |-> {}, read |-> Nobody, rosterAt |-> 1,
         found |-> {}]
Done == [Idle EXCEPT !.pc = "done"]

InitFrom(start) ==
  /\ obs = start.obs
  /\ rosterAt = start.rosterAt
  /\ calibration = <<>>
  /\ table = Nobody /\ links = {}
  /\ writes = 0
  /\ run = [r \in Runs |-> IF r = "backfill" /\ ~start.backfill THEN Done ELSE Idle]

Init == \E start \in Starts : InitFrom(start)
-----------------------------------------------------------------------------
(***************************************************************************)
(* The capture, the daily analysis and the operator.                       *)
(***************************************************************************)
ObservationCount == Cardinality({c \in Epochs \X Observers : c[2] \in DOMAIN obs[c[1]]})

\* An observation, or a revision of one, of the last epoch, the one before it or the next
\* one.
Capture(e, o, submitted) ==
  /\ ObservationCount < MaxObservations
  /\ \A d \in Known(obs) : d <= e + 1
  /\ e - 1 \in Epochs => e - 1 \in Known(obs)
  /\ o \in DOMAIN obs[e] => obs[e][o] # submitted
  /\ obs' = [obs EXCEPT ![e] = With(obs[e], o, submitted)]
  /\ UNCHANGED <<rosterAt, calibration, table, links, writes, run>>

RosterChanges ==
  /\ rosterAt + 1 \in DOMAIN Rosters
  /\ rosterAt' = rosterAt + 1
  /\ UNCHANGED <<obs, calibration, table, links, writes, run>>

\* A measurement, its reads taken at once.
Calibrate ==
  /\ Cardinality(Known(obs)) >= MinEpochs
  /\ Len(calibration) < MaxCalibrations
  /\ calibration' = Append(calibration, Measured(obs, Rosters[rosterAt].gateways))
  /\ UNCHANGED <<obs, rosterAt, table, links, writes, run>>

\* activateCalibration: no more than one row is active.  Its look at the row is outside of the
\* transaction, but no row is ever deleted and separates never changes.
Activate(i, force) ==
  /\ calibration[i].separates = "no" => force
  /\ calibration' = [j \in DOMAIN calibration |-> [calibration[j] EXCEPT !.active = (j = i)]]
  /\ UNCHANGED <<obs, rosterAt, table, links, writes, run>>
-----------------------------------------------------------------------------
(***************************************************************************)
(* A run.                                                                  *)
(***************************************************************************)
\* The backfill runs once.
Begin(r) ==
  /\ run[r].pc = "idle"
  /\ run' = [run EXCEPT ![r] = [Idle EXCEPT !.pc = "list", !.config = ActiveCalibration]]
  /\ UNCHANGED <<obs, rosterAt, calibration, table, links, writes>>

Ended(r) == IF r = "backfill" THEN Done ELSE Idle

\* The last WindowEpochs of the epochs.
InWindow(epochs) == {e \in epochs : Cardinality({d \in epochs : d > e}) < WindowEpochs}

\* Without epochs there is nothing to write.
List(r) ==
  /\ run[r].pc = "list"
  /\ run' = [run EXCEPT ![r] =
       IF Known(obs) = {} THEN Ended(r)
       ELSE [run[r] EXCEPT !.pc = "read",
                           !.todo = IF r = "backfill" THEN Known(obs) ELSE InWindow(Known(obs))]]
  /\ UNCHANGED <<obs, rosterAt, calibration, table, links, writes>>

\* getEpoch, in ascending order.
ReadEpoch(r) ==
  /\ run[r].pc = "read" /\ run[r].todo # {}
  /\ LET e == Min(run[r].todo)
     IN  run' = [run EXCEPT ![r].todo = run[r].todo \ {e},
                            ![r].read = With(run[r].read, e, obs[e])]
  /\ UNCHANGED <<obs, rosterAt, calibration, table, links, writes>>

Context(e, observations, config, roster) ==
  [epochIndex |-> e, obs |-> observations, threshold |-> config.threshold,
   calibrated |-> config.calibrated, gateways |-> roster.gateways, degraded |-> roster.degraded]

Contexts(read, config) == {Context(e, read[e], config, Rosters[rosterAt]) : e \in DOMAIN read}

IsDetecting(r) == run[r].pc = "read" /\ run[r].todo = {}

\* loadGatewayRoster and the detectors.
Detect(r) ==
  /\ IsDetecting(r)
  /\ run' = [run EXCEPT ![r].pc = "write", ![r].rosterAt = rosterAt,
                        ![r].found = WindowFindings(Contexts(run[r].read, run[r].config))]
  /\ UNCHANGED <<obs, rosterAt, calibration, table, links, writes>>

EpochOf(id) == id[2]

\* Mutant of Stays: findings about the window stay until they are found again.
StaysOrIsOfAll(id, scope) ==
  EpochOf(id) = AllEpochs \/ (EpochOf(id) \notin scope /\ EpochOf(id) >= Min(scope))

\* Rows that an upsert of these epochs does not delete are of newer ones, or in a gap.
Stays(id, scope) ==
  EpochOf(id) # AllEpochs /\ EpochOf(id) \notin scope /\ EpochOf(id) >= Min(scope)

\* Mutant of FirstSeen: the time of this write.
FirstSeenNow(id, now) == now

FirstSeen(id, now) == IF id \in DOMAIN table THEN table[id].firstSeen ELSE now

\* upsertFindings, one transaction.
Upsert(r) ==
  /\ run[r].pc = "write"
  /\ writes' = Smaller(writes + 1, MaxWrites)
  /\ LET scope == DOMAIN run[r].read
         ids == Ids(run[r].found)
         Inserted(id) == [finding |-> CHOOSE f \in run[r].found : Id(f) = id,
                          firstSeen |-> FirstSeen(id, writes')]
     IN  /\ table' = [id \in {i \in DOMAIN table : Stays(i, scope)} \cup ids |->
                        IF id \in ids THEN Inserted(id) ELSE table[id]]
         /\ links' = {l \in links : Stays(l[1], scope)}
                       \cup UNION {{Id(f)} \X f.observers : f \in run[r].found}
  /\ run' = [run EXCEPT ![r] = Ended(r)]
  /\ UNCHANGED <<obs, rosterAt, calibration>>

Step(r) == Begin(r) \/ List(r) \/ ReadEpoch(r) \/ Detect(r) \/ Upsert(r)

Next ==
  \/ \E s \in Submissions : Capture(s[1], s[2], s[3])
  \/ RosterChanges
  \/ Calibrate
  \/ \E i \in DOMAIN calibration, force \in BOOLEAN : Activate(i, force)
  \/ \E r \in Runs : Step(r)

Spec == Init /\ [][Next]_vars
-----------------------------------------------------------------------------
(***************************************************************************)
(* Properties.                                                             *)
(***************************************************************************)
RunOK(r) ==
  /\ DOMAIN run[r] = DOMAIN Idle
  /\ run[r].pc \in {"idle", "list", "read", "write", "done"}
  /\ run[r].todo \subseteq Epochs /\ DOMAIN run[r].read \subseteq Epochs
  /\ run[r].pc = "write" => run[r].todo = {}
  /\ run[r].rosterAt \in DOMAIN Rosters
  /\ run[r].found # {} => run[r].pc = "write"

TypeOK ==
  /\ DOMAIN obs = Epochs /\ \A e \in Epochs : DOMAIN obs[e] \subseteq Observers
  /\ rosterAt \in DOMAIN Rosters
  /\ calibration \in Seq({calibration[i] : i \in DOMAIN calibration})
  /\ \A i \in DOMAIN calibration :
       calibration[i].active \in BOOLEAN /\ calibration[i].separates \in {"undetermined", "yes", "no"}
  /\ writes \in 0 .. MaxWrites
  /\ \A id \in DOMAIN table : Id(table[id].finding) = id /\ table[id].firstSeen \in 1 .. writes
  /\ DOMAIN run = Runs /\ \A r \in Runs : RunOK(r)

\* finding_observers holds the observers of the findings, and no row of one that is gone.
LinksMatch == links = UNION {{id} \X table[id].finding.observers : id \in DOMAIN table}

\* A finding names another as its evidence only of its own epoch, unless it is about the
\* window.
HasEvidenceOfItsEpoch(finding) ==
  \A e \in finding.evidence :
    /\ EpochOf(e) # AllEpochs
    /\ finding.epochIndex # AllEpochs => EpochOf(e) = finding.epochIndex

EvidenceIsOfItsEpoch == \A id \in DOMAIN table : HasEvidenceOfItsEpoch(table[id].finding)

IsClosed(findings) ==
  \A f \in findings : f.evidence \subseteq Ids(findings) /\ HasEvidenceOfItsEpoch(f)

\* contributingFindingIds are ids of the table, whatever runs of other windows wrote and
\* deleted in between.
EvidenceIsStored == \A id \in DOMAIN table : table[id].finding.evidence \subseteq DOMAIN table

\* The same of what a run is about to write.
FoundIsClosed == \A r \in Runs : IsClosed(run[r].found)

\* The type invariant, and the two tables of upsertFindings (src/db/repo-read.ts:287-361):
\* links and evidence lead to rows that are there, with two runs of different windows.
IInv ==
  /\ TypeOK
  /\ LinksMatch
  /\ EvidenceIsOfItsEpoch
  /\ EvidenceIsStored
  /\ FoundIsClosed

\* upsertFindings: "first_seen_at is preserved across recomputes" (repo-read.ts:285), also
\* when runs of different windows overlap.
FirstSeenIsKept ==
  [][\A id \in DOMAIN table \cap DOMAIN table' :
       table'[id].firstSeen = table[id].firstSeen]_vars
-----------------------------------------------------------------------------
\* What a run is about to compute from.
Computing ==
  UNION {Contexts(run[r].read, run[r].config) :
           r \in {s \in Runs : IsDetecting(s)}}

Of(kind, findings) == {f.observers : f \in {g \in findings : g.kind = kind}}

\* What an observer said of the first n gateways.
Said(ctx, o, n) == Votes(ctx.obs[o].gatewayResults, Smaller(n, ctx.obs[o].gatewayCount))

SaysTheSame(ctx, p, q) ==
  LET n == ctx.obs[p].gatewayCount
      m == ctx.obs[q].gatewayCount
  IN  /\ Said(ctx, p, n) = Said(ctx, q, m)
      /\ MeaningfulBytes(n) = MeaningfulBytes(m)

SaysAlmostTheSame(ctx, p, q) ==
  LET n == Smaller(ctx.obs[p].gatewayCount, ctx.obs[q].gatewayCount)
      P == Said(ctx, p, n)
      Q == Said(ctx, q, n)
  IN  /\ p # q /\ ~SaysTheSame(ctx, p, q)
      /\ n # 0 /\ AtLeast(<<n - Cardinality((P \ Q) \cup (Q \ P)), n>>, ctx.threshold)

\* The groups do not overlap, every two observers that are related are in one of them, and
\* no group falls into two parts without a relation.
AreComponents(groups, observers, AreLinked(_, _)) ==
  /\ \A G, H \in groups : G = H \/ G \cap H = {}
  /\ \A p, q \in observers : p # q /\ AreLinked(p, q) => \E G \in groups : {p, q} \subseteq G
  /\ \A G \in groups : /\ Cardinality(G) >= 2
                       /\ \A S \in (SUBSET G) \ {{}, G} : \E p \in S, q \in G \ S : AreLinked(p, q)

IsGroupedRight(ctx) ==
  LET Same(p, q) == ctx.obs[p].gatewayCount # 0 /\ SaysTheSame(ctx, p, q)
      Almost(p, q) == SaysAlmostTheSame(ctx, p, q)
  IN  /\ AreComponents(Of("identical_results", Base(ctx)), Submitters(ctx), Same)
      /\ AreComponents(Of("near_identical_results", Base(ctx)), Submitters(ctx), Almost)

\* Hamming distance of the masked bytes, digests and union-find (src/observers/hamming.ts)
\* find the groups that the votes define: observers that said the same of every gateway,
\* and observers linked by couples that said almost the same.
ResultsAreGroupedRight == \A ctx \in Computing : IsGroupedRight(ctx)

Inverted(ctx) ==
  [ctx EXCEPT !.obs = [o \in Submitters(ctx) |->
     [ctx.obs[o] EXCEPT !.gatewayResults =
        [i \in DOMAIN ctx.obs[o].gatewayResults |-> (0 .. 7) \ ctx.obs[o].gatewayResults[i]]]]]

HasOneWidestGap(ctx) == Cardinality({level \in Splits(ctx) : Gap(ctx, level) = WidestGap(ctx)}) = 1

\* divergent-assessment.ts:30-32: the finding is invariant under bit inversion, "which
\* preserves both the gap and the membership split".  Of two gaps of one width the first is
\* taken, so that the split is preserved only if one is widest.
PolarityDoesNotMatter ==
  \A ctx \in Computing :
    /\ DivergentAssessment(Inverted(ctx)) = DivergentAssessment(ctx)
    /\ IsSplit(ctx) /\ HasOneWidestGap(ctx) =>
         LowGroup(Inverted(ctx)) = Scored(ctx) \ LowGroup(ctx)
-----------------------------------------------------------------------------
\* calibrate.ts:29-35: of the couples presumed independent that a recommended threshold was
\* measured from, no more than one in a thousand reaches it, so that of fewer than a thousand
\* none is reported; at one it can go no higher.
IndependentPairsDoNotFire ==
  [][\A i \in DOMAIN calibration' \ DOMAIN calibration :
       LET independent == Independent(obs, Rosters[rosterAt].gateways)
           reported == {s \in independent :
                          AtLeast(SampleSimilarity(obs, s), calibration'[i].threshold)}
       IN  \/ calibration'[i].threshold = One
           \/ 1000 * Cardinality(reported) <= Cardinality(independent)]_vars
=============================================================================
