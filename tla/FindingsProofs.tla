--------------------------- MODULE FindingsProofs ---------------------------
(***************************************************************************)
(* The tables of upsertFindings: what the detectors find names only what   *)
(* is found with it as evidence, and the tables keep that through runs of  *)
(* different windows, whatever they read.  IInv is inductive: a finding's  *)
(* evidence is of its epoch, so both stay or both go.                      *)
(*                                                                         *)
(* The documents: what a run publishes adds up.                            *)
(*                                                                         *)
(* The detectors, for all observations that decode.ts lets into the store: *)
(* bitmaps, digests, distances and union-find group the observers as their *)
(* votes do, the cut of divergent_assessment is that of the opposite       *)
(* votes, and a measured threshold lets one independent couple in a        *)
(* thousand through.  DataOK says that what runs compute from is such.     *)
(*                                                                         *)
(* What is said of every list or every step of a fold is shown by its      *)
(* least counterexample, which well-foundedness gives.                     *)
(***************************************************************************)
EXTENDS FindingsDocuments, TLAPS, FiniteSetTheorems, WellFoundedInduction

-----------------------------------------------------------------------------
(***************************************************************************)
(* The findings of a run.                                                  *)
(***************************************************************************)
\* The epoch of an id is that of its finding.
LEMMA EpochOfId ==
  ASSUME NEW f
  PROVE  EpochOf(Id(f)) = f.epochIndex /\ Id(f)[3] = f.observers
  BY DEF EpochOf, Id

\* Findings as the detectors make them from observations: without evidence.
IsPlain(f) ==
  \E kind, epochIndex, observers, severity, confidence :
    f = Finding(kind, epochIndex, observers, severity, confidence, {})

ArePlain(findings) == \A f \in findings : IsPlain(f)

LEMMA PlainHasNoEvidence ==
  ASSUME NEW f, IsPlain(f)
  PROVE  f.evidence = {}
  BY DEF IsPlain, Finding

LEMMA PlainIsClosed ==
  ASSUME NEW findings, ArePlain(findings)
  PROVE  IsClosed(findings)
  BY PlainHasNoEvidence DEF ArePlain, IsClosed, HasEvidenceOfItsEpoch

\* More findings leave the evidence of each where it was.
LEMMA UnionIsClosed ==
  ASSUME NEW sets, \A findings \in sets : IsClosed(findings)
  PROVE  IsClosed(UNION sets)
  BY DEF IsClosed, Ids

\* runDetector: a detector that throws leaves a finding without evidence.
LEMMA RanIsPlain ==
  ASSUME NEW kind, NEW epochIndex, NEW found, ArePlain(found)
  PROVE  ArePlain(Ran(kind, epochIndex, found))
  BY Zenon DEF Ran, ArePlain, IsPlain

\* Each detector of an epoch but composite reports without evidence.
LEMMA BaseIsPlain ==
  ASSUME NEW ctx
  PROVE  ArePlain(Base(ctx))
<1>1. ArePlain(SharedReportTx(ctx)) /\ ArePlain(IdenticalResults(ctx))
  BY Zenon DEF ArePlain, IsPlain, SharedReportTx, IdenticalResults
<1>2. ArePlain(NearIdenticalResults(ctx)) /\ ArePlain(CoSubmissionTiming(ctx))
  BY Zenon DEF ArePlain, IsPlain, NearIdenticalResults, CoSubmissionTiming
<1>3. ArePlain(SharedIp(ctx)) /\ ArePlain(SharedIpRange(ctx))
  BY Zenon DEF ArePlain, IsPlain, SharedIp, SharedIpRange
<1>4. ArePlain(SharedBaseDomain(ctx)) /\ ArePlain(SharedAsn(ctx))
  BY Zenon DEF ArePlain, IsPlain, SharedBaseDomain, SharedAsn
<1>5. ArePlain(ClusterOverlap(ctx)) /\ ArePlain(UnmatchedObserver(ctx))
  BY Zenon DEF ArePlain, IsPlain, ClusterOverlap, UnmatchedObserver
<1>6. ArePlain(DivergentAssessment(ctx))
  BY Zenon DEF ArePlain, IsPlain, DivergentAssessment
<1>7. ASSUME NEW kind, NEW found, ArePlain(found)
      PROVE  ArePlain(Ran(kind, ctx.epochIndex, found))
  BY <1>7, RanIsPlain
<1>8. ASSUME NEW S, NEW T, ArePlain(S), ArePlain(T)
      PROVE  ArePlain(S \cup T)
  BY <1>8 DEF ArePlain
<1> QED
  BY <1>1, <1>2, <1>3, <1>4, <1>5, <1>6, <1>7, <1>8 DEF Base

\* degrade leaves it plain.
LEMMA DegradedIsPlain ==
  ASSUME NEW f, IsPlain(f)
  PROVE  IsPlain(Degraded(f))
<1>1. CASE f.kind \notin GatewayDependentKinds
  BY <1>1 DEF Degraded
<1>2. CASE f.kind \in GatewayDependentKinds
  <2>1. PICK kind, epochIndex, observers, severity, confidence :
          f = Finding(kind, epochIndex, observers, severity, confidence, {})
    BY DEF IsPlain
  <2>2. Degraded(f) = [f EXCEPT !.severity = CapSeverity(f.severity, Medium),
                                !.confidence = (f.confidence \div 100) * 60]
    BY <1>2 DEF Degraded
  <2>3. Degraded(f) = Finding(kind, epochIndex, observers, CapSeverity(f.severity, Medium),
                              (f.confidence \div 100) * 60, {})
    BY <2>1, <2>2 DEF Finding
  <2> QED
    BY <2>3 DEF IsPlain
<1> QED
  BY <1>1, <1>2

LEMMA WeighedIsPlain ==
  ASSUME NEW ctx
  PROVE  ArePlain(Weighed(ctx))
  BY BaseIsPlain, DegradedIsPlain DEF ArePlain, Weighed

\* composite: what a finding of an epoch was made from is in the epoch.
LEMMA EpochIsClosed ==
  ASSUME NEW ctx, ctx.epochIndex # AllEpochs
  PROVE  IsClosed(EpochFindings(ctx))
<1> DEFINE prior == Weighed(ctx)
           kind == "composite_independence_risk"
           composite == Composite(ctx, prior)
           all == prior \cup Ran(kind, ctx.epochIndex, composite)
<1>1. EpochFindings(ctx) = all
  BY Zenon DEF EpochFindings
<1>2. ArePlain(prior)
  BY WeighedIsPlain
<1>3. CASE kind \in Broken
  <2>1. ArePlain(Ran(kind, ctx.epochIndex, composite))
    BY <1>3, Zenon DEF Ran, ArePlain, IsPlain
  <2>2. ArePlain(all)
    BY <1>2, <2>1 DEF ArePlain
  <2> QED
    BY <1>1, <2>2, PlainIsClosed
<1>4. CASE kind \notin Broken
  <2>1. all = prior \cup composite
    BY <1>4 DEF Ran
  <2>2. ASSUME NEW f \in prior
        PROVE  f.evidence = {}
    BY <1>2, PlainHasNoEvidence DEF ArePlain
  <2>3. ASSUME NEW f \in composite
        PROVE  /\ f.epochIndex = ctx.epochIndex
               /\ \A e \in f.evidence : e \in Ids(prior) /\ EpochOf(e) = ctx.epochIndex
    <3> DEFINE contributors == {g \in prior : /\ g.epochIndex = ctx.epochIndex
                                              /\ g.kind \in DOMAIN FamilyByKind}
    <3>1. PICK S, severity, confidence :
            f = Finding(kind, ctx.epochIndex, S, severity, confidence,
                        Ids(About(contributors, S)))
      BY Zenon DEF Composite
    <3>2. f.epochIndex = ctx.epochIndex /\ f.evidence = Ids(About(contributors, S))
      BY <3>1 DEF Finding
    <3> QED
      BY <3>2, EpochOfId DEF Ids, About
  <2> HIDE DEF prior, composite, all
  <2> QED
    BY <1>1, <2>1, <2>2, <2>3 DEF IsClosed, HasEvidenceOfItsEpoch, Ids
<1> QED
  BY <1>3, <1>4

\* persistent: what a finding about the window was made from is in the window.
LEMMA WindowIsClosed ==
  ASSUME NEW contexts, \A ctx \in contexts : ctx.epochIndex # AllEpochs
  PROVE  IsClosed(WindowFindings(contexts))
<1> DEFINE prior == UNION {EpochFindings(ctx) : ctx \in contexts}
           kind == "persistent_correlation"
           last == Max({ctx.epochIndex : ctx \in contexts})
           persistent == Persistent(prior)
<1>1. WindowFindings(contexts) = prior \cup Ran(kind, last, persistent)
  BY Zenon DEF WindowFindings
<1>2. IsClosed(prior)
  BY EpochIsClosed, UnionIsClosed
<1>3. CASE kind \in Broken
  <2>1. ArePlain(Ran(kind, last, persistent))
    BY <1>3, Zenon DEF Ran, ArePlain, IsPlain
  <2>2. IsClosed(Ran(kind, last, persistent))
    BY <2>1, PlainIsClosed
  <2> HIDE DEF prior, persistent, last, kind
  <2> QED
    BY <1>1, <1>2, <2>2 DEF IsClosed, Ids
<1>4. CASE kind \notin Broken
  <2>1. WindowFindings(contexts) = prior \cup persistent
    BY <1>1, <1>4 DEF Ran
  <2>2. ASSUME NEW f \in persistent
        PROVE  /\ f.epochIndex = AllEpochs
               /\ \A e \in f.evidence : e \in Ids(prior) /\ EpochOf(e) # AllEpochs
    <3> DEFINE contributors == {g \in prior : /\ g.epochIndex # AllEpochs
                                              /\ Cardinality(g.observers) >= 2}
    <3>1. PICK S, severity, confidence :
            f = Finding(kind, AllEpochs, S, severity, confidence, Ids(About(contributors, S)))
      BY Zenon DEF Persistent
    <3>2. f.epochIndex = AllEpochs /\ f.evidence = Ids(About(contributors, S))
      BY <3>1 DEF Finding
    <3> QED
      BY <3>2, EpochOfId DEF Ids, About
  <2> HIDE DEF prior, persistent
  <2> QED
    BY <1>2, <2>1, <2>2 DEF IsClosed, HasEvidenceOfItsEpoch, Ids
<1> QED
  BY <1>3, <1>4
-----------------------------------------------------------------------------
(***************************************************************************)
(* The inductive invariant.                                                *)
(***************************************************************************)
LEMMA RunsAreRecords ==
  ASSUME NEW r \in Runs, RunOK(r)
  PROVE  DOMAIN run[r] = {"pc", "config", "todo", "read", "rosterAt", "found"}
  BY DEF RunOK, Idle

LEMMA InitInv == Init => IInv
<1> SUFFICES ASSUME Init
             PROVE  IInv
  OBVIOUS
<1>2. PICK start \in Starts : InitFrom(start)
  BY DEF Init
<1> USE <1>2 DEF InitFrom
<1>1. DOMAIN table = {} /\ DOMAIN calibration = {} /\ calibration = <<>>
  BY DEF Nobody
<1>3. DOMAIN Done = DOMAIN Idle /\ Done.pc = "done" /\ Done.todo = {} /\ Done.read = Nobody
      /\ Done.rosterAt = 1 /\ Done.found = {}
  BY DEF Done, Idle
<1>4. ASSUME NEW r \in Runs
      PROVE  RunOK(r) /\ run[r].found = {}
  <2>1. run[r] = Done \/ run[r] = Idle
    BY <1>2
  <2>2. Idle.pc = "idle" /\ Idle.todo = {} /\ Idle.read = Nobody /\ Idle.rosterAt = 1 /\ Idle.found = {}
    BY DEF Idle
  <2> QED
    BY <2>1, <2>2, <1>3, ThereIsARoster DEF RunOK, Nobody
<1>5. TypeOK
  <2>1. DOMAIN obs = Epochs /\ \A e \in Epochs : DOMAIN obs[e] \subseteq Observers
    BY StoresHaveObservers
  <2>2. calibration \in Seq({calibration[i] : i \in DOMAIN calibration})
    BY <1>1
  <2>3. writes \in 0 .. MaxWrites
    BY WritesAreCounted
  <2>4. rosterAt \in DOMAIN Rosters
    BY StoresHaveObservers
  <2> QED
    BY <1>1, <1>2, <1>4, <2>1, <2>2, <2>3, <2>4 DEF TypeOK
<1>6. LinksMatch
  BY <1>1 DEF LinksMatch
<1>7. EvidenceIsOfItsEpoch /\ EvidenceIsStored
  BY <1>1 DEF EvidenceIsOfItsEpoch, EvidenceIsStored
<1>8. FoundIsClosed
  BY <1>4 DEF FoundIsClosed, IsClosed
<1> QED
  BY <1>5, <1>6, <1>7, <1>8 DEF IInv

\* What a step keeps that changes no run, and one that changes neither table of findings.
LEMMA RunsAreKept ==
  ASSUME IInv, UNCHANGED run
  PROVE  FoundIsClosed' /\ (DOMAIN run)' = Runs /\ \A r \in Runs : RunOK(r)'
  BY DEF IInv, TypeOK, RunOK, FoundIsClosed

LEMMA TablesAreKept ==
  ASSUME IInv, UNCHANGED <<table, links>>
  PROVE  LinksMatch' /\ EvidenceIsOfItsEpoch' /\ EvidenceIsStored'
  BY DEF IInv, LinksMatch, EvidenceIsOfItsEpoch, EvidenceIsStored

\* The parts of TypeOK about what is stored.
StoresOK ==
  /\ DOMAIN obs = Epochs /\ \A e \in Epochs : DOMAIN obs[e] \subseteq Observers
  /\ rosterAt \in DOMAIN Rosters
  /\ calibration \in Seq({calibration[i] : i \in DOMAIN calibration})
  /\ \A i \in DOMAIN calibration :
       calibration[i].active \in BOOLEAN /\ calibration[i].separates \in {"undetermined", "yes", "no"}

TableOK ==
  /\ writes \in 0 .. MaxWrites
  /\ \A id \in DOMAIN table : Id(table[id].finding) = id /\ table[id].firstSeen \in 1 .. writes

LEMMA TypeParts ==
  /\ TypeOK <=> StoresOK /\ TableOK /\ DOMAIN run = Runs /\ \A r \in Runs : RunOK(r)
  /\ TypeOK' <=> StoresOK' /\ TableOK' /\ (DOMAIN run)' = Runs /\ \A r \in Runs : RunOK(r)'
  BY DEF TypeOK, StoresOK, TableOK

LEMMA CaptureStep ==
  ASSUME IInv, NEW s \in Submissions, Capture(s[1], s[2], s[3])
  PROVE  IInv'
<1>1. StoresOK'
  <2>1. s[1] \in Epochs /\ s[2] \in Observers
    BY SubmissionsHaveObservers
  <2>2. DOMAIN obs = Epochs /\ \A e \in Epochs : DOMAIN obs[e] \subseteq Observers
    BY DEF IInv, TypeOK
  <2>3. obs' = [obs EXCEPT ![s[1]] = With(obs[s[1]], s[2], s[3])]
    BY DEF Capture
  <2>4. DOMAIN With(obs[s[1]], s[2], s[3]) = {s[2]} \cup DOMAIN obs[s[1]]
    BY DEF With
  <2>5. DOMAIN obs' = Epochs /\ \A e \in Epochs : DOMAIN obs'[e] \subseteq Observers
    BY <2>1, <2>2, <2>3, <2>4
  <2> QED
    BY <2>5 DEF IInv, TypeOK, StoresOK, Capture
<1>2. TableOK'
  BY DEF IInv, TypeOK, TableOK, Capture
<1> QED
  BY <1>1, <1>2, RunsAreKept, TablesAreKept, TypeParts DEF Capture, IInv

LEMMA RosterStep ==
  ASSUME IInv, RosterChanges
  PROVE  IInv'
<1>1. StoresOK' /\ TableOK'
  BY DEF IInv, TypeOK, StoresOK, TableOK, RosterChanges
<1> QED
  BY <1>1, RunsAreKept, TablesAreKept, TypeParts DEF RosterChanges, IInv

LEMMA CalibrateStep ==
  ASSUME IInv, Calibrate
  PROVE  IInv'
<1> DEFINE row == Measured(obs, Rosters[rosterAt].gateways)
           rows == {calibration[i] : i \in DOMAIN calibration}
<1>1. row.active \in BOOLEAN /\ row.separates \in {"undetermined", "yes", "no"}
  BY Zenon DEF Measured, Separates
<1>2. calibration' = Append(calibration, row)
  BY DEF Calibrate
<1>3. calibration \in Seq(rows)
  BY DEF IInv, TypeOK
<1> HIDE DEF row
<1>4. /\ DOMAIN calibration = 1 .. Len(calibration) /\ Len(calibration) \in Nat
      /\ DOMAIN calibration' = 1 .. Len(calibration) + 1
      /\ \A i \in DOMAIN calibration : calibration'[i] = calibration[i]
      /\ calibration'[Len(calibration) + 1] = row
  BY <1>2, <1>3
<1>5. calibration' \in Seq({calibration'[i] : i \in DOMAIN calibration'})
  <2>1. calibration' \in Seq(rows \cup {row})
    BY <1>2, <1>3
  <2>2. rows \cup {row} \subseteq {calibration'[i] : i \in DOMAIN calibration'}
    BY <1>4
  <2> QED
    BY <2>1, <2>2
<1>6. StoresOK'
  BY <1>1, <1>4, <1>5 DEF IInv, TypeOK, StoresOK, Calibrate
<1>7. TableOK'
  BY DEF IInv, TypeOK, TableOK, Calibrate
<1> QED
  BY <1>6, <1>7, RunsAreKept, TablesAreKept, TypeParts DEF Calibrate, IInv

LEMMA ActivateStep ==
  ASSUME IInv, NEW k \in DOMAIN calibration, NEW force \in BOOLEAN, Activate(k, force)
  PROVE  IInv'
<1> DEFINE rows == {calibration[i] : i \in DOMAIN calibration}
           row(i) == [calibration[i] EXCEPT !.active = (i = k)]
<1>1. calibration' = [i \in DOMAIN calibration |-> row(i)]
  BY DEF Activate
<1>2. calibration \in Seq(rows)
  BY DEF IInv, TypeOK
<1>3. DOMAIN calibration = 1 .. Len(calibration) /\ Len(calibration) \in Nat
  BY <1>2
<1>4. calibration' \in Seq({calibration'[i] : i \in DOMAIN calibration'})
  BY <1>1, <1>3
<1>5. ASSUME NEW i \in DOMAIN calibration
      PROVE  row(i).active \in BOOLEAN /\ row(i).separates \in {"undetermined", "yes", "no"}
  BY DEF IInv, TypeOK
<1>6. StoresOK'
  BY <1>1, <1>4, <1>5 DEF IInv, TypeOK, StoresOK, Activate
<1>7. TableOK'
  BY DEF IInv, TypeOK, TableOK, Activate
<1> QED
  BY <1>6, <1>7, RunsAreKept, TablesAreKept, TypeParts DEF Activate, IInv
-----------------------------------------------------------------------------
(***************************************************************************)
(* The steps of a run.                                                     *)
(***************************************************************************)
\* A step of r that changes nothing but what r has read keeps the invariant if it keeps
\* what is said of r.
LEMMA ReadingStep ==
  ASSUME IInv, NEW r \in Runs, NEW new,
         run' = [run EXCEPT ![r] = new],
         UNCHANGED <<obs, rosterAt, calibration, table, links, writes>>,
         RunOK(r)', IsClosed(new.found)
  PROVE  IInv'
<1>1. StoresOK' /\ TableOK'
  BY DEF IInv, TypeOK, StoresOK, TableOK
<1>2. DOMAIN run = Runs /\ \A q \in Runs : RunOK(q)
  BY DEF IInv, TypeOK
<1>3. /\ DOMAIN run' = Runs
      /\ run'[r] = new
      /\ \A q \in Runs : q # r => run'[q] = run[q]
  BY <1>2
<1>4. \A q \in Runs : RunOK(q)'
  BY <1>2, <1>3 DEF RunOK
<1>5. FoundIsClosed'
  BY <1>3 DEF IInv, FoundIsClosed
<1> QED
  BY <1>1, <1>3, <1>4, <1>5, TablesAreKept, TypeParts DEF IInv

LEMMA NothingIsClosed == IsClosed({})
  BY DEF IsClosed

LEMMA EndedHas ==
  ASSUME NEW r
  PROVE  /\ DOMAIN Ended(r) = DOMAIN Idle
         /\ Ended(r).pc \in {"idle", "done"}
         /\ Ended(r).todo = {} /\ DOMAIN Ended(r).read = {}
         /\ Ended(r).rosterAt = 1 /\ Ended(r).found = {}
  BY DEF Ended, Done, Idle, Nobody

LEMMA BeginStep ==
  ASSUME IInv, NEW r \in Runs, Begin(r)
  PROVE  IInv'
<1> DEFINE new == [Idle EXCEPT !.pc = "list", !.config = ActiveCalibration]
<1>1. run' = [run EXCEPT ![r] = new]
  BY DEF Begin
<1>2. /\ DOMAIN new = DOMAIN Idle /\ new.pc = "list" /\ new.todo = {} /\ DOMAIN new.read = {}
      /\ new.rosterAt = 1 /\ new.found = {}
  BY DEF Idle, Nobody
<1> HIDE DEF new
<1>3. run'[r] = new
  BY <1>1 DEF IInv, TypeOK
<1>4. RunOK(r)'
  BY <1>2, <1>3, ThereIsARoster DEF RunOK
<1>5. IsClosed(new.found)
  BY <1>2, NothingIsClosed
<1> QED
  BY <1>1, <1>4, <1>5, ReadingStep DEF Begin

LEMMA ListStep ==
  ASSUME IInv, NEW r \in Runs, List(r)
  PROVE  IInv'
<1>1. CASE Known(obs) = {}
  <2>1. run' = [run EXCEPT ![r] = Ended(r)]
    BY <1>1 DEF List
  <2>2. run'[r] = Ended(r)
    BY <2>1 DEF IInv, TypeOK
  <2>3. RunOK(r)'
    BY <2>2, EndedHas, ThereIsARoster DEF RunOK
  <2>4. IsClosed(Ended(r).found)
    BY EndedHas, NothingIsClosed
  <2>5. UNCHANGED <<obs, rosterAt, calibration, table, links, writes>>
    BY DEF List
  <2> QED
    BY <2>1, <2>3, <2>4, <2>5, ReadingStep
<1>2. CASE Known(obs) # {}
  <2> DEFINE todo == IF r = "backfill" THEN Known(obs) ELSE InWindow(Known(obs))
             new == [run[r] EXCEPT !.pc = "read", !.todo = todo]
  <2>1. run' = [run EXCEPT ![r] = new]
    BY <1>2 DEF List
  <2>2. todo \subseteq Epochs
    BY DEF Known, InWindow
  <2> HIDE DEF todo
  <2>3. RunOK(r) /\ run[r].found = {} /\ IsClosed(run[r].found)
    <3>1. RunOK(r) /\ IsClosed(run[r].found)
      BY DEF IInv, TypeOK, FoundIsClosed
    <3>2. run[r].pc # "write"
      BY DEF List
    <3> QED
      BY <3>1, <3>2 DEF RunOK
  <2>4. /\ DOMAIN new = DOMAIN Idle /\ new.pc = "read" /\ new.todo = todo
        /\ new.read = run[r].read /\ new.rosterAt = run[r].rosterAt /\ new.found = run[r].found
    BY <2>3, RunsAreRecords DEF RunOK
  <2> HIDE DEF new
  <2>5. run'[r] = new
    BY <2>1 DEF IInv, TypeOK
  <2>6. RunOK(r)'
    BY <2>2, <2>3, <2>4, <2>5 DEF RunOK
  <2> QED
    BY <2>1, <2>3, <2>4, <2>6, ReadingStep DEF List
<1> QED
  BY <1>1, <1>2

\* The next epoch is one of those that are left.
LEMMA MinIsLeft ==
  ASSUME NEW S \in SUBSET Nat, S # {}
  PROVE  Min(S) \in S /\ \A n \in S : Min(S) <= n
<1> DEFINE below == {0 .. x : x \in S}
<1>1. below \subseteq FiniteSubsetsOf(Nat) /\ below # {}
  <2>1. ASSUME NEW x \in S
        PROVE  0 .. x \in FiniteSubsetsOf(Nat)
    <3>1. x \in Int /\ 0 .. x \in SUBSET Nat
      OBVIOUS
    <3>2. IsFiniteSet(0 .. x)
      BY <3>1, FS_Interval
    <3> QED
      BY <3>1, <3>2 DEF FiniteSubsetsOf
  <2> QED
    BY <2>1
<1>2. PICK least \in below : \A other \in below : <<other, least>> \notin StrictSubsetOrdering(Nat)
  BY <1>1, FS_StrictSubsetOrderingWellFounded, WFMin, Zenon
<1>3. PICK x \in S : least = 0 .. x
  BY <1>2
<1>4. ASSUME NEW y \in S
      PROVE  x <= y
  <2>1. SUFFICES ASSUME y < x
                 PROVE  FALSE
    OBVIOUS
  <2>2. 0 .. y \in below /\ 0 .. y \in SUBSET Nat /\ 0 .. x \in SUBSET Nat
    OBVIOUS
  <2>3. 0 .. y \subseteq 0 .. x /\ x \in 0 .. x /\ x \notin 0 .. y
    BY <2>1
  <2> QED
    BY <1>2, <1>3, <2>2, <2>3 DEF StrictSubsetOrdering
<1> QED
  BY <1>4 DEF Min

LEMMA ReadEpochStep ==
  ASSUME IInv, NEW r \in Runs, ReadEpoch(r)
  PROVE  IInv'
<1> DEFINE e == Min(run[r].todo)
           read == With(run[r].read, e, obs[e])
           new == [run[r] EXCEPT !.todo = run[r].todo \ {e}, !.read = read]
<1>1. RunOK(r) /\ IsClosed(run[r].found) /\ DOMAIN run = Runs
  BY DEF IInv, TypeOK, FoundIsClosed
<1>2. run[r].pc = "read" /\ run[r].todo # {}
  BY DEF ReadEpoch
<1>3. e \in run[r].todo
  BY <1>1, <1>2, EpochsAreNat, MinIsLeft DEF RunOK
<1>4. run' = [run EXCEPT ![r].todo = run[r].todo \ {e}, ![r].read = read]
  BY DEF ReadEpoch
<1> HIDE DEF e
<1>5. DOMAIN read = {e} \cup DOMAIN run[r].read
  BY DEF With
<1> HIDE DEF read
<1>6. run' = [run EXCEPT ![r] = new]
  BY <1>1, <1>4, RunsAreRecords
<1>7. /\ DOMAIN new = DOMAIN Idle /\ new.pc = "read" /\ new.todo = run[r].todo \ {e}
      /\ new.read = read /\ new.rosterAt = run[r].rosterAt /\ new.found = run[r].found
  BY <1>1, <1>2, RunsAreRecords DEF RunOK
<1>8. run[r].found = {}
  BY <1>1, <1>2 DEF RunOK
<1> HIDE DEF new
<1>9. run'[r] = new
  BY <1>1, <1>6
<1>10. RunOK(r)'
  BY <1>1, <1>3, <1>5, <1>7, <1>8, <1>9 DEF RunOK
<1> QED
  BY <1>1, <1>6, <1>7, <1>10, ReadingStep DEF ReadEpoch

LEMMA DetectStep ==
  ASSUME IInv, NEW r \in Runs, Detect(r)
  PROVE  IInv'
<1> DEFINE contexts == Contexts(run[r].read, run[r].config)
           found == WindowFindings(contexts)
           new == [run[r] EXCEPT !.pc = "write", !.rosterAt = rosterAt, !.found = found]
<1>1. RunOK(r) /\ DOMAIN run = Runs /\ rosterAt \in DOMAIN Rosters
  BY DEF IInv, TypeOK
<1>2. run[r].pc = "read" /\ run[r].todo = {}
  BY DEF Detect, IsDetecting
<1>3. \A ctx \in contexts : ctx.epochIndex \in DOMAIN run[r].read
  BY DEF Contexts, Context
<1>4. \A ctx \in contexts : ctx.epochIndex # AllEpochs
  BY <1>1, <1>3, EpochsAreNat, AllEpochsIsNoEpoch DEF RunOK
<1> HIDE DEF contexts
<1>5. IsClosed(found)
  BY <1>4, WindowIsClosed
<1>6. run' = [run EXCEPT ![r].pc = "write", ![r].rosterAt = rosterAt, ![r].found = found]
  BY DEF Detect, contexts
<1> HIDE DEF found
<1>7. run' = [run EXCEPT ![r] = new]
  BY <1>1, <1>6, RunsAreRecords
<1>8. /\ DOMAIN new = DOMAIN Idle /\ new.pc = "write" /\ new.todo = {}
      /\ new.read = run[r].read /\ new.rosterAt = rosterAt /\ new.found = found
  BY <1>1, <1>2, RunsAreRecords DEF RunOK
<1> HIDE DEF new
<1>9. run'[r] = new
  BY <1>1, <1>7
<1>10. RunOK(r)'
  <2>1. UNCHANGED rosterAt
    BY DEF Detect
  <2> QED
    BY <1>1, <1>8, <1>9, <2>1 DEF RunOK
<1> QED
  BY <1>5, <1>7, <1>8, <1>10, ReadingStep DEF Detect
-----------------------------------------------------------------------------
(***************************************************************************)
(* upsertFindings.                                                         *)
(***************************************************************************)
\* The row of an id that was found.
Row(r, id) == [finding |-> CHOOSE f \in run[r].found : Id(f) = id, firstSeen |-> FirstSeen(id, writes')]

Kept(r) == {i \in DOMAIN table : Stays(i, DOMAIN run[r].read)}

\* The tables after the transaction.
LEMMA Upserted ==
  ASSUME NEW r \in Runs, Upsert(r)
  PROVE  /\ DOMAIN table' = Kept(r) \cup Ids(run[r].found)
         /\ \A id \in Ids(run[r].found) : table'[id] = Row(r, id)
         /\ \A id \in Kept(r) \ Ids(run[r].found) : table'[id] = table[id]
         /\ links' = {l \in links : Stays(l[1], DOMAIN run[r].read)}
                       \cup UNION {{Id(f)} \X f.observers : f \in run[r].found}
         /\ writes' = Smaller(writes + 1, MaxWrites)
  BY DEF Upsert, Kept, Row

LEMMA RowIsFound ==
  ASSUME NEW r \in Runs, NEW id \in Ids(run[r].found)
  PROVE  /\ Row(r, id).finding \in run[r].found
         /\ Id(Row(r, id).finding) = id
  BY DEF Ids, Row

\* The clock does not go back, and a row has the time of a write that was.
LEMMA TimesAreOfWrites ==
  ASSUME IInv, NEW r \in Runs, Upsert(r)
  PROVE  TableOK'
<1>1. writes \in 0 .. MaxWrites /\ MaxWrites \in Nat \ {0}
  BY WritesAreCounted DEF IInv, TypeOK
<1>2. writes' \in 1 .. MaxWrites /\ writes <= writes'
  <2>1. writes' = Smaller(writes + 1, MaxWrites)
    BY Upserted
  <2> QED
    BY <1>1, <2>1 DEF Smaller
<1>3. ASSUME NEW id \in DOMAIN table
      PROVE  Id(table[id].finding) = id /\ table[id].firstSeen \in 1 .. writes'
  BY <1>1, <1>2 DEF IInv, TypeOK
<1>4. ASSUME NEW id \in DOMAIN table'
      PROVE  Id(table'[id].finding) = id /\ table'[id].firstSeen \in 1 .. writes'
  <2>1. CASE id \in Ids(run[r].found)
    <3>1. Row(r, id).firstSeen \in 1 .. writes'
      <4>1. Row(r, id).firstSeen = FirstSeen(id, writes')
        BY DEF Row
      <4> QED
        BY <1>2, <1>3, <4>1 DEF FirstSeen
    <3> QED
      BY <2>1, <3>1, Upserted, RowIsFound
  <2>2. CASE id \notin Ids(run[r].found)
    <3>1. id \in Kept(r)
      BY <2>2, Upserted
    <3>2. table'[id] = table[id] /\ id \in DOMAIN table
      BY <2>2, <3>1, Upserted DEF Kept
    <3> QED
      BY <1>3, <3>2
  <2> QED
    BY <2>1, <2>2
<1> QED
  BY <1>2, <1>4 DEF TableOK

\* finding_observers follows.
LEMMA LinksFollow ==
  ASSUME IInv, NEW r \in Runs, Upsert(r)
  PROVE  LinksMatch'
<1> DEFINE found == run[r].found
           scope == DOMAIN run[r].read
<1>1. \A id \in DOMAIN table : table[id].finding.observers = id[3]
  BY EpochOfId DEF IInv, TypeOK
<1>2. links = UNION {{id} \X id[3] : id \in DOMAIN table}
  BY <1>1 DEF IInv, LinksMatch
<1>3. \A id \in DOMAIN table' : table'[id].finding.observers = id[3]
  BY TimesAreOfWrites, EpochOfId DEF TableOK
<1>4. {l \in links : Stays(l[1], scope)} = UNION {{id} \X id[3] : id \in Kept(r)}
  BY <1>2 DEF Kept
<1>5. UNION {{Id(f)} \X f.observers : f \in found} = UNION {{id} \X id[3] : id \in Ids(found)}
  BY EpochOfId DEF Ids
<1>6. links' = UNION {{id} \X id[3] : id \in DOMAIN table'}
  <2> DEFINE ofKept == UNION {{id} \X id[3] : id \in Kept(r)}
             ofFound == UNION {{id} \X id[3] : id \in Ids(found)}
  <2>1. links' = ofKept \cup ofFound
    BY <1>4, <1>5, Upserted
  <2>2. DOMAIN table' = Kept(r) \cup Ids(found)
    BY Upserted
  <2>3. ofKept \cup ofFound = UNION {{id} \X id[3] : id \in Kept(r) \cup Ids(found)}
    OBVIOUS
  <2> QED
    BY <2>1, <2>2, <2>3
<1> QED
  BY <1>3, <1>6 DEF LinksMatch

\* Of an epoch that stays all stays, and what is inserted brings its evidence along.
LEMMA EvidenceFollows ==
  ASSUME IInv, NEW r \in Runs, Upsert(r)
  PROVE  EvidenceIsOfItsEpoch' /\ EvidenceIsStored'
<1>1. IsClosed(run[r].found)
  BY DEF IInv, FoundIsClosed
<1>2. ASSUME NEW id \in DOMAIN table'
      PROVE  HasEvidenceOfItsEpoch(table'[id].finding) /\ table'[id].finding.evidence \subseteq DOMAIN table'
  <2>1. CASE id \in Ids(run[r].found)
    <3>1. table'[id].finding \in run[r].found
      BY <2>1, Upserted, RowIsFound
    <3> QED
      BY <1>1, <3>1, Upserted DEF IsClosed
  <2>2. CASE id \notin Ids(run[r].found)
    <3>1. id \in Kept(r) /\ id \in DOMAIN table /\ table'[id] = table[id]
      BY <2>2, Upserted DEF Kept
    <3>2. /\ HasEvidenceOfItsEpoch(table[id].finding)
          /\ table[id].finding.evidence \subseteq DOMAIN table
          /\ table[id].finding.epochIndex = EpochOf(id)
      BY <3>1, EpochOfId DEF IInv, TypeOK, EvidenceIsOfItsEpoch, EvidenceIsStored
    <3>3. ASSUME NEW e \in table[id].finding.evidence
          PROVE  e \in Kept(r)
      <4>1. EpochOf(e) = EpochOf(id) /\ e \in DOMAIN table
        BY <3>1, <3>2 DEF HasEvidenceOfItsEpoch, Kept, Stays
      <4> QED
        BY <3>1, <4>1 DEF Kept, Stays
    <3> QED
      BY <3>1, <3>2, <3>3, Upserted
  <2> QED
    BY <2>1, <2>2
<1> QED
  BY <1>2 DEF EvidenceIsOfItsEpoch, EvidenceIsStored, HasEvidenceOfItsEpoch

LEMMA UpsertStep ==
  ASSUME IInv, NEW r \in Runs, Upsert(r)
  PROVE  IInv'
<1>1. /\ run' = [run EXCEPT ![r] = Ended(r)]
      /\ UNCHANGED <<obs, rosterAt, calibration>>
  BY DEF Upsert
<1>2. StoresOK'
  BY <1>1 DEF IInv, TypeOK, StoresOK
<1>3. DOMAIN run = Runs /\ \A q \in Runs : RunOK(q)
  BY DEF IInv, TypeOK
<1>4. /\ DOMAIN run' = Runs
      /\ run'[r] = Ended(r)
      /\ \A q \in Runs : q # r => run'[q] = run[q]
  BY <1>1, <1>3
<1>5. \A q \in Runs : RunOK(q)'
  <2>1. RunOK(r)'
    BY <1>1, <1>4, EndedHas, ThereIsARoster DEF RunOK
  <2>2. ASSUME NEW q \in Runs, q # r
        PROVE  RunOK(q)'
    BY <1>3, <1>4, <2>2 DEF RunOK
  <2> QED
    BY <2>1, <2>2
<1>6. FoundIsClosed'
  <2>1. IsClosed(Ended(r).found)
    BY EndedHas, NothingIsClosed
  <2> QED
    BY <1>4, <2>1 DEF IInv, FoundIsClosed
<1> QED
  BY <1>2, <1>4, <1>5, <1>6, TimesAreOfWrites, LinksFollow, EvidenceFollows, TypeParts DEF IInv
-----------------------------------------------------------------------------
(***************************************************************************)
(* The theorems.                                                           *)
(***************************************************************************)
LEMMA NextInv == IInv /\ [Next]_vars => IInv'
<1> SUFFICES ASSUME IInv, [Next]_vars
             PROVE  IInv'
  OBVIOUS
<1>1. CASE \E s \in Submissions : Capture(s[1], s[2], s[3])
  BY <1>1, CaptureStep
<1>2. CASE RosterChanges
  BY <1>2, RosterStep
<1>3. CASE Calibrate
  BY <1>3, CalibrateStep
<1>4. CASE \E i \in DOMAIN calibration, force \in BOOLEAN : Activate(i, force)
  BY <1>4, ActivateStep
<1>5. ASSUME NEW r \in Runs, Step(r)
      PROVE  IInv'
  BY <1>5, BeginStep, ListStep, ReadEpochStep, DetectStep, UpsertStep DEF Step
<1>6. CASE UNCHANGED vars
  <2>1. UNCHANGED <<obs, rosterAt, calibration, writes, table, links, run>>
    BY <1>6 DEF vars
  <2>2. StoresOK' /\ TableOK'
    BY <2>1 DEF IInv, TypeOK, StoresOK, TableOK
  <2> QED
    BY <2>1, <2>2, RunsAreKept, TablesAreKept, TypeParts DEF IInv
<1> QED
  BY <1>1, <1>2, <1>3, <1>4, <1>5, <1>6 DEF Next

\* Whatever windows the cadence and the backfill look at, whatever they find and however their
\* reads and writes are interleaved with each other and with the capture: the rows of
\* finding_observers are those of the findings, and a finding's evidence is in the table
\* (upsertFindings).
THEOREM Invariance == Spec => []IInv
<1>1. Init => IInv
  BY InitInv
<1>2. IInv /\ [Next]_vars => IInv'
  BY NextInv
<1> QED
  BY <1>1, <1>2, PTL DEF Spec

\* A finding that is found again has the time it was first seen at, whichever run finds it
\* (upsertFindings).
THEOREM FirstSeenTimesAreKept == Spec => FirstSeenIsKept
<1>1. ASSUME [Next]_vars
      PROVE  [\A id \in DOMAIN table \cap DOMAIN table' :
                table'[id].firstSeen = table[id].firstSeen]_vars
  <2>1. ASSUME NEW r \in Runs, Upsert(r), NEW id \in DOMAIN table, id \in DOMAIN table'
        PROVE  table'[id].firstSeen = table[id].firstSeen
    <3>1. CASE id \in Ids(run[r].found)
      <4>1. table'[id] = Row(r, id)
        BY <2>1, <3>1, Upserted
      <4> QED
        BY <2>1, <4>1 DEF Row, FirstSeen
    <3>2. CASE id \notin Ids(run[r].found)
      BY <2>1, <3>2, Upserted
    <3> QED
      BY <3>1, <3>2
  <2>2. ASSUME ~ \E r \in Runs : Upsert(r)
        PROVE  UNCHANGED table
    BY <1>1, <2>2 DEF Next, Step, Capture, RosterChanges, Calibrate, Activate, Begin, List,
                      ReadEpoch, Detect, vars
  <2> QED
    BY <2>1, <2>2
<1> QED
  BY <1>1, PTL DEF Spec, FirstSeenIsKept
-----------------------------------------------------------------------------
(***************************************************************************)
(* The documents.                                                          *)
(***************************************************************************)
\* Runs that publish what they found are runs: a publish leaves the tables alone.
THEOREM DocumentsImplementFindings == DocumentsSpec => Spec
<1>1. DocumentsInit => Init
  BY DEF DocumentsInit, Init
<1>2. [DocumentsNext]_<<vars, documentVars>> => [Next]_vars
  BY DEF DocumentsNext, Elsewhere, RunStep, Publish, Next
<1> QED
  BY <1>1, <1>2, PTL DEF DocumentsSpec, Spec

\* So evidence and links lead to rows that are there also while documents are published.
THEOREM PublishingKeepsTheTables == DocumentsSpec => []IInv
BY DocumentsImplementFindings, Invariance, PTL

-----------------------------------------------------------------------------
(***************************************************************************)
(* What a run publishes is sound: its findings are of the epochs it read,  *)
(* and shared_report_tx names whoever shares a report.                     *)
(***************************************************************************)
IsNamedIn(findings, e, o) ==
  \E f \in findings : f.epochIndex = e /\ f.kind = "shared_report_tx" /\ o \in f.observers

IsSound(source) ==
  /\ DOMAIN source.read \subseteq Epochs
  /\ \A e \in DOMAIN source.read : DOMAIN source.read[e] \subseteq Observers
  /\ \A f \in source.found : f.epochIndex \in {AllEpochs} \cup DOMAIN source.read
  /\ "shared_report_tx" \notin Broken =>
       \A e \in DOMAIN source.read : \A o \in DOMAIN source.read[e] :
         IsNamedIn(source.found, e, o) <=> SharesReport(source.read[e], o)

\* Findings of one kind and epoch.
AreOf(findings, kind, epochIndex) ==
  \A f \in findings : \E observers, severity, confidence, evidence :
    f = Finding(kind, epochIndex, observers, severity, confidence, evidence)

LEMMA FieldsOfFindings ==
  ASSUME NEW findings, NEW kind, NEW epochIndex, AreOf(findings, kind, epochIndex)
  PROVE  \A f \in findings : f.kind = kind /\ f.epochIndex = epochIndex
  BY DEF AreOf, Finding

\* The findings of an epoch are of it, and those of this kind are its detector's.
AreOfEpoch(findings, ctx) ==
  \A f \in findings :
    /\ f.epochIndex = ctx.epochIndex
    /\ "shared_report_tx" \notin Broken /\ f.kind = "shared_report_tx" => f \in SharedReportTx(ctx)

LEMMA RanIsOfEpoch ==
  ASSUME NEW ctx, NEW kind, NEW found,
         AreOf(found, kind, ctx.epochIndex), kind # "shared_report_tx"
  PROVE  AreOfEpoch(Ran(kind, ctx.epochIndex, found), ctx)
<1>1. CASE kind \in Broken
  <2>1. ASSUME NEW f \in Ran(kind, ctx.epochIndex, found)
        PROVE  f.kind = "detector_error" /\ f.epochIndex = ctx.epochIndex
    BY <1>1 DEF Ran, Finding
  <2> QED
    BY <2>1 DEF AreOfEpoch
<1>2. CASE kind \notin Broken
  BY <1>2, FieldsOfFindings DEF Ran, AreOfEpoch
<1> QED
  BY <1>1, <1>2

LEMMA SharedReportTxIsOfKind ==
  ASSUME NEW ctx
  PROVE  AreOf(SharedReportTx(ctx), "shared_report_tx", ctx.epochIndex)
  BY Zenon DEF AreOf, SharedReportTx

LEMMA SharedReportTxIsOfEpoch ==
  ASSUME NEW ctx
  PROVE  AreOfEpoch(Ran("shared_report_tx", ctx.epochIndex, SharedReportTx(ctx)), ctx)
<1>1. AreOf(SharedReportTx(ctx), "shared_report_tx", ctx.epochIndex)
  BY SharedReportTxIsOfKind
<1>2. CASE "shared_report_tx" \in Broken
  <2>1. ASSUME NEW f \in Ran("shared_report_tx", ctx.epochIndex, SharedReportTx(ctx))
        PROVE  f.epochIndex = ctx.epochIndex
    BY <1>2 DEF Ran, Finding
  <2> QED
    BY <1>2, <2>1 DEF AreOfEpoch
<1>3. CASE "shared_report_tx" \notin Broken
  BY <1>1, <1>3, FieldsOfFindings DEF Ran, AreOfEpoch
<1> QED
  BY <1>2, <1>3

LEMMA BaseIsOfEpoch ==
  ASSUME NEW ctx
  PROVE  AreOfEpoch(Base(ctx), ctx)
<1> DEFINE Run(kind, found) == Ran(kind, ctx.epochIndex, found)
<1>1. AreOfEpoch(Run("identical_results", IdenticalResults(ctx)), ctx)
  <2>1. AreOf(IdenticalResults(ctx), "identical_results", ctx.epochIndex)
    BY Zenon DEF AreOf, IdenticalResults
  <2> QED
    BY <2>1, RanIsOfEpoch
<1>2. AreOfEpoch(Run("near_identical_results", NearIdenticalResults(ctx)), ctx)
  <2>1. AreOf(NearIdenticalResults(ctx), "near_identical_results", ctx.epochIndex)
    BY Zenon DEF AreOf, NearIdenticalResults
  <2> QED
    BY <2>1, RanIsOfEpoch
<1>3. AreOfEpoch(Run("co_submission_timing", CoSubmissionTiming(ctx)), ctx)
  <2>1. AreOf(CoSubmissionTiming(ctx), "co_submission_timing", ctx.epochIndex)
    BY Zenon DEF AreOf, CoSubmissionTiming
  <2> QED
    BY <2>1, RanIsOfEpoch
<1>4. AreOfEpoch(Run("shared_ip", SharedIp(ctx)), ctx)
  <2>1. AreOf(SharedIp(ctx), "shared_ip", ctx.epochIndex)
    BY Zenon DEF AreOf, SharedIp
  <2> QED
    BY <2>1, RanIsOfEpoch
<1>5. AreOfEpoch(Run("shared_ip_range", SharedIpRange(ctx)), ctx)
  <2>1. AreOf(SharedIpRange(ctx), "shared_ip_range", ctx.epochIndex)
    BY Zenon DEF AreOf, SharedIpRange
  <2> QED
    BY <2>1, RanIsOfEpoch
<1>6. AreOfEpoch(Run("shared_base_domain", SharedBaseDomain(ctx)), ctx)
  <2>1. AreOf(SharedBaseDomain(ctx), "shared_base_domain", ctx.epochIndex)
    BY Zenon DEF AreOf, SharedBaseDomain
  <2> QED
    BY <2>1, RanIsOfEpoch
<1>7. AreOfEpoch(Run("shared_asn", SharedAsn(ctx)), ctx)
  <2>1. AreOf(SharedAsn(ctx), "shared_asn", ctx.epochIndex)
    BY Zenon DEF AreOf, SharedAsn
  <2> QED
    BY <2>1, RanIsOfEpoch
<1>8. AreOfEpoch(Run("analyzer_cluster_overlap", ClusterOverlap(ctx)), ctx)
  <2>1. AreOf(ClusterOverlap(ctx), "analyzer_cluster_overlap", ctx.epochIndex)
    BY Zenon DEF AreOf, ClusterOverlap
  <2> QED
    BY <2>1, RanIsOfEpoch
<1>9. AreOfEpoch(Run("unmatched_observer", UnmatchedObserver(ctx)), ctx)
  <2>1. AreOf(UnmatchedObserver(ctx), "unmatched_observer", ctx.epochIndex)
    BY Zenon DEF AreOf, UnmatchedObserver
  <2> QED
    BY <2>1, RanIsOfEpoch
<1>10. AreOfEpoch(Run("divergent_assessment", DivergentAssessment(ctx)), ctx)
  <2>1. AreOf(DivergentAssessment(ctx), "divergent_assessment", ctx.epochIndex)
    BY Zenon DEF AreOf, DivergentAssessment
  <2> QED
    BY <2>1, RanIsOfEpoch
<1>11. ASSUME NEW S, NEW T, AreOfEpoch(S, ctx), AreOfEpoch(T, ctx)
       PROVE  AreOfEpoch(S \cup T, ctx)
  BY <1>11 DEF AreOfEpoch
<1> QED
  BY <1>1, <1>2, <1>3, <1>4, <1>5, <1>6, <1>7, <1>8, <1>9, <1>10, <1>11,
     SharedReportTxIsOfEpoch DEF Base

\* degrade leaves a finding its kind and its epoch, and this kind as it is.
LEMMA WeighedIsOfEpoch ==
  ASSUME NEW ctx
  PROVE  AreOfEpoch(Weighed(ctx), ctx)
<1>1. ASSUME NEW f \in Base(ctx)
      PROVE  /\ Degraded(f).epochIndex = ctx.epochIndex
             /\ "shared_report_tx" \notin Broken /\ Degraded(f).kind = "shared_report_tx"
                  => Degraded(f) \in SharedReportTx(ctx)
  <2>1. CASE f.kind \notin GatewayDependentKinds
    BY <2>1, BaseIsOfEpoch DEF Degraded, AreOfEpoch
  <2>2. CASE f.kind \in GatewayDependentKinds
    <3>1. IsPlain(f)
      BY BaseIsPlain DEF ArePlain
    <3>2. Degraded(f).kind = f.kind /\ Degraded(f).epochIndex = f.epochIndex
      BY <2>2, <3>1 DEF Degraded, IsPlain, Finding
    <3>3. f.kind # "shared_report_tx"
      BY <2>2 DEF GatewayDependentKinds
    <3> QED
      BY <3>2, <3>3, BaseIsOfEpoch DEF AreOfEpoch
  <2> QED
    BY <2>1, <2>2
<1> QED
  BY <1>1, BaseIsOfEpoch DEF Weighed, AreOfEpoch

LEMMA EpochIsOfEpoch ==
  ASSUME NEW ctx
  PROVE  AreOfEpoch(EpochFindings(ctx), ctx)
<1> DEFINE prior == Weighed(ctx)
           kind == "composite_independence_risk"
<1>1. EpochFindings(ctx) = prior \cup Ran(kind, ctx.epochIndex, Composite(ctx, prior))
  BY Zenon DEF EpochFindings
<1>2. AreOf(Composite(ctx, prior), kind, ctx.epochIndex)
  BY Zenon DEF AreOf, Composite
<1>3. AreOfEpoch(Ran(kind, ctx.epochIndex, Composite(ctx, prior)), ctx)
  BY <1>2, RanIsOfEpoch
<1> QED
  BY <1>1, <1>3, WeighedIsOfEpoch DEF AreOfEpoch

\* What the detector found is among the findings of the epoch, however old the roster is.
LEMMA SharedReportTxIsFound ==
  ASSUME NEW ctx, "shared_report_tx" \notin Broken
  PROVE  SharedReportTx(ctx) \subseteq EpochFindings(ctx)
<1>1. SharedReportTx(ctx) \subseteq Base(ctx)
  BY DEF Base, Ran
<1>2. ASSUME NEW f \in SharedReportTx(ctx)
      PROVE  Degraded(f) = f
  <2>1. f.kind = "shared_report_tx"
    BY SharedReportTxIsOfKind, FieldsOfFindings
  <2> QED
    BY <2>1 DEF Degraded, GatewayDependentKinds
<1>3. SharedReportTx(ctx) \subseteq Weighed(ctx)
  BY <1>1, <1>2, Zenon DEF Weighed
<1> QED
  BY <1>3, Zenon DEF EpochFindings

\* The detector names whoever shares a report.
LEMMA SharedReportTxNames ==
  ASSUME NEW ctx, NEW o \in Submitters(ctx), IsFiniteSet(Submitters(ctx))
  PROVE  (\E f \in SharedReportTx(ctx) : o \in f.observers) <=> SharesReport(ctx.obs, o)
<1> DEFINE key == [p \in Submitters(ctx) |-> ctx.obs[p].reportTxId]
           Same(p) == {q \in DOMAIN key : key[q] = key[p]}
<1>1. Same(o) = {p \in DOMAIN ctx.obs : ctx.obs[p].reportTxId = ctx.obs[o].reportTxId}
  BY DEF Submitters
<1>2. Cardinality(Same(o)) \in Nat
  BY FS_Subset, FS_CardinalityType
<1>3. (\E f \in SharedReportTx(ctx) : o \in f.observers) <=> \E G \in Groups(key, 2) : o \in G
  <2>1. ASSUME NEW f \in SharedReportTx(ctx)
        PROVE  f.observers \in Groups(key, 2)
    BY DEF SharedReportTx, Finding
  <2>2. ASSUME NEW G \in Groups(key, 2)
        PROVE  \E f \in SharedReportTx(ctx) : f.observers = G
    <3>1. Finding("shared_report_tx", ctx.epochIndex, G,
                  IF Cardinality(G) >= 3 THEN High ELSE Medium, Percent(100), {}) \in SharedReportTx(ctx)
      BY DEF SharedReportTx
    <3> QED
      BY <3>1 DEF Finding
  <2> QED
    BY <2>1, <2>2
<1>4. (\E G \in Groups(key, 2) : o \in G) <=> Cardinality(Same(o)) >= 2
  <2>1. ASSUME NEW G \in Groups(key, 2), o \in G
        PROVE  G = Same(o) /\ Cardinality(G) >= 2
    BY <2>1 DEF Groups
  <2>2. Cardinality(Same(o)) >= 2 => Same(o) \in Groups(key, 2)
    BY DEF Groups
  <2>3. o \in Same(o)
    OBVIOUS
  <2> QED
    BY <2>1, <2>2, <2>3
<1>5. SharesReport(ctx.obs, o) <=> Cardinality(Same(o)) > 1
  BY <1>1, Zenon DEF SharesReport
<1> HIDE DEF Same
<1>6. Cardinality(Same(o)) > 1 <=> Cardinality(Same(o)) >= 2
  BY <1>2
<1> QED
  BY <1>3, <1>4, <1>5, <1>6

\* A finite set of epochs has a newest one.
LEMMA MaxIsThere ==
  ASSUME NEW S \in SUBSET Nat, IsFiniteSet(S), S # {}
  PROVE  Max(S) \in S /\ \A n \in S : n <= Max(S)
<1> DEFINE Above(x) == {y \in S : y > x}
           above == {Above(x) : x \in S}
<1>1. above \subseteq FiniteSubsetsOf(S) /\ above # {}
  <2>1. ASSUME NEW x \in S
        PROVE  Above(x) \in FiniteSubsetsOf(S)
    BY FS_Subset DEF FiniteSubsetsOf
  <2> QED
    BY <2>1
<1>2. PICK fewest \in above : \A other \in above : <<other, fewest>> \notin StrictSubsetOrdering(S)
  BY <1>1, FS_StrictSubsetOrderingWellFounded, WFMin, Zenon
<1>3. PICK x \in S : fewest = Above(x)
  BY <1>2
<1>4. ASSUME NEW y \in S
      PROVE  y <= x
  <2>1. SUFFICES ASSUME y > x
                 PROVE  FALSE
    OBVIOUS
  <2>2. /\ \A z \in Above(y) : z \in Above(x)
        /\ y \in Above(x) /\ y \notin Above(y)
    <3>1. x \in Nat /\ y \in Nat /\ ~(y > y)
      OBVIOUS
    <3>2. ASSUME NEW z \in S, z > y
          PROVE  z > x
      BY <2>1, <3>1, <3>2
    <3> QED
      BY <2>1, <3>1, <3>2
  <2>3. Above(y) \in above /\ Above(y) \in SUBSET S /\ Above(x) \in SUBSET S
    OBVIOUS
  <2> HIDE DEF Above
  <2> QED
    BY <1>2, <1>3, <2>2, <2>3 DEF StrictSubsetOrdering
<1> QED
  BY <1>4 DEF Max

LEMMA EpochsAreFinite ==
  ASSUME NEW S \in SUBSET Epochs
  PROVE  S \in SUBSET Nat /\ IsFiniteSet(S)
  BY StoresAreFinite, EpochsAreNat, FS_Subset

\* What a run finds in what it read is sound.
LEMMA WindowIsSound ==
  ASSUME NEW read, NEW config, DOMAIN read \in SUBSET Epochs, DOMAIN read # {},
         \A e \in DOMAIN read : DOMAIN read[e] \subseteq Observers
  PROVE  IsSound(Source(read, WindowFindings(Contexts(read, config)), config))
<1> DEFINE contexts == Contexts(read, config)
           prior == UNION {EpochFindings(ctx) : ctx \in contexts}
           kind == "persistent_correlation"
           last == Max({ctx.epochIndex : ctx \in contexts})
           found == WindowFindings(contexts)
           ContextOf(e) == Context(e, read[e], config, Rosters[rosterAt])
<1>1. found = prior \cup Ran(kind, last, Persistent(prior))
  BY Zenon DEF WindowFindings
<1>2. contexts = {ContextOf(e) : e \in DOMAIN read}
  BY DEF Contexts
<1>3. \A e \in DOMAIN read : ContextOf(e).epochIndex = e /\ ContextOf(e).obs = read[e]
  BY DEF Context
<1>4. last \in DOMAIN read
  <2>1. {ctx.epochIndex : ctx \in contexts} = DOMAIN read
    <3>1. ASSUME NEW e \in DOMAIN read
          PROVE  \E ctx \in contexts : e = ctx.epochIndex
      <4>1. ContextOf(e) \in contexts
        BY <1>2
      <4> HIDE DEF contexts, ContextOf
      <4> QED
        BY <1>3, <4>1
    <3>2. ASSUME NEW ctx \in contexts
          PROVE  ctx.epochIndex \in DOMAIN read
      <4>1. PICK e \in DOMAIN read : ctx = ContextOf(e)
        BY <1>2
      <4> HIDE DEF contexts, ContextOf
      <4> QED
        BY <1>3, <4>1
    <3> HIDE DEF contexts, ContextOf
    <3> QED
      BY <3>1, <3>2
  <2> QED
    BY <2>1, EpochsAreFinite, MaxIsThere
<1>5. \A f \in Ran(kind, last, Persistent(prior)) :
        f.epochIndex \in {AllEpochs} \cup DOMAIN read /\ f.kind # "shared_report_tx"
  <2>1. CASE kind \in Broken
    <3>1. ASSUME NEW f \in Ran(kind, last, Persistent(prior))
          PROVE  f.kind = "detector_error" /\ f.epochIndex = last
      <4> HIDE DEF last
      <4> QED
        BY <2>1 DEF Ran, Finding
    <3> HIDE DEF last, prior
    <3> QED
      BY <1>4, <3>1
  <2>2. CASE kind \notin Broken
    <3>1. AreOf(Persistent(prior), kind, AllEpochs)
      BY Zenon DEF AreOf, Persistent
    <3> HIDE DEF last, prior
    <3> QED
      BY <2>2, <3>1, FieldsOfFindings DEF Ran
  <2> QED
    BY <2>1, <2>2
<1>6. \A e \in DOMAIN read : EpochFindings(ContextOf(e)) \subseteq found
  BY <1>1, <1>2
<1>7. \A f \in prior : \E e \in DOMAIN read : f \in EpochFindings(ContextOf(e)) /\ f.epochIndex = e
  BY <1>2, <1>3, EpochIsOfEpoch DEF AreOfEpoch
<1> HIDE DEF contexts, prior, last, found, ContextOf
<1>8. ASSUME NEW f \in found
      PROVE  f.epochIndex \in {AllEpochs} \cup DOMAIN read
  BY <1>1, <1>5, <1>7
<1>9. ASSUME "shared_report_tx" \notin Broken, NEW e \in DOMAIN read, NEW o \in DOMAIN read[e]
      PROVE  IsNamedIn(found, e, o) <=> SharesReport(read[e], o)
  <2>1. (\E f \in SharedReportTx(ContextOf(e)) : o \in f.observers) <=> SharesReport(read[e], o)
    <3>1. Submitters(ContextOf(e)) = DOMAIN read[e]
      BY <1>3 DEF Submitters
    <3>2. IsFiniteSet(Submitters(ContextOf(e)))
      BY <3>1, StoresAreFinite, FS_Subset
    <3> QED
      BY <1>3, <3>1, <3>2, SharedReportTxNames
  <2>2. ASSUME NEW f \in SharedReportTx(ContextOf(e))
        PROVE  f \in found /\ f.kind = "shared_report_tx" /\ f.epochIndex = e
    BY <1>3, <1>6, <1>9, SharedReportTxIsFound, SharedReportTxIsOfKind, FieldsOfFindings
  <2>3. ASSUME NEW f \in found, f.epochIndex = e, f.kind = "shared_report_tx"
        PROVE  f \in SharedReportTx(ContextOf(e))
    <3>1. f \in prior
      BY <1>1, <1>5, <2>3
    <3>2. f \in EpochFindings(ContextOf(e))
      BY <1>7, <2>3, <3>1
    <3> QED
      BY <1>9, <2>3, <3>2, EpochIsOfEpoch DEF AreOfEpoch
  <2> QED
    BY <2>1, <2>2, <2>3 DEF IsNamedIn
<1> QED
  BY <1>8, <1>9 DEF IsSound, Source, contexts, found
-----------------------------------------------------------------------------
(***************************************************************************)
(* What is public after a whole publish is all of what one run looked at,  *)
(* and the documents of one sound source add up.                           *)
(***************************************************************************)
PublicIsOf(source) ==
  /\ public.observers = ObserversDocument(source)
  /\ public.findings = FindingsDocument(source)
  /\ \A e \in DOMAIN source.read :
       e \in DOMAIN public.epochs /\ public.epochs[e] = EpochDocument(source, e)

\* The feed has an epoch whole or not at all, and none older than one it lacks.
LEMMA FeedIsTheNewest ==
  ASSUME NEW source, IsSound(source), NEW e \in DOMAIN source.read
  PROVE  LET feed == Windowed(source.found)
         IN  /\ OfEpoch(feed, e) \in {{}, OfEpoch(source.found, e)}
             /\ OfEpoch(feed, e) # {} =>
                  \A d \in DOMAIN source.read : d > e => OfEpoch(feed, d) = OfEpoch(source.found, d)
<1> DEFINE found == source.found
           feed == Windowed(found)
           Newer(d) == {x \in Present(found) : x > d}
<1>1. DOMAIN source.read \subseteq Epochs /\ AllEpochs \notin DOMAIN source.read
  BY EpochsAreNat, AllEpochsIsNoEpoch DEF IsSound
<1>2. Present(found) \in SUBSET Nat /\ IsFiniteSet(Present(found))
  <2>1. Present(found) \in SUBSET Epochs
    BY <1>1 DEF IsSound, Present
  <2> QED
    BY <2>1, EpochsAreFinite
<1>3. ASSUME NEW d \in DOMAIN source.read
      PROVE  /\ OfEpoch(feed, d) \subseteq OfEpoch(found, d)
             /\ FeedEpochs = 0 \/ d \in InFeed(found) => OfEpoch(feed, d) = OfEpoch(found, d)
             /\ FeedEpochs # 0 /\ d \notin InFeed(found) => OfEpoch(feed, d) = {}
  BY <1>1 DEF Windowed, OfEpoch
<1>4. CASE FeedEpochs = 0
  BY <1>3, <1>4
<1>5. CASE FeedEpochs # 0
  <2>1. ASSUME e \in InFeed(found), NEW d \in DOMAIN source.read, d > e
        PROVE  OfEpoch(feed, d) = OfEpoch(found, d)
    <3>1. CASE d \notin Present(found)
      <4>1. OfEpoch(found, d) = {}
        BY <1>1, <3>1 DEF OfEpoch, Present
      <4> HIDE DEF feed
      <4> QED
        BY <1>3, <4>1
    <3>2. CASE d \in Present(found)
      <4>1. Newer(d) \subseteq Newer(e)
        <5>1. ASSUME NEW x \in Present(found), x > d
              PROVE  x > e
          <6>1. x \in Nat /\ d \in Nat /\ e \in Nat
            BY <1>1, <1>2, EpochsAreNat
          <6> QED
            BY <2>1, <5>1, <6>1
        <5> QED
          BY <5>1
      <4>2. IsFiniteSet(Newer(e)) /\ Newer(e) \in SUBSET Present(found)
        BY <1>2, FS_Subset
      <4> HIDE DEF Newer
      <4>3. Cardinality(Newer(d)) <= Cardinality(Newer(e)) /\ IsFiniteSet(Newer(d))
        BY <4>1, <4>2, FS_Subset
      <4>4. Cardinality(Newer(d)) \in Nat /\ Cardinality(Newer(e)) \in Nat
        BY <4>2, <4>3, FS_CardinalityType
      <4>5. Cardinality(Newer(e)) < FeedEpochs
        BY <2>1 DEF InFeed, Newer
      <4>6. Cardinality(Newer(d)) < FeedEpochs
        BY <4>3, <4>4, <4>5, FeedIsNat
      <4>7. d \in InFeed(found)
        BY <3>2, <4>6 DEF InFeed, Newer
      <4> QED
        BY <1>3, <4>7
    <3> QED
      BY <3>1, <3>2
  <2> HIDE DEF feed
  <2>2. OfEpoch(feed, e) # {} => e \in InFeed(found)
    BY <1>3, <1>5
  <2>3. OfEpoch(feed, e) \in {{}, OfEpoch(found, e)}
    BY <1>3, <1>5
  <2> QED
    BY <2>1, <2>2, <2>3 DEF feed
<1> QED
  BY <1>4, <1>5

LEMMA PublicAddsUp ==
  ASSUME NEW source, IsSound(source), PublicIsOf(source)
  PROVE  DocumentsAddUp
<1> DEFINE read == source.read
           found == source.found
           feed == public.findings.findings
           rows == public.observers.observers
           epochs == public.observers.epochs
           Submitted(o) == {e \in DOMAIN epochs : o \in DOMAIN public.epochs[e].observations}
           SharedIn(o) == {e \in Submitted(o) : \E f \in public.epochs[e].findings :
                             f.kind = "shared_report_tx" /\ o \in f.observers}
<1>1. /\ feed = Windowed(found) /\ public.findings.epochRange = DOMAIN read
      /\ public.findings.truncated = (feed # found)
  <2>1. /\ FindingsDocument(source).findings = Windowed(found)
        /\ FindingsDocument(source).epochRange = DOMAIN read
        /\ FindingsDocument(source).truncated = (Windowed(found) # found)
    BY Zenon DEF FindingsDocument
  <2> QED
    BY <2>1, Zenon DEF PublicIsOf
<1>2. /\ DOMAIN epochs = DOMAIN read
      /\ \A e \in DOMAIN read :
           /\ epochs[e].observationCount = Cardinality(DOMAIN read[e])
           /\ epochs[e].findingCount = Cardinality(OfEpoch(found, e))
  BY DEF PublicIsOf, ObserversDocument
<1>3. \A e \in DOMAIN read :
        /\ e \in DOMAIN public.epochs
        /\ public.epochs[e].observations = read[e]
        /\ public.epochs[e].findings = OfEpoch(found, e)
  <2>1. ASSUME NEW e \in DOMAIN read
        PROVE  e \in DOMAIN public.epochs /\ public.epochs[e] = EpochDocument(source, e)
    BY DEF PublicIsOf
  <2>2. ASSUME NEW e
        PROVE  /\ EpochDocument(source, e).observations = read[e]
               /\ EpochDocument(source, e).findings = OfEpoch(found, e)
    BY DEF EpochDocument
  <2> QED
    BY <2>1, <2>2
<1>4. /\ DOMAIN rows = Summarized(source)
      /\ \A o \in Summarized(source) :
           /\ rows[o].summary.findingCount = Cardinality(Naming(found, o))
           /\ rows[o].summary.epochsObserved = Cardinality(ObservedBy(o, read))
           /\ rows[o].sharedReportEpochs =
                Cardinality({e \in ObservedBy(o, read) : SharesReport(read[e], o)})
  BY DEF PublicIsOf, ObserversDocument, GatewaySummary
<1>5. AllEpochs \notin DOMAIN read
  BY EpochsAreNat, AllEpochsIsNoEpoch DEF IsSound
<1>6. PublicFindings(DOMAIN read) = found
  <2>1. feed \subseteq found /\ \A f \in found : f.epochIndex = AllEpochs => f \in feed
    BY <1>1 DEF Windowed
  <2>2. UNION {public.epochs[e].findings : e \in DOMAIN read} = UNION {OfEpoch(found, e) : e \in DOMAIN read}
    BY <1>3
  <2>3. \A f \in found : f.epochIndex \in {AllEpochs} \cup DOMAIN read
    BY DEF IsSound
  <2> HIDE DEF feed, found, read
  <2>4. feed \cup UNION {OfEpoch(found, e) : e \in DOMAIN read} = found
    BY <2>1, <2>3 DEF OfEpoch
  <2> QED
    BY <2>2, <2>4 DEF PublicFindings, feed
<1>7. \A o : Submitted(o) = ObservedBy(o, read)
  BY <1>2, <1>3 DEF ObservedBy
<1>8. ASSUME "shared_report_tx" \notin Broken, NEW o
      PROVE  SharedIn(o) = {e \in ObservedBy(o, read) : SharesReport(read[e], o)}
  <2>1. ASSUME NEW e \in ObservedBy(o, read)
        PROVE  (\E f \in public.epochs[e].findings : f.kind = "shared_report_tx" /\ o \in f.observers)
                 <=> SharesReport(read[e], o)
    <3>1. e \in DOMAIN read /\ o \in DOMAIN read[e]
      BY DEF ObservedBy
    <3>2. IsNamedIn(found, e, o) <=> SharesReport(read[e], o)
      BY <1>8, <3>1 DEF IsSound
    <3> QED
      BY <1>3, <3>1, <3>2 DEF IsNamedIn, OfEpoch
  <2> HIDE DEF read, Submitted
  <2> QED
    BY <1>7, <2>1
<1>9. DOMAIN rows = UNION {DOMAIN public.epochs[e].observations : e \in DOMAIN epochs}
  <2>1. UNION {DOMAIN public.epochs[e].observations : e \in DOMAIN read} = Summarized(source)
    BY <1>3 DEF Summarized
  <2> QED
    BY <1>2, <1>4, <2>1
<1>10. ASSUME NEW e \in DOMAIN epochs
       PROVE  /\ epochs[e].observationCount = Cardinality(DOMAIN public.epochs[e].observations)
              /\ epochs[e].findingCount = Cardinality(public.epochs[e].findings)
              /\ OfEpoch(feed, e) \in {{}, public.epochs[e].findings}
              /\ OfEpoch(feed, e) # {} =>
                   \A d \in DOMAIN epochs : d > e => OfEpoch(feed, d) = public.epochs[d].findings
  <2>1. e \in DOMAIN read
    BY <1>2
  <2>2. /\ OfEpoch(feed, e) \in {{}, OfEpoch(found, e)}
        /\ OfEpoch(feed, e) # {} =>
             \A d \in DOMAIN read : d > e => OfEpoch(feed, d) = OfEpoch(found, d)
    BY <1>1, <2>1, FeedIsTheNewest
  <2> HIDE DEF feed, found, read, epochs
  <2> QED
    BY <1>2, <1>3, <2>1, <2>2
<1>11. ASSUME NEW o \in DOMAIN rows
       PROVE  /\ rows[o].summary.findingCount = Cardinality(Naming(PublicFindings(DOMAIN epochs), o))
              /\ rows[o].summary.epochsObserved = Cardinality(Submitted(o))
              /\ "shared_report_tx" \notin Broken =>
                   rows[o].sharedReportEpochs = Cardinality(SharedIn(o))
  <2> HIDE DEF rows, found, read, epochs, Submitted, SharedIn
  <2> QED
    BY <1>2, <1>4, <1>6, <1>7, <1>8
<1>12. public.findings.truncated <=> PublicFindings(DOMAIN epochs) # feed
  <2> HIDE DEF feed, found, read, epochs
  <2> QED
    BY <1>1, <1>2, <1>6
<1>13. public.findings.epochRange = DOMAIN epochs /\ DOMAIN epochs \subseteq DOMAIN public.epochs
  BY <1>1, <1>2, <1>3
<1> QED
  BY <1>9, <1>10, <1>11, <1>12, <1>13, Zenon DEF DocumentsAddUp

\* What a run has read, and what it has found, is sound.
RunIsSound(r) ==
  /\ \A e \in DOMAIN run[r].read : DOMAIN run[r].read[e] \subseteq Observers
  /\ run[r].pc = "list" => DOMAIN run[r].read = {} /\ run[r].found = {}
  /\ run[r].pc = "read" => run[r].todo \cup DOMAIN run[r].read # {}
  /\ run[r].pc = "write" => IsSound(Source(run[r].read, run[r].found, run[r].config))

RunsAreSound == \A r \in Runs : RunIsSound(r)

LEMMA SoundAtFirst == Init => RunsAreSound
<1> SUFFICES ASSUME Init, NEW r \in Runs
             PROVE  RunIsSound(r)
  BY DEF RunsAreSound
<1>1. run[r] = Done \/ run[r] = Idle
  BY DEF Init, InitFrom
<1>2. Idle.pc = "idle" /\ Done.pc = "done" /\ DOMAIN Idle.read = {} /\ DOMAIN Done.read = {}
  BY DEF Idle, Done, Nobody
<1> QED
  BY <1>1, <1>2 DEF RunIsSound

\* The window of some epochs has one.
LEMMA WindowHasAnEpoch ==
  ASSUME NEW S \in SUBSET Epochs, S # {}
  PROVE  InWindow(S) # {}
<1>1. Max(S) \in S /\ \A n \in S : n <= Max(S)
  BY EpochsAreFinite, MaxIsThere
<1>2. {d \in S : d > Max(S)} = {}
  BY <1>1, EpochsAreFinite
<1>3. Max(S) \in InWindow(S)
  BY <1>1, <1>2, FS_EmptySet, WindowIsNat DEF InWindow
<1> QED
  BY <1>3

LEMMA SoundAfterAStep ==
  ASSUME IInv, RunsAreSound, NEW r \in Runs, Step(r)
  PROVE  RunsAreSound'
<1>1. DOMAIN run = Runs /\ RunOK(r) /\ RunIsSound(r)
  BY DEF IInv, TypeOK, RunsAreSound
<1>2. ASSUME NEW new, run' = [run EXCEPT ![r] = new], RunIsSound(r)'
      PROVE  RunsAreSound'
  BY <1>1, <1>2 DEF RunsAreSound, RunIsSound
<1>3. RunIsSound(r)' /\ \E new : run' = [run EXCEPT ![r] = new]
  <2>1. CASE Begin(r)
    <3> DEFINE new == [Idle EXCEPT !.pc = "list", !.config = ActiveCalibration]
    <3>1. run' = [run EXCEPT ![r] = new]
      BY <2>1 DEF Begin
    <3>2. new.pc = "list" /\ DOMAIN new.read = {} /\ new.found = {}
      BY DEF Idle, Nobody
    <3> HIDE DEF new
    <3>3. run'[r] = new
      BY <1>1, <3>1
    <3> QED
      BY <3>1, <3>2, <3>3 DEF RunIsSound
  <2>2. ASSUME run' = [run EXCEPT ![r] = Ended(r)]
        PROVE  RunIsSound(r)'
    <3>1. run'[r] = Ended(r)
      BY <1>1, <2>2
    <3> QED
      BY <3>1, EndedHas DEF RunIsSound
  <2>3. CASE List(r)
    <3>1. CASE Known(obs) = {}
      <4>1. run' = [run EXCEPT ![r] = Ended(r)]
        BY <2>3, <3>1 DEF List
      <4> QED
        BY <2>2, <4>1
    <3>2. CASE Known(obs) # {}
      <4> DEFINE todo == IF r = "backfill" THEN Known(obs) ELSE InWindow(Known(obs))
                 new == [run[r] EXCEPT !.pc = "read", !.todo = todo]
      <4>1. run' = [run EXCEPT ![r] = new]
        BY <2>3, <3>2 DEF List
      <4>2. todo # {}
        BY <3>2, WindowHasAnEpoch DEF Known
      <4> HIDE DEF todo
      <4>3. new.pc = "read" /\ new.todo = todo /\ new.read = run[r].read
        BY <1>1, RunsAreRecords
      <4> HIDE DEF new
      <4>4. run'[r] = new
        BY <1>1, <4>1
      <4>5. DOMAIN run[r].read = {}
        BY <1>1, <2>3 DEF List, RunIsSound
      <4> QED
        BY <4>1, <4>2, <4>3, <4>4, <4>5 DEF RunIsSound
    <3> QED
      BY <3>1, <3>2
  <2>4. CASE ReadEpoch(r)
    <3> DEFINE e == Min(run[r].todo)
               read == With(run[r].read, e, obs[e])
               new == [run[r] EXCEPT !.todo = run[r].todo \ {e}, !.read = read]
    <3>1. run[r].pc = "read" /\ run[r].todo # {}
      BY <2>4 DEF ReadEpoch
    <3>2. e \in Epochs
      BY <1>1, <3>1, EpochsAreNat, MinIsLeft DEF RunOK
    <3>3. DOMAIN obs[e] \subseteq Observers
      BY <3>2 DEF IInv, TypeOK
    <3>4. run' = [run EXCEPT ![r].todo = run[r].todo \ {e}, ![r].read = read]
      BY <2>4 DEF ReadEpoch
    <3> HIDE DEF e
    <3>5. /\ DOMAIN read = {e} \cup DOMAIN run[r].read
          /\ \A d \in DOMAIN read : DOMAIN read[d] \subseteq Observers
      BY <1>1, <3>3 DEF With, RunIsSound
    <3> HIDE DEF read
    <3>6. run' = [run EXCEPT ![r] = new]
      BY <1>1, <3>4, RunsAreRecords
    <3>7. new.pc = "read" /\ new.read = read
      BY <1>1, <3>1, RunsAreRecords
    <3> HIDE DEF new
    <3>8. run'[r] = new
      BY <1>1, <3>6
    <3>9. RunIsSound(r)'
      BY <3>5, <3>7, <3>8 DEF RunIsSound
    <3> QED
      BY <3>6, <3>9
  <2>5. CASE Detect(r)
    <3> DEFINE found == WindowFindings(Contexts(run[r].read, run[r].config))
               new == [run[r] EXCEPT !.pc = "write", !.rosterAt = rosterAt, !.found = found]
    <3>1. run[r].pc = "read" /\ run[r].todo = {}
      BY <2>5 DEF Detect, IsDetecting
    <3>2. IsSound(Source(run[r].read, found, run[r].config))
      BY <1>1, <3>1, WindowIsSound DEF RunOK, RunIsSound
    <3>3. run' = [run EXCEPT ![r].pc = "write", ![r].rosterAt = rosterAt, ![r].found = found]
      BY <2>5 DEF Detect
    <3> HIDE DEF found
    <3>4. run' = [run EXCEPT ![r] = new]
      BY <1>1, <3>3, RunsAreRecords
    <3>5. /\ new.pc = "write" /\ new.read = run[r].read /\ new.config = run[r].config
          /\ new.found = found
      BY <1>1, RunsAreRecords
    <3> HIDE DEF new
    <3>6. run'[r] = new
      BY <1>1, <3>4
    <3>7. RunIsSound(r)'
      <4>1. Source(run[r].read, found, run[r].config) = Source(run'[r].read, run'[r].found, run'[r].config)
        BY <3>5, <3>6
      <4>2. IsSound(Source(run'[r].read, run'[r].found, run'[r].config))
        BY <3>2, <4>1
      <4> QED
        BY <1>1, <3>5, <3>6, <4>2 DEF RunIsSound, IsSound
    <3> QED
      BY <3>4, <3>7
  <2>6. CASE Upsert(r)
    <3>1. run' = [run EXCEPT ![r] = Ended(r)]
      BY <2>6 DEF Upsert
    <3> QED
      BY <2>2, <3>1
  <2> QED
    BY <2>1, <2>3, <2>4, <2>5, <2>6 DEF Step
<1> QED
  BY <1>2, <1>3

\* What is to be published is sound, and what was published whole is of one sound source.
PublicInv ==
  /\ RunsAreSound
  /\ DOMAIN due = Runs /\ \A r \in Runs : due[r] # NothingDue => IsSound(due[r])
  /\ whole => \E source : IsSound(source) /\ PublicIsOf(source)

\* A publish that writes nothing leaves every document, and one that breaks off nowhere
\* writes each.
LEMMA PublishStep ==
  ASSUME PublicInv, NEW r \in Runs, NEW n \in Nat, Publish(r, n)
  PROVE  PublicInv'
<1> DEFINE source == due[r]
           read == source.read
           Upto(e) == {d \in DOMAIN read : d <= e}
           all == 2 + Cardinality(DOMAIN read)
           epochs == {e \in DOMAIN read : PlaceOf(e, DOMAIN read) <= n}
<1>1. IsSound(source)
  BY DEF PublicInv, Publish
<1>2. RunsAreSound'
  BY DEF PublicInv, Publish, vars, RunsAreSound, RunIsSound
<1>3. DOMAIN due' = Runs /\ \A q \in Runs : due'[q] # NothingDue => IsSound(due'[q])
  BY DEF PublicInv, Publish
<1>4. ASSUME NEW e \in DOMAIN read
      PROVE  PlaceOf(e, DOMAIN read) \in 2 .. all
  <2>1. IsFiniteSet(DOMAIN read) /\ Upto(e) \in SUBSET DOMAIN read
    BY <1>1, EpochsAreFinite DEF IsSound
  <2>2. PlaceOf(e, DOMAIN read) = 2 + Cardinality(Upto(e))
    BY DEF PlaceOf
  <2> HIDE DEF Upto, read
  <2>3. /\ Cardinality(Upto(e)) <= Cardinality(DOMAIN read) /\ Cardinality(Upto(e)) \in Nat
        /\ Cardinality(DOMAIN read) \in Nat
    BY <2>1, FS_Subset, FS_CardinalityType
  <2> QED
    BY <2>2, <2>3
<1>5. /\ public' = Written(source, n)
      /\ n <= all
      /\ whole' = IF n = 0 THEN whole ELSE n = all
  BY DEF Publish
<1>6. /\ Written(source, n).observers = IF n >= 1 THEN ObserversDocument(source) ELSE public.observers
      /\ Written(source, n).findings = IF n >= 2 THEN FindingsDocument(source) ELSE public.findings
      /\ Written(source, n).epochs =
           [e \in DOMAIN public.epochs \cup epochs |->
              IF e \in epochs THEN EpochDocument(source, e) ELSE public.epochs[e]]
  BY DEF Written
<1>7. CASE n = 0
  <2>1. epochs = {}
    BY <1>4, <1>7
  <2>2. /\ public'.observers = public.observers /\ public'.findings = public.findings
        /\ DOMAIN public'.epochs = DOMAIN public.epochs
        /\ \A e \in DOMAIN public.epochs : public'.epochs[e] = public.epochs[e]
    <3> HIDE DEF epochs, source
    <3> QED
      BY <1>5, <1>6, <1>7, <2>1
  <2>3. ASSUME NEW other, PublicIsOf(other)
        PROVE  PublicIsOf(other)'
    BY <2>2, <2>3 DEF PublicIsOf
  <2>4. whole' = whole
    BY <1>5, <1>7
  <2> QED
    BY <1>2, <1>3, <2>3, <2>4 DEF PublicInv
<1>8. CASE n # 0 /\ n # all
  BY <1>2, <1>3, <1>5, <1>8 DEF PublicInv
<1>9. CASE n = all
  <2>1. epochs = DOMAIN read /\ n >= 2
    <3>1. Cardinality(DOMAIN read) \in Nat
      BY <1>1, EpochsAreFinite, FS_CardinalityType DEF IsSound
    <3> QED
      BY <1>4, <1>9, <3>1
  <2>2. /\ public'.observers = ObserversDocument(source) /\ public'.findings = FindingsDocument(source)
        /\ \A e \in epochs : e \in DOMAIN public'.epochs /\ public'.epochs[e] = EpochDocument(source, e)
    <3>1. n >= 1
      BY <2>1
    <3> HIDE DEF epochs, source
    <3> QED
      BY <1>5, <1>6, <2>1, <3>1
  <2>3. \E other : IsSound(other) /\ PublicIsOf(other)'
    BY <1>1, <2>1, <2>2 DEF PublicIsOf
  <2> QED
    BY <1>2, <1>3, <2>3 DEF PublicInv
<1> QED
  BY <1>7, <1>8, <1>9

LEMMA RunStepKeepsPublic ==
  ASSUME IInv, PublicInv, NEW r \in Runs, RunStep(r)
  PROVE  PublicInv'
<1>1. RunsAreSound'
  BY SoundAfterAStep DEF PublicInv, RunStep
<1>2. ASSUME Ends(r)
      PROVE  IsSound(Source(run[r].read, run[r].found, run[r].config))
  <2>1. RunIsSound(r)
    BY DEF PublicInv, RunsAreSound
  <2>2. CASE run[r].pc = "write"
    BY <2>1, <2>2 DEF RunIsSound
  <2>3. CASE run[r].pc = "list"
    BY <2>1, <2>3 DEF RunIsSound, IsSound, Source
  <2> QED
    BY <1>2, <2>2, <2>3 DEF Ends
<1>3. DOMAIN due' = Runs /\ \A q \in Runs : due'[q] # NothingDue => IsSound(due'[q])
  <2> DEFINE new == IF Ends(r) THEN Source(run[r].read, run[r].found, run[r].config) ELSE NothingDue
  <2>1. due' = [due EXCEPT ![r] = new]
    BY DEF RunStep
  <2>2. new # NothingDue => IsSound(new)
    BY <1>2
  <2> HIDE DEF new
  <2> QED
    BY <2>1, <2>2 DEF PublicInv
<1>4. UNCHANGED <<public, whole>>
  BY DEF RunStep
<1> QED
  BY <1>1, <1>3, <1>4 DEF PublicInv, PublicIsOf

\* The documents of a whole publish add up, whatever windows the runs look at, whatever they
\* read and find, and however many publishes were skipped or broke off before: what is public
\* is made of one sound source, of which no later capture, write or half publish is a part.
THEOREM PublicDocumentsAddUp == DocumentsSpec => []DocumentsAddUp
<1>1. DocumentsInit => PublicInv
  <2> SUFFICES ASSUME DocumentsInit
               PROVE  PublicInv
    OBVIOUS
  <2>1. Init
    BY DEF DocumentsInit, Init
  <2> QED
    BY <2>1, SoundAtFirst DEF DocumentsInit, PublicInv
<1>2. IInv /\ PublicInv /\ [DocumentsNext]_<<vars, documentVars>> => PublicInv'
  <2> SUFFICES ASSUME IInv, PublicInv, [DocumentsNext]_<<vars, documentVars>>
               PROVE  PublicInv'
    OBVIOUS
  <2>1. ASSUME UNCHANGED <<run, due, public, whole>>
        PROVE  PublicInv'
    BY <2>1 DEF PublicInv, PublicIsOf, RunsAreSound, RunIsSound
  <2>2. CASE Elsewhere
    BY <2>1, <2>2 DEF Elsewhere, Capture, RosterChanges, Calibrate, Activate, documentVars
  <2>3. ASSUME NEW r \in Runs, RunStep(r)
        PROVE  PublicInv'
    BY <2>3, RunStepKeepsPublic
  <2>4. ASSUME NEW r \in Runs, NEW n \in 0 .. 2 + Cardinality(Epochs), Publish(r, n)
        PROVE  PublicInv'
    <3>1. n \in Nat
      OBVIOUS
    <3> QED
      BY <2>4, <3>1, PublishStep
  <2>5. CASE UNCHANGED <<vars, documentVars>>
    BY <2>1, <2>5 DEF vars, documentVars
  <2> QED
    BY <2>2, <2>3, <2>4, <2>5 DEF DocumentsNext
<1>3. PublicInv => DocumentsAddUp
  BY PublicAddsUp DEF PublicInv, DocumentsAddUp
<1> QED
  BY <1>1, <1>2, <1>3, PublishingKeepsTheTables, PTL DEF DocumentsSpec
-----------------------------------------------------------------------------
(***************************************************************************)
(* The ranks of a finite set (Ranked, in detectors and in calibrate.ts).   *)
(***************************************************************************)
\* What the relation puts before x.
Before(S, R, x) == {y \in S : <<y, x>> \in R}

\* A relation that puts the members of S in one order.
IsOrderOf(R, S) ==
  /\ \A x \in S : <<x, x>> \notin R
  /\ \A x, y \in S : x # y => <<x, y>> \in R \/ <<y, x>> \in R
  /\ \A x, y, z \in S : <<x, y>> \in R /\ <<y, z>> \in R => <<x, z>> \in R

\* Each member of a finite set has a rank of its own, and each rank a member.
LEMMA RanksAreTaken ==
  ASSUME NEW S, IsFiniteSet(S), NEW R, IsOrderOf(R, S)
  PROVE  /\ Cardinality(S) \in Nat
         /\ \A x \in S : Cardinality(Before(S, R, x)) \in 0 .. Cardinality(S) - 1
         /\ \A x, y \in S : <<x, y>> \in R
                              => Cardinality(Before(S, R, x)) < Cardinality(Before(S, R, y))
         /\ \A i \in 1 .. Cardinality(S) : \E x \in S : Cardinality(Before(S, R, x)) = i - 1
<1>1. ASSUME NEW x \in S
      PROVE  /\ IsFiniteSet(Before(S, R, x)) /\ Cardinality(Before(S, R, x)) \in Nat
             /\ Cardinality(Before(S, R, x)) < Cardinality(S)
  <2>1. Before(S, R, x) \in SUBSET S /\ x \notin Before(S, R, x)
    BY DEF Before, IsOrderOf
  <2>. QED
    BY <2>1, FS_Subset, FS_CardinalityType
<1>2. ASSUME NEW x \in S, NEW y \in S, <<x, y>> \in R
      PROVE  Cardinality(Before(S, R, x)) < Cardinality(Before(S, R, y))
  <2>1. Before(S, R, x) \in SUBSET Before(S, R, y)
    BY <1>2 DEF Before, IsOrderOf
  <2>2. x \in Before(S, R, y) /\ x \notin Before(S, R, x)
    BY <1>2 DEF Before, IsOrderOf
  <2>. QED
    BY <1>1, <2>1, <2>2, FS_Subset
<1>3. Cardinality(S) \in Nat
  BY FS_CardinalityType
<1>. DEFINE f == [x \in S |-> Cardinality(Before(S, R, x)) + 1]
<1>4. f \in Injection(S, 1 .. Cardinality(S))
  <2>1. f \in [S -> 1 .. Cardinality(S)]
    BY <1>1, <1>3
  <2>2. ASSUME NEW x \in S, NEW y \in S, f[x] = f[y]
        PROVE  x = y
    <3>1. Cardinality(Before(S, R, x)) = Cardinality(Before(S, R, y))
      BY <1>1, <2>2
    <3>2. <<x, y>> \notin R /\ <<y, x>> \notin R
      BY <1>1, <1>2, <3>1
    <3>. QED
      BY <3>2 DEF IsOrderOf
  <2>. QED
    BY <2>1, <2>2 DEF Injection, IsInjective
<1>5. f \in Surjection(S, 1 .. Cardinality(S))
  <2>1. IsFiniteSet(1 .. Cardinality(S)) /\ Cardinality(1 .. Cardinality(S)) = Cardinality(S)
    BY <1>3, FS_Interval
  <2>. HIDE DEF f
  <2>. QED
    BY <1>4, <2>1, FS_Injection
<1>6. ASSUME NEW i \in 1 .. Cardinality(S)
      PROVE  \E x \in S : Cardinality(Before(S, R, x)) = i - 1
  <2>1. PICK x \in S : f[x] = i
    BY <1>5 DEF Surjection
  <2>. QED
    BY <1>1, <1>3, <2>1
<1>. QED
  BY <1>1, <1>2, <1>3, <1>6

\* ranked lists the members of S in their order.
Lists(ranked, S, R) ==
  /\ ranked \in [1 .. Cardinality(S) -> S]
  /\ \A i \in 1 .. Cardinality(S) : Cardinality(Before(S, R, ranked[i])) = i - 1

LEMMA ListsAll ==
  ASSUME NEW S, IsFiniteSet(S), NEW R, IsOrderOf(R, S), NEW ranked, Lists(ranked, S, R)
  PROVE  /\ ranked \in Seq(S) /\ Len(ranked) = Cardinality(S)
         /\ \A x \in S : \E i \in 1 .. Cardinality(S) : ranked[i] = x
<1>1. Cardinality(S) \in Nat
  BY RanksAreTaken
<1>2. ASSUME NEW x \in S
      PROVE  \E i \in 1 .. Cardinality(S) : ranked[i] = x
  <2>. DEFINE i == Cardinality(Before(S, R, x)) + 1
  <2>1. i \in 1 .. Cardinality(S) /\ Cardinality(Before(S, R, x)) = i - 1
    BY <1>1, RanksAreTaken
  <2>2. ranked[i] \in S /\ Cardinality(Before(S, R, ranked[i])) = Cardinality(Before(S, R, x))
    BY <2>1 DEF Lists
  <2>. HIDE DEF i
  <2>3. Cardinality(Before(S, R, ranked[i])) \in Nat
    BY <2>2, RanksAreTaken
  <2>4. <<ranked[i], x>> \notin R /\ <<x, ranked[i]>> \notin R
    BY <2>2, <2>3, RanksAreTaken
  <2>5. ranked[i] = x
    BY <2>2, <2>4 DEF IsOrderOf
  <2>. QED
    BY <2>1, <2>5
<1>. QED
  BY <1>1, <1>2 DEF Lists
-----------------------------------------------------------------------------
(***************************************************************************)
(* Masked prefixes and votes (src/observers/hamming.ts).                   *)
(***************************************************************************)
LEMMA PrefixHas ==
  ASSUME NEW blob, NEW n, IsWhole(blob, n)
  PROVE  /\ MeaningfulBytes(n) \in Nat /\ MeaningfulBytes(n) <= Len(blob)
         /\ DOMAIN MaskedPrefix(blob, n) = 1 .. MeaningfulBytes(n)
         /\ Len(MaskedPrefix(blob, n)) = MeaningfulBytes(n)
         /\ \A i \in 1 .. MeaningfulBytes(n) : MaskedPrefix(blob, n)[i] \in Byte
<1>1. MeaningfulBytes(n) \in Nat /\ MeaningfulBytes(n) <= Len(blob) /\ Len(blob) \in Nat
  BY DEF MeaningfulBytes, IsWhole
<1>2. Smaller(MeaningfulBytes(n), Len(blob)) = MeaningfulBytes(n)
  BY <1>1 DEF Smaller
<1>3. \A i \in 1 .. MeaningfulBytes(n) : blob[i] \in Byte
  BY <1>1 DEF IsWhole
<1>4. \A i \in 1 .. MeaningfulBytes(n) : MaskedPrefix(blob, n)[i] \in Byte
  BY <1>2, <1>3 DEF MaskedPrefix, Byte
<1>5. DOMAIN MaskedPrefix(blob, n) = 1 .. MeaningfulBytes(n)
  BY <1>2 DEF MaskedPrefix
<1>. QED
  BY <1>1, <1>4, <1>5

\* The bits of the masked prefix are the votes.
LEMMA BitIsVote ==
  ASSUME NEW blob, NEW n, IsWhole(blob, n),
         NEW i \in 1 .. MeaningfulBytes(n), NEW bit \in 0 .. 7
  PROVE  bit \in MaskedPrefix(blob, n)[i] <=> 8 * (i - 1) + bit \in Votes(blob, n)
<1>. DEFINE k == 8 * (i - 1) + bit
<1>1. n \in Nat /\ i \in Nat \ {0} /\ bit \in Nat /\ k \in Nat /\ Len(blob) \in Nat
      /\ MeaningfulBytes(n) \in Nat /\ MeaningfulBytes(n) <= Len(blob)
  BY PrefixHas DEF IsWhole
<1>2. k \div 8 = i - 1 /\ k % 8 = bit
  BY <1>1
<1>3. k \in Votes(blob, n) <=> k < n /\ bit \in blob[i]
  <2>1. k \div 8 < Len(blob) /\ (k \div 8) + 1 = i
    BY <1>1, <1>2
  <2>2. Vote(blob, k) <=> bit \in blob[i]
    BY <1>2, <2>1 DEF Vote
  <2>3. k \in 0 .. n - 1 <=> k < n
    BY <1>1
  <2>. HIDE DEF k
  <2>. QED
    BY <2>2, <2>3 DEF Votes
<1>4. Smaller(MeaningfulBytes(n), Len(blob)) = MeaningfulBytes(n)
  BY <1>1 DEF Smaller
<1>5. CASE i = MeaningfulBytes(n)
  <2>1. bit \in FinalByteMask(n) <=> k < n
    <3>1. i = (n + 7) \div 8
      BY <1>5 DEF MeaningfulBytes
    <3>2. CASE n % 8 = 0
      BY <1>1, <3>1, <3>2 DEF FinalByteMask
    <3>3. CASE n % 8 # 0
      <4>1. n = 8 * (i - 1) + (n % 8) /\ n % 8 \in 0 .. 7
        BY <1>1, <3>1, <3>3
      <4>2. bit \in FinalByteMask(n) <=> bit < n % 8
        BY <1>1, <3>3, <4>1 DEF FinalByteMask
      <4>. QED
        BY <1>1, <4>1, <4>2
    <3>. QED
      BY <3>2, <3>3
  <2>2. MaskedPrefix(blob, n)[i] = blob[i] \cap FinalByteMask(n)
    BY <1>4, <1>5 DEF MaskedPrefix
  <2>. QED
    BY <1>3, <2>1, <2>2
<1>6. CASE i # MeaningfulBytes(n)
  <2>1. k < n
    BY <1>1, <1>6 DEF MeaningfulBytes
  <2>2. MaskedPrefix(blob, n)[i] = blob[i]
    BY <1>4, <1>6 DEF MaskedPrefix
  <2>. QED
    BY <1>3, <2>1, <2>2
<1>. QED
  BY <1>5, <1>6

LEMMA VoteHasABit ==
  ASSUME NEW blob, NEW n, IsWhole(blob, n), NEW k \in Votes(blob, n)
  PROVE  /\ k \in Nat /\ k < n
         /\ (k \div 8) + 1 \in 1 .. MeaningfulBytes(n) /\ k % 8 \in 0 .. 7
         /\ k = 8 * (k \div 8) + (k % 8)
<1>1. n \in Nat
  BY DEF IsWhole
<1>2. k \in 0 .. n - 1
  BY DEF Votes
<1>. QED
  BY <1>1, <1>2 DEF MeaningfulBytes

\* identical-results.ts compares digests of the masked prefix: they are equal just when the
\* votes are, and the bytes that hold them as many.
LEMMA PrefixesAreVotes ==
  ASSUME NEW a, NEW n, IsWhole(a, n), NEW b, NEW m, IsWhole(b, m)
  PROVE  MaskedPrefix(a, n) = MaskedPrefix(b, m)
           <=> Votes(a, n) = Votes(b, m) /\ MeaningfulBytes(n) = MeaningfulBytes(m)
<1>. DEFINE A == MaskedPrefix(a, n)
            B == MaskedPrefix(b, m)
<1>1. ASSUME A = B
      PROVE  Votes(a, n) = Votes(b, m) /\ MeaningfulBytes(n) = MeaningfulBytes(m)
  <2>1. MeaningfulBytes(n) = MeaningfulBytes(m)
    BY <1>1, PrefixHas
  <2>2. ASSUME NEW k \in Votes(a, n)
        PROVE  k \in Votes(b, m)
    <3>. DEFINE i == (k \div 8) + 1
                bit == k % 8
    <3>1. i \in 1 .. MeaningfulBytes(n) /\ bit \in 0 .. 7 /\ 8 * (i - 1) + bit = k
      BY VoteHasABit
    <3>. HIDE DEF i, bit, A, B
    <3>2. bit \in A[i]
      BY <3>1, BitIsVote DEF A
    <3>. QED
      BY <1>1, <2>1, <3>1, <3>2, BitIsVote DEF B
  <2>3. ASSUME NEW k \in Votes(b, m)
        PROVE  k \in Votes(a, n)
    <3>. DEFINE i == (k \div 8) + 1
                bit == k % 8
    <3>1. i \in 1 .. MeaningfulBytes(m) /\ bit \in 0 .. 7 /\ 8 * (i - 1) + bit = k
      BY VoteHasABit
    <3>. HIDE DEF i, bit, A, B
    <3>2. bit \in B[i]
      BY <3>1, BitIsVote DEF B
    <3>. QED
      BY <1>1, <2>1, <3>1, <3>2, BitIsVote DEF A
  <2>. QED
    BY <2>1, <2>2, <2>3
<1>2. ASSUME Votes(a, n) = Votes(b, m), MeaningfulBytes(n) = MeaningfulBytes(m)
      PROVE  A = B
  <2>1. DOMAIN A = DOMAIN B /\ DOMAIN A = 1 .. MeaningfulBytes(n)
    BY <1>2, PrefixHas
  <2>2. ASSUME NEW i \in 1 .. MeaningfulBytes(n)
        PROVE  A[i] = B[i]
    <3>1. A[i] \subseteq 0 .. 7 /\ B[i] \subseteq 0 .. 7
      BY <1>2, PrefixHas DEF Byte
    <3>2. \A bit \in 0 .. 7 : bit \in A[i] <=> bit \in B[i]
      BY <1>2, BitIsVote
    <3>. HIDE DEF A, B
    <3>. QED
      BY <3>1, <3>2
  <2>3. A = [i \in DOMAIN A |-> A[i]] /\ B = [i \in DOMAIN B |-> B[i]]
    BY DEF MaskedPrefix
  <2>. HIDE DEF A, B
  <2>. QED
    BY <2>1, <2>2, <2>3
<1>. QED
  BY <1>1, <1>2

LEMMA VotesAreFew ==
  ASSUME NEW blob, NEW n \in Nat
  PROVE  /\ Votes(blob, n) \in SUBSET (0 .. n - 1) /\ IsFiniteSet(Votes(blob, n))
         /\ Cardinality(Votes(blob, n)) \in 0 .. n
<1>1. Votes(blob, n) \in SUBSET (0 .. n - 1)
  BY DEF Votes
<1>2. IsFiniteSet(0 .. n - 1) /\ Cardinality(0 .. n - 1) = n
  BY FS_Interval
<1>3. IsFiniteSet(Votes(blob, n)) /\ Cardinality(Votes(blob, n)) <= n
  BY <1>1, <1>2, FS_Subset
<1>4. Cardinality(Votes(blob, n)) \in Nat
  BY <1>3, FS_CardinalityType
<1>. QED
  BY <1>1, <1>3, <1>4

\* hamming.ts: the set bits of the xor are as many as the gateways the two disagree on.
LEMMA DistanceIsOfVotes ==
  ASSUME NEW a, NEW b, NEW n, IsWhole(a, n), IsWhole(b, n)
  PROVE  LET P == Votes(a, n)
             Q == Votes(b, n)
             differing == DifferingBits(a, b, n)
         IN  /\ Cardinality(differing) = Cardinality((P \ Q) \cup (Q \ P))
             /\ Cardinality(differing) \in 0 .. n
<1>. DEFINE P == Votes(a, n)
            Q == Votes(b, n)
            D == (P \ Q) \cup (Q \ P)
            differing == DifferingBits(a, b, n)
            A == MaskedPrefix(a, n)
            B == MaskedPrefix(b, n)
            f == [k \in D |-> <<(k \div 8) + 1, k % 8>>]
<1>1. n \in Nat
  BY DEF IsWhole
<1>2. ASSUME NEW i \in 1 .. MeaningfulBytes(n), NEW bit \in 0 .. 7
      PROVE  <<i, bit>> \in differing <=> 8 * (i - 1) + bit \in D
  <2>1. ByteAt(A, i) = A[i] /\ ByteAt(B, i) = B[i]
    BY PrefixHas DEF ByteAt
  <2>2. <<i, bit>> \in differing
          <=> bit \in (ByteAt(A, i) \ ByteAt(B, i)) \cup (ByteAt(B, i) \ ByteAt(A, i))
    BY DEF DifferingBits
  <2>3. (bit \in A[i] <=> 8 * (i - 1) + bit \in P) /\ (bit \in B[i] <=> 8 * (i - 1) + bit \in Q)
    BY BitIsVote
  <2>. HIDE DEF differing, A, B, P, Q
  <2>. QED
    BY <2>1, <2>2, <2>3
<1>3. ASSUME NEW k \in D
      PROVE  /\ (k \div 8) + 1 \in 1 .. MeaningfulBytes(n) /\ k % 8 \in 0 .. 7
             /\ k = 8 * (k \div 8) + (k % 8)
             /\ k \in 0 .. n - 1
  BY <1>1, VoteHasABit
<1>4. f \in Bijection(D, differing)
  <2>. HIDE DEF D, differing
  <2>1. ASSUME NEW k \in D
        PROVE  f[k] \in differing
    <3>1. 8 * (((k \div 8) + 1) - 1) + (k % 8) = k
      BY <1>1, <1>3
    <3>. QED
      BY <1>2, <1>3, <3>1
  <2>2. ASSUME NEW k \in D, NEW l \in D, f[k] = f[l]
        PROVE  k = l
    BY <1>3, <2>2
  <2>3. ASSUME NEW p \in differing
        PROVE  \E k \in D : f[k] = p
    <3>1. p \in (1 .. MeaningfulBytes(n)) \X (0 .. 7)
      BY DEF DifferingBits, differing
    <3>2. PICK i \in 1 .. MeaningfulBytes(n), bit \in 0 .. 7 : p = <<i, bit>>
      BY <3>1
    <3>. DEFINE k == 8 * (i - 1) + bit
    <3>3. k \in D
      BY <1>2, <3>2
    <3>4. MeaningfulBytes(n) \in Nat
      BY PrefixHas
    <3>5. k \in Nat /\ k \div 8 = i - 1 /\ k % 8 = bit /\ (k \div 8) + 1 = i
      BY <3>4
    <3>. QED
      BY <3>2, <3>3, <3>5
  <2>. QED
    BY <2>1, <2>2, <2>3 DEF Bijection, Injection, Surjection, IsInjective
<1>5. D \in SUBSET (0 .. n - 1) /\ IsFiniteSet(0 .. n - 1) /\ Cardinality(0 .. n - 1) = n
  BY <1>1, <1>3, FS_Interval
<1>6. IsFiniteSet(D) /\ Cardinality(D) <= n /\ Cardinality(D) \in Nat
  <2>. HIDE DEF D
  <2>1. IsFiniteSet(D) /\ Cardinality(D) <= n
    BY <1>5, FS_Subset
  <2>. QED
    BY <2>1, FS_CardinalityType
<1>7. Cardinality(differing) = Cardinality(D)
  <2>. HIDE DEF D, differing, f
  <2>1. ExistsBijection(D, differing)
    BY <1>4 DEF ExistsBijection
  <2>. QED
    BY <1>6, <2>1, FS_Bijection
<1>. QED
  BY <1>1, <1>6, <1>7
-----------------------------------------------------------------------------
(***************************************************************************)
(* Union-find (connectedComponents, src/observers/hamming.ts): one step,   *)
(* and the fold of all.                                                    *)
(***************************************************************************)
\* parent leads every node, in falling depth, to its root.
Forest(nodes, parent, root) ==
  /\ parent \in [nodes -> nodes] /\ root \in [nodes -> nodes]
  /\ \A x \in nodes : root[x] = IF parent[x] = x THEN x ELSE root[parent[x]]
  /\ \A x \in nodes : parent[root[x]] = root[x]
  /\ \E depth \in [nodes -> Nat] : \A x \in nodes : parent[x] # x => depth[parent[x]] < depth[x]

LEMMA RootsAreFound ==
  ASSUME NEW nodes, NEW parent, NEW root, Forest(nodes, parent, root)
  PROVE  RootOf(parent) = root
<1>. DEFINE IsRoots(r) == r = [x \in DOMAIN parent |-> IF parent[x] = x THEN x ELSE r[parent[x]]]
            found == CHOOSE r : IsRoots(r)
<1>1. RootOf(parent) = found
  BY Zenon DEF RootOf
<1>2. DOMAIN parent = nodes /\ root = [x \in nodes |-> root[x]]
  BY DEF Forest
<1>3. IsRoots(root)
  BY <1>2 DEF Forest
<1>4. IsRoots(found)
  <2>. HIDE DEF IsRoots
  <2>. QED
    BY <1>3, Zenon
<1>5. found = [x \in nodes |-> IF parent[x] = x THEN x ELSE found[parent[x]]]
  BY <1>2, <1>4
<1>. HIDE DEF found
<1>6. PICK depth \in [nodes -> Nat] : \A x \in nodes : parent[x] # x => depth[parent[x]] < depth[x]
  BY DEF Forest
<1>. DEFINE bad == {depth[x] : x \in {y \in nodes : found[y] # root[y]}}
<1>7. CASE bad = {}
  BY <1>1, <1>2, <1>5, <1>7
<1>8. CASE bad # {}
  <2>1. bad \in SUBSET Nat
    OBVIOUS
  <2>2. Min(bad) \in bad /\ \A n \in bad : Min(bad) <= n
    <3>. HIDE DEF bad
    <3>. QED
      BY <1>8, <2>1, MinIsLeft
  <2>3. PICK x \in nodes : found[x] # root[x] /\ depth[x] = Min(bad)
    BY <2>2
  <2>4. parent[x] # x
    BY <1>5, <2>3 DEF Forest
  <2>5. parent[x] \in nodes /\ found[parent[x]] # root[parent[x]]
    BY <1>5, <2>3, <2>4 DEF Forest
  <2>6. depth[parent[x]] \in bad /\ depth[parent[x]] < depth[x]
    BY <1>6, <2>4, <2>5
  <2>7. depth[parent[x]] \in Nat /\ depth[x] \in Nat
    BY <2>5
  <2>. HIDE DEF bad
  <2>8. depth[x] <= depth[parent[x]]
    BY <2>2, <2>3, <2>6
  <2>. QED
    BY <2>6, <2>7, <2>8
<1>. QED
  BY <1>7, <1>8

\* The root of the first node's tree is put under the root of the second one's.
LEMMA UnionJoins ==
  ASSUME NEW nodes, NEW parent, NEW root, Forest(nodes, parent, root), NEW edge \in nodes \X nodes
  PROVE  Forest(nodes, Union(parent, edge),
                [x \in nodes |-> IF root[x] = root[edge[1]] THEN root[edge[2]] ELSE root[x]])
<1>. DEFINE a == root[edge[1]]
            b == root[edge[2]]
            new == [x \in nodes |-> IF root[x] = a THEN b ELSE root[x]]
            after == [parent EXCEPT ![a] = b]
<1>1. Union(parent, edge) = after
  BY RootsAreFound DEF Union
<1>2. a \in nodes /\ b \in nodes /\ parent[a] = a /\ parent[b] = b /\ root[a] = a /\ root[b] = b
  BY DEF Forest
<1>3. after \in [nodes -> nodes] /\ new \in [nodes -> nodes]
  BY <1>2 DEF Forest
<1>. HIDE DEF a, b
<1>4. \A x \in nodes : after[x] = IF x = a THEN b ELSE parent[x]
  BY <1>2 DEF Forest
<1>5. \A x \in nodes : new[x] = IF after[x] = x THEN x ELSE new[after[x]]
  BY <1>2, <1>3, <1>4 DEF Forest
<1>6. \A x \in nodes : after[new[x]] = new[x]
  BY <1>2, <1>3, <1>4 DEF Forest
<1>7. PICK depth \in [nodes -> Nat] : \A x \in nodes : parent[x] # x => depth[parent[x]] < depth[x]
  BY DEF Forest
<1>. DEFINE deeper == [x \in nodes |-> IF root[x] = a /\ a # b THEN depth[x] + depth[b] + 1
                                      ELSE depth[x]]
<1>8. deeper \in [nodes -> Nat]
  BY <1>2
<1>9. ASSUME NEW x \in nodes, after[x] # x
      PROVE  deeper[after[x]] < deeper[x]
  <2>1. CASE x = a
    <3>1. after[x] = b /\ a # b
      BY <1>4, <1>9, <2>1
    <3>2. deeper[b] = depth[b] /\ deeper[x] = depth[x] + depth[b] + 1
      BY <1>2, <2>1, <3>1
    <3>3. depth[b] \in Nat /\ depth[x] \in Nat
      BY <1>2
    <3>. QED
      BY <3>1, <3>2, <3>3
  <2>2. CASE x # a
    <3>1. after[x] = parent[x] /\ parent[x] \in nodes /\ parent[x] # x
      BY <1>4, <1>9, <2>2 DEF Forest
    <3>2. root[parent[x]] = root[x]
      BY <3>1 DEF Forest
    <3>3. depth[parent[x]] < depth[x] /\ depth[parent[x]] \in Nat /\ depth[x] \in Nat
          /\ depth[b] \in Nat
      BY <1>2, <1>7, <3>1
    <3>4. deeper[parent[x]] = IF root[x] = a /\ a # b THEN depth[parent[x]] + depth[b] + 1
                              ELSE depth[parent[x]]
      BY <3>1, <3>2
    <3>. HIDE DEF after
    <3>. QED
      BY <3>1, <3>3, <3>4
  <2>. QED
    BY <2>1, <2>2
<1>. HIDE DEF new, after, deeper
<1>10. Forest(nodes, after, new)
  BY <1>3, <1>5, <1>6, <1>8, <1>9 DEF Forest
<1>. QED
  BY <1>1, <1>10 DEF new, a, b

\* Of finite sets, one that is not as the others is the least that is not.
LEMMA LeastSet ==
  ASSUME NEW T, IsFiniteSet(T), NEW bad \in SUBSET (SUBSET T), bad # {}
  PROVE  \E s \in bad : \A t \in bad : t \subseteq s => t = s
<1>1. bad \subseteq FiniteSubsetsOf(T)
  BY FS_FiniteSubsetsOfFinite
<1>2. PICK s \in bad : \A t \in bad : <<t, s>> \notin StrictSubsetOrdering(T)
  BY <1>1, FS_StrictSubsetOrderingWellFounded, WFMin, Zenon
<1>3. ASSUME NEW t \in bad, t \subseteq s, t # s
      PROVE  FALSE
  BY <1>2, <1>3 DEF StrictSubsetOrdering
<1>. QED
  BY <1>3

\* Places in a sequence.
ArePlaces(T) == T \in SUBSET Nat /\ IsFiniteSet(T)

\* fold is the function of the subsets of T by which edges at T are folded into parent.
Folds(parent, edges, T, fold) ==
  /\ ArePlaces(T)
  /\ fold = [s \in SUBSET T |-> IF s = {} THEN parent ELSE Union(fold[s \ {Max(s)}], edges[Max(s)])]

LEMMA FoldIsDefinedSo ==
  ASSUME NEW parent, NEW edges, ArePlaces(DOMAIN edges)
  PROVE  FoldLeft(Union, parent, edges)
           = (CHOOSE fold : Folds(parent, edges, DOMAIN edges, fold))[DOMAIN edges]
<1>. DEFINE Recursive(fold) == fold = [s \in SUBSET DOMAIN edges |->
              IF s = {} THEN parent ELSE Union(fold[s \ {Max(s)}], edges[Max(s)])]
<1>1. FoldLeft(Union, parent, edges) = (CHOOSE fold : Recursive(fold))[DOMAIN edges]
  BY Zenon DEF FoldLeft, MapThenFoldSet
<1>2. \A fold : Folds(parent, edges, DOMAIN edges, fold) <=> Recursive(fold)
  BY DEF Folds
<1>. HIDE DEF Recursive
<1>3. (CHOOSE fold : Recursive(fold)) = (CHOOSE fold : Folds(parent, edges, DOMAIN edges, fold))
  BY <1>2, Zenon
<1>. QED
  BY <1>1, <1>3

LEMMA FoldOfNone ==
  ASSUME NEW parent, NEW edges, NEW T, NEW fold, Folds(parent, edges, T, fold)
  PROVE  fold[{}] = parent
BY DEF Folds

LEMMA FoldOfSome ==
  ASSUME NEW parent, NEW edges, NEW T, NEW fold, Folds(parent, edges, T, fold),
         NEW s \in SUBSET T, s # {}
  PROVE  /\ Max(s) \in s /\ s \ {Max(s)} \in SUBSET T
         /\ fold[s] = Union(fold[s \ {Max(s)}], edges[Max(s)])
<1>1. fold[s] = Union(fold[s \ {Max(s)}], edges[Max(s)])
  BY DEF Folds
<1>2. s \in SUBSET Nat /\ IsFiniteSet(s)
  BY FS_Subset DEF Folds, ArePlaces
<1>3. Max(s) \in s
  BY <1>2, MaxIsThere
<1>. QED
  BY <1>1, <1>3

\* The first k edges are folded one after the other.
LEMMA FoldOfFirst ==
  ASSUME NEW parent, NEW edges, NEW n \in Nat, NEW fold, Folds(parent, edges, 1 .. n, fold),
         NEW k \in 1 .. n
  PROVE  fold[1 .. k] = Union(fold[1 .. k - 1], edges[k])
<1>1. fold = [s \in SUBSET (1 .. n) |-> IF s = {} THEN parent
                                      ELSE Union(fold[s \ {Max(s)}], edges[Max(s)])]
  BY DEF Folds
<1>2. k \in 1 .. k /\ 1 .. k \subseteq 1 .. n
  OBVIOUS
<1>. DEFINE s == 1 .. k
<1>3. s \in SUBSET (1 .. n) /\ s # {}
  BY <1>2
<1>4. fold[s] = Union(fold[s \ {Max(s)}], edges[Max(s)])
  <2>. HIDE DEF s
  <2>. QED
    BY <1>1, <1>3, Zenon
<1>5. \A y \in s : k >= y
  OBVIOUS
<1>6. \A x \in s : (\A y \in s : x >= y) => x = k
  OBVIOUS
<1>7. Max(s) = k
  <2>. HIDE DEF s
  <2>1. \A x : x = k <=> x \in s /\ \A y \in s : x >= y
    BY <1>2, <1>5, <1>6 DEF s
  <2>. QED
    BY <2>1 DEF Max
<1>8. s \ {k} = 1 .. k - 1
  OBVIOUS
<1>. QED
  BY <1>4, <1>7, <1>8

\* What is folded from a set is no other as a part of a greater set.
LEMMA FoldsAgree ==
  ASSUME NEW parent, NEW edges, NEW T, NEW U \in SUBSET T,
         NEW g, NEW h, Folds(parent, edges, T, g), Folds(parent, edges, U, h)
  PROVE  g[U] = h[U]
<1>. DEFINE bad == {s \in SUBSET U : g[s] # h[s]}
<1>0. IsFiniteSet(U)
  BY DEF Folds, ArePlaces
<1>1. SUFFICES ASSUME bad # {} PROVE FALSE
  OBVIOUS
<1>2. PICK s \in bad : \A t \in bad : t \subseteq s => t = s
  <2>1. bad \in SUBSET (SUBSET U)
    OBVIOUS
  <2>. HIDE DEF bad
  <2>. QED
    BY <1>0, <1>1, <2>1, LeastSet
<1>3. s \in SUBSET U /\ s \in SUBSET T /\ g[s] # h[s]
  OBVIOUS
<1>4. CASE s = {}
  <2>1. g[{}] = parent /\ h[{}] = parent
    BY FoldOfNone
  <2>. QED
    BY <1>3, <1>4, <2>1
<1>5. CASE s # {}
  <2>. DEFINE rest == s \ {Max(s)}
  <2>1. /\ g[s] = Union(g[rest], edges[Max(s)]) /\ h[s] = Union(h[rest], edges[Max(s)])
        /\ Max(s) \in s
    BY <1>3, <1>5, FoldOfSome
  <2>2. rest \in SUBSET U /\ rest \subseteq s /\ rest # s
    BY <1>3, <2>1
  <2>3. g[rest] = h[rest]
    BY <1>2, <2>2
  <2>. HIDE DEF rest
  <2>. QED
    BY <1>3, <2>1, <2>3
<1>. QED
  BY <1>4, <1>5

\* There is such a function, built up from the least subset without one.
LEMMA FoldsExist ==
  ASSUME NEW parent, NEW edges, NEW T, ArePlaces(T)
  PROVE  \E g : Folds(parent, edges, T, g)
<1>. DEFINE bad == {t \in SUBSET T : ~ \E g : Folds(parent, edges, t, g)}
            FoldOf(u) == CHOOSE g : Folds(parent, edges, u, g)
            Rest(u) == u \ {Max(u)}
<1>1. SUFFICES ASSUME bad # {} PROVE FALSE
  OBVIOUS
<1>2. PICK t \in bad : \A u \in bad : u \subseteq t => u = t
  <2>1. bad \in SUBSET (SUBSET T)
    OBVIOUS
  <2>2. IsFiniteSet(T)
    BY DEF ArePlaces
  <2>. HIDE DEF bad
  <2>. QED
    BY <1>1, <2>1, <2>2, LeastSet
<1>3. t \in SUBSET T /\ ~ \E g : Folds(parent, edges, t, g)
  OBVIOUS
<1>. HIDE DEF bad
<1>0. \A u \in SUBSET t : ArePlaces(u) /\ u \in SUBSET Nat /\ IsFiniteSet(u)
  BY <1>3, FS_Subset DEF ArePlaces
<1>. DEFINE g == [s \in SUBSET t |-> IF s = {} THEN parent
                                      ELSE Union(FoldOf(Rest(s))[Rest(s)], edges[Max(s)])]
<1>4. ASSUME NEW u \in SUBSET t, u # t
      PROVE  Folds(parent, edges, u, FoldOf(u))
  <2>1. u \notin bad /\ u \in SUBSET T
    BY <1>2, <1>3, <1>4
  <2>2. \E h : Folds(parent, edges, u, h)
    BY <2>1 DEF bad
  <2>. QED
    BY <2>2, Zenon
<1>5. ASSUME NEW u \in SUBSET t, u # {}
      PROVE  Max(u) \in u /\ Rest(u) \in SUBSET u /\ Rest(u) # u /\ Rest(u) \in SUBSET t /\ Rest(u) # t
  <2>1. Max(u) \in u
    BY <1>0, <1>5, MaxIsThere
  <2>. QED
    BY <2>1
<1>6. ASSUME NEW u \in SUBSET t, u # t
      PROVE  g[u] = FoldOf(u)[u]
  <2>1. Folds(parent, edges, u, FoldOf(u))
    BY <1>4, <1>6
  <2>. HIDE DEF FoldOf
  <2>2. CASE u = {}
    <3>1. FoldOf(u)[u] = parent
      BY <2>1, <2>2, FoldOfNone
    <3>. QED
      BY <2>2, <3>1
  <2>3. CASE u # {}
    <3>1. FoldOf(u)[u] = Union(FoldOf(u)[Rest(u)], edges[Max(u)])
      BY <2>1, <2>3, FoldOfSome
    <3>2. Rest(u) \in SUBSET u /\ Rest(u) \in SUBSET t /\ Rest(u) # t
      BY <1>5, <2>3
    <3>. HIDE DEF Rest
    <3>3. Folds(parent, edges, Rest(u), FoldOf(Rest(u)))
      BY <1>4, <3>2
    <3>4. FoldOf(u)[Rest(u)] = FoldOf(Rest(u))[Rest(u)]
      BY <2>1, <3>2, <3>3, FoldsAgree
    <3>. QED
      BY <2>3, <3>1, <3>4
  <2>. QED
    BY <2>2, <2>3
<1>7. g = [s \in SUBSET t |-> IF s = {} THEN parent ELSE Union(g[Rest(s)], edges[Max(s)])]
  <2>1. ASSUME NEW s \in SUBSET t, s # {}
        PROVE  g[Rest(s)] = FoldOf(Rest(s))[Rest(s)]
    <3>1. Rest(s) \in SUBSET t /\ Rest(s) # t
      BY <1>5, <2>1
    <3>. HIDE DEF g, FoldOf, Rest
    <3>. QED
      BY <1>6, <3>1
  <2>. HIDE DEF FoldOf, Rest
  <2>. QED
    BY <2>1
<1>. HIDE DEF g
<1>. QED
  BY <1>0, <1>3, <1>7 DEF Folds
-----------------------------------------------------------------------------
\* root joins the first k edges, and nothing else.
Joins(nodes, edges, k, root) ==
  /\ \A i \in 1 .. k : root[edges[i][1]] = root[edges[i][2]]
  /\ \A S \in SUBSET nodes :
       (\A i \in 1 .. k : edges[i][1] \in S <=> edges[i][2] \in S) =>
         \A x, y \in nodes : root[x] = root[y] /\ x \in S => y \in S

\* One more edge.
LEMMA JoinsOneMore ==
  ASSUME NEW nodes, NEW edges, NEW k \in Nat \ {0}, NEW parent, NEW root,
         \A i \in 1 .. k : edges[i] \in nodes \X nodes,
         Forest(nodes, parent, root), Joins(nodes, edges, k - 1, root)
  PROVE  \E new : Forest(nodes, Union(parent, edges[k]), new) /\ Joins(nodes, edges, k, new)
<1>. DEFINE a == edges[k][1]
            b == edges[k][2]
            new == [x \in nodes |-> IF root[x] = root[a] THEN root[b] ELSE root[x]]
<1>1. edges[k] \in nodes \X nodes /\ a \in nodes /\ b \in nodes
  OBVIOUS
<1>2. Forest(nodes, Union(parent, edges[k]), new)
  BY <1>1, UnionJoins
<1>3. \A i \in 1 .. k : edges[i][1] \in nodes /\ edges[i][2] \in nodes
  OBVIOUS
<1>4. ASSUME NEW i \in 1 .. k
      PROVE  new[edges[i][1]] = new[edges[i][2]]
  <2>1. CASE i = k
    BY <1>1, <2>1
  <2>2. CASE i # k
    <3>1. i \in 1 .. k - 1
      BY <2>2
    <3>2. root[edges[i][1]] = root[edges[i][2]]
      BY <3>1 DEF Joins
    <3>. HIDE DEF a, b
    <3>. QED
      BY <1>3, <3>2
  <2>. QED
    BY <2>1, <2>2
<1>5. ASSUME NEW S \in SUBSET nodes, \A i \in 1 .. k : edges[i][1] \in S <=> edges[i][2] \in S,
             NEW x \in nodes, NEW y \in nodes, new[x] = new[y], x \in S
      PROVE  y \in S
  <2>1. \A u, v \in nodes : root[u] = root[v] /\ u \in S => v \in S
    <3>1. \A i \in 1 .. k - 1 : edges[i][1] \in S <=> edges[i][2] \in S
      BY <1>5
    <3>. QED
      BY <3>1 DEF Joins
  <2>2. a \in S <=> b \in S
    BY <1>5
  <2>. HIDE DEF a, b
  <2>. QED
    BY <1>1, <1>5, <2>1, <2>2
<1>. HIDE DEF new, a, b
<1>. QED
  BY <1>2, <1>4, <1>5 DEF Joins

\* near-identical-results.ts: union-find on the couples gives the components: couples are in
\* one tree, and what no couple leaves is a union of trees.
LEMMA UnionFindIsRight ==
  ASSUME NEW nodes, NEW edges \in Seq(nodes \X nodes)
  PROVE  \E root : /\ root \in [nodes -> nodes]
                   /\ ConnectedComponents(nodes, edges) = Groups(root, 2)
                   /\ Joins(nodes, edges, Len(edges), root)
<1>. DEFINE n == Len(edges)
            single == [x \in nodes |-> x]
            fold == CHOOSE f : Folds(single, edges, 1 .. n, f)
            Good(k) == \E root : /\ Forest(nodes, fold[1 .. k], root)
                                 /\ Joins(nodes, edges, k, root)
<1>1. n \in Nat /\ DOMAIN edges = 1 .. n /\ \A i \in 1 .. n : edges[i] \in nodes \X nodes
  OBVIOUS
<1>2. ArePlaces(1 .. n)
  <2>1. IsFiniteSet(1 .. n) /\ 1 .. n \subseteq Nat
    BY <1>1, FS_Interval
  <2>. HIDE DEF n
  <2>. QED
    BY <2>1 DEF ArePlaces
<1>3. FoldLeft(Union, single, edges) = fold[1 .. n]
  BY <1>1, <1>2, FoldIsDefinedSo
<1>4. Folds(single, edges, 1 .. n, fold)
  <2>. HIDE DEF single, n
  <2>1. \E f : Folds(single, edges, 1 .. n, f)
    BY <1>2, FoldsExist
  <2>. QED
    BY <2>1, Zenon
<1>. HIDE DEF fold
<1>5. Good(0)
  <2>1. fold[1 .. 0] = single
    <3>1. 1 .. 0 = {} /\ 1 .. 0 \in SUBSET (1 .. n)
      BY <1>1
    <3>. HIDE DEF single, n
    <3>. QED
      BY <1>4, <3>1, FoldOfNone
  <2>2. Forest(nodes, single, single)
    <3>. DEFINE flat == [x \in nodes |-> 0]
    <3>1. flat \in [nodes -> Nat] /\ \A x \in nodes : single[x] # x => flat[single[x]] < flat[x]
      OBVIOUS
    <3>. HIDE DEF flat
    <3>. QED
      BY <3>1 DEF Forest
  <2>3. Joins(nodes, edges, 0, single)
    BY DEF Joins
  <2>. HIDE DEF single
  <2>. QED
    BY <2>1, <2>2, <2>3
<1>6. ASSUME NEW k \in 1 .. n, Good(k - 1)
      PROVE  Good(k)
  <2>1. k \in Nat \ {0} /\ k \in 1 .. k
    BY <1>1
  <2>2. 1 .. k \subseteq 1 .. n
    BY <1>1
  <2>3. fold[1 .. k] = Union(fold[1 .. k - 1], edges[k])
    <3>. HIDE DEF single, n
    <3>. QED
      BY <1>1, <1>4, FoldOfFirst
  <2>4. PICK root : Forest(nodes, fold[1 .. k - 1], root) /\ Joins(nodes, edges, k - 1, root)
    BY <1>6
  <2>5. \A i \in 1 .. k : edges[i] \in nodes \X nodes
    BY <1>1, <2>2
  <2>6. \E new : Forest(nodes, Union(fold[1 .. k - 1], edges[k]), new) /\ Joins(nodes, edges, k, new)
    BY <2>1, <2>4, <2>5, JoinsOneMore
  <2>. QED
    BY <2>3, <2>6
<1>. HIDE DEF Good
<1>7. Good(n)
  <2>. DEFINE bad == {k \in 0 .. n : ~Good(k)}
  <2>1. SUFFICES ASSUME bad # {} PROVE FALSE
    BY <1>1
  <2>2. bad \in SUBSET Nat
    BY <1>1
  <2>3. Min(bad) \in bad /\ \A k \in bad : Min(bad) <= k
    <3>. HIDE DEF bad
    <3>. QED
      BY <2>1, <2>2, MinIsLeft
  <2>. DEFINE k == Min(bad)
  <2>4. k \in 0 .. n /\ ~Good(k) /\ \A l \in bad : k <= l
    BY <2>3
  <2>. HIDE DEF k
  <2>5. k # 0
    BY <1>5, <2>4
  <2>6. k \in 1 .. n /\ k - 1 \in 0 .. n
    BY <1>1, <2>4, <2>5
  <2>7. k - 1 \notin bad
    <3>1. ~(k <= k - 1)
      BY <2>6
    <3>. HIDE DEF bad
    <3>. QED
      BY <2>4, <3>1
  <2>8. Good(k - 1)
    BY <2>6, <2>7
  <2>. QED
    BY <1>6, <2>4, <2>6, <2>8
<1>8. PICK root : Forest(nodes, fold[1 .. n], root) /\ Joins(nodes, edges, n, root)
  BY <1>7 DEF Good
<1>9. ConnectedComponents(nodes, edges) = Groups(root, 2)
  <2>1. ConnectedComponents(nodes, edges) = Groups(RootOf(FoldLeft(Union, single, edges)), 2)
    BY Zenon DEF ConnectedComponents
  <2>2. RootOf(fold[1 .. n]) = root
    BY <1>8, RootsAreFound
  <2>. QED
    BY <1>3, <2>1, <2>2
<1>. QED
  BY <1>8, <1>9 DEF Forest
-----------------------------------------------------------------------------
(***************************************************************************)
(* Groups of observers that said almost the same.                          *)
(***************************************************************************)
\* The order of the couples.
CoupleOrder == {cd \in (Nat \X Nat) \X (Nat \X Nat) : InOrder(cd[1], cd[2])}

LEMMA CouplesAreListed ==
  ASSUME NEW S \in SUBSET (Nat \X Nat), IsFiniteSet(S)
  PROVE  IsOrderOf(CoupleOrder, S) /\ Lists(Ranked(S, InOrder), S, CoupleOrder)
<1>1. ASSUME NEW c \in S, NEW d \in S
      PROVE  <<c, d>> \in CoupleOrder <=> c[1] < d[1] \/ (c[1] = d[1] /\ c[2] < d[2])
  BY DEF CoupleOrder, InOrder
<1>2. ASSUME NEW c \in S
      PROVE  c[1] \in Nat /\ c[2] \in Nat /\ c = <<c[1], c[2]>>
  OBVIOUS
<1>3. IsOrderOf(CoupleOrder, S)
  <2>1. \A c \in S : <<c, c>> \notin CoupleOrder
    BY <1>1, <1>2
  <2>2. ASSUME NEW c \in S, NEW d \in S, c # d
        PROVE  <<c, d>> \in CoupleOrder \/ <<d, c>> \in CoupleOrder
    <3>1. c[1] # d[1] \/ c[2] # d[2]
      BY <1>2, <2>2
    <3>. QED
      BY <1>1, <1>2, <3>1
  <2>3. ASSUME NEW c \in S, NEW d \in S, NEW e \in S, <<c, d>> \in CoupleOrder, <<d, e>> \in CoupleOrder
        PROVE  <<c, e>> \in CoupleOrder
    BY <1>1, <1>2, <2>3
  <2>. QED
    BY <2>1, <2>2, <2>3 DEF IsOrderOf
<1>. DEFINE ranked == Ranked(S, InOrder)
            Has(x, i) == Cardinality({y \in S : InOrder(y, x)}) = i - 1
<1>4. ranked = [i \in 1 .. Cardinality(S) |-> CHOOSE x \in S : Has(x, i)]
  BY Zenon DEF Ranked
<1>5. ASSUME NEW x \in S
      PROVE  Before(S, CoupleOrder, x) = {y \in S : InOrder(y, x)}
  BY <1>1 DEF Before, InOrder
<1>6. ASSUME NEW i \in 1 .. Cardinality(S)
      PROVE  ranked[i] \in S /\ Cardinality(Before(S, CoupleOrder, ranked[i])) = i - 1
  <2>1. PICK x \in S : Cardinality(Before(S, CoupleOrder, x)) = i - 1
    BY <1>3, RanksAreTaken
  <2>2. Has(x, i)
    BY <1>5, <2>1
  <2>. HIDE DEF Has
  <2>3. ranked[i] \in S /\ Has(ranked[i], i)
    <3>1. ranked[i] = CHOOSE y \in S : Has(y, i)
      BY <1>4
    <3>. HIDE DEF ranked
    <3>. QED
      BY <2>2, <3>1, Zenon
  <2>. HIDE DEF ranked
  <2>. QED
    BY <1>5, <2>3 DEF Has
<1>7. ranked \in [1 .. Cardinality(S) -> S]
  <2>. HIDE DEF Has
  <2>1. DOMAIN ranked = 1 .. Cardinality(S) /\ ranked = [i \in DOMAIN ranked |-> ranked[i]]
    BY <1>4
  <2>. HIDE DEF ranked
  <2>. QED
    BY <1>6, <2>1
<1>. QED
  BY <1>3, <1>6, <1>7 DEF Lists
-----------------------------------------------------------------------------
\* What a run computes from: observations as the capture decodes them, with a bit for each
\* gateway that was voted on (decode.ts), and a threshold above 0.
IsPositive(threshold) == threshold \in (Nat \ {0}) \X (Nat \ {0})

IsDecoded(ctx) ==
  /\ IsFiniteSet(Submitters(ctx)) /\ Submitters(ctx) \subseteq Nat
  /\ {"epochIndex", "obs"} \subseteq DOMAIN ctx
  /\ \A o \in Submitters(ctx) : IsObservation(ctx.obs[o])
  /\ IsPositive(ctx.threshold)

LEMMA SmallerIs ==
  ASSUME NEW m \in Nat, NEW n \in Nat
  PROVE  /\ Smaller(m, n) \in {m, n} /\ Smaller(m, n) \in Nat
         /\ Smaller(m, n) <= m /\ Smaller(m, n) <= n
         /\ Smaller(m, n) = Smaller(n, m) /\ Smaller(n, n) = n
BY DEF Smaller

LEMMA WholeOfLess ==
  ASSUME NEW blob, NEW n, IsWhole(blob, n), NEW m \in Nat, m <= n
  PROVE  IsWhole(blob, m)
<1>1. Len(blob) \in Nat /\ n \in Nat /\ Len(blob) * 8 >= n
  BY DEF IsWhole
<1>. QED
  BY <1>1 DEF IsWhole

LEMMA DigestsAreVotes ==
  ASSUME NEW ctx, IsDecoded(ctx), NEW p \in Submitters(ctx), NEW q \in Submitters(ctx)
  PROVE  MaskedDigests(ctx)[p] = MaskedDigests(ctx)[q] <=> SaysTheSame(ctx, p, q)
<1>1. /\ IsWhole(ctx.obs[p].gatewayResults, ctx.obs[p].gatewayCount)
      /\ IsWhole(ctx.obs[q].gatewayResults, ctx.obs[q].gatewayCount)
      /\ ctx.obs[p].gatewayCount \in Nat /\ ctx.obs[q].gatewayCount \in Nat
  BY DEF IsDecoded, IsObservation, IsWhole
<1>2. /\ MaskedDigests(ctx)[p] = MaskedPrefix(ctx.obs[p].gatewayResults, ctx.obs[p].gatewayCount)
      /\ MaskedDigests(ctx)[q] = MaskedPrefix(ctx.obs[q].gatewayResults, ctx.obs[q].gatewayCount)
  BY DEF MaskedDigests
<1>3. /\ Said(ctx, p, ctx.obs[p].gatewayCount) = Votes(ctx.obs[p].gatewayResults, ctx.obs[p].gatewayCount)
      /\ Said(ctx, q, ctx.obs[q].gatewayCount) = Votes(ctx.obs[q].gatewayResults, ctx.obs[q].gatewayCount)
  BY <1>1, SmallerIs DEF Said
<1>. QED
  BY <1>1, <1>2, <1>3, PrefixesAreVotes DEF SaysTheSame

\* Which of the two is asked first makes no difference.
LEMMA AlmostIsSymmetric ==
  ASSUME NEW ctx, IsDecoded(ctx), NEW p \in Submitters(ctx), NEW q \in Submitters(ctx)
  PROVE  SaysAlmostTheSame(ctx, p, q) <=> SaysAlmostTheSame(ctx, q, p)
<1>1. ctx.obs[p].gatewayCount \in Nat /\ ctx.obs[q].gatewayCount \in Nat
  BY DEF IsDecoded, IsObservation, IsWhole
<1>2. SaysTheSame(ctx, p, q) <=> SaysTheSame(ctx, q, p)
  BY DEF SaysTheSame
<1>. DEFINE n == Smaller(ctx.obs[p].gatewayCount, ctx.obs[q].gatewayCount)
            P == Said(ctx, p, n)
            Q == Said(ctx, q, n)
<1>3. Smaller(ctx.obs[q].gatewayCount, ctx.obs[p].gatewayCount) = n
  BY <1>1, SmallerIs
<1>4. (P \ Q) \cup (Q \ P) = (Q \ P) \cup (P \ Q)
  OBVIOUS
<1>. QED
  BY <1>2, <1>3, <1>4 DEF SaysAlmostTheSame

\* The couples above the threshold are those that say almost the same.
LEMMA PairsSayAlmostTheSame ==
  ASSUME NEW ctx, IsDecoded(ctx), NEW p \in Submitters(ctx), NEW q \in Submitters(ctx), p < q
  PROVE  <<p, q>> \in Pairs(ctx) <=> SaysAlmostTheSame(ctx, p, q)
<1>. DEFINE a == ctx.obs[p].gatewayResults
            b == ctx.obs[q].gatewayResults
            n == Smaller(ctx.obs[p].gatewayCount, ctx.obs[q].gatewayCount)
            P == Said(ctx, p, n)
            Q == Said(ctx, q, n)
            D == (P \ Q) \cup (Q \ P)
<1>1. p \in Nat /\ q \in Nat /\ p # q
  BY DEF IsDecoded
<1>2. ctx.obs[p].gatewayCount \in Nat /\ ctx.obs[q].gatewayCount \in Nat /\ n \in Nat
      /\ IsWhole(a, n) /\ IsWhole(b, n)
  <2>1. ctx.obs[p].gatewayCount \in Nat /\ ctx.obs[q].gatewayCount \in Nat
    BY DEF IsDecoded, IsObservation, IsWhole
  <2>2. n \in Nat /\ n <= ctx.obs[p].gatewayCount /\ n <= ctx.obs[q].gatewayCount
    BY <2>1, SmallerIs
  <2>3. IsWhole(a, ctx.obs[p].gatewayCount) /\ IsWhole(b, ctx.obs[q].gatewayCount)
    BY DEF IsDecoded, IsObservation
  <2>. HIDE DEF a, b, n
  <2>. QED
    BY <2>1, <2>2, <2>3, WholeOfLess
<1>3. P = Votes(a, n) /\ Q = Votes(b, n)
  <2>1. Smaller(n, ctx.obs[p].gatewayCount) = n /\ Smaller(n, ctx.obs[q].gatewayCount) = n
    BY <1>2 DEF Smaller
  <2>. QED
    BY <2>1 DEF Said
<1>4. Cardinality(DifferingBits(a, b, n)) = Cardinality(D)
  <2>. HIDE DEF a, b, n
  <2>. QED
    BY <1>2, <1>3, DistanceIsOfVotes
<1>5. SimilarityOf(ctx, p, q) = IF n = 0 THEN <<0, 1>> ELSE <<n - Cardinality(D), n>>
  <2>1. SimilarityOf(ctx, p, q)
          = IF n = 0 THEN <<0, 1>> ELSE <<n - Cardinality(DifferingBits(a, b, n)), n>>
    BY DEF SimilarityOf, Similarity
  <2>. QED
    BY <1>4, <2>1
<1>6. ~AtLeast(<<0, 1>>, ctx.threshold)
  <2>1. ctx.threshold[1] \in Nat \ {0} /\ ctx.threshold[2] \in Nat \ {0}
    BY DEF IsDecoded, IsPositive
  <2>. QED
    BY <2>1 DEF AtLeast
<1>7. <<p, q>> \in Pairs(ctx)
        <=> MaskedDigests(ctx)[p] # MaskedDigests(ctx)[q] /\ AtLeast(SimilarityOf(ctx, p, q), ctx.threshold)
  BY DEF Pairs
<1>8. SaysAlmostTheSame(ctx, p, q)
        <=> /\ ~SaysTheSame(ctx, p, q)
            /\ n # 0 /\ AtLeast(<<n - Cardinality(D), n>>, ctx.threshold)
  BY <1>1 DEF SaysAlmostTheSame
<1>9. MaskedDigests(ctx)[p] = MaskedDigests(ctx)[q] <=> SaysTheSame(ctx, p, q)
  BY DigestsAreVotes
<1>. HIDE DEF n, D
<1>. QED
  BY <1>5, <1>6, <1>7, <1>8, <1>9

\* near-identical-results.ts, near_identical_results: the groups are the components of the
\* observers under saying almost the same.
LEMMA NearGroupsAreComponents ==
  ASSUME NEW ctx, IsDecoded(ctx)
  PROVE  LET groups == NearGroups(ctx)
         IN  /\ \A G, H \in groups : G = H \/ G \cap H = {}
             /\ \A p, q \in Submitters(ctx) :
                  p # q /\ SaysAlmostTheSame(ctx, p, q) => \E G \in groups : {p, q} \subseteq G
             /\ \A G \in groups :
                  /\ Cardinality(G) >= 2
                  /\ \A S \in (SUBSET G) \ {{}, G} :
                       \E p \in S, q \in G \ S : SaysAlmostTheSame(ctx, p, q)
<1>. DEFINE nodes == Submitters(ctx)
            pairs == Pairs(ctx)
            edges == Ranked(Pairs(ctx), InOrder)
<1>1. nodes \subseteq Nat /\ IsFiniteSet(nodes)
  BY DEF IsDecoded
<1>2. pairs \in SUBSET (nodes \X nodes) /\ pairs \in SUBSET (Nat \X Nat) /\ IsFiniteSet(pairs)
  <2>1. pairs \in SUBSET (nodes \X nodes)
    BY DEF Pairs
  <2>2. IsFiniteSet(nodes \X nodes)
    <3>. HIDE DEF nodes
    <3>. QED
      BY <1>1, FS_Product
  <2>3. IsFiniteSet(pairs)
    <3>. HIDE DEF nodes, pairs
    <3>. QED
      BY <2>1, <2>2, FS_Subset
  <2>. HIDE DEF nodes, pairs
  <2>. QED
    BY <1>1, <2>1, <2>3
<1>3. edges \in Seq(pairs) /\ \A c \in pairs : \E i \in 1 .. Len(edges) : edges[i] = c
  <2>1. IsOrderOf(CoupleOrder, pairs) /\ Lists(edges, pairs, CoupleOrder)
    <3>. HIDE DEF nodes
    <3>. QED
      BY <1>2, CouplesAreListed
  <2>. HIDE DEF edges, pairs
  <2>. QED
    BY <1>2, <2>1, ListsAll
<1>4. NearGroups(ctx) = ConnectedComponents(nodes, edges)
  BY DEF NearGroups
<1>5. \A i \in 1 .. Len(edges) : edges[i] \in pairs
  <2>. HIDE DEF edges, pairs
  <2>. QED
    BY <1>3
<1>6. PICK root : /\ root \in [nodes -> nodes]
                  /\ ConnectedComponents(nodes, edges) = Groups(root, 2)
                  /\ Joins(nodes, edges, Len(edges), root)
  <2>. HIDE DEF edges, pairs, nodes
  <2>1. edges \in Seq(nodes \X nodes)
    BY <1>2, <1>3
  <2>. QED
    BY <2>1, UnionFindIsRight
<1>. DEFINE Tree(p) == {o \in nodes : root[o] = root[p]}
<1>7. Groups(root, 2) = {G \in {Tree(p) : p \in nodes} : Cardinality(G) >= 2}
  BY <1>6 DEF Groups
<1>8. \A c \in pairs : root[c[1]] = root[c[2]]
  <2>. HIDE DEF edges, pairs
  <2>. QED
    BY <1>3, <1>6 DEF Joins
<1>. HIDE DEF edges, pairs
<1>9. ASSUME NEW p \in nodes, NEW q \in nodes, SaysAlmostTheSame(ctx, p, q)
      PROVE  root[p] = root[q]
  <2>1. p # q
    BY <1>9 DEF SaysAlmostTheSame
  <2>2. CASE p < q
    <3>1. <<p, q>> \in pairs
      BY <1>9, <2>2, PairsSayAlmostTheSame DEF pairs
    <3>. QED
      BY <1>8, <3>1
  <2>3. CASE q < p
    <3>1. <<q, p>> \in pairs
      BY <1>9, <2>3, PairsSayAlmostTheSame, AlmostIsSymmetric DEF pairs
    <3>. QED
      BY <1>8, <3>1
  <2>. QED
    BY <1>1, <2>1, <2>2, <2>3
<1>10. \A G, H \in Groups(root, 2) : G = H \/ G \cap H = {}
  BY <1>7
<1>11. ASSUME NEW p \in nodes, NEW q \in nodes, p # q, SaysAlmostTheSame(ctx, p, q)
       PROVE  \E G \in Groups(root, 2) : {p, q} \subseteq G
  <2>1. p \in Tree(p) /\ q \in Tree(p) /\ Tree(p) \in SUBSET nodes
    BY <1>9, <1>11
  <2>2. IsFiniteSet(Tree(p)) /\ IsFiniteSet({p}) /\ Cardinality({p}) = 1
    <3>. HIDE DEF Tree, nodes
    <3>. QED
      BY <1>1, <2>1, FS_Subset, FS_Singleton
  <2>3. {p} \in SUBSET Tree(p) /\ {p} # Tree(p)
    BY <1>11, <2>1
  <2>4. Cardinality(Tree(p)) \in Nat /\ 1 <= Cardinality(Tree(p)) /\ Cardinality(Tree(p)) # 1
    <3>. HIDE DEF Tree, nodes
    <3>. QED
      BY <2>2, <2>3, FS_Subset, FS_CardinalityType
  <2>5. Cardinality(Tree(p)) >= 2
    BY <2>4
  <2>. QED
    BY <1>7, <2>1, <2>5
<1>12. ASSUME NEW G \in Groups(root, 2)
       PROVE  /\ Cardinality(G) >= 2
              /\ \A S \in (SUBSET G) \ {{}, G} : \E p \in S, q \in G \ S : SaysAlmostTheSame(ctx, p, q)
  <2>1. PICK o \in nodes : G = Tree(o)
    BY <1>7
  <2>2. Cardinality(G) >= 2
    BY <1>7
  <2>3. ASSUME NEW S \in (SUBSET G) \ {{}, G}, \A p \in S, q \in G \ S : ~SaysAlmostTheSame(ctx, p, q)
        PROVE  FALSE
    <3>1. S \in SUBSET nodes
      BY <2>1
    <3>2. ASSUME NEW c \in pairs
          PROVE  c[1] \in S <=> c[2] \in S
      <4>1. /\ c[1] \in nodes /\ c[2] \in nodes /\ c = <<c[1], c[2]>>
            /\ root[c[1]] = root[c[2]]
        BY <1>2, <1>8
      <4>2. c[1] < c[2]
        BY DEF Pairs, pairs
      <4>3. SaysAlmostTheSame(ctx, c[1], c[2]) /\ SaysAlmostTheSame(ctx, c[2], c[1])
        BY <4>1, <4>2, PairsSayAlmostTheSame, AlmostIsSymmetric DEF pairs
      <4>4. c[1] \in G <=> c[2] \in G
        BY <2>1, <4>1
      <4>. QED
        BY <2>3, <4>3, <4>4
    <3>3. \A i \in 1 .. Len(edges) : edges[i][1] \in S <=> edges[i][2] \in S
      BY <1>5, <3>2
    <3>4. PICK p \in S, q \in G : q \notin S
      OBVIOUS
    <3>5. p \in nodes /\ q \in nodes /\ root[p] = root[q]
      BY <2>1, <3>1, <3>4
    <3>. QED
      BY <1>6, <3>1, <3>3, <3>4, <3>5 DEF Joins
  <2>. QED
    BY <2>2, <2>3
<1>. QED
  BY <1>4, <1>6, <1>10, <1>11, <1>12
-----------------------------------------------------------------------------
(***************************************************************************)
(* Groups of observers that said the same, and what the findings say of    *)
(* both.                                                                   *)
(***************************************************************************)
\* The kinds that are about what the observers said.
ResultKinds == {"identical_results", "near_identical_results"}

IsOfOtherKinds(findings) == \A f \in findings : f.kind \notin ResultKinds

LEMMA RanIsOfAnotherKind ==
  ASSUME NEW epochIndex, NEW kind, NEW found,
         AreOf(found, kind, epochIndex), kind \notin ResultKinds
  PROVE  IsOfOtherKinds(Ran(kind, epochIndex, found))
<1>1. CASE kind \in Broken
  <2>1. ASSUME NEW f \in Ran(kind, epochIndex, found)
        PROVE  f.kind = "detector_error"
    BY <1>1 DEF Ran, Finding
  <2>. QED
    BY <2>1 DEF IsOfOtherKinds, ResultKinds
<1>2. CASE kind \notin Broken
  BY <1>2, FieldsOfFindings DEF Ran, IsOfOtherKinds
<1>. QED
  BY <1>1, <1>2

\* Only the two detectors leave findings of the two kinds, if they do not throw.
LEMMA ResultsAreTheirDetectors ==
  ASSUME NEW ctx, ResultKinds \cap Broken = {}
  PROVE  /\ {f \in Base(ctx) : f.kind = "identical_results"} = IdenticalResults(ctx)
         /\ {f \in Base(ctx) : f.kind = "near_identical_results"} = NearIdenticalResults(ctx)
<1>. DEFINE Run(kind, found) == Ran(kind, ctx.epochIndex, found)
            others ==
              Run("shared_report_tx", SharedReportTx(ctx))
                \cup Run("co_submission_timing", CoSubmissionTiming(ctx))
                \cup Run("shared_ip", SharedIp(ctx))
                \cup Run("shared_ip_range", SharedIpRange(ctx))
                \cup Run("shared_base_domain", SharedBaseDomain(ctx))
                \cup Run("shared_asn", SharedAsn(ctx))
                \cup Run("analyzer_cluster_overlap", ClusterOverlap(ctx))
                \cup Run("unmatched_observer", UnmatchedObserver(ctx))
                \cup Run("divergent_assessment", DivergentAssessment(ctx))
<1>1. IsOfOtherKinds(Run("shared_report_tx", SharedReportTx(ctx)))
  BY SharedReportTxIsOfKind, RanIsOfAnotherKind DEF ResultKinds
<1>2. IsOfOtherKinds(Run("co_submission_timing", CoSubmissionTiming(ctx)))
  <2>1. AreOf(CoSubmissionTiming(ctx), "co_submission_timing", ctx.epochIndex)
    BY Zenon DEF AreOf, CoSubmissionTiming
  <2>. QED
    BY <2>1, RanIsOfAnotherKind DEF ResultKinds
<1>3. IsOfOtherKinds(Run("shared_ip", SharedIp(ctx)))
  <2>1. AreOf(SharedIp(ctx), "shared_ip", ctx.epochIndex)
    BY Zenon DEF AreOf, SharedIp
  <2>. QED
    BY <2>1, RanIsOfAnotherKind DEF ResultKinds
<1>4. IsOfOtherKinds(Run("shared_ip_range", SharedIpRange(ctx)))
  <2>1. AreOf(SharedIpRange(ctx), "shared_ip_range", ctx.epochIndex)
    BY Zenon DEF AreOf, SharedIpRange
  <2>. QED
    BY <2>1, RanIsOfAnotherKind DEF ResultKinds
<1>5. IsOfOtherKinds(Run("shared_base_domain", SharedBaseDomain(ctx)))
  <2>1. AreOf(SharedBaseDomain(ctx), "shared_base_domain", ctx.epochIndex)
    BY Zenon DEF AreOf, SharedBaseDomain
  <2>. QED
    BY <2>1, RanIsOfAnotherKind DEF ResultKinds
<1>6. IsOfOtherKinds(Run("shared_asn", SharedAsn(ctx)))
  <2>1. AreOf(SharedAsn(ctx), "shared_asn", ctx.epochIndex)
    BY Zenon DEF AreOf, SharedAsn
  <2>. QED
    BY <2>1, RanIsOfAnotherKind DEF ResultKinds
<1>7. IsOfOtherKinds(Run("analyzer_cluster_overlap", ClusterOverlap(ctx)))
  <2>1. AreOf(ClusterOverlap(ctx), "analyzer_cluster_overlap", ctx.epochIndex)
    BY Zenon DEF AreOf, ClusterOverlap
  <2>. QED
    BY <2>1, RanIsOfAnotherKind DEF ResultKinds
<1>8. IsOfOtherKinds(Run("unmatched_observer", UnmatchedObserver(ctx)))
  <2>1. AreOf(UnmatchedObserver(ctx), "unmatched_observer", ctx.epochIndex)
    BY Zenon DEF AreOf, UnmatchedObserver
  <2>. QED
    BY <2>1, RanIsOfAnotherKind DEF ResultKinds
<1>9. IsOfOtherKinds(Run("divergent_assessment", DivergentAssessment(ctx)))
  <2>1. AreOf(DivergentAssessment(ctx), "divergent_assessment", ctx.epochIndex)
    BY Zenon DEF AreOf, DivergentAssessment
  <2>. QED
    BY <2>1, RanIsOfAnotherKind DEF ResultKinds
<1>10. ASSUME NEW S, NEW T, IsOfOtherKinds(S), IsOfOtherKinds(T)
       PROVE  IsOfOtherKinds(S \cup T)
  BY <1>10 DEF IsOfOtherKinds
<1>11. IsOfOtherKinds(others)
  BY <1>1, <1>2, <1>3, <1>4, <1>5, <1>6, <1>7, <1>8, <1>9, <1>10
<1>12. /\ Run("identical_results", IdenticalResults(ctx)) = IdenticalResults(ctx)
       /\ Run("near_identical_results", NearIdenticalResults(ctx)) = NearIdenticalResults(ctx)
  BY DEF Ran, ResultKinds
<1>13. Base(ctx) = others \cup IdenticalResults(ctx) \cup NearIdenticalResults(ctx)
  BY <1>12 DEF Base
<1>14. \A f \in IdenticalResults(ctx) : f.kind = "identical_results"
  <2>1. AreOf(IdenticalResults(ctx), "identical_results", ctx.epochIndex)
    BY Zenon DEF AreOf, IdenticalResults
  <2>. QED
    BY <2>1, FieldsOfFindings
<1>15. \A f \in NearIdenticalResults(ctx) : f.kind = "near_identical_results"
  <2>1. AreOf(NearIdenticalResults(ctx), "near_identical_results", ctx.epochIndex)
    BY Zenon DEF AreOf, NearIdenticalResults
  <2>. QED
    BY <2>1, FieldsOfFindings
<1>. HIDE DEF others
<1>. QED
  BY <1>11, <1>13, <1>14, <1>15 DEF IsOfOtherKinds, ResultKinds

\* identical-results.ts: the groups of one digest, without those that have nothing to
\* compare.
SameGroups(ctx) ==
  {H \in Groups(MaskedDigests(ctx), 2) : \A o \in H : ctx.obs[o].gatewayCount # 0}

LEMMA ResultsAreOfTheirGroups ==
  ASSUME NEW ctx, ResultKinds \cap Broken = {}
  PROVE  /\ Of("identical_results", Base(ctx)) = SameGroups(ctx)
         /\ Of("near_identical_results", Base(ctx)) = NearGroups(ctx)
<1>1. IdenticalResults(ctx)
        = {Finding("identical_results", ctx.epochIndex, G, High, Percent(100), {}) : G \in SameGroups(ctx)}
  BY DEF IdenticalResults, SameGroups
<1>2. {f.observers : f \in IdenticalResults(ctx)} = SameGroups(ctx)
  <2>. DEFINE F(G) == Finding("identical_results", ctx.epochIndex, G, High, Percent(100), {})
  <2>1. \A G : F(G).observers = G
    BY DEF Finding
  <2>2. IdenticalResults(ctx) = {F(G) : G \in SameGroups(ctx)}
    BY <1>1
  <2>. HIDE DEF F
  <2>. QED
    BY <2>1, <2>2
<1>3. {f.observers : f \in NearIdenticalResults(ctx)} = NearGroups(ctx)
  <2>. DEFINE Severity(G) == IF ctx.calibrated /\ IsWellAbove(ctx, G) THEN High ELSE Medium
              confidence == IF ctx.calibrated THEN Percent(90) ELSE Percent(50)
  <2>1. NearIdenticalResults(ctx)
          = {Finding("near_identical_results", ctx.epochIndex, G, Severity(G), confidence, {}) :
               G \in NearGroups(ctx)}
    BY DEF NearIdenticalResults
  <2>. HIDE DEF Severity, confidence
  <2>. DEFINE F(G) ==
                Finding("near_identical_results", ctx.epochIndex, G, Severity(G), confidence, {})
  <2>2. \A G : F(G).observers = G
    BY DEF Finding
  <2>3. NearIdenticalResults(ctx) = {F(G) : G \in NearGroups(ctx)}
    BY <2>1
  <2>. HIDE DEF F
  <2>. QED
    BY <2>2, <2>3
<1>4. Of("identical_results", Base(ctx)) = {f.observers : f \in IdenticalResults(ctx)}
  BY ResultsAreTheirDetectors DEF Of
<1>5. Of("near_identical_results", Base(ctx)) = {f.observers : f \in NearIdenticalResults(ctx)}
  BY ResultsAreTheirDetectors DEF Of
<1>. QED
  BY <1>2, <1>3, <1>4, <1>5

\* Two of one set are two.
LEMMA TwoAreTwo ==
  ASSUME NEW S, IsFiniteSet(S), NEW p \in S, NEW q \in S, p # q
  PROVE  Cardinality(S) \in Nat /\ Cardinality(S) >= 2
<1>1. IsFiniteSet({p}) /\ Cardinality({p}) = 1
  BY FS_Singleton
<1>2. {p} \in SUBSET S /\ {p} # S
  OBVIOUS
<1>3. Cardinality(S) \in Nat /\ 1 <= Cardinality(S) /\ Cardinality(S) # 1
  BY <1>1, <1>2, FS_Subset, FS_CardinalityType
<1>. QED
  BY <1>3

LEMMA SameGroupsAreComponents ==
  ASSUME NEW ctx, IsDecoded(ctx)
  PROVE  LET groups == SameGroups(ctx)
             Same(p, q) == ctx.obs[p].gatewayCount # 0 /\ SaysTheSame(ctx, p, q)
         IN  /\ \A G, H \in groups : G = H \/ G \cap H = {}
             /\ \A p, q \in Submitters(ctx) :
                  p # q /\ Same(p, q) => \E G \in groups : {p, q} \subseteq G
             /\ \A G \in groups :
                  /\ Cardinality(G) >= 2
                  /\ \A S \in (SUBSET G) \ {{}, G} : \E p \in S, q \in G \ S : Same(p, q)
<1>. DEFINE nodes == Submitters(ctx)
            digests == MaskedDigests(ctx)
            Equal(p) == {o \in nodes : digests[o] = digests[p]}
            Same(p, q) == ctx.obs[p].gatewayCount # 0 /\ SaysTheSame(ctx, p, q)
<1>1. \A p \in nodes : ctx.obs[p].gatewayCount \in Nat
  BY DEF IsDecoded, IsObservation, IsWhole
<1>2. DOMAIN digests = nodes
  BY DEF MaskedDigests
<1>3. SameGroups(ctx) = {H \in {Equal(p) : p \in nodes} :
                           Cardinality(H) >= 2 /\ \A o \in H : ctx.obs[o].gatewayCount # 0}
  BY <1>2 DEF SameGroups, Groups
<1>4. ASSUME NEW p \in nodes, NEW q \in nodes
      PROVE  digests[p] = digests[q] <=> SaysTheSame(ctx, p, q)
  BY DigestsAreVotes
<1>5. ASSUME NEW p \in nodes, NEW q \in nodes, SaysTheSame(ctx, p, q), ctx.obs[p].gatewayCount # 0
      PROVE  ctx.obs[q].gatewayCount # 0
  <2>1. MeaningfulBytes(ctx.obs[p].gatewayCount) = MeaningfulBytes(ctx.obs[q].gatewayCount)
    BY <1>5 DEF SaysTheSame
  <2>2. \A n \in Nat : n = 0 <=> MeaningfulBytes(n) = 0
    BY DEF MeaningfulBytes
  <2>. QED
    BY <1>1, <1>5, <2>1, <2>2
<1>. HIDE DEF digests
<1>6. ASSUME NEW G \in SameGroups(ctx), NEW H \in SameGroups(ctx), G \cap H # {}
      PROVE  G = H
  <2>1. PICK p \in nodes, q \in nodes : G = Equal(p) /\ H = Equal(q)
    BY <1>3
  <2>2. digests[p] = digests[q]
    BY <1>6, <2>1
  <2>. QED
    BY <2>1, <2>2
<1>7. ASSUME NEW p \in nodes, NEW q \in nodes, p # q, Same(p, q)
      PROVE  \E G \in SameGroups(ctx) : {p, q} \subseteq G
  <2>1. p \in Equal(p) /\ q \in Equal(p)
    BY <1>4, <1>7
  <2>2. IsFiniteSet(Equal(p))
    <3>1. Equal(p) \in SUBSET nodes /\ IsFiniteSet(nodes)
      BY DEF IsDecoded
    <3>. HIDE DEF Equal, nodes
    <3>. QED
      BY <3>1, FS_Subset
  <2>3. Cardinality(Equal(p)) >= 2
    <3>. HIDE DEF Equal
    <3>. QED
      BY <1>7, <2>1, <2>2, TwoAreTwo
  <2>4. \A o \in Equal(p) : ctx.obs[o].gatewayCount # 0
    BY <1>4, <1>5, <1>7
  <2>. QED
    BY <1>3, <2>1, <2>3, <2>4
<1>8. ASSUME NEW G \in SameGroups(ctx)
      PROVE  /\ Cardinality(G) >= 2
             /\ \A S \in (SUBSET G) \ {{}, G} : \E p \in S, q \in G \ S : Same(p, q)
  <2>1. PICK o \in nodes : G = Equal(o)
    BY <1>3
  <2>2. ASSUME NEW S \in (SUBSET G) \ {{}, G}
        PROVE  \E p \in S, q \in G \ S : Same(p, q)
    <3>1. PICK p \in S, q \in G : q \notin S
      OBVIOUS
    <3>2. p \in nodes /\ q \in nodes /\ digests[p] = digests[q]
      BY <2>1, <3>1
    <3>3. SaysTheSame(ctx, p, q) /\ ctx.obs[p].gatewayCount # 0
      BY <1>3, <1>4, <3>2
    <3>. QED
      BY <3>1, <3>3
  <2>. QED
    BY <1>3, <2>2
<1>. QED
  BY <1>6, <1>7, <1>8

\* The two of a context.
LEMMA GroupsOfAContext ==
  ASSUME NEW ctx, IsDecoded(ctx), ResultKinds \cap Broken = {}
  PROVE  IsGroupedRight(ctx)
<1>. DEFINE Same(p, q) == ctx.obs[p].gatewayCount # 0 /\ SaysTheSame(ctx, p, q)
            Almost(p, q) == SaysAlmostTheSame(ctx, p, q)
<1>1. AreComponents(SameGroups(ctx), Submitters(ctx), Same)
  BY SameGroupsAreComponents DEF AreComponents
<1>2. AreComponents(NearGroups(ctx), Submitters(ctx), Almost)
  BY NearGroupsAreComponents DEF AreComponents
<1>3. /\ Of("identical_results", Base(ctx)) = SameGroups(ctx)
      /\ Of("near_identical_results", Base(ctx)) = NearGroups(ctx)
  BY ResultsAreOfTheirGroups
<1>4. /\ AreComponents(Of("identical_results", Base(ctx)), Submitters(ctx), Same)
      /\ AreComponents(Of("near_identical_results", Base(ctx)), Submitters(ctx), Almost)
  BY <1>1, <1>2, <1>3
<1>. QED
  BY <1>4 DEF IsGroupedRight
-----------------------------------------------------------------------------
(***************************************************************************)
(* The widest gap of divergent_assessment, and its mirror image.           *)
(***************************************************************************)
\* The level that follows, and the observers above a level.
Following(ctx, level) == Min({l \in Levels(ctx) : l > level})

\* The same observers are scored, and what is clear for one is set for the other.
IsMirror(a, b, N) ==
  /\ N \in Nat
  /\ Scored(a) = Scored(b) /\ IsFiniteSet(Scored(a))
  /\ \A o \in Scored(a) : ClearBits(a, o) \in 0 .. N /\ ClearBits(b, o) = N - ClearBits(a, o)

LEMMA MirrorsAreMutual ==
  ASSUME NEW a, NEW b, NEW N, IsMirror(a, b, N)
  PROVE  IsMirror(b, a, N)
<1>1. ASSUME NEW o \in Scored(a)
      PROVE  ClearBits(b, o) \in 0 .. N /\ ClearBits(a, o) = N - ClearBits(b, o)
  <2>1. N \in Nat /\ ClearBits(a, o) \in 0 .. N /\ ClearBits(b, o) = N - ClearBits(a, o)
    BY DEF IsMirror
  <2>. QED
    BY <2>1
<1>. QED
  BY <1>1 DEF IsMirror

\* A cut of one is a cut of the other: between the same observers, and as wide.
LEMMA CutsAreMirrored ==
  ASSUME NEW a, NEW b, NEW N, IsMirror(a, b, N), NEW level \in Splits(a)
  PROVE  LET other == N - Following(a, level)
         IN  /\ other \in Splits(b)
             /\ UpTo(b, other) = Scored(a) \ UpTo(a, level)
             /\ Gap(b, other) = Gap(a, level)
             /\ Gap(a, level) \in Nat /\ level \in Nat
<1>. DEFINE S == Scored(a)
            c(o) == ClearBits(a, o)
            next == Following(a, level)
            other == N - next
            High_ == {l \in Levels(a) : l > level}
            Low_ == {l \in Levels(b) : l > other}
<1>1. N \in Nat /\ Scored(b) = S /\ IsFiniteSet(S)
      /\ \A o \in S : c(o) \in 0 .. N /\ ClearBits(b, o) = N - c(o)
  BY DEF IsMirror
<1>2. Levels(a) = {c(o) : o \in S} /\ Levels(b) = {N - c(o) : o \in S}
  BY <1>1 DEF Levels
<1>3. level \in Levels(a) /\ level \in 0 .. N
      /\ Cardinality(UpTo(a, level)) >= MinCluster /\ Cardinality(S \ UpTo(a, level)) >= MinCluster
  <2>1. level \in Levels(a)
    BY DEF Splits
  <2>2. level \in 0 .. N
    BY <1>1, <1>2, <2>1
  <2>. QED
    BY <2>1, <2>2 DEF Splits
<1>4. UpTo(a, level) = {o \in S : c(o) <= level}
  BY DEF UpTo
<1>5. S \ UpTo(a, level) # {}
  <2>1. Cardinality({}) = 0
    BY FS_EmptySet
  <2>. HIDE DEF S
  <2>. QED
    BY <1>3, <2>1, ClustersAreNotEmpty
<1>6. next \in High_ /\ \A l \in High_ : next <= l
  <2>1. High_ \in SUBSET Nat
    BY <1>1, <1>2
  <2>2. High_ # {}
    <3>1. PICK o \in S : ~(c(o) <= level)
      BY <1>4, <1>5
    <3>2. c(o) > level /\ c(o) \in Levels(a)
      BY <1>1, <1>2, <1>3, <3>1
    <3>. QED
      BY <3>2
  <2>3. next = Min(High_)
    BY DEF Following
  <2>. HIDE DEF High_, next
  <2>. QED
    BY <2>1, <2>2, <2>3, MinIsLeft
<1>7. next \in 0 .. N /\ level < next
  BY <1>1, <1>2, <1>3, <1>6
<1>. HIDE DEF next, c
<1>8. \A o \in S : c(o) <= level <=> c(o) < next
  <2>1. ASSUME NEW o \in S
        PROVE  c(o) <= level \/ next <= c(o)
    <3>1. c(o) \in Levels(a) /\ c(o) \in 0 .. N
      BY <1>1, <1>2
    <3>. QED
      BY <1>3, <1>6, <3>1
  <2>. QED
    BY <1>1, <1>3, <1>7, <2>1
<1>9. UpTo(b, other) = S \ UpTo(a, level)
  <2>1. UpTo(b, other) = {o \in S : N - c(o) <= other}
    BY <1>1 DEF UpTo
  <2>2. \A o \in S : N - c(o) <= other <=> ~(c(o) <= level)
    BY <1>1, <1>7, <1>8
  <2>. QED
    BY <1>4, <2>1, <2>2
<1>10. S \ UpTo(b, other) = UpTo(a, level)
  BY <1>4, <1>9
<1>11. other \in Levels(b)
  BY <1>2, <1>6
<1>12. other \in Splits(b)
  BY <1>1, <1>3, <1>9, <1>10, <1>11 DEF Splits
<1>13. Min(Low_) = N - level
  <2>1. Low_ \in SUBSET Nat
    BY <1>1, <1>2
  <2>2. N - level \in Low_
    BY <1>1, <1>2, <1>3, <1>7
  <2>3. Min(Low_) \in Low_ /\ \A l \in Low_ : Min(Low_) <= l
    <3>. HIDE DEF Low_
    <3>. QED
      BY <2>1, <2>2, MinIsLeft
  <2>4. PICK o \in S : Min(Low_) = N - c(o) /\ N - c(o) > other
    BY <1>2, <2>3
  <2>5. c(o) <= level
    BY <1>1, <1>7, <1>8, <2>4
  <2>. HIDE DEF Low_
  <2>. QED
    BY <1>1, <1>3, <2>2, <2>3, <2>4, <2>5
<1>14. Gap(b, other) = (N - level) - other
  BY <1>13 DEF Gap
<1>15. Gap(a, level) = next - level
  BY DEF Gap, next, Following
<1>. QED
  BY <1>1, <1>3, <1>7, <1>9, <1>12, <1>14, <1>15 DEF next

LEMMA MirrorsReturn ==
  ASSUME NEW a, NEW b, NEW N, IsMirror(a, b, N), NEW level \in Splits(a)
  PROVE  UpTo(a, level) = Scored(a) \ UpTo(b, N - Following(a, level))
<1>1. UpTo(b, N - Following(a, level)) = Scored(a) \ UpTo(a, level)
  BY CutsAreMirrored
<1>2. UpTo(a, level) \subseteq Scored(a)
  BY DEF UpTo
<1>. QED
  BY <1>1, <1>2

Gaps(ctx) == {Gap(ctx, level) : level \in Splits(ctx)}

LEMMA GapsAreMirrored ==
  ASSUME NEW a, NEW b, NEW N, IsMirror(a, b, N)
  PROVE  Gaps(a) \subseteq Gaps(b)
<1>1. ASSUME NEW level \in Splits(a)
      PROVE  Gap(a, level) \in Gaps(b)
  <2>1. /\ N - Following(a, level) \in Splits(b)
        /\ Gap(b, N - Following(a, level)) = Gap(a, level)
    BY CutsAreMirrored
  <2>. QED
    BY <2>1 DEF Gaps
<1>. QED
  BY <1>1 DEF Gaps

LEMMA GapsAreTheSame ==
  ASSUME NEW a, NEW b, NEW N, IsMirror(a, b, N)
  PROVE  Gaps(a) = Gaps(b) /\ WidestGap(a) = WidestGap(b)
<1>1. Gaps(a) \subseteq Gaps(b) /\ Gaps(b) \subseteq Gaps(a)
  BY GapsAreMirrored, MirrorsAreMutual
<1>. QED
  BY <1>1 DEF WidestGap, Gaps

\* With one widest gap, either low group is what the other leaves.
LEMMA LowGroupsAreMirrored ==
  ASSUME NEW a, NEW b, NEW N, IsMirror(a, b, N), HasOneWidestGap(a)
  PROVE  LowGroup(b) = Scored(a) \ LowGroup(a)
<1>. DEFINE A == {level \in Splits(a) : Gap(a, level) = WidestGap(a)}
            B == {level \in Splits(b) : Gap(b, level) = WidestGap(b)}
<1>1. \E w : A = {w}
  <2>1. Cardinality(A) = 1
    BY DEF HasOneWidestGap
  <2>2. IsFiniteSet(A)
    <3>1. IsFiniteSet(Scored(a))
      BY DEF IsMirror
    <3>2. IsFiniteSet(Levels(a))
      <4>1. Levels(a) = {ClearBits(a, o) : o \in Scored(a)}
        BY DEF Levels
      <4>. DEFINE f == [o \in Scored(a) |-> ClearBits(a, o)]
      <4>2. f \in Surjection(Scored(a), Levels(a))
        BY <4>1 DEF Surjection
      <4>. QED
        BY <3>1, <4>2, FS_Surjection
    <3>3. A \in SUBSET Levels(a)
      BY DEF Splits
    <3>. HIDE DEF A
    <3>. QED
      BY <3>2, <3>3, FS_Subset
  <2>. HIDE DEF A
  <2>. QED
    BY <2>1, <2>2, FS_Singleton
<1>2. PICK w : A = {w}
  BY <1>1
<1>3. w \in Splits(a) /\ Gap(a, w) = WidestGap(a)
  BY <1>2
<1>4. IsMirror(b, a, N) /\ WidestGap(b) = WidestGap(a) /\ Scored(b) = Scored(a)
  <2>1. IsMirror(b, a, N)
    BY MirrorsAreMutual
  <2>2. WidestGap(b) = WidestGap(a)
    BY GapsAreTheSame
  <2>3. Scored(b) = Scored(a)
    BY DEF IsMirror
  <2>. QED
    BY <2>1, <2>2, <2>3
<1>5. B \in SUBSET Nat /\ B # {}
  <2>1. B \in SUBSET Nat
    BY <1>4, CutsAreMirrored
  <2>2. N - Following(a, w) \in B
    BY <1>3, <1>4, CutsAreMirrored
  <2>. QED
    BY <2>1, <2>2
<1>6. ASSUME NEW level \in B
      PROVE  UpTo(b, level) = Scored(a) \ UpTo(a, w)
  <2>1. N - Following(b, level) \in A
    BY <1>4, CutsAreMirrored
  <2>2. N - Following(b, level) = w
    BY <1>2, <2>1
  <2>. HIDE DEF A, B
  <2>3. level \in Splits(b)
    BY DEF B
  <2>. QED
    BY <1>4, <2>2, <2>3, MirrorsReturn
<1>7. Min(B) \in B
  <2>. HIDE DEF B
  <2>. QED
    BY <1>5, MinIsLeft
<1>8. LowGroup(b) = UpTo(b, Min(B))
  BY DEF LowGroup
<1>9. LowGroup(a) = UpTo(a, w)
  <2>1. LowGroup(a) = UpTo(a, Min(A))
    BY DEF LowGroup
  <2>2. Min({w}) = w
    <3>1. A \in SUBSET Nat /\ A # {}
      BY <1>2, CutsAreMirrored
    <3>2. Min(A) \in A
      <4>. HIDE DEF A
      <4>. QED
        BY <3>1, MinIsLeft
    <3>. QED
      BY <1>2, <3>2
  <2>. QED
    BY <1>2, <2>1, <2>2
<1>. HIDE DEF A, B
<1>. QED
  BY <1>6, <1>7, <1>8, <1>9

InvertedBlob(blob) == [i \in DOMAIN blob |-> (0 .. 7) \ blob[i]]

\* A bit for each gateway: those that were clear are set.
LEMMA InversionTurnsVotes ==
  ASSUME NEW blob, NEW n, IsWhole(blob, n)
  PROVE  /\ IsWhole(InvertedBlob(blob), n) /\ Len(InvertedBlob(blob)) = Len(blob)
         /\ Votes(InvertedBlob(blob), n) = (0 .. n - 1) \ Votes(blob, n)
<1>. DEFINE inverted == InvertedBlob(blob)
<1>1. n \in Nat /\ blob \in Seq(Byte) /\ Len(blob) \in Nat /\ Len(blob) * 8 >= n
  BY DEF IsWhole
<1>2. DOMAIN blob = 1 .. Len(blob)
  BY <1>1
<1>3. inverted = [i \in 1 .. Len(blob) |-> (0 .. 7) \ blob[i]]
  BY <1>2 DEF InvertedBlob
<1>4. inverted \in Seq(Byte) /\ Len(inverted) = Len(blob)
  BY <1>1, <1>3 DEF Byte
<1>. HIDE DEF inverted
<1>5. ASSUME NEW k \in 0 .. n - 1
      PROVE  Vote(inverted, k) <=> ~Vote(blob, k)
  <2>1. k \div 8 < Len(blob) /\ (k \div 8) + 1 \in 1 .. Len(blob) /\ k % 8 \in 0 .. 7
    BY <1>1
  <2>2. inverted[(k \div 8) + 1] = (0 .. 7) \ blob[(k \div 8) + 1]
    BY <1>3, <2>1
  <2>. QED
    BY <1>4, <2>1, <2>2 DEF Vote
<1>6. Votes(inverted, n) = (0 .. n - 1) \ Votes(blob, n)
  BY <1>5 DEF Votes
<1>. QED
  BY <1>1, <1>4, <1>6 DEF IsWhole, inverted

LEMMA InvertedHas ==
  ASSUME NEW ctx, IsDecoded(ctx)
  PROVE  /\ Inverted(ctx).epochIndex = ctx.epochIndex
         /\ Submitters(Inverted(ctx)) = Submitters(ctx)
         /\ \A o \in Submitters(ctx) :
              /\ Inverted(ctx).obs[o].gatewayCount = ctx.obs[o].gatewayCount
              /\ Inverted(ctx).obs[o].gatewayResults = InvertedBlob(ctx.obs[o].gatewayResults)
<1>. DEFINE said == [o \in Submitters(ctx) |->
                       [ctx.obs[o] EXCEPT !.gatewayResults = InvertedBlob(ctx.obs[o].gatewayResults)]]
<1>1. Inverted(ctx) = [ctx EXCEPT !.obs = said]
  BY DEF Inverted, InvertedBlob
<1>2. {"epochIndex", "obs"} \subseteq DOMAIN ctx
  BY DEF IsDecoded
<1>3. ASSUME NEW o \in Submitters(ctx)
      PROVE  /\ said[o].gatewayCount = ctx.obs[o].gatewayCount
             /\ said[o].gatewayResults = InvertedBlob(ctx.obs[o].gatewayResults)
  <2>1. {"gatewayResults", "gatewayCount"} \subseteq DOMAIN ctx.obs[o]
    BY DEF IsDecoded, IsObservation
  <2>2. said[o] = [ctx.obs[o] EXCEPT !.gatewayResults = InvertedBlob(ctx.obs[o].gatewayResults)]
    OBVIOUS
  <2>. HIDE DEF said
  <2>. QED
    BY <2>1, <2>2
<1>4. DOMAIN said = Submitters(ctx)
  OBVIOUS
<1>. HIDE DEF said
<1>5. Inverted(ctx).obs = said /\ Inverted(ctx).epochIndex = ctx.epochIndex
  BY <1>1, <1>2
<1>. QED
  BY <1>3, <1>4, <1>5 DEF Submitters

\* What is clear and what is set are all.
LEMMA InversionIsAMirror ==
  ASSUME NEW ctx, IsDecoded(ctx), NEW N, GatewayCounts(ctx) = {N}
  PROVE  IsMirror(ctx, Inverted(ctx), N)
<1>. DEFINE inverted == Inverted(ctx)
<1>1. Submitters(inverted) = Submitters(ctx)
  BY InvertedHas
<1>2. ASSUME NEW o \in Submitters(ctx)
      PROVE  /\ N \in Nat /\ ctx.obs[o].gatewayCount = N /\ inverted.obs[o].gatewayCount = N
             /\ IsWhole(ctx.obs[o].gatewayResults, N)
             /\ inverted.obs[o].gatewayResults = InvertedBlob(ctx.obs[o].gatewayResults)
  <2>1. ctx.obs[o].gatewayCount = N
    BY DEF GatewayCounts
  <2>2. IsWhole(ctx.obs[o].gatewayResults, N)
    BY <2>1 DEF IsDecoded, IsObservation
  <2>. QED
    BY <2>1, <2>2, InvertedHas DEF IsWhole
<1>3. N \in Nat
  <2>1. PICK o \in Submitters(ctx) : TRUE
    BY DEF GatewayCounts
  <2>. QED
    BY <1>2
<1>. HIDE DEF inverted
<1>4. ASSUME NEW o \in Submitters(ctx)
      PROVE  /\ Len(inverted.obs[o].gatewayResults) * 8 >= N
             /\ Len(ctx.obs[o].gatewayResults) * 8 >= N
  <2>1. /\ IsWhole(ctx.obs[o].gatewayResults, N)
        /\ Len(InvertedBlob(ctx.obs[o].gatewayResults)) = Len(ctx.obs[o].gatewayResults)
    BY <1>2, InversionTurnsVotes
  <2>. QED
    BY <1>2, <2>1 DEF IsWhole
<1>5. Scored(inverted) = Scored(ctx) /\ Scored(ctx) \in SUBSET Submitters(ctx)
  BY <1>1, <1>2, <1>4 DEF Scored
<1>6. IsFiniteSet(Scored(ctx))
  <2>1. IsFiniteSet(Submitters(ctx))
    BY DEF IsDecoded
  <2>. QED
    BY <1>5, <2>1, FS_Subset
<1>7. ASSUME NEW o \in Submitters(ctx)
      PROVE  ClearBits(ctx, o) \in 0 .. N /\ ClearBits(inverted, o) = N - ClearBits(ctx, o)
  <2>. DEFINE V == Votes(ctx.obs[o].gatewayResults, N)
              W == Votes(inverted.obs[o].gatewayResults, N)
  <2>1. W = (0 .. N - 1) \ V
    BY <1>2, InversionTurnsVotes
  <2>2. V \in SUBSET (0 .. N - 1) /\ IsFiniteSet(V) /\ Cardinality(V) \in 0 .. N
    BY <1>3, VotesAreFew
  <2>3. Cardinality(W) = N - Cardinality(V)
    <3>. DEFINE all == 0 .. N - 1
    <3>1. IsFiniteSet(all) /\ Cardinality(all) = N
      BY <1>3, FS_Interval
    <3>2. W = all \ V /\ all \cap V = V
      BY <2>1, <2>2
    <3>. HIDE DEF V, W, all
    <3>3. Cardinality(all \ V) = Cardinality(all) - Cardinality(all \cap V)
      BY <3>1, FS_Difference
    <3>. QED
      BY <3>1, <3>2, <3>3
  <2>4. ClearBits(ctx, o) = N - Cardinality(V) /\ ClearBits(inverted, o) = N - Cardinality(W)
    BY <1>2 DEF ClearBits
  <2>. HIDE DEF V, W
  <2>. QED
    BY <1>3, <2>2, <2>3, <2>4
<1>. QED
  BY <1>3, <1>5, <1>6, <1>7 DEF IsMirror, inverted

LEMMA PolarityOfAContext ==
  ASSUME NEW ctx, IsDecoded(ctx)
  PROVE  /\ DivergentAssessment(Inverted(ctx)) = DivergentAssessment(ctx)
         /\ IsSplit(ctx) /\ HasOneWidestGap(ctx) =>
              LowGroup(Inverted(ctx)) = Scored(ctx) \ LowGroup(ctx)
<1>. DEFINE inverted == Inverted(ctx)
<1>1. GatewayCounts(inverted) = GatewayCounts(ctx) /\ inverted.epochIndex = ctx.epochIndex
  BY InvertedHas DEF GatewayCounts
<1>. HIDE DEF inverted
<1>2. CASE Cardinality(GatewayCounts(ctx)) # 1
  <2>1. ~IsSplit(ctx) /\ ~IsSplit(inverted)
    BY <1>1, <1>2 DEF IsSplit
  <2>. QED
    BY <2>1 DEF DivergentAssessment, inverted
<1>3. CASE Cardinality(GatewayCounts(ctx)) = 1
  <2>1. IsFiniteSet(GatewayCounts(ctx))
    <3>1. IsFiniteSet(Submitters(ctx))
      BY DEF IsDecoded
    <3>. DEFINE f == [o \in Submitters(ctx) |-> ctx.obs[o].gatewayCount]
    <3>2. f \in Surjection(Submitters(ctx), GatewayCounts(ctx))
      BY DEF Surjection, GatewayCounts
    <3>. QED
      BY <3>1, <3>2, FS_Surjection
  <2>2. PICK N : GatewayCounts(ctx) = {N}
    BY <1>3, <2>1, FS_Singleton
  <2>3. IsMirror(ctx, inverted, N)
    BY <2>2, InversionIsAMirror DEF inverted
  <2>4. Gaps(ctx) = Gaps(inverted) /\ WidestGap(ctx) = WidestGap(inverted)
    BY <2>3, GapsAreTheSame
  <2>5. Scored(inverted) = Scored(ctx)
    BY <2>3 DEF IsMirror
  <2>6. IsSplit(inverted) <=> IsSplit(ctx)
    <3>1. ASSUME NEW context, context \in {ctx, inverted}
          PROVE  IsSplit(context)
                   <=> \E gap \in Gaps(context) : gap * 100 >= 12 * Max(GatewayCounts(ctx))
      BY <1>1, <1>3, <3>1 DEF IsSplit, Gaps
    <3>. QED
      BY <2>4, <3>1
  <2>7. DivergentAssessment(inverted) = DivergentAssessment(ctx)
    BY <1>1, <2>4, <2>5, <2>6 DEF DivergentAssessment
  <2>8. HasOneWidestGap(ctx) => LowGroup(inverted) = Scored(ctx) \ LowGroup(ctx)
    BY <2>3, LowGroupsAreMirrored
  <2>. QED
    BY <2>7, <2>8 DEF inverted
<1>. QED
  BY <1>2, <1>3
-----------------------------------------------------------------------------
(***************************************************************************)
(* Fractions, and the samples of a calibration in the order of theirs.     *)
(***************************************************************************)
\* Similarities and thresholds.
Fractions == Nat \X (Nat \ {0})

LEMMA ProductsKeepOrder ==
  ASSUME NEW x \in Nat, NEW y \in Nat, NEW z \in Nat, x >= y
  PROVE  x * z >= y * z
<1>1. x = y + (x - y) /\ x - y \in Nat
  OBVIOUS
<1>. DEFINE d == x - y
<1>2. x * z = (y + d) * z
  BY <1>1
<1>3. (y + d) * z = y * z + d * z
  BY <1>1
<1>4. d * z >= 0
  BY <1>1
<1>. QED
  BY <1>2, <1>3, <1>4

LEMMA ProductsShowOrder ==
  ASSUME NEW x \in Nat, NEW y \in Nat, NEW z \in Nat \ {0}, x * z >= y * z
  PROVE  x >= y
<1>1. SUFFICES ASSUME x < y
               PROVE  FALSE
  OBVIOUS
<1>2. y >= x + 1 /\ x + 1 \in Nat
  BY <1>1
<1>3. y * z >= (x + 1) * z
  BY <1>2, ProductsKeepOrder
<1>4. (x + 1) * z = x * z + z
  OBVIOUS
<1>. QED
  BY <1>3, <1>4

\* AtLeast is the order of the fractions.
LEMMA FractionsAreOrdered ==
  ASSUME NEW a \in Fractions, NEW b \in Fractions, NEW c \in Fractions
  PROVE  /\ AtLeast(a, b) \/ AtLeast(b, a)
         /\ AtLeast(a, b) /\ AtLeast(b, c) => AtLeast(a, c)
<1>1. a[1] \in Nat /\ a[2] \in Nat \ {0} /\ b[1] \in Nat /\ b[2] \in Nat \ {0}
      /\ c[1] \in Nat /\ c[2] \in Nat \ {0}
  BY DEF Fractions
<1>2. AtLeast(a, b) \/ AtLeast(b, a)
  <2>1. a[1] * b[2] \in Nat /\ b[1] * a[2] \in Nat
    BY <1>1
  <2>. QED
    BY <2>1 DEF AtLeast
<1>3. ASSUME AtLeast(a, b), AtLeast(b, c)
      PROVE  AtLeast(a, c)
  <2>. DEFINE m == a[1]
              n == a[2]
              p == b[1]
              q == b[2]
              r == c[1]
              s == c[2]
  <2>1. m \in Nat /\ n \in Nat \ {0} /\ p \in Nat /\ q \in Nat \ {0} /\ r \in Nat /\ s \in Nat \ {0}
    BY <1>1
  <2>2. m * q >= p * n /\ p * s >= r * q
    BY <1>3 DEF AtLeast
  <2>. HIDE DEF m, n, p, q, r, s
  <2>3. m * q \in Nat /\ p * n \in Nat /\ p * s \in Nat /\ r * q \in Nat /\ m * s \in Nat /\ r * n \in Nat
    BY <2>1
  <2>4. (m * q) * s >= (p * n) * s
    BY <2>1, <2>2, <2>3, ProductsKeepOrder
  <2>5. (p * s) * n >= (r * q) * n
    BY <2>1, <2>2, <2>3, ProductsKeepOrder
  <2>6. (p * n) * s = (p * s) * n /\ (m * q) * s = (m * s) * q /\ (r * q) * n = (r * n) * q
    BY <2>1
  <2>7. (m * s) * q \in Nat /\ (r * n) * q \in Nat /\ (p * n) * s \in Nat
    BY <2>1, <2>3
  <2>8. (m * s) * q >= (r * n) * q
    BY <2>4, <2>5, <2>6, <2>7
  <2>9. m * s >= r * n
    BY <2>1, <2>3, <2>8, ProductsShowOrder
  <2>. QED
    BY <2>9 DEF AtLeast, m, n, r, s
<1>. QED
  BY <1>2, <1>3

\* The observations of the epochs, as the capture decodes them.
IsStore(store) ==
  /\ DOMAIN store = Epochs
  /\ \A e \in Epochs : /\ DOMAIN store[e] \subseteq Observers
                       /\ \A o \in DOMAIN store[e] : IsObservation(store[e][o])

LEMMA SimilaritiesAreFractions ==
  ASSUME NEW a, NEW b, NEW n, NEW m, IsWhole(a, n), IsWhole(b, m)
  PROVE  Similarity(a, b, n, m) \in Fractions
<1>. DEFINE k == Smaller(n, m)
            d == Cardinality(DifferingBits(a, b, k))
<1>1. n \in Nat /\ m \in Nat
  BY DEF IsWhole
<1>2. k \in Nat /\ k <= n /\ k <= m
  BY <1>1, SmallerIs
<1>. HIDE DEF k
<1>3. IsWhole(a, k) /\ IsWhole(b, k)
  BY <1>2, WholeOfLess
<1>4. d \in 0 .. k
  BY <1>3, DistanceIsOfVotes
<1>5. Similarity(a, b, n, m) = IF k = 0 THEN <<0, 1>> ELSE <<k - d, k>>
  BY DEF Similarity, k
<1>. HIDE DEF d
<1>. QED
  BY <1>2, <1>4, <1>5 DEF Fractions

\* Samples are couples of an epoch's observers.
LEMMA SamplesHave ==
  ASSUME NEW store, IsStore(store)
  PROVE  /\ IsFiniteSet(Samples(store))
         /\ \A s \in Samples(store) :
              /\ s[1] \in Nat /\ s[2][1] \in Nat /\ s[2][2] \in Nat
              /\ s = <<s[1], <<s[2][1], s[2][2]>>>>
              /\ SampleSimilarity(store, s) \in Fractions
<1>1. ASSUME NEW s \in Samples(store)
      PROVE  /\ s \in Epochs \X (Observers \X Observers)
             /\ s[1] \in Epochs /\ s[2][1] \in DOMAIN store[s[1]] /\ s[2][2] \in DOMAIN store[s[1]]
             /\ s = <<s[1], <<s[2][1], s[2][2]>>>>
  <2>1. PICK e \in Epochs : s \in {<<e, c>> : c \in {d \in (DOMAIN store[e]) \X (DOMAIN store[e]) : d[1] < d[2]}}
    BY DEF Samples, IsStore
  <2>2. PICK c \in (DOMAIN store[e]) \X (DOMAIN store[e]) : s = <<e, c>>
    BY <2>1
  <2>3. DOMAIN store[e] \subseteq Observers
    BY DEF IsStore
  <2>. QED
    BY <2>2, <2>3
<1>2. IsFiniteSet(Samples(store))
  <2>1. IsFiniteSet(Observers \X Observers)
    BY StoresAreFinite, FS_Product
  <2>2. IsFiniteSet(Epochs \X (Observers \X Observers))
    BY <2>1, StoresAreFinite, FS_Product
  <2>3. Samples(store) \in SUBSET (Epochs \X (Observers \X Observers))
    BY <1>1
  <2>. QED
    BY <2>2, <2>3, FS_Subset
<1>3. ASSUME NEW s \in Samples(store)
      PROVE  SampleSimilarity(store, s) \in Fractions
  <2>. DEFINE a == store[s[1]][s[2][1]]
              b == store[s[1]][s[2][2]]
  <2>1. IsWhole(a.gatewayResults, a.gatewayCount) /\ IsWhole(b.gatewayResults, b.gatewayCount)
    BY <1>1 DEF IsStore, IsObservation
  <2>2. SampleSimilarity(store, s)
          = Similarity(a.gatewayResults, b.gatewayResults, a.gatewayCount, b.gatewayCount)
    BY DEF SampleSimilarity
  <2>. HIDE DEF a, b
  <2>. QED
    BY <2>1, <2>2, SimilaritiesAreFractions
<1>4. \A s \in Samples(store) : s[1] \in Nat /\ s[2][1] \in Nat /\ s[2][2] \in Nat
  BY <1>1, EpochsAreNat, ObserversAreOrdered
<1>. QED
  BY <1>1, <1>2, <1>3, <1>4

\* The less alike are before the more alike.
IsLess(store, s, t) ==
  \/ ~AtLeast(SampleSimilarity(store, s), SampleSimilarity(store, t))
  \/ AtLeast(SampleSimilarity(store, t), SampleSimilarity(store, s)) /\ Earlier(s, t)

SampleOrder(store, samples) == {st \in samples \X samples : IsLess(store, st[1], st[2])}

LEMMA EarlierIsAnOrder ==
  ASSUME NEW store, IsStore(store),
         NEW s \in Samples(store), NEW t \in Samples(store), NEW u \in Samples(store)
  PROVE  /\ ~Earlier(s, s)
         /\ s # t => Earlier(s, t) \/ Earlier(t, s)
         /\ Earlier(s, t) /\ Earlier(t, u) => Earlier(s, u)
<1>1. /\ s[1] \in Nat /\ s[2][1] \in Nat /\ s[2][2] \in Nat /\ s = <<s[1], <<s[2][1], s[2][2]>>>>
      /\ t[1] \in Nat /\ t[2][1] \in Nat /\ t[2][2] \in Nat /\ t = <<t[1], <<t[2][1], t[2][2]>>>>
      /\ u[1] \in Nat /\ u[2][1] \in Nat /\ u[2][2] \in Nat
  BY SamplesHave
<1>2. s # t => s[1] # t[1] \/ s[2][1] # t[2][1] \/ s[2][2] # t[2][2]
  BY <1>1
<1>. QED
  BY <1>1, <1>2 DEF Earlier, InOrder

LEMMA SamplesAreOrdered ==
  ASSUME NEW store, IsStore(store), NEW samples \in SUBSET Samples(store)
  PROVE  IsOrderOf(SampleOrder(store, samples), samples)
<1>. DEFINE sim(s) == SampleSimilarity(store, s)
            Le(s, t) == AtLeast(sim(t), sim(s))
<1>1. \A s, t \in samples : <<s, t>> \in SampleOrder(store, samples)
                              <=> ~Le(t, s) \/ (Le(s, t) /\ Earlier(s, t))
  BY DEF SampleOrder, IsLess
<1>2. \A s, t, u \in samples : /\ Le(s, t) \/ Le(t, s)
                               /\ Le(s, t) /\ Le(t, u) => Le(s, u)
  <2>1. \A s \in samples : sim(s) \in Fractions
    BY SamplesHave
  <2>. HIDE DEF sim
  <2>. QED
    BY <2>1, FractionsAreOrdered
<1>3. \A s, t, u \in samples : /\ ~Earlier(s, s)
                               /\ s # t => Earlier(s, t) \/ Earlier(t, s)
                               /\ Earlier(s, t) /\ Earlier(t, u) => Earlier(s, u)
  BY EarlierIsAnOrder
<1>. HIDE DEF Le
<1>. QED
  BY <1>1, <1>2, <1>3 DEF IsOrderOf

\* Each sample's similarity has a place of its own among the sorted ones.
LEMMA SortedHas ==
  ASSUME NEW store, IsStore(store), NEW samples \in SUBSET Samples(store)
  PROVE  LET sorted == Sorted(store, samples)
             n == Cardinality(samples)
         IN  /\ n \in Nat /\ IsFiniteSet(samples)
             /\ sorted \in Seq(Fractions) /\ Len(sorted) = n
             /\ \A i, j \in 1 .. n : i < j => AtLeast(sorted[j], sorted[i])
             /\ \E place \in Injection(samples, 1 .. n) :
                  \A s \in samples : sorted[place[s]] = SampleSimilarity(store, s)
<1>. DEFINE n == Cardinality(samples)
            R == SampleOrder(store, samples)
            similarity == [s \in samples |-> SampleSimilarity(store, s)]
            Less(s, t) == \/ ~AtLeast(similarity[s], similarity[t])
                          \/ AtLeast(similarity[t], similarity[s]) /\ Earlier(s, t)
            ranked == Ranked(samples, Less)
            Has(x, i) == Cardinality({y \in samples : Less(y, x)}) = i - 1
<1>1. IsFiniteSet(samples) /\ n \in Nat
  <2>1. IsFiniteSet(Samples(store))
    BY SamplesHave
  <2>. QED
    BY <2>1, FS_Subset, FS_CardinalityType
<1>2. IsOrderOf(R, samples)
  BY SamplesAreOrdered
<1>3. ASSUME NEW x \in samples
      PROVE  {y \in samples : Less(y, x)} = Before(samples, R, x)
  BY DEF Before, SampleOrder, IsLess
<1>4. ranked = [i \in 1 .. n |-> CHOOSE x \in samples : Has(x, i)]
  BY Zenon DEF Ranked
<1>5. Sorted(store, samples) = [i \in DOMAIN ranked |-> similarity[ranked[i]]]
  BY Zenon DEF Sorted
<1>6. ASSUME NEW i \in 1 .. n
      PROVE  ranked[i] \in samples /\ Cardinality(Before(samples, R, ranked[i])) = i - 1
  <2>1. PICK x \in samples : Cardinality(Before(samples, R, x)) = i - 1
    <3>. HIDE DEF R
    <3>. QED
      BY <1>1, <1>2, RanksAreTaken
  <2>2. Has(x, i)
    BY <1>3, <2>1
  <2>3. ranked[i] = CHOOSE y \in samples : Has(y, i)
    BY <1>4
  <2>. HIDE DEF Has, ranked, R, Less
  <2>4. ranked[i] \in samples /\ Has(ranked[i], i)
    BY <2>2, <2>3, Zenon
  <2>. QED
    BY <1>3, <2>4 DEF Has
<1>. HIDE DEF R, ranked, Less, Has
<1>7. ranked \in [1 .. n -> samples]
  <2>1. DOMAIN ranked = 1 .. n /\ ranked = [i \in DOMAIN ranked |-> ranked[i]]
    BY <1>4
  <2>. QED
    BY <1>6, <2>1
<1>8. Sorted(store, samples) = [i \in 1 .. n |-> SampleSimilarity(store, ranked[i])]
  BY <1>5, <1>7
<1>9. Lists(ranked, samples, R)
  BY <1>6, <1>7 DEF Lists
<1>. DEFINE sorted == Sorted(store, samples)
            place == [s \in samples |-> Cardinality(Before(samples, R, s)) + 1]
<1>10. sorted \in Seq(Fractions) /\ Len(sorted) = n
  <2>1. \A i \in 1 .. n : SampleSimilarity(store, ranked[i]) \in Fractions
    BY <1>7, SamplesHave
  <2>. QED
    BY <1>1, <1>8, <2>1
<1>11. ASSUME NEW i \in 1 .. n, NEW j \in 1 .. n, i < j
       PROVE  AtLeast(sorted[j], sorted[i])
  <2>1. /\ ranked[i] \in samples /\ ranked[j] \in samples
        /\ Cardinality(Before(samples, R, ranked[i])) = i - 1
        /\ Cardinality(Before(samples, R, ranked[j])) = j - 1
    BY <1>6
  <2>2. ranked[i] # ranked[j] /\ <<ranked[j], ranked[i]>> \notin R
    BY <1>1, <1>2, <1>11, <2>1, RanksAreTaken
  <2>3. <<ranked[i], ranked[j]>> \in R
    BY <1>2, <2>1, <2>2 DEF IsOrderOf
  <2>4. IsLess(store, ranked[i], ranked[j])
    BY <2>3 DEF R, SampleOrder
  <2>5. SampleSimilarity(store, ranked[i]) \in Fractions /\ SampleSimilarity(store, ranked[j]) \in Fractions
    BY <2>1, SamplesHave
  <2>6. AtLeast(SampleSimilarity(store, ranked[j]), SampleSimilarity(store, ranked[i]))
    BY <2>4, <2>5, FractionsAreOrdered DEF IsLess
  <2>. QED
    BY <1>8, <2>6
<1>12. place \in Injection(samples, 1 .. n)
  <2>1. \A s \in samples : Cardinality(Before(samples, R, s)) \in 0 .. n - 1
    BY <1>1, <1>2, RanksAreTaken
  <2>2. ASSUME NEW s \in samples, NEW t \in samples, place[s] = place[t]
        PROVE  s = t
    <3>1. Cardinality(Before(samples, R, s)) = Cardinality(Before(samples, R, t))
      BY <2>1, <2>2
    <3>2. <<s, t>> \notin R /\ <<t, s>> \notin R
      BY <1>1, <1>2, <2>1, <3>1, RanksAreTaken
    <3>. QED
      BY <1>2, <3>2 DEF IsOrderOf
  <2>3. place \in [samples -> 1 .. n]
    BY <1>1, <2>1
  <2>. QED
    BY <2>2, <2>3 DEF Injection, IsInjective
<1>13. ASSUME NEW s \in samples
       PROVE  sorted[place[s]] = SampleSimilarity(store, s)
  <2>1. PICK i \in 1 .. n : ranked[i] = s
    BY <1>1, <1>2, <1>9, ListsAll
  <2>2. place[s] = i
    BY <1>1, <1>6, <2>1
  <2>. QED
    BY <1>8, <2>1, <2>2
<1>. HIDE DEF sorted, place
<1>. QED
  BY <1>1, <1>10, <1>11, <1>12, <1>13 DEF sorted
-----------------------------------------------------------------------------
(***************************************************************************)
(* What a measurement recommends (src/observers/calibrate.ts).             *)
(***************************************************************************)
\* percentile: one in a thousand is above the 99.9th.
LEMMA PercentileIs ==
  ASSUME NEW sorted \in Seq(Fractions), sorted # <<>>
  PROVE  \E k \in 1 .. Len(sorted) : /\ Percentile(sorted, 999, 1000) = sorted[k]
                                     /\ 1000 * (Len(sorted) - k) <= Len(sorted)
<1>. DEFINE n == Len(sorted)
            x == (999 * n + 1000 - 1) \div 1000
            k == Max({1, x})
<1>1. n \in Nat /\ n >= 1
  OBVIOUS
<1>. HIDE DEF n
<1>2. x \in 1 .. n /\ 1000 * x >= 999 * n
  BY <1>1
<1>3. k = x
  <2>. HIDE DEF x
  <2>1. {1, x} \in SUBSET Nat /\ {1, x} # {}
    BY <1>2
  <2>2. IsFiniteSet({1, x})
    <3>1. IsFiniteSet({1})
      BY FS_Singleton
    <3>2. IsFiniteSet({1} \cup {x})
      BY <3>1, FS_AddElement
    <3>3. {1, x} = {1} \cup {x}
      OBVIOUS
    <3>. QED
      BY <3>2, <3>3
  <2>. DEFINE both == {1, x}
  <2>3. Max(both) \in both /\ \A y \in both : y <= Max(both)
    <3>. HIDE DEF both
    <3>. QED
      BY <2>1, <2>2, MaxIsThere DEF both
  <2>. QED
    BY <1>2, <2>3
<1>4. Percentile(sorted, 999, 1000) = sorted[k]
  BY DEF Percentile, n
<1>. HIDE DEF x
<1>. QED
  BY <1>1, <1>2, <1>3, <1>4 DEF n

\* The margin lies above.
LEMMA MarginIsAbove ==
  ASSUME NEW a \in Fractions
  PROVE  /\ Raised(a, Margin) \in (Nat \ {0}) \X (Nat \ {0})
         /\ ~AtLeast(a, Raised(a, Margin))
<1>. DEFINE m == a[1]
            n == a[2]
<1>1. m \in Nat /\ n \in Nat \ {0}
  BY DEF Fractions
<1>2. Raised(a, Margin) = <<m * 1000 + 2 * n, n * 1000>>
  BY DEF Raised, Margin
<1>3. ~AtLeast(a, Raised(a, Margin))
  <2>1. AtLeast(a, Raised(a, Margin)) <=> m * (n * 1000) >= (m * 1000 + 2 * n) * n
    BY <1>2 DEF AtLeast
  <2>. HIDE DEF m, n
  <2>2. (m * 1000 + 2 * n) * n = m * (n * 1000) + 2 * (n * n)
    BY <1>1
  <2>3. n * n > 0 /\ m * (n * 1000) \in Nat /\ n * n \in Nat
    BY <1>1
  <2>. QED
    BY <2>1, <2>2, <2>3
<1>. HIDE DEF m, n
<1>. QED
  BY <1>1, <1>2, <1>3

\* No more are above a place than there are places above.
LEMMA FewReach ==
  ASSUME NEW store, IsStore(store), NEW samples \in SUBSET Samples(store),
         NEW k \in 1 .. Cardinality(samples), NEW threshold \in Fractions,
         ~AtLeast(Sorted(store, samples)[k], threshold)
  PROVE  LET reported == {s \in samples : AtLeast(SampleSimilarity(store, s), threshold)}
         IN  Cardinality(reported) \in Nat /\ Cardinality(reported) <= Cardinality(samples) - k
<1>. DEFINE n == Cardinality(samples)
            sorted == Sorted(store, samples)
            reported == {s \in samples : AtLeast(SampleSimilarity(store, s), threshold)}
            places == (k + 1) .. n
<1>1. /\ n \in Nat /\ IsFiniteSet(samples)
      /\ sorted \in Seq(Fractions) /\ Len(sorted) = n
      /\ \A i, j \in 1 .. n : i < j => AtLeast(sorted[j], sorted[i])
  BY SortedHas
<1>2. PICK place \in Injection(samples, 1 .. n) :
        \A s \in samples : sorted[place[s]] = SampleSimilarity(store, s)
  BY SortedHas
<1>3. \A i \in 1 .. n : sorted[i] \in Fractions
  <2>. HIDE DEF sorted
  <2>. QED
    BY <1>1
<1>. HIDE DEF sorted
<1>4. place \in [samples -> 1 .. n] /\ \A s, t \in samples : place[s] = place[t] => s = t
  BY <1>2 DEF Injection, IsInjective
<1>5. ASSUME NEW s \in reported
      PROVE  place[s] \in places
  <2>1. s \in samples /\ place[s] \in 1 .. n /\ AtLeast(sorted[place[s]], threshold)
    BY <1>2, <1>4
  <2>2. place[s] # k
    BY <2>1 DEF sorted
  <2>3. ~(place[s] < k)
    <3>1. SUFFICES ASSUME place[s] < k
                   PROVE  FALSE
      OBVIOUS
    <3>2. AtLeast(sorted[k], sorted[place[s]])
      BY <1>1, <2>1, <3>1
    <3>3. AtLeast(sorted[k], threshold)
      BY <1>3, <2>1, <3>2, FractionsAreOrdered
    <3>. QED
      BY <3>3 DEF sorted
  <2>. QED
    BY <1>1, <2>1, <2>2, <2>3
<1>6. IsFiniteSet(places) /\ Cardinality(places) = n - k
  <2>. DEFINE first == k + 1
  <2>1. first \in Int /\ n \in Int /\ first = k + 1
    BY <1>1
  <2>2. IsFiniteSet(places) /\ Cardinality(places) = IF first > n THEN 0 ELSE n - first + 1
    <3>1. IsFiniteSet(first .. n) /\ Cardinality(first .. n) = IF first > n THEN 0 ELSE n - first + 1
      <4>. HIDE DEF first, n
      <4>. QED
        BY <2>1, FS_Interval
    <3>. QED
      BY <3>1
  <2>. HIDE DEF places, first
  <2>. QED
    BY <1>1, <2>1, <2>2
<1>. DEFINE f == [s \in reported |-> place[s]]
<1>7. f \in Injection(reported, places)
  <2>1. reported \subseteq samples
    OBVIOUS
  <2>. HIDE DEF reported, places
  <2>. QED
    BY <1>4, <1>5, <2>1 DEF Injection, IsInjective
<1>8. IsFiniteSet(reported) /\ Cardinality(reported) <= Cardinality(places)
  <2>1. reported \in SUBSET samples
    OBVIOUS
  <2>. HIDE DEF f, reported, places
  <2>. QED
    BY <1>1, <1>6, <1>7, <2>1, FS_Subset, FS_Injection
<1>. HIDE DEF reported, places
<1>9. Cardinality(reported) \in Nat
  BY <1>8, FS_CardinalityType
<1>. QED
  BY <1>6, <1>8, <1>9 DEF reported

\* What a measurement recommends is one, or a threshold that few independent couples reach.
FewAreReported(store, gateways) ==
  LET independent == Independent(store, gateways)
      threshold == Measured(store, gateways).threshold
      reported == {s \in independent : AtLeast(SampleSimilarity(store, s), threshold)}
  IN  threshold = One \/ 1000 * Cardinality(reported) <= Cardinality(independent)

\* It is above 0, whatever the data.
LEMMA MeasurementsHave ==
  ASSUME NEW store, IsStore(store), NEW gateways
  PROVE  /\ Measured(store, gateways).threshold \in (Nat \ {0}) \X (Nat \ {0})
         /\ DOMAIN Measured(store, gateways) = {"threshold", "separates", "active"}
         /\ FewAreReported(store, gateways)
<1>. DEFINE independent == Independent(store, gateways)
            n == Cardinality(independent)
            sorted == Sorted(store, independent)
            p999 == IF sorted = <<>> THEN MinRecommended ELSE Percentile(sorted, 999, 1000)
            raised == Raised(p999, Margin)
            greater == Greater(raised, MinRecommended)
            threshold == Lesser(One, greater)
            Positive == (Nat \ {0}) \X (Nat \ {0})
            reported == {s \in independent : AtLeast(SampleSimilarity(store, s), threshold)}
<1>1. independent \in SUBSET Samples(store)
  BY DEF Independent
<1>2. Measured(store, gateways).threshold = threshold
      /\ DOMAIN Measured(store, gateways) = {"threshold", "separates", "active"}
  BY Zenon DEF Measured, Recommended
<1>. HIDE DEF independent
<1>3. n \in Nat /\ IsFiniteSet(independent) /\ sorted \in Seq(Fractions) /\ Len(sorted) = n
  BY <1>1, SortedHas
<1>. HIDE DEF sorted
<1>4. p999 \in Fractions
  <2>1. MinRecommended \in Fractions
    BY DEF MinRecommended, Fractions
  <2>2. ASSUME sorted # <<>>
        PROVE  Percentile(sorted, 999, 1000) \in Fractions
    <3>1. PICK k \in 1 .. Len(sorted) : Percentile(sorted, 999, 1000) = sorted[k]
      BY <1>3, <2>2, PercentileIs
    <3>. QED
      BY <1>3, <3>1
  <2>. QED
    BY <2>1, <2>2
<1>5. raised \in Positive /\ ~AtLeast(p999, raised)
  <2>. HIDE DEF p999
  <2>. QED
    BY <1>4, MarginIsAbove
<1>6. \A x \in Positive : x \in Fractions
  BY DEF Fractions
<1>7. MinRecommended \in Positive /\ One \in Positive
  BY DEF MinRecommended, One
<1>. HIDE DEF p999, raised, Positive
<1>8. greater \in Positive /\ AtLeast(greater, raised)
  BY <1>5, <1>6, <1>7, FractionsAreOrdered DEF Greater
<1>. HIDE DEF greater
<1>9. threshold \in Positive /\ (threshold = One \/ threshold = greater)
  BY <1>7, <1>8 DEF Lesser
<1>. HIDE DEF threshold
<1>10. ASSUME threshold = greater
       PROVE  1000 * Cardinality(reported) <= n
  <2>1. ~AtLeast(p999, threshold)
    BY <1>4, <1>5, <1>6, <1>8, <1>9, <1>10, FractionsAreOrdered
  <2>2. CASE sorted = <<>>
    <3>1. n = 0
      BY <1>3, <2>2
    <3>2. independent = {}
      BY <1>3, <3>1, FS_EmptySet
    <3>3. reported = {}
      BY <3>2
    <3>. QED
      BY <3>1, <3>3, FS_EmptySet
  <2>3. CASE sorted # <<>>
    <3>1. PICK k \in 1 .. Len(sorted) : /\ Percentile(sorted, 999, 1000) = sorted[k]
                                        /\ 1000 * (Len(sorted) - k) <= Len(sorted)
      BY <1>3, <2>3, PercentileIs
    <3>2. ~AtLeast(sorted[k], threshold)
      BY <2>1, <2>3, <3>1 DEF p999
    <3>3. Cardinality(reported) \in Nat /\ Cardinality(reported) <= n - k
      BY <1>1, <1>3, <1>6, <1>9, <3>1, <3>2, FewReach DEF sorted
    <3>. HIDE DEF reported, n
    <3>. QED
      BY <1>3, <3>1, <3>3
  <2>. QED
    BY <2>2, <2>3
<1>. QED
  BY <1>2, <1>9, <1>10 DEF independent, Positive, FewAreReported
-----------------------------------------------------------------------------
(***************************************************************************)
(* What is in the store, and what a run has read of it.                    *)
(***************************************************************************)
\* What a run has read are observations, as they are in the store.
IsReadRight(read) ==
  \A e \in DOMAIN read : /\ DOMAIN read[e] \subseteq Observers
                         /\ \A o \in DOMAIN read[e] : IsObservation(read[e][o])

RowOK(row) == {"threshold", "active"} \subseteq DOMAIN row /\ IsPositive(row.threshold)

\* Thresholds are above 0, and the observations as the capture decodes them, wherever they
\* are.
DataOK ==
  /\ IsStore(obs)
  /\ \A i \in DOMAIN calibration : RowOK(calibration[i])
  /\ \A r \in Runs : IsPositive(run[r].config.threshold) /\ IsReadRight(run[r].read)

LEMMA DataAtFirst == Init => DataOK
<1>. SUFFICES ASSUME Init
              PROVE  DataOK
  OBVIOUS
<1>1. PICK start \in Starts : InitFrom(start)
  BY DEF Init
<1>2. IsStore(obs)
  BY <1>1, StoresHaveObservers, ObservationsAreDecoded DEF InitFrom, IsStore
<1>3. DOMAIN calibration = {}
  BY <1>1 DEF InitFrom
<1>4. ASSUME NEW r \in Runs
      PROVE  IsPositive(run[r].config.threshold) /\ IsReadRight(run[r].read)
  <2>1. run[r] = Done \/ run[r] = Idle
    BY <1>1 DEF InitFrom
  <2>2. /\ Idle.config.threshold = DefaultThreshold /\ DOMAIN Idle.read = {}
        /\ Done.config.threshold = DefaultThreshold /\ DOMAIN Done.read = {}
    BY DEF Idle, Done, Nobody, Uncalibrated
  <2>. QED
    BY <2>1, <2>2, ThresholdIsPositive DEF IsPositive, IsReadRight
<1>. QED
  BY <1>2, <1>3, <1>4 DEF DataOK

LEMMA DataAfterCapture ==
  ASSUME DataOK, NEW s \in Submissions, Capture(s[1], s[2], s[3])
  PROVE  DataOK'
<1>. DEFINE observations == With(obs[s[1]], s[2], s[3])
<1>1. s[1] \in Epochs /\ s[2] \in Observers /\ IsObservation(s[3])
  BY SubmissionsHaveObservers, ObservationsAreDecoded
<1>2. IsStore(obs)
  BY DEF DataOK
<1>3. /\ DOMAIN observations \subseteq Observers
      /\ \A o \in DOMAIN observations : IsObservation(observations[o])
  <2>1. /\ DOMAIN obs[s[1]] \subseteq Observers
        /\ \A o \in DOMAIN obs[s[1]] : IsObservation(obs[s[1]][o])
    BY <1>1, <1>2 DEF IsStore
  <2>. QED
    BY <1>1, <2>1 DEF With
<1>4. obs' = [obs EXCEPT ![s[1]] = observations]
  BY DEF Capture
<1>. HIDE DEF observations
<1>5. IsStore(obs')
  BY <1>1, <1>2, <1>3, <1>4 DEF IsStore
<1>6. UNCHANGED <<calibration, run>>
  BY DEF Capture
<1>. QED
  BY <1>5, <1>6 DEF DataOK

LEMMA DataAfterCalibrate ==
  ASSUME IInv, DataOK, Calibrate
  PROVE  DataOK'
<1>. DEFINE row == Measured(obs, Rosters[rosterAt].gateways)
            rows == {calibration[i] : i \in DOMAIN calibration}
<1>1. calibration \in Seq(rows)
  BY DEF IInv, TypeOK
<1>2. calibration' = Append(calibration, row)
  BY DEF Calibrate
<1>3. RowOK(row)
  <2>1. IsStore(obs)
    BY DEF DataOK
  <2>2. ASSUME NEW gateways
        PROVE  /\ Measured(obs, gateways).threshold \in (Nat \ {0}) \X (Nat \ {0})
               /\ DOMAIN Measured(obs, gateways) = {"threshold", "separates", "active"}
    BY <2>1, MeasurementsHave
  <2>. QED
    BY <2>2 DEF RowOK, IsPositive
<1>. HIDE DEF row
<1>4. \A i \in DOMAIN calibration' : calibration'[i] = row \/ (i \in DOMAIN calibration /\ calibration'[i] = calibration[i])
  BY <1>1, <1>2
<1>5. \A i \in DOMAIN calibration' : RowOK(calibration'[i])
  BY <1>3, <1>4 DEF DataOK
<1>6. UNCHANGED <<obs, run>>
  BY DEF Calibrate
<1>. QED
  BY <1>5, <1>6 DEF DataOK

LEMMA DataAfterActivate ==
  ASSUME DataOK, NEW k \in DOMAIN calibration, NEW force \in BOOLEAN, Activate(k, force)
  PROVE  DataOK'
<1>. DEFINE row(i) == [calibration[i] EXCEPT !.active = (i = k)]
<1>1. calibration' = [i \in DOMAIN calibration |-> row(i)]
  BY DEF Activate
<1>2. ASSUME NEW i \in DOMAIN calibration
      PROVE  RowOK(row(i))
  <2>1. RowOK(calibration[i])
    BY DEF DataOK
  <2>2. {"threshold", "active"} \subseteq DOMAIN calibration[i]
    BY <2>1 DEF RowOK
  <2>3. DOMAIN row(i) = DOMAIN calibration[i] /\ row(i).threshold = calibration[i].threshold
    BY <2>2
  <2>. HIDE DEF row
  <2>. QED
    BY <2>1, <2>2, <2>3 DEF RowOK
<1>. HIDE DEF row
<1>3. UNCHANGED <<obs, run>>
  BY DEF Activate
<1>4. \A i \in DOMAIN calibration' : RowOK(calibration'[i])
  BY <1>1, <1>2
<1>. QED
  BY <1>3, <1>4 DEF DataOK

\* The threshold that a run begins with.
LEMMA ActiveIsPositive ==
  ASSUME IInv, DataOK
  PROVE  IsPositive(ActiveCalibration.threshold)
<1>. DEFINE active == {i \in DOMAIN calibration : calibration[i].active}
<1>1. CASE active = {}
  BY <1>1, ThresholdIsPositive DEF ActiveCalibration, Uncalibrated, IsPositive
<1>2. CASE active # {}
  <2>1. calibration \in Seq({calibration[i] : i \in DOMAIN calibration})
    BY DEF IInv, TypeOK
  <2>2. DOMAIN calibration = 1 .. Len(calibration) /\ Len(calibration) \in Nat
    BY <2>1
  <2>3. active \in SUBSET Nat /\ IsFiniteSet(active)
    <3>. DEFINE places == 1 .. Len(calibration)
    <3>1. IsFiniteSet(places) /\ active \in SUBSET places
      BY <2>2, FS_Interval
    <3>2. places \in SUBSET Nat
      OBVIOUS
    <3>3. active \in SUBSET Nat
      BY <3>1, <3>2
    <3>. HIDE DEF active, places
    <3>. QED
      BY <3>1, <3>3, FS_Subset
  <2>4. Max(active) \in active
    <3>. HIDE DEF active
    <3>. QED
      BY <1>2, <2>3, MaxIsThere
  <2>5. ActiveCalibration.threshold = calibration[Max(active)].threshold
    BY <1>2 DEF ActiveCalibration
  <2>6. RowOK(calibration[Max(active)])
    BY <2>4 DEF DataOK
  <2>. QED
    BY <2>5, <2>6 DEF RowOK
<1>. QED
  BY <1>1, <1>2

LEMMA DataAfterAStep ==
  ASSUME IInv, DataOK, NEW r \in Runs, Step(r)
  PROVE  DataOK'
<1>1. /\ DOMAIN run = Runs /\ RunOK(r)
      /\ IsPositive(run[r].config.threshold) /\ IsReadRight(run[r].read)
  BY DEF IInv, TypeOK, DataOK
<1>2. UNCHANGED <<obs, calibration>>
  BY DEF Step, Begin, List, ReadEpoch, Detect, Upsert
<1>3. ASSUME NEW new, run' = [run EXCEPT ![r] = new],
             IsPositive(new.config.threshold), IsReadRight(new.read)
      PROVE  DataOK'
  <2>1. \A q \in Runs : run'[q] = IF q = r THEN new ELSE run[q]
    BY <1>1, <1>3
  <2>. QED
    BY <1>2, <1>3, <2>1 DEF DataOK
<1>4. /\ IsPositive(Ended(r).config.threshold) /\ IsReadRight(Ended(r).read)
      /\ IsReadRight(Nobody)
  BY ThresholdIsPositive DEF Ended, Idle, Done, Nobody, Uncalibrated, IsPositive, IsReadRight
<1>5. CASE Begin(r)
  <2>. DEFINE new == [Idle EXCEPT !.pc = "list", !.config = ActiveCalibration]
  <2>1. run' = [run EXCEPT ![r] = new]
    BY <1>5 DEF Begin
  <2>2. new.config = ActiveCalibration /\ new.read = Nobody
    BY DEF Idle
  <2>. HIDE DEF new
  <2>. QED
    BY <1>3, <1>4, <2>1, <2>2, ActiveIsPositive
<1>6. CASE List(r)
  <2>1. CASE Known(obs) = {}
    <3>1. run' = [run EXCEPT ![r] = Ended(r)]
      BY <1>6, <2>1 DEF List
    <3>. QED
      BY <1>3, <1>4, <3>1
  <2>2. CASE Known(obs) # {}
    <3>. DEFINE todo == IF r = "backfill" THEN Known(obs) ELSE InWindow(Known(obs))
                new == [run[r] EXCEPT !.pc = "read", !.todo = todo]
    <3>1. run' = [run EXCEPT ![r] = new]
      BY <1>6, <2>2 DEF List
    <3>. HIDE DEF todo
    <3>2. new.config = run[r].config /\ new.read = run[r].read
      BY <1>1, RunsAreRecords DEF RunOK
    <3>. HIDE DEF new
    <3>. QED
      BY <1>1, <1>3, <3>1, <3>2
  <2>. QED
    BY <2>1, <2>2
<1>7. CASE ReadEpoch(r)
  <2>. DEFINE e == Min(run[r].todo)
              read == With(run[r].read, e, obs[e])
              new == [run[r] EXCEPT !.todo = run[r].todo \ {e}, !.read = read]
  <2>1. run[r].todo # {} /\ run' = [run EXCEPT ![r].todo = run[r].todo \ {e}, ![r].read = read]
    BY <1>7 DEF ReadEpoch
  <2>2. e \in Epochs
    <3>1. run[r].todo \in SUBSET Nat /\ run[r].todo \subseteq Epochs
      BY <1>1, EpochsAreNat DEF RunOK
    <3>. QED
      BY <2>1, <3>1, MinIsLeft
  <2>. HIDE DEF e
  <2>3. IsReadRight(read)
    <3>1. DOMAIN obs[e] \subseteq Observers /\ \A o \in DOMAIN obs[e] : IsObservation(obs[e][o])
      BY <2>2 DEF DataOK, IsStore
    <3>. QED
      BY <1>1, <3>1 DEF IsReadRight, With
  <2>. HIDE DEF read
  <2>4. run' = [run EXCEPT ![r] = new]
    BY <1>1, <2>1, RunsAreRecords DEF RunOK
  <2>5. new.config = run[r].config /\ new.read = read
    BY <1>1, RunsAreRecords DEF RunOK
  <2>. HIDE DEF new
  <2>. QED
    BY <1>1, <1>3, <2>3, <2>4, <2>5
<1>8. CASE Detect(r)
  <2>. DEFINE found == WindowFindings(Contexts(run[r].read, run[r].config))
              new == [run[r] EXCEPT !.pc = "write", !.rosterAt = rosterAt, !.found = found]
  <2>1. run' = [run EXCEPT ![r].pc = "write", ![r].rosterAt = rosterAt, ![r].found = found]
    BY <1>8 DEF Detect
  <2>. HIDE DEF found
  <2>2. run' = [run EXCEPT ![r] = new]
    BY <1>1, <2>1, RunsAreRecords DEF RunOK
  <2>3. new.config = run[r].config /\ new.read = run[r].read
    BY <1>1, RunsAreRecords DEF RunOK
  <2>. HIDE DEF new
  <2>. QED
    BY <1>1, <1>3, <2>2, <2>3
<1>9. CASE Upsert(r)
  <2>1. run' = [run EXCEPT ![r] = Ended(r)]
    BY <1>9 DEF Upsert
  <2>. QED
    BY <1>3, <1>4, <2>1
<1>. QED
  BY <1>5, <1>6, <1>7, <1>8, <1>9 DEF Step

LEMMA DataStays == IInv /\ DataOK /\ [Next]_vars => DataOK'
<1>. SUFFICES ASSUME IInv, DataOK, [Next]_vars
              PROVE  DataOK'
  OBVIOUS
<1>1. CASE \E s \in Submissions : Capture(s[1], s[2], s[3])
  BY <1>1, DataAfterCapture
<1>2. CASE RosterChanges
  BY <1>2 DEF RosterChanges, DataOK
<1>3. CASE Calibrate
  BY <1>3, DataAfterCalibrate
<1>4. CASE \E i \in DOMAIN calibration, force \in BOOLEAN : Activate(i, force)
  BY <1>4, DataAfterActivate
<1>5. ASSUME NEW r \in Runs, Step(r)
      PROVE  DataOK'
  BY <1>5, DataAfterAStep
<1>6. CASE UNCHANGED vars
  BY <1>6 DEF vars, DataOK
<1>. QED
  BY <1>1, <1>2, <1>3, <1>4, <1>5, <1>6 DEF Next

LEMMA DataIsOK == Spec => []DataOK
<1>1. Init => DataOK
  BY DataAtFirst
<1>2. IInv /\ DataOK /\ [Next]_vars => DataOK'
  BY DataStays
<1>. QED
  BY <1>1, <1>2, Invariance, PTL DEF Spec

LEMMA ContextsAreDecoded ==
  ASSUME DataOK, NEW ctx \in Computing
  PROVE  IsDecoded(ctx)
<1>1. PICK r \in Runs : ctx \in Contexts(run[r].read, run[r].config)
  BY DEF Computing
<1>2. PICK e \in DOMAIN run[r].read :
        ctx = Context(e, run[r].read[e], run[r].config, Rosters[rosterAt])
  BY <1>1 DEF Contexts
<1>3. /\ ctx.obs = run[r].read[e] /\ ctx.threshold = run[r].config.threshold
      /\ {"epochIndex", "obs"} \subseteq DOMAIN ctx
  BY <1>2 DEF Context
<1>4. /\ IsPositive(run[r].config.threshold)
      /\ DOMAIN run[r].read[e] \subseteq Observers
      /\ \A o \in DOMAIN run[r].read[e] : IsObservation(run[r].read[e][o])
  BY DEF DataOK, IsReadRight
<1>5. DOMAIN run[r].read[e] \subseteq Nat /\ IsFiniteSet(DOMAIN run[r].read[e])
  <2>1. DOMAIN run[r].read[e] \in SUBSET Observers
    BY <1>4
  <2>. QED
    BY <2>1, ObserversAreOrdered, StoresAreFinite, FS_Subset
<1>. QED
  BY <1>3, <1>4, <1>5 DEF IsDecoded, Submitters

\* Whatever runs read, and while the capture goes on: if the two detectors do not throw,
\* what they report of an epoch's observers are the groups that the votes define
\* (identical-results.ts, near-identical-results.ts, hamming.ts).
THEOREM GroupsAreOfTheVotes ==
  ASSUME ResultKinds \cap Broken = {}
  PROVE  Spec => []ResultsAreGroupedRight
<1>1. DataOK => ResultsAreGroupedRight
  BY ContextsAreDecoded, GroupsOfAContext DEF ResultsAreGroupedRight
<1>. QED
  BY <1>1, DataIsOK, PTL

\* Turning every vote into its opposite changes neither what divergent_assessment finds nor,
\* with one widest gap, where it cuts (divergent-assessment.ts:30-32).
THEOREM PolarityIsOfNoMatter == Spec => []PolarityDoesNotMatter
<1>1. DataOK => PolarityDoesNotMatter
  BY ContextsAreDecoded, PolarityOfAContext DEF PolarityDoesNotMatter
<1>. QED
  BY <1>1, DataIsOK, PTL

\* Of the independent couples that a threshold is measured from, whatever they are, no more
\* than one in a thousand reaches it, unless it is one (calibrate.ts:29-35).
THEOREM FewIndependentPairsFire == Spec => IndependentPairsDoNotFire
<1>. DEFINE IsFew(i) ==
              LET independent == Independent(obs, Rosters[rosterAt].gateways)
                  reported == {s \in independent :
                                 AtLeast(SampleSimilarity(obs, s), calibration'[i].threshold)}
              IN  \/ calibration'[i].threshold = One
                  \/ 1000 * Cardinality(reported) <= Cardinality(independent)
            Fires == \A i \in DOMAIN calibration' \ DOMAIN calibration : IsFew(i)
<1>1. ASSUME IInv, DataOK, [Next]_vars
      PROVE  Fires
  <2>1. CASE Calibrate
    <3>. DEFINE row == Measured(obs, Rosters[rosterAt].gateways)
    <3>1. calibration \in Seq({calibration[i] : i \in DOMAIN calibration}) /\ calibration' = Append(calibration, row)
      BY <1>1, <2>1 DEF IInv, TypeOK, Calibrate
    <3>. HIDE DEF row
    <3>2. \A i \in DOMAIN calibration' \ DOMAIN calibration : calibration'[i] = row
      BY <3>1
    <3>3. IsStore(obs)
      BY <1>1 DEF DataOK
    <3>4. FewAreReported(obs, Rosters[rosterAt].gateways)
      BY <3>3, MeasurementsHave
    <3>. QED
      BY <3>2, <3>4 DEF row, FewAreReported
  <2>2. CASE ~Calibrate
    <3>1. DOMAIN calibration' = DOMAIN calibration
      <4>1. ASSUME NEW k \in DOMAIN calibration, NEW force \in BOOLEAN, Activate(k, force)
            PROVE  DOMAIN calibration' = DOMAIN calibration
        <5>. DEFINE row(i) == [calibration[i] EXCEPT !.active = (i = k)]
        <5>1. calibration' = [i \in DOMAIN calibration |-> row(i)]
          BY <4>1 DEF Activate
        <5>. HIDE DEF row
        <5>. QED
          BY <5>1
      <4>2. ASSUME UNCHANGED calibration
            PROVE  DOMAIN calibration' = DOMAIN calibration
        BY <4>2
      <4>. HIDE DEF Fires
      <4>. QED
        BY <1>1, <2>2, <4>1, <4>2, Zenon DEF Next, Step, Capture, RosterChanges, Begin, List, ReadEpoch, Detect,
                                   Upsert, vars
    <3>. HIDE DEF IsFew
    <3>. QED
      BY <3>1
  <2>. QED
    BY <2>1, <2>2
<1>2. ASSUME IInv, DataOK, [Next]_vars
      PROVE  [Fires]_vars
  BY <1>1, <1>2
<1>. QED
  BY <1>2, Invariance, DataIsOK, PTL DEF Spec, IndependentPairsDoNotFire
=============================================================================
