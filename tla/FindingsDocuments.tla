-------------------------- MODULE FindingsDocuments --------------------------
(***************************************************************************)
(* What becomes of the findings: a run publishes observers.json,           *)
(* findings.json and a document for every epoch it looked at, made from    *)
(* what it read and found and not from the table it has just written       *)
(* (src/observers/documents.ts, src/observers/rollup.ts), and the daily    *)
(* analysis rolls up the table (src/observers/context.ts).  Findings is    *)
(* the run up to there.                                                    *)
(*                                                                         *)
(* The lock, the renames and the manifest are Publishing's.  Here a run    *)
(* publishes in one step, for nobody else does while it has the lock; it   *)
(* may find the lock taken, and then publishes nothing, or break off after *)
(* any of the documents.  Left out: the names and addresses of the         *)
(* observers, times, what is stored of the registry, and the order of      *)
(* lists.  Findings are a set: two detectors that fail in one epoch count  *)
(* as one.                                                                 *)
(***************************************************************************)
EXTENDS Findings

CONSTANTS
  FeedEpochs  \* FINDINGS_FEED_EPOCHS: 0 for a feed without a window

ASSUME StoresAreFinite == IsFiniteSet(Epochs) /\ IsFiniteSet(Observers)
ASSUME WindowIsNat == WindowEpochs \in Nat \ {0}
ASSUME FeedIsNat == FeedEpochs \in Nat
ASSUME FailuresAreNat == \A start \in Starts : start.failures \in Nat

VARIABLES
  due,       \* what each run has yet to publish
  public,    \* the documents under public/api/v1
  failures,  \* how many publishes may still be skipped or break off
  whole      \* history: the last run that wrote documents wrote all of its own

documentVars == <<due, public, failures, whole>>

NothingDue == <<>>
NoDocument == <<>>
-----------------------------------------------------------------------------
(***************************************************************************)
(* The roll-up.  A source is what a run or the daily analysis looked at:   *)
(* what it read, a function from epochs to observations; what was found;   *)
(* and the configuration.                                                  *)
(***************************************************************************)
Naming(findings, o) == {f \in findings : o \in f.observers}
KindsOf(findings) == {f.kind : f \in findings}

ReportTxIds(observations) == {observations[o].reportTxId : o \in DOMAIN observations}

\* Somebody else submitted the same report.
SharesReport(observations, o) ==
  Cardinality({p \in DOMAIN observations : observations[p].reportTxId = observations[o].reportTxId}) > 1

ObservedBy(o, read) == {e \in DOMAIN read : o \in DOMAIN read[e]}

\* summarizeObservers: whoever submitted something, and nobody else who is named.
Summarized(source) == UNION {DOMAIN source.read[e] : e \in DOMAIN source.read}

\* toGatewayObserverSummaries.
GatewaySummary(source, o) ==
  LET epochs == ObservedBy(o, source.read)
      naming == Naming(source.found, o)
  IN  [epochsObserved |-> Cardinality(epochs),
       firstEpochIndex |-> Min(epochs), lastEpochIndex |-> Max(epochs),
       findingCount |-> Cardinality(naming),
       maxSeverity |-> IF naming = {} THEN NoFact ELSE Max(Severities(naming)),
       kinds |-> KindsOf(naming)]

\* countFindings.
BySeverity(findings) ==
  [s \in Info .. High |-> Cardinality({f \in findings : f.severity = s})]
ByKind(findings) ==
  [k \in KindsOf(findings) |-> Cardinality({f \in findings : f.kind = k})]
-----------------------------------------------------------------------------
(***************************************************************************)
(* The documents.                                                          *)
(***************************************************************************)
OfEpoch(findings, e) == {f \in findings : f.epochIndex = e}

EpochDocument(source, e) ==
  [observations |-> source.read[e], findings |-> OfEpoch(source.found, e)]

ObserversDocument(source) ==
  [observers |->
     [o \in Summarized(source) |->
        [summary |-> GatewaySummary(source, o),
         distinctReportTxIds |->
           Cardinality({source.read[e][o].reportTxId : e \in ObservedBy(o, source.read)}),
         sharedReportEpochs |->
           Cardinality({e \in ObservedBy(o, source.read) : SharesReport(source.read[e], o)})]],
   epochs |->
     [e \in DOMAIN source.read |->
        [observationCount |-> Cardinality(DOMAIN source.read[e]),
         distinctReportTxIds |-> Cardinality(ReportTxIds(source.read[e])),
         findingCount |-> Cardinality(OfEpoch(source.found, e))]]]

Present(findings) == {f.epochIndex : f \in findings} \ {AllEpochs}

\* The newest FeedEpochs of the epochs that have findings.
InFeed(findings) ==
  {e \in Present(findings) : Cardinality({d \in Present(findings) : d > e}) < FeedEpochs}

\* Mutant of Windowed: the window keeps no finding without an epoch.
WindowedAll(findings) ==
  IF FeedEpochs = 0 THEN findings ELSE {f \in findings : f.epochIndex \in InFeed(findings)}

\* Findings about the window are never windowed out.
Windowed(findings) ==
  IF FeedEpochs = 0 THEN findings
  ELSE {f \in findings : f.epochIndex = AllEpochs \/ f.epochIndex \in InFeed(findings)}

FindingsDocument(source) ==
  LET windowed == Windowed(source.found)
  IN  [calibrated |-> source.config.calibrated, thresholdSimilarity |-> source.config.threshold,
       epochRange |-> DOMAIN source.read,
       truncated |-> windowed # source.found,
       bySeverity |-> BySeverity(windowed), byKind |-> ByKind(windowed),
       findings |-> windowed]
-----------------------------------------------------------------------------
(***************************************************************************)
(* The runs.                                                               *)
(***************************************************************************)
DocumentsInit ==
  /\ \E start \in Starts : InitFrom(start) /\ failures = start.failures
  /\ due = [r \in Runs |-> NothingDue]
  /\ public = [observers |-> NoDocument, findings |-> NoDocument, epochs |-> Nobody]
  /\ whole = FALSE

Source(read, found, config) == [read |-> read, found |-> found, config |-> config]

\* Mutant of Ends: a run that found no epoch leaves what is public alone.
EndsByWriting(r) == run[r].pc = "write"

\* A run that wrote its findings, or found no epoch to look at, has something to publish
\* (run-findings.ts:118-126, 180-188).
Ends(r) == run[r].pc = "write" \/ (run[r].pc = "list" /\ Known(obs) = {})

\* A step of a run up to there.  It starts anew when all is published.
RunStep(r) ==
  /\ due[r] = NothingDue
  /\ Step(r)
  /\ due' = [due EXCEPT ![r] =
       IF Ends(r) THEN Source(run[r].read, run[r].found, run[r].config) ELSE NothingDue]
  /\ UNCHANGED <<public, failures, whole>>

Elsewhere == /\ \/ \E s \in Submissions : Capture(s[1], s[2], s[3])
                \/ RosterChanges
                \/ Calibrate
                \/ \E i \in DOMAIN calibration, force \in BOOLEAN : Activate(i, force)
             /\ UNCHANGED documentVars

\* The place of an epoch's document: after the other two, oldest first.
PlaceOf(e, epochs) == 2 + Cardinality({d \in epochs : d <= e})

\* publishDocuments, of which the first n documents are written.
Written(source, n) ==
  LET epochs == {e \in DOMAIN source.read : PlaceOf(e, DOMAIN source.read) <= n}
  IN  [observers |-> IF n >= 1 THEN ObserversDocument(source) ELSE public.observers,
       findings |-> IF n >= 2 THEN FindingsDocument(source) ELSE public.findings,
       epochs |-> [e \in DOMAIN public.epochs \cup epochs |->
                     IF e \in epochs THEN EpochDocument(source, e) ELSE public.epochs[e]]]

Publish(r, n) ==
  /\ due[r] # NothingDue
  /\ LET all == 2 + Cardinality(DOMAIN due[r].read)
     IN  /\ n <= all
         /\ n < all => failures > 0
         /\ failures' = IF n < all THEN failures - 1 ELSE failures
         /\ whole' = IF n = 0 THEN whole ELSE n = all
  /\ public' = Written(due[r], n)
  /\ due' = [due EXCEPT ![r] = NothingDue]
  /\ UNCHANGED vars

DocumentsNext ==
  \/ Elsewhere
  \/ \E r \in Runs : RunStep(r)
  \/ \E r \in Runs, n \in 0 .. 2 + Cardinality(Epochs) : Publish(r, n)

DocumentsSpec == DocumentsInit /\ [][DocumentsNext]_<<vars, documentVars>>

\* The cadence is started again and again, and a run of it ends and publishes or fails to:
\* the steps of a run happen, and Detect and Publish, the only ways out of the last two.
FairSpec ==
  /\ DocumentsSpec
  /\ WF_vars(/\ due["cadence"] = NothingDue
             /\ Begin("cadence") \/ List("cadence") \/ ReadEpoch("cadence") \/ Upsert("cadence"))
  /\ []<>~IsDetecting("cadence")
  /\ []<>(due["cadence"] = NothingDue)
-----------------------------------------------------------------------------
(***************************************************************************)
(* Properties.                                                             *)
(***************************************************************************)
\* What the public documents of these epochs hold.
PublicFindings(epochs) ==
  public.findings.findings \cup UNION {public.epochs[e].findings : e \in epochs}

\* The documents of a whole publish tell one story, whichever run wrote them and whatever
\* was there before: the numbers of observers.json are those that a reader counts in the
\* feed and in the documents of the epochs ("nothing is lost - only the feed is trimmed",
\* documents.ts:119-120), the feed has an epoch whole or not at all (documents.ts:140), and
\* none that is older than one it lacks; and who shares a report (rollup.ts:86-104) is whom
\* the detector found.
DocumentsAddUp ==
  whole =>
    LET rows == public.observers.observers
        epochs == public.observers.epochs
        feed == public.findings.findings
        Submitted(o) == {e \in DOMAIN epochs : o \in DOMAIN public.epochs[e].observations}
        SharedIn(o) == {e \in Submitted(o) :
                          \E f \in public.epochs[e].findings : f.kind = "shared_report_tx" /\ o \in f.observers}
    IN  /\ public.findings.epochRange = DOMAIN epochs /\ DOMAIN epochs \subseteq DOMAIN public.epochs
        /\ \A e \in DOMAIN epochs :
             /\ epochs[e].observationCount = Cardinality(DOMAIN public.epochs[e].observations)
             /\ epochs[e].findingCount = Cardinality(public.epochs[e].findings)
             /\ OfEpoch(feed, e) \in {{}, public.epochs[e].findings}
             /\ OfEpoch(feed, e) # {} =>
                  \A d \in DOMAIN epochs : d > e => OfEpoch(feed, d) = public.epochs[d].findings
        /\ public.findings.truncated <=> PublicFindings(DOMAIN epochs) # feed
        /\ DOMAIN rows = UNION {DOMAIN public.epochs[e].observations : e \in DOMAIN epochs}
        /\ \A o \in DOMAIN rows :
             /\ rows[o].summary.findingCount = Cardinality(Naming(PublicFindings(DOMAIN epochs), o))
             /\ rows[o].summary.epochsObserved = Cardinality(Submitted(o))
             /\ "shared_report_tx" \notin Broken =>
                  rows[o].sharedReportEpochs = Cardinality(SharedIn(o))

Stored == {table[id].finding : id \in DOMAIN table}

\* What the next run would look at, if the table has what it will find.
Current == Source([e \in InWindow(Known(obs)) |-> obs[e]], Stored, ActiveCalibration)

\* loadObserverContext: what the daily analysis joins with, its reads taken at once.
Joined ==
  Source(Current.read, {f \in Stored : f.epochIndex \in {AllEpochs} \cup DOMAIN Current.read},
         ActiveCalibration)

\* The run has read what there is, and found what the table holds.
IsUpToDate(r) ==
  /\ Source(run[r].read, run[r].found, run[r].config) = Current
  /\ run[r].rosterAt = rosterAt

\* Once nothing changes any more the table holds the findings of the window and no other,
\* though a backfill, and runs that read before, write after (repo-read.ts:307-322): what
\* the cadence finds is what is there.  It is what is public, though publishes were skipped
\* or broke off, and the numbers that the daily analysis rolls up "cannot drift from the
\* ones in observers.json" (context.ts:6-8).
FindingsCatchUp ==
  <>[](/\ run["cadence"].pc = "write" => IsUpToDate("cadence")
       /\ public.observers = ObserversDocument(Current)
       /\ public.findings = FindingsDocument(Current)
       /\ \A e \in DOMAIN Current.read :
            e \in DOMAIN public.epochs /\ public.epochs[e] = EpochDocument(Current, e)
       /\ \A o \in Summarized(Joined) :
            GatewaySummary(Joined, o) = public.observers.observers[o].summary)
=============================================================================
