# ar.io network analyzer: a TLA+ verification project

The repository watches the ar.io network. A capture daemon copies Solana accounts that
anyone may delete into one SQLite file, before they are gone; two cadences derive
findings and reports from it and publish them as static files; a server serves the
files. This directory holds TLA+ specifications of that system, the TLC runs that check
them, and TLAPS proofs of what matters most.

    tlc -workers 2 -config CaptureSafety.cfg MCCapture
    tlc -workers 2 -config Publishing.cfg MCPublishing
    tlc -workers 2 -config Serving.cfg MCServing
    tlc -workers 2 -config Boot.cfg MCPollLock
    tlc -workers 2 -config Crawl.cfg MCCrawler
    tlc -workers 2 -config Daily.cfg MCDailyRun
    tlc -workers 2 -config Findings.cfg MCFindings
    tlapm CaptureProofs.tla

## 1. The system

| Component | State | Operations | Talks to |
|---|---|---|---|
| Capture daemon (`capture/daemon.ts`, `status.ts`, `rpc.ts`, `registry.ts`, `decode.ts`) | `DaemonState`: last context slot, failure count, time of the last canary | a cycle every ten minutes: observation read, hourly canary, registry read per epoch, Epoch account read, one transaction; a detached creator lookup; restart and seeding | RPC (awaited calls), the SQLite file |
| Observation store (`db/repo-write.ts`, `db/migrations.ts`) | `observations`, `observation_revisions`, `raw_unparsed`, `registry_snapshots`, `registry_slots`, `epochs`, `poll_runs` | monotonic upsert, revision log, epoch upsert, run rows, pruning | written by the daemon, read by everything else |
| Capture lock (`capture/lock.ts`, `poll_lock`) | one row: pid, host, heartbeat | acquire with liveness probe, heartbeat, release | the daemon's start and loop |
| Handles and migrations (`db/index.ts`, `db/migrations.ts`) | `schema_migrations` | migrate on open | every writer process |
| Findings run (`observers/run-findings.ts`, detectors, `upsertFindings`) | `findings`, `finding_observers` | read a window of epochs, detect, replace the window's findings, publish | store, publisher |
| Calibration (`observers/calibrate.ts`) | `calibration` | compute a row, activate it | store |
| Publisher (`publish/publish.ts`) | `public/`, `publish_lock` | lock, write documents, merge the manifest, write it last | the two cadences, the server |
| Server (`server/`) | digest cache, health cache | conditional GETs, `/healthz` | `public/`, the store read-only |
| Arweave crawler (`arweave/node-crawler.ts`) | queue, visited, nodes, edges | a pool of workers walks `/peers` breadth first | HTTP |
| Roll-ups and public documents (`observers/rollup.ts`, `documents.ts`, `context.ts`) | none; `public/api/v1` is what they make | aggregates per observer; `observers.json`, `findings.json` with its window, a document per epoch; the daily join | findings run, daily analysis |
| Arweave peer graph and analyzer (`arweave/peer-graph.ts`, `arweave-analyzer.ts`) | none | graph measures, clusters, scores, summary of a finished crawl | crawler, ip-api.com |
| Daily analysis (`index.ts`, `analyzer.ts`, `publish/contract.ts`) | `analysis_runs` | fetch, resolve, locate, ask, cluster, score, publish | registry, DNS, HTTP, publisher, store |
| Gateway fetcher and migration checker (`data/`) | the migration cache, a file | pages with retries; batched queries, cache read and written in place | SDK, GraphQL |
| Reports and display | none | rendering | files |

What is hard about it:

- RPC providers spread the calls over replicas. Each awaited read of one cycle is
  answered at a slot of its own, and slots go backwards from one read to the next.
- Every `await` is a point where the chain moves, another process commits, a detached
  promise settles or the process dies.
- Four processes write one SQLite file. Nothing but transactions and two lock rows with
  heartbeats orders them.
- What is missed is lost: observation and Epoch accounts are closed by anyone.
- Publishing replaces a set of files one by one, under a server that is reading them.

For each component, what makes it correct:

- Store: no state ever stored is lost or reordered; a row claims only what the chain held
  at the slot it names; a completed run implies its data.
- Daemon: whatever stays on chain is eventually stored; a lagging replica is recognised,
  also right after a restart; the live epoch gets an authoritative slot order which is
  never overwritten; an epoch that can be attributed is, unless one that cannot is ahead of
  it; failures reach the health surface.
- Capture lock: one daemon captures, and a dead one does not block its successor.
- Migrations: concurrent boots and crashes end in one complete schema.
- Publisher and server: a manifest's digests agree with the files; a client never
  validates old bytes under a new digest; a dead publisher does not block the next.
- Findings: a recompute replaces exactly its window and keeps `first_seen_at`.
- Documents: what one run publishes tells one story; what is public, what is stored and
  what the daily analysis joins are the same once the store is quiet.
- Crawler: it ends, visits nothing twice, stops near its limit and below it forgets no
  peer.
- Peer graph and report: the measures are what their names say; totals, clusters, levels
  and views agree.
- Daily analysis: every gateway is fetched once; no migration is forgotten; clusters part
  the gateways that resolved, and what is said of these does not depend on the others;
  the documents join; half a publish is not logged as a good run; a run ends.

`PROJECT.json` lists every component with its status, and every hazard at its line.

## 2. The modules

| Module | Models |
|---|---|
| `SolanaChain` | the chain as the daemon can observe it: a history of slots; a read names one of them. External: written from what `rpc.ts` asks for. |
| `ObservationStore` | one row of each table the daemon writes, and what `repo-write.ts` does to it |
| `ObservationHistory` | the abstract store: per `(epoch, observer)` a history that only grows, in the order of the chain's clock |
| `Capture` | the daemon: process, cycle, transaction, detached lookups, crashes; its properties and inductive invariant |
| `Migrations` | `openWriter`: processes that boot at once on one file and apply what it lacks |
| `PollLock` | the capture lock and the life of a capture process around it: boot, lock, cycles, signals, crashes, pids used again; extends `Migrations` |
| `PublicTree` | the abstract publisher: what may happen to `public/`, whoever writes it and whatever fails |
| `Publishing` | the two cadences: `publish_lock` and its clock, the renames, crashes, failed writes; implements `PublicTree` |
| `Serving` | the server's requests, one system call at a time, its digest cache, and clients that revalidate; reads `PublicTree` |
| `Crawler` | the pool of workers that crawls the Arweave peer network: queue, limits, requests, retries, answers that never end |
| `Hamming` | masked prefixes and the similarity of two result bitmaps |
| `Detectors` | the thirteen detectors and what a run makes of them, as operators |
| `Calibration` | samples, percentiles, the recommended threshold |
| `Findings` | the cadence, the backfill, the calibration row and its activation, `upsertFindings` |
| `FindingsDocuments` | what the runs of `Findings` publish, skipped and broken publishes included, and the daily join; implements `Findings` |
| `Grouping` | `groupBy` and counting, of which the two analyzers have a copy each |
| `PeerGraph` | the graph of a crawl and its measures |
| `NodeReport` | the report on a crawl; extends `Crawler` and implements it |
| `GatewayAnalysis` | the synchronous part of the daily analysis: clusters, scores, summary, the documents' keys |
| `DailyRun` | the daily run around it: run log, pages, lookups, migration cache, publish, failures and deaths |
| `MCCapture`, `MCPollLock`, `MCPublishing`, `MCServing`, `MCCrawler`, `MCDailyRun`, `MCFindings` | constants for TLC |
| `CaptureProofs`, `PollLockProofs`, `PublicTreeProofs`, `PublishingProofs`, `ServingProofs`, `CrawlerProofs`, `DailyRunProofs`, `FindingsProofs` | the theorems |

`Publishing` and `Serving` meet in `PublicTree`: the first is shown to implement it, the
second runs against it, so the server is checked against every publisher that keeps the
promise and the run does not carry the publishers' clocks and locks.

### Capture

**State.** `obs`, `log`, `parked`, `snapshots`, `epochs` and `runs` are the tables.
`pc[d]` is the await daemon `d` is suspended at; `cyc[d]` holds the locals of `runCycle`
that outlive an await, `mem[d]` the `DaemonState`, `resolving[d]` the creator lookups in
flight. `tx` is the write transaction of the SQLite file, of which there is at most one.
`Daemons` has one element in the intended deployment; two stand for a daemon that lost
its lock without noticing.

**Actions.** One per stretch of code between two awaits: `StartCycle`,
`ReadObservations`, `Canary`, `FetchRegistry`, `FetchEpochs`, then the transaction as
`BeginCommit`, one `UpsertObservation` per record in any order, and `Commit`, which also
holds the parked bytes, the snapshots, the epochs, the run row and the daemon's memory.
`CycleFails` is the catch clause, `CommitFails` the `safeWrite` around the commit,
`Crash` and `Start` a process exit and the supervisor's restart.

**Data.** An account's bytes are the slot that wrote them; `submitted_at` is `SecondOf`
that slot, so two writes may share a second. Decoding is a set of states that are
refused (`Undecodable`), a layout change a set of states of another size (`Oversized`).
Wall-clock columns decide nothing here and are left out; whether the canary is due and
which runs are old enough to prune are choices.

**Refinement.** `StoreKeepsHistory` is `ObservationHistory!Spec` with the history of a
key mapped to its log followed by its row.

### Boot and the capture lock

**State.** `applied` is `schema_migrations`; `boot[p]` says how far `openWriter` is in
process `p`, `known[p]` what it read there and `at[p]` where its loop is. `lock` is the
`poll_lock` row and `age` how old its heartbeat is. `pid[p]` is the id of a running
process; `strangers` are other programs that got the id in the row. `timer[p]` is the
time since the last cycle began, `missed[p]` a heartbeat that `safeWrite` swallowed.

**Actions.** `ReadVersions` is the SELECT, each `Migrate` one immediate transaction, and
`Conflict` the boot that finds its migration applied by somebody else and throws.
`Acquire` and `Refuse` are `acquirePollLock` with the probe of `lock.ts`
(`HolderIsDead`); `Started`, `CycleEnds`, `NextCycle` are the loop; `StopIdle`,
`StopAfterCycle` and `LastCycleEnds` the two ways a signal is taken, and `--once`;
`Crash` ends a process anywhere and leaves its row. A cycle is a duration here and
module `Capture` what it does.

**Time.** Ages and timers are bounded by what they are compared with, so the run has no
bound on time: `Tick` is disabled only while a process has to act.

`migrations.ts:5-6` says "two writers racing at boot is safe". The tables are
(`AppliedInOrder`), the writers are not: the set of applied versions is read outside the
transactions, and the slower one dies on a conflict. `RetriesGetFurther` is what can be
said for it: it loses at most once per migration. Likewise `docs/operations.md:66-69`
("a crash or SIGKILL does not lock the supervisor out") holds while the pid in the row
belongs to nobody. If another program got it, or the restarted daemon itself did (as in
a container), or the row is of another host, the supervisor is refused for three
intervals; `CaptureResumes` says that it gets in in the end.

### Publishing and serving

**State.** `tree[f]` holds the versions of a file and of its `.gz` sibling, `manifest` the
digests `index.json` carries. A version is the serial of a publish and stands for the
bytes, the digest and the mtime: every document carries the time it was generated.
`lock` is the `publish_lock` row; `todo`, `half`, `stamp`, `merged` are the locals of
`publishDocuments`. `digests` is the server's `manifestCache`, `req` the request it is
handling, `copy` what each client keeps of each file with the ETag it came with.

**Actions.** `Begin`, `TakeLock`, `Sleep`, `GiveUp` are `acquirePublishLock`;
`ReadManifest` (with `CannotRead`), `RenamePlain`, `RenameGz`, `RenameIndex`, `RenameIndexGz`, `WriteFails` and
`Release` are `publishDocuments`, one action per change another process can see. The
heartbeat timer has no action: the publish is synchronous from the lock to the release,
so the timer cannot fire. `StatIndex`, `LoadDigests`, `ReadBytes` and `Answer` are the
system calls of `handle`, between which the publisher may replace any file. A 304 is an
`Answer` that leaves the copy as it is.

**Time.** `now` counts the seconds a waiter sleeps. A publish takes at most `MaxPublish`
of them and the clock does not pass a wake-up or that bound.

**Refinement.** `KeepsTheTree`: a publisher's step is a step of `PublicTree`, in the
absence of two faults. One is a database that cannot be opened (`Guarded`): the code then
publishes without a lock ("publishing unguarded") and nothing can be promised. The other
is an `index.json` that is there and cannot be read (`Readable`): `readManifest` takes it
for none (`publish.ts:131-139`), and the publish that follows drops the entries of the
other cadence's documents, until that cadence comes round. So "*merged*, never replaced"
(`publish.ts:11`) holds of a manifest that can be read; as the publisher renames it whole,
nothing in this code makes it unreadable, and `OnePublisher` and `NoWaiterGivesUp` do not
depend on it.

What holds is weaker than `publish.ts:6-7` says ("a consumer can therefore never read a
manifest whose digests disagree with the files it points at"): during a publish, and
after one that died, the manifest lags behind its files. `DigestsNeverAhead` is the half
that is true, and enough for the clients.

### The crawler

**State.** `queue`, `visited`, `nodes`, `edges` and the two counts are the fields of
`NodeCrawler`; `worker[w]` is where worker `w` awaits, the address it asks and how often
`/info` failed. `dropped` is a history variable: the peers that found the queue full.

**Actions.** One thread runs all workers, so an action is the code between two awaits.
`Take` and `Leave` are the loop of `startWorker`; `InfoAnswers`, `RetryInfo`, `InfoFails`
the loop around `fetchNodeInfo`; `PeersAnswer`, which adds edges, inbound peers, queue
entries and the node in one go, and `PeersFail` what follows `fetchPeers`. `Cut` is an
answer that stops after its header or trickles in: neither the request's `error` nor its
idle `timeout` settles the promise then.

**Data.** An address is a host and the text of its port. The address keeps that text and
the request takes its number (`Port`), so one host has several addresses; an IPv6 address
is split at its colons and answers nobody. Hosts list any of a set of peer lists.

Three statements of the repository do not hold. `node-crawler.ts:44` says "always keep
`concurrency` requests in flight": a worker that finds the queue empty quits for good,
and `NoFrontierIsLeft` is what remains true, namely that the crawl loses nothing by it.
`README.md:170` calls `MAX_NODES` the "Maximum nodes to crawl": the crawl may find
`CONCURRENCY - 1` more (`CrawlIsBounded`, a part of `IInv`). `arweave-types.ts:29` says of `inboundPeers`
"Nodes that list this as a peer": an edge to a node that is not added yet is not counted
there, so the node that led to another is never among its inbound peers.

### The report on a crawl

**State and actions.** `Report` is everything between the end of the last worker and the
return of `analyze`: nothing else runs then, and the lookups of places, of which any may
fail, are its one choice. `results` is the analysis of each node, `summary` the rest of
the report.

**Data.** Scores are in hundredths and the overall one in ten-thousandths; betweenness is a
fraction: one shortest path among several is counted in units of `1 / Unit(G)`, the product
of the different numbers of shortest paths, so that every share is a whole number. The
thresholds (`Many`) are constants, so that six nodes reach them, and so are the lengths to
which a view cuts its providers (10) and its ranges (20), `Shown`. Of groups of one size
the code shows those whose first nodes come first, an order that is not kept here: any of
them may be shown (`Top`), and `Report` chooses. The list of the hundred highest scores,
the averages and medians, and what a cluster's own summary lists are left out.

`ReportAddsUp` is about lists that are cut. The ranges shown are the largest of the network
clusters, all of them only while they are no more than `Shown.ranges`. A provider in the
view of the nodes that answered is in the view of all nodes with at least these nodes, or
that view is full and shows no smaller one: with more than ten providers the two views of
one report may name different ones.

**Reference definition.** `BetweennessCountsShortestPaths` compares Brandes' algorithm with
shares of shortest paths counted one by one. `EveryComponentHasASeed` says what the islands
of a report are: apart, and each of a seed.

What the code does that its text does not say:

- `peer-graph.ts:208-213` says "divide by 2", and multiplies: the centre of a star has
  betweenness 2, and the values can only be compared with each other.
- `calculateDensity` counts edges to addresses that were never crawled, and self-loops,
  over pairs of nodes; a self-loop counts as half a bidirectional edge.
- Nodes without a place share the city `undefined|undefined` (`arweave-analyzer.ts:218`), so
  five of them are "geographic concentration"; addresses without a range share the range
  `unknown` (227, 335), which earns the note but no cluster.

### The daily analysis

**State.** `registry` is the list the SDK pages through, `attested` the wallets that have
migrated. `pc` is the await the process is at, `cursor` and `attempt` belong to the
fetcher; `fetched` (all that the pages brought), `ips` (of those that joined), `located`, `answered` are
what was found out; `toQuery`,
`migrated`, `memory` the checker's; `cache` the file on disk; `runs` the run log and
`public` the run that wrote each of the two documents. `steady` and `told` are history.

**Actions.** One per stretch between two awaits: `Start`, `FetchPage`, `RetryPage`,
`FetchFails`, `Resolve`, `Locate`, `Ask`, `LoadCache`, `QueryBatch`, `SaveCache`, `SaveFails`
(the write is cut short: the file is `Torn`), `Analyze`, `Publish`, `PublishFails` (nothing
or one of two documents), `FinishOk`, `LogFails`, `FinishFailed`. `Cut` is an answer that
stops after its header while nothing else is pending: the promise never settles. `Move`
and `Attest` change the world, `Crash` ends the process anywhere. The batches of names,
hosts and servers are one step each, which ends when all have.

**Data.** A row is a record of what is known of a gateway, at its place in the list; `None` is
a name that did not resolve, a host nobody located, a server that did not answer.

What the code does that its text does not say:

- `index.ts:61` ("Publish nothing on failure — yesterday's public/ stays intact") is about
  the analysis. A publish that fails in the middle leaves documents of two days; one
  whose log row cannot be written is published and logged `failed`; one that found the
  lock taken publishes nothing and is logged `ok`; a crash leaves `running`.
- A cut answer with nothing else pending lets Node end without a word, the row `running`.
- A write of the migration cache that fails costs the run its migration column though all
  answers are there, and the file is not replaced atomically: torn, it forgets all.
- `README.md:163` says that `SKIP_MIGRATION_CHECK` defaults to `false`; `index.ts:45` skips
  by default.
- Pages that overlap list a gateway twice, and the two copies may form a cluster by domain
  with each other; `DocumentsJoin` is stated for names listed once.
- The economics share the pool among all gateways, and give clusters the share of the
  resolved ones only.

The list of providers is cut to `MaxProviders` (10) in the order of their sizes and, of one
size, of their first gateways (`Precedes`). The hundred highest scores are left out.

### Findings

**State.** `obs` is what the capture has stored, `rosterAt` the roster `gateways.json`
holds, `calibration`, `table` and `links` are the tables `calibration`, `findings` and
`finding_observers`. `run[r]` holds what a run has read: its configuration, the epochs
still to read and those it has.

**Actions.** `Begin` reads the calibration, `List` the epochs there are, `ReadEpoch` one
of them, `Detect` the roster, after which all is computed; `Upsert` is the transaction of
`upsertFindings` with its scope and its retention (`Stays`). `Capture`, `RosterChanges`,
`Calibrate` and `Activate` are what happens in between.

**Data.** A blob is a sequence of bytes and a byte a set of bits. Similarities and
thresholds are fractions and compared exactly, where the code rounds; confidences are
whole numbers of millionths of a percent. A digest stands for what it digests, so the
id of a finding is its kind, its epoch and its observers. Detectors are operators on a
context, the record of what `DetectorContext` gives them.

**Reference definitions.** `ResultsAreGroupedRight` states the groups of
`identical_results` and `near_identical_results` by gateway votes and by connectedness,
without bytes, masks, digests or union-find.

Where the code says less, or other, than the text around it:

- `docs/observer-independence.md:66-80` lists other severities and confidences than the
  detectors have (`co_submission_timing`, the infrastructure joins, `unmatched_observer`).
- The same page (88-101) has an uncalibrated threshold cap the severity at `medium`. A
  `persistent_correlation` made of nothing but uncalibrated near-identical results is
  escalated to `high` with confidence 0.9 (`persistent.ts:33-43`).
- `run-findings.ts:33-39`: two detectors that throw in one epoch leave one
  `detector_error`, as they share its id, and window detectors are not degraded.
- `divergent-assessment.ts:30-32` says that inverting all bits preserves the membership
  split. With two gaps of one width the first is taken, and the groups differ;
  `PolarityDoesNotMatter` says when they do not.
- `co-submission-timing.ts:70-71` goes on after a reported window: three submissions close
  to each other of which one was reported are not reported.
- A backfill's findings of epochs before the window are deleted by the next run of the
  cadence (`repo-read.ts:311-321`).

### The documents of a findings run

**State.** `due[r]` is what a run has read and found and has yet to publish, `public` the
three kinds of documents, `failures` how many publishes may still go wrong. `whole` is
history: the last run that wrote documents wrote all of its own.

**Actions.** `RunStep` is a step of `Findings` and, where that was the upsert or an empty
store, leaves what there is to publish. `Publish(r, n)` is `publishDocuments` that wrote the
first `n` documents: all, none (`lock: 'skip'` and the daily run has it), or some. One step,
since a publisher is alone in the tree (`Publishing`).

**Two directions.** `DocumentsAddUp` relates the documents of one whole publish to each
other, as a reader would count them; `FindingsCatchUp` relates them to the store and to
`loadObserverContext` once the store is quiet. In between neither holds, and the text is
stronger than the code: `context.ts:6-8` says the numbers "cannot drift" from
`observers.json`, but a backfill writes findings of other epochs, and a run that was
skipped published nothing, until the cadence has come round again. `findings.json` points
to `epochs/<epochIndex>.json` for older findings and is written before them, so that a
publish that breaks off leaves it pointing to older documents, or none. Two detectors
that throw in one epoch are two findings with one id in the feed and one row in the
table; here findings are a set, and they count as one.

## 3. The runs

| Run | Shows |
|---|---|
| `CaptureSafety` | with lagging replicas, a decoding failure, a layout change, closed accounts, a pair of accounts claiming one key, pruning, and one fault anywhere (a failed call or commit, a crash): the inductive invariant holds, which has the rows say what the chain said and the revision log whole, a completed run has its data, `ok` runs never go back, authoritative orders are final, and the store implements its abstraction |
| `CaptureLive` | over unboundedly many cycles: what stays on chain is captured, a live epoch gets its order, and a recorded epoch its creator unless an older one that cannot be attributed is ahead of it |
| `Boot` | two processes of one host and one of another boot at once on a file with none, one or both of two migrations, with one crash or failed release: migrations go in in order and a loser of the boot race gets further, one process captures at a time, and capture is always taken up again, also from a holder whose pid is in use |
| `EpochRegress` (violated) | the slot guard of `upsertEpochs` is fed the slot of another read, so a lagging replica does overwrite a newer Epoch row |
| `RegistryLabel` (violated) | between an epoch's end and the next one's first observation, a slot order of the new epoch is stored as the authoritative one of the old |
| `CommitFailure` (violated) | a cycle that failed to commit is no failed run for `consecutiveFailedPollRuns` |
| `Publishing` | with three of a crash, a failed write, an unopenable database and an unreadable manifest, each once and anywhere: one publisher at a time is in the tree, a waiter gets its turn, the tree keeps its promise, the manifest is merged |
| `Serving` | with any replacement between two system calls, and restarts: the inductive invariant holds, by which a copy is never older than its digest and the digest cache never stale, no file goes back for any client, and documents reach the clients that poll them |
| `Crawl` | hosts answer, fail, cut their answers and list each other in several spellings, one list fills the queue, and the nodes are analyzed with any places missing: the inductive invariant holds, by which the limit is overshot by less than the workers, no peer below it is forgotten, no address is crawled twice, every worker ends or is held by a cut answer, betweenness and islands of the graph are what they are taken for, and the report adds up |
| `Daily` | two runs over five gateways on pages of three, with a registry that is sorted anew, names that do not resolve, places and servers that do not answer, a wallet that migrates, and failures, cut answers and deaths anywhere: the properties of the daily analysis above, that half a publish is logged as a conjunct of the inductive invariant (`LogIsSound`) |
| `Findings` | one epoch with combinations of a few observations of three observers, an empty store, and two epochs under a cadence and a backfill, with an arrival, a revision, a roster that changes and goes stale, a calibration that is measured and activated, a detector that throws, and a publish that is skipped or breaks off: links and evidence lead to rows that are there, first-seen times survive, the documents of a whole publish add up, table, documents and daily join catch up with what was captured, groups are those the votes define, a split does not depend on what a bit means, and a recommended threshold reports no more than one in a thousand of the independent couples |
| `StaleManifest` (violated) | `index.json` is renamed before `index.json.gz`, and its tag is the digest of the first: a gzip client in between keeps the old manifest under the new tag, confirmed by 304s until the next publish. A page is exposed in the same way (`static.ts:89-95`: bytes first, mtime after) |

Bounds of `Capture`. `MaxSlot` (3): two slots make a lagging replica, three let it lag behind a write
that lags behind another, and with `SecondOf` = slot div 3 they are in one second or
two. `MaxRuns` (3) bounds `poll_runs` and so the cycles: one to store, one to revise, one
to disagree after a restart. `MaxFaults` (1): a second fault only repeats the rollback
of the first. Three accounts: one alone in its key and two that share one. In
`CaptureLive` the runs table is left empty (`RowMayFail`, the branch in which
`startPollRun` fails) so that cycles are unbounded. Bounded runs come to a stop, hence
`CHECK_DEADLOCK FALSE`. There the observations are of epochs 3 and 4, and 1 and 2 are over:
the creation of 1 can be found, that of 2 cannot (`Unattributable`), and 3, whose creation
could be found, waits behind 2 for ever. In the other runs `Unattributable` is empty and
no property is about creators.

Bounds of `Publishing`. Durations keep the order they have in the code, where a publish
takes less than the stale window of 300 s, the wait is 30 s longer than it, the findings
cadence starts every ten minutes and the daily one every day (`docs/operations.md:61`): 2,
2, 3, 4 and 6 seconds. Each is as close to the one before as the theorem on the waiter
allows, and `MaxPublish` is as long as the stale window allows, so that the boundaries are
reached. `MaxTime` (10) lets each cadence publish twice and a waiter wait out a dead holder.
One cadence owns a document and a page, the
other a document. Bounds of `Serving`: two versions, so that every file can be replaced
while it is read; one document, one page, the manifest; a client that takes gzip and one
that does not.

Bounds of `Boot`. An interval is 2, a cycle at most 1 and the stale window three
intervals, 6: with one missed heartbeat an age of 5 is reached, one short of stale, so a
window one interval shorter fails. Two migrations make a gap possible. `MaxFaults` (1):
one row is left behind at a time. Two pids per host, as many as processes, so that a pid
freed by a crash is soon used again.

Bounds of `Findings`. Seven gateways in one byte leave a bit of padding, nine take a
second byte that one blob has not. Three observers, of which two share most facts and one
has no gateway or only a range: chains, twins and splits of all kinds come about. There the
thresholds of the detectors are lowered to what three observers can reach (`MinCluster`
is 3 in the code, `SharedAsnMinObservers` 4, `PersistentMinEpochs` 3, `MinEpochs` 14). A window
of two of three epochs lets an epoch fall out of it, and a feed of one epoch
(`FeedEpochs`) leaves findings out. Observers 1 and 2 have the same facts, so a start and
its mirror image count once. `failures` is 1 in the start with two full epochs: a second
failed publish only repeats the first, as each that follows writes all anew. The store
with a degraded roster starts with roster 2 (`rosterAt`). `MaxWrites` (2): a first time and a
later one. The epochs and observations are bounded, hence `CHECK_DEADLOCK FALSE`.

Bounds of `Crawl`. Three workers, since two seeds in one spelling leave one of three
without work, which quits early. `MaxNodes` (4): with what three workers add above it, up
to six nodes, more than the three hosts have in one spelling. The queue limit is 12 then; one
list names an address with no valid port often enough to fill it, so that the peer after
it is dropped. `Retries` is 1, the default. The crawl stops, hence `CHECK_DEADLOCK FALSE`.
Two of the hosts share a range and a place, any of them may have no place, and `Many` is
lowered so that two or three are many. A view shows one provider and one range (`Shown`):
both lists are cut, and the views of one report may show different providers.

Bounds of `Daily`. Five gateways on pages of three: a page boundary that a new order moves
gateways across. Two of one domain may be on one server or on two that are more than 100
km apart, three of three domains on one: both kinds of cluster, and a name that fails in
each. `BatchSize` 1 makes two queries of a check, one of which may fail. `MaxRuns` (2): what one
run saves or tears the next one reads. `MaxMoves` (1): one new order while a run pages;
`EveryGatewayIsFetchedOnce` is claimed only while the order stays, since the cursor is a
position in a list sorted by a stake that moves. `MaxProviders` (1) cuts the list of
providers. `CHECK_DEADLOCK FALSE`, as runs end.

Fairness (`FairSpec` in `Crawler`). Weak for what a worker does without the help of a
host: take, leave, and fail at the timeout of a silent request. Nothing is assumed of the
hosts, whose `Cut` may hold any worker.

Fairness (`FairSpec` in `FindingsDocuments`). The cadence is started by cron again and again
(`docs/operations.md:61`) and ends: weak fairness of its steps. That of `Detect` is written as "again and
again not at `Detect`", which is the same, since `Detect` is the only way out, and that of
its publish likewise; a publish may fail, but only `failures` times. Nothing is
assumed of the backfill, the capture, the roster and the operator; all are finite.

Fairness (`FairSpec` in `DailyRun`). Weak for the process from one await to the next
(`Proceeds`), retries included: they are counted, and requests have timeouts. Nothing is
assumed of the answer to a page (`FetchPage`): with none the retries run out. `Cut` may
hold the run for ever, which `RunSettles` allows and says. `Start` and `Crash` are unfair.

Fairness (`Fairness` in `PollLock`). Weak for what a process does by itself and for
time; strong for the supervisor's start of the daemon (`Restart=always` in `deploy/`),
which may be disabled while no pid is free. Nothing is assumed of signals, crashes and
`--once` runs.

Fairness (`Fairness` in `Serving`). Weak for the steps of a request, which is handled
synchronously to its end; strong for every poll of a client, which waits while another's
request is handled. Convergence is stated for a file that has settled and restarts that
are over; nothing is assumed of the publisher.

Fairness (`Fairness` in `Capture`). Weak for what the process does by itself: the loop
re-arms after every cycle whatever the cycle did (`daemon.ts:612-637`), awaited calls
have retry limits and return, a supervisor restarts the process. Strong for a read at
the newest slot: a replica that has caught up answers again and again, among any number
of lagging answers. Strong for the settling of a lookup, which is disabled while the
cycle's last stretch runs. Faults are finite.

Every property of a passing run has a mutant in `PROJECT.json`: a plausible bug in a
mapped definition which TLC finds through that property.

## 4. The proofs

### Capture

`CaptureProofs` proves, for every chain, every set of accounts, keys, epochs and daemons
and every bound, the last two for one daemon (`OneDaemon`):

| Theorem | States |
|---|---|
| `Invariance` | `Spec => []IInv` |
| `TypeCorrect` | `Spec => []TypeOK` |
| `RowsAreOfTheChain` | `Spec => []RowIsChainAtLastSlot` |
| `RevisionsAreWhole` | `Spec => []RevisionLogIsWhole` |
| `CaptureKeepsHistory` | `Spec => StoreKeepsHistory`, the refinement |
| `CompletedRunsHaveTheirData` | `Spec => []CompletedRunHasItsData` |
| `OkRunsAreInSlotOrder` | `Spec => []OkRunsInSlotOrder` |
| `AuthoritativeOrderStays` | `Spec => AuthoritativeSnapshotIsFinal` |

`RowIsChainAtLastSlot` and `RevisionLogIsWhole` are not inductive: at `Commit` the tables
become the working copy of the transaction, so the copy has to satisfy them too, relative
to the slot of the cycle that owns it, and it must extend the history of the tables it
started from. `IInv` says that (`TxIsSound`), that a cycle past its first await knows a
slot the chain has (`CycleIsSound`), and that the transaction belongs to the one daemon
inside it. The argument for a record is about one row: `Upserted` keeps a row on the
chain and `Logged` keeps its log whole, and `ObservationStore`'s two facts are all that
is used of them. The assumptions are the ones named in the modules: slots and their
clock are ordered alike, keys have epochs, and the null values are not rows.

That a completed run has its data is a statement about rows and about states that are
long gone, and needs an invariant of its own (`DataInv`): the states of an account come
later and later on the chain, what the open transaction has done is in its working copy up
to the slot of its cycle (`WorkIsDone`), and a row once confirmed for a slot stays so,
because no write takes its slot back. An account whose key another one claims is the
exception the property makes. `OrderInv` is about one daemon: the run of its cycle is the
newest, its last slot is past every `ok` run, and what it is about to fetch has no
authoritative order yet. A second daemon breaks the last two, which is why the lock matters;
`MutualExclusion` below is the other half.

Only model-checked: the three liveness properties.

**Creators.** Each cycle looks up one epoch, the oldest with no creator
(`epochsMissingCreator(db, 1)`, `daemon.ts:157`). If its creation cannot be found, because
it lies more than ten pages of signatures back or the RPC no longer has the transaction
(`rpc.ts:316-338`), it stays the oldest, and no later epoch is ever looked up. "Resolved
once per epoch" (`migrations.ts:254-256`) and "called once per epoch" (`rpc.ts:283`) are true
only of a queue without such an epoch. `HeldBack` names the epochs behind one, and
`EpochsAheadAreAttributed` is what remains true of all others; without its hypothesis
it fails in `CaptureLive`, for epoch 3.

### Boot and the capture lock

`PollLockProofs`, for any number of processes, hosts, migrations and faults:

| Theorem | States |
|---|---|
| `BootInvariance` | `BootSpec => []BootInv`: booting alone |
| `Invariance` | `Spec => []IInv` |
| `TypeCorrect` | `Spec => []TypeOK` |
| `MutualExclusion` | `Spec => []OneCapture` |
| `BootsInOrder` | `Spec => [](AppliedInOrder /\ OpenMeansCurrent)` |
| `RetriesAreBounded` | `Spec => []RetriesGetFurther` |
| `OrderlyStop` | `Spec => []StopLeavesNoRow` |

Every step of `PollLock` is a step of `Migrations` or leaves it alone, so `BootInv` is
proved once. It says that what a process read is in order and still true; so the next
version it lacks has all others before it in the table, and a conflict is over a version
that the next boot will read. Mutual exclusion is an argument about time: `OnTime`
bounds the age of the heartbeat by the timer of the process that captures, through a
missed heartbeat, and `HeartbeatsOutlive` puts that bound below the stale window. With
`StaleAfter` three intervals, as in the code, the assumption says that a cycle, its RPC
retries included, is shorter than an interval and that no two heartbeats in a row are
lost. Nothing in the code enforces it, and a daemon that was displaced never learns it:
then two capture, which `Capture` allows for. Only model-checked: `CaptureResumes`.

### Publishing and serving

`PublicTreeProofs` proves that `PublicTree` keeps `DigestsNeverAhead` (`TreeInv` is
inductive: the digest is behind the sibling, the sibling behind the file, the file behind
the newest publish).

`PublishingProofs`, for any number of publishers, any ownership and any faults:

| Theorem | States |
|---|---|
| `OneAtATime` | `Spec => []OnePublisher` |
| `TreeIsKept` | `Spec => KeepsTheTree` |
| `Implements` | `Spec /\ []Guarded /\ []Readable => TreeSpec` |
| `NeverAhead` | `Spec /\ []Guarded /\ []Readable => []DigestsNeverAhead`, from the two before |
| `PublishesMerge` | `Spec => PublishMerges` |
| `WaitersPublish` | `Spec => []NoWaiterGivesUp`, of two cadences as in the code |

Mutual exclusion is an argument about time: whoever is in the tree holds the row and
has not passed `due`, which is at most `MaxPublish` after its heartbeat, so nobody finds
the row stale (`HoldsTheLock`). `PublishIsShort` (`MaxPublish <= StaleAfter`) is the one
assumption, and it is one about the machine: the heartbeat that was to replace it does
not run. With one publisher in the tree, what it has in memory is the manifest or what it
has renamed itself (`IsNewest`), if it could be read, which is the refinement. `MergeInv` adds what a publish has done:
each of its documents is yet to be written, waits for its `.gz`, or is whole, of the newest
version and in the manifest in memory, and of the others memory has what the manifest says.

`WaitersPublish` depends on how durations relate, and `TwoCadences` says how: one cadence
waits, the other skips, and 300 s (`StaleAfter`) is less than 330 s (`MaxWait`), their sum less
than a day, and a stale window less than the ten minutes of the other. Its invariant
(`WaitInv`) follows the row: it is of the last start of whoever took it, and while the daily
run waits the other has not started again. With three cadences, or a findings run every
five minutes, the row could be fresh again at every poll and the theorem would be false.

`ServingProofs`, for any files, clients and encodings: `CopiesCoverTheirDigests`,
`CacheIsCurrent` and `NeverBack`. The invariant puts the bytes a request has read between
what its client holds and what is in the tree, and its digest behind both, at every
point of the request.

Only model-checked there: convergence (liveness).

### The crawler

`CrawlerProofs`, for any hosts, lists of peers, number of workers and limits:

| Theorem | States |
|---|---|
| `Invariance` | `Spec => []IInv` |
| `CrawlBound` | `Spec => []CrawlIsBounded` |
| `FrontierIsServed` | `Spec => []NoFrontierIsLeft` |
| `CrawledOnce` | `Spec => NodesAreCrawledOnce` |
| `StatsAddUp` | `Spec => []CountsMatch` |
| `ReportImplementsCrawl` | `ReportSpec => FairSpec`: analyzing stutters |
| `ReportIsOfAWholeCrawl` | `ReportSpec => []NoFrontierIsLeft`, from it |
| `IslandsAreOfSeeds` | `ReportSpec => []EveryComponentHasASeed` |
| `SectionsAgree` | `ReportSpec => []ReportAddsUp` |
| `BetweennessIsCounted` | `ReportSpec => []BetweennessCountsShortestPaths` |

`IInv` says that a request under way is for an address that was taken, has no node yet and
is asked by nobody else (`OneWorkerPerAddress`): so a node is added once. The bound counts
nodes and requests together, since a request is taken below the limit and becomes a node.
`NothingIsForgotten` says where a listed peer is, in every state; the last worker leaves an
empty queue (`QueueIsServed`), so at the end it was visited or dropped.

The code filters peers in a loop. `Kept` states the result without a recursion, by the
rank of the indices that stay: `EveryRankIsTaken` shows that it is well defined and
`KeptElements` what it holds; TLC compares it with `SelectSeq`. The assumptions are that
workers are finitely many, the limits natural numbers, and a host is IPv4 or IPv6.

`IslandsAreOfSeeds` has two parts. A component is closed: an edge leads into it where it leads
out of it (`ComponentIsClosed`). The search widens a set step by step, and as long as it is
not closed it has more elements than steps, so that after as many steps as there are
addresses it is; and it stays in every closed set it starts in. So two components are one or
apart. And every closed set with a found address has a seed in it (`FoundFromSeeds`, an
invariant over all sets of addresses): an answer adds edges from an address that was found.

`SectionsAgree` is about one computation at the end of the crawl. A cluster is named by what
its nodes share, and the names of ranges and sites differ (`ClustersAreNamed`), so grouping
by the name gives back the sets of the two phases; a node of a range is not in the second
phase. The totals are `CountsMatch` once nobody is asked any more. The largest groups that
fit a list exist whatever its length (`TopIs`), and the theorem is about any choice of
them: a range is shown if and only if it is among the largest network clusters, and a
provider of the nodes that answered is part of one of all nodes, which is shown unless as
many as fit are at least as large.

`BetweennessIsCounted` is that Brandes' algorithm is right, on every graph a crawl can find:
with self-loops, edges to addresses that are no nodes, and several components. The
definition it is held against takes each pair of other nodes and counts walks; a shortest
walk is a path. The steps are:

1. *Distances.* The last step but one of a shortest path is one nearer (`PathsEndBefore`),
   walks are as many in either direction (`WalksAreSymmetric`), and distances obey the
   triangle inequality. So layer `d` of the search is the nodes at distance `d`
   (`LayersAre`), and the first pass counts the shortest paths to each
   (`PathCountsArePaths`).
2. *Division.* The second pass divides by the number of paths to the next node, and the
   quotient is exact: the unit is a multiple of every such number (`UnitHasWeights`), and
   the unit with what depends on a node is a multiple of the paths that reach it
   (`DependencyIs`). No rounding is left out of the model but that of floating point.
3. *Accumulation.* A shortest path that leads on from `v` to `t` goes through exactly one
   layer of nodes next to `v`; so the shares that the successors of `v` pass back
   add up to what depends on `v` itself (`SharesOfATarget`, `SharesAddUp`, by exchanging two
   sums). By induction on the layers, the farthest first, the second pass computes it
   (`DependenciesAre`).
4. *Pairs.* The algorithm sums over ordered pairs, the definition over unordered ones: the
   first is twice the second, since a dependency has no direction (`PairsHaveNoOrder`,
   `TwiceThePairs`). This is the half that the normalization was to make up for.

Only model-checked: `CrawlSettles`.

### The daily analysis

`DailyRunProofs`, for any registry, names, addresses, servers, failures and number of runs:

| Theorem | States |
|---|---|
| `Invariance` | `Spec => []IInv` |
| `EveryGatewayOnce` | `Spec => []EveryGatewayIsFetchedOnce` |
| `MigrationsStay` | `Spec => []MigrationsAreKept` |
| `HalvesAreLogged` | `Spec => []HalfPublishedIsLogged` |
| `ClustersAreDisjoint` | no gateway is in two clusters, and clusters hold resolved gateways only |
| `GatewaysAreParted` | `Spec => []ClustersPartTheGateways` |
| `FailuresAreNeutral` | `Spec => []FailedNamesDoNotBias` |
| `DocumentsOfRunsJoin` | `Spec => []DocumentsJoin` |

`EveryGatewayOnce` needs that what the pages brought is the beginning of the registry and the
cursor its last (`PagesInOrder`), as long as the order stays. `MigrationsAreKept` needs
`CacheIsSound`: while a run checks, what it has in memory is what the file had and more, all
of it true, so writing it back loses nothing. `HalfPublishedIsLogged` needs that the document
ahead is of this run while it has not ended, and of a run that ended badly after.

The other three are facts about the analysis of any rows (`ClustersPart`,
`FailedNamesLeaveNoTrace`, `DocumentsJoinByKey`), which the states in which a run analyzes then
have. That no two clusters have one id is a count: the position in the order of their least
members differs. The rewards of the first clusters stay in the pool because the clusters are
apart. That a sum over a part is no more than that over the whole is an argument by the
smallest counterexample (see below).

The assumptions: a registry lists every gateway once, lookups are of known addresses,
stakes are natural numbers, wallets are finitely many, and no gateway or wallet is `None`.
Only model-checked: `RunSettles`.

### Findings

`FindingsProofs`, for any epochs, observations, rosters, thresholds and windows, and any
kinds whose detector throws:

| Theorem | States |
|---|---|
| `Invariance` | `Spec => []IInv` |
| `FirstSeenTimesAreKept` | `Spec => FirstSeenIsKept` |
| `DocumentsImplementFindings` | `DocumentsSpec => Spec` |
| `PublishingKeepsTheTables` | `DocumentsSpec => []IInv`, from it |
| `PublicDocumentsAddUp` | `DocumentsSpec => []DocumentsAddUp` |
| `GroupsAreOfTheVotes` | `Spec => []ResultsAreGroupedRight`, if the two detectors do not throw |
| `PolarityIsOfNoMatter` | `Spec => []PolarityDoesNotMatter` |
| `FewIndependentPairsFire` | `Spec => IndependentPairsDoNotFire` |

An upsert deletes rows of some epochs and of all that are older, next to rows another
window has written. No reference dangles because evidence is of the finding's own epoch
(`EvidenceIsOfItsEpoch`), so that it stays or goes with it, and findings about the window
are always replaced; and because what a run inserts brings its evidence along
(`FoundIsClosed`). The second rests on the detectors: those of an epoch report without
evidence, degrading leaves it alone, and `Composite` and `Persistent` refer to ids they
were given (`EpochIsClosed`, `WindowIsClosed`). These lemmas expand the detectors no
further than to that, so they do not depend on what a detector looks for.

That the documents add up is shown in two parts. `PublicAddsUp` is about one source, what
a run read and found: its documents count each other's findings if it is sound
(`IsSound`), that is, its findings are of the epochs it read or of none, and
`shared_report_tx` names whoever shares a report. `WindowIsSound` says that of what the
detectors find, a broken one included: its error is of an epoch that was read, since the
window has a newest epoch. `PublicInv` says that what is public after a whole publish is
of one such source, which a publish that is skipped does not touch and one that breaks
off disowns.

The last three are about what the detectors compute, of any observations as the capture
decodes them and any threshold above 0 (`DataOK`, which every step keeps). `GroupsAreOfTheVotes`:
two masked prefixes are equal, and their distance is that of the votes, bit by bit
(`DistanceIsOfVotes`), and union-find over the couples above the threshold ends in the
components they span (`UnionFindIsRight`). A detector that throws reports an error instead of
its groups, hence the hypothesis `ResultKinds \cap Broken = {}`. `PolarityIsOfNoMatter`: turning
every vote over mirrors the values that are sorted and the gaps between them.
`FewIndependentPairsFire`: the samples are sorted, the percentile p99.9 has at most one in a
thousand above it, and the threshold is above that; where it cannot be, it is one.

The assumptions are on the inputs: epochs are natural numbers, unlike the epoch of a finding
about the window; epochs and observers are finitely many, and observers ordered as their
names are (`ObserversAreOrdered` has them be numbers); the window and the feed are natural
numbers; the stores at the start and the submissions are of known epochs and observers and as
`decodeObservationAccount` leaves them (`ObservationsAreDecoded`); the default threshold is
above 0; the roster of the start exists; the clock counts at least one write. Only
model-checked: `FindingsCatchUp`.

### Induction over data

The prover cannot apply the library's induction theorems. Where a proof needs one
(union-find, the search for a component), it is by the smallest counterexample: the
numbers for which a statement fails are a set, a set of numbers has a least one
(`LeastIsThere`, `LeastSet`, from the well-foundedness of `<`), and that one is neither 0 nor
the successor of one for which the statement holds. Recursive functions are shown to exist
in the same way (`SearchesExist`, `FoldsExist`), since a recursive definition is a choice
among the functions that satisfy it.

The proof of betweenness has many inductions and has them in two lemmas, which take the
numbers or the sets for which a statement holds as a set rather than as an operator:
`InductionTo`, over `0 .. n`, and `InductionOverParts`, over the parts of a finite set.
`RecursionExists` and `FoldExists` give the functions, and on them rest the laws of sums over
finite sets (`SumFolds`, `SumOf`, `SumOfTwo`, `SumsSwap`, `SumRenamed`), about the operators of
the community modules as they are defined there.

## 5. What is left

Not modelled, though it could be:

- `Health`: what `/healthz` and the freshness block make of `poll_runs`. Rows left
  `running` by a crash are skipped when failures are counted back (`repo-read.ts:239`), and
  the state is `degraded` during every cycle; the canary compares a count with one read
  at an earlier slot (`daemon.ts:250`).
- `PollLock` composed with `Capture`: a displaced daemon goes on capturing. `Capture` with two
  daemons stands for it; the run has one.
- Two live accounts that claim one `(epoch, observer)` in the same second revise each
  other's row in every cycle, and the revision log grows (`repo-write.ts:118`).
- A process that is killed inside the upsert of its findings: the transaction is atomic, so
  it is a run that did not happen.

Theorems that are left: none of a safety or action property of a passing run. Liveness is
under fairness, out of the prover's reach, and stays with TLC.

Not modelled, and not planned: rendering (`html-generator.ts`, `report-generator.ts`,
`arweave/utils`, `display.ts`), CSV files, distances on the globe, the reward
distribution, what the SDK does inside a call, logging.
