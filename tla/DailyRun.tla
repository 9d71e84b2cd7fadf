------------------------------ MODULE DailyRun ------------------------------
(***************************************************************************)
(* The daily analysis, `yarn analyze`: one process a day (src/index.ts)    *)
(* that opens a row of the run log, pages through the registry of gateways *)
(* (src/data/gateway-fetcher.ts), resolves their names (src/utils/dns.ts), *)
(* locates and asks them (src/utils/geo-location.ts, src/analyzer.ts),     *)
(* checks their migrations against a cache on disk                         *)
(* (src/data/migration-checker.ts), analyzes what it found and publishes   *)
(* two documents.  GatewayAnalysis is the analysis.                        *)
(*                                                                         *)
(* An action is what the process does between two awaits; the registry may *)
(* be reordered and wallets migrate meanwhile, and the process may be      *)
(* killed.  Left out: the reward distribution, whose fetch never fails the *)
(* run, the observers that the documents are joined with, the archive, and *)
(* the batches of names, hosts and servers, which all start and end        *)
(* together.                                                               *)
(***************************************************************************)
EXTENDS GatewayAnalysis, SequencesExt

CONSTANTS
  Registered,   \* [gateways -> fqdn, base, pattern, wallet, stake, registered, joined]
  Orders,       \* sequences of all gateways: how the registry may sort them
  PageSize, PageRetries,   \* 500 and 5
  Addresses,    \* [names -> what one may resolve to: addresses, or None for a failure]
  Range24, Place,          \* [addresses -> range], [addresses -> place]
  Lookups,      \* sets of addresses whose lookup may succeed: {} with SKIP_GEO
  Fingerprint,  \* [names -> what its server says of itself]
  Answering,    \* sets of names whose server may answer: {} without ANALYZE_PERFORMANCE
  BatchSize,    \* wallets in a query: 50
  Migrating,    \* the wallets that may migrate
  MaxRuns, MaxMoves        \* bounds of the model

Gateways == DOMAIN Registered
Wallets == {Registered[g].wallet : g \in Gateways}

ASSUME LimitsAreNat ==
  /\ PageSize \in Nat \ {0} /\ BatchSize \in Nat \ {0}
  /\ PageRetries \in Nat /\ MaxRuns \in Nat /\ MaxMoves \in Nat
ASSUME OrdersAreOfAll ==
  /\ Orders # {}
  /\ \A order \in Orders : order \in Seq(Gateways) /\ ToSet(order) = Gateways /\ IsInjective(order)
ASSUME GatewaysAreNames == None \notin Gateways
ASSUME LookupsAreOfAddresses ==
  /\ \A success \in Lookups : success \subseteq DOMAIN Range24
  /\ \A success \in Answering : success \subseteq DOMAIN Fingerprint
ASSUME StakesAreNat == \A g \in Gateways : Registered[g].stake \in Nat
ASSUME WalletsAreNames ==
  IsFiniteSet(Wallets) /\ None \notin Wallets /\ Migrating \subseteq Wallets

VARIABLES
  registry,  \* the gateways as the network sorts them now
  attested,  \* wallets that have migrated
  moves,     \* how often the registry was reordered
  pc,        \* what the process does
  runs,      \* analysis_runs: a status per run, "none" where the log did not open
  cursor,    \* the last gateway of the page before, or None
  attempt,   \* requests for this page that failed
  fetched,   \* the gateways that the pages brought, in order
  ips,       \* what the names of those to analyze resolved to
  located,   \* addresses with a place
  answered,  \* names with a fingerprint
  toQuery,   \* wallets still to be asked for
  migrated,  \* migrationResults, or Unchecked
  memory,    \* the cache as read and added to
  cache,     \* reports/migration-cache.json: wallets, or Torn
  public,    \* the run each document is from
  steady,    \* history: the registry kept its order since this run began
  told       \* history: wallets a run reported as migrated and saved to a cache not lost since

vars == <<registry, attested, moves, pc, runs, cursor, attempt, fetched, ips, located, answered,
          toQuery, migrated, memory, cache, public, steady, told>>
world == <<registry, attested, moves>>
found == <<fetched, ips, located, answered>>
check == <<toQuery, migrated, memory>>
history == <<steady, told>>

Unchecked == {None}
Torn == {None}
Day == Len(runs)

Phases == {"idle", "fetch", "resolve", "locate", "ask", "held", "load", "query", "save",
           "analyze", "publish", "finish", "fail"}

TypeOK ==
  /\ registry \in Orders
  /\ attested \subseteq Wallets
  /\ moves \in 0 .. MaxMoves
  /\ pc \in Phases
  /\ runs \in Seq({"none", "running", "ok", "failed"})
  /\ cursor \in Gateways \cup {None}
  /\ attempt \in 0 .. PageRetries
  /\ fetched \in Seq(Gateways)
  /\ DOMAIN ips \subseteq DOMAIN fetched /\ Range(ips) \subseteq DOMAIN Range24 \cup {None}
  /\ located \subseteq DOMAIN Range24
  /\ answered \subseteq DOMAIN Fingerprint
  /\ toQuery \in Seq(Wallets)
  /\ migrated = Unchecked \/ migrated \subseteq Wallets
  /\ memory \subseteq Wallets
  /\ cache = Torn \/ cache \subseteq Wallets
  /\ public \in [{"network", "gateways"} -> Nat]
  /\ steady \in BOOLEAN
  /\ told \subseteq Wallets

Init ==
  /\ registry \in Orders /\ attested = {} /\ moves = 0
  /\ pc = "idle" /\ runs = <<>>
  /\ cursor = None /\ attempt = 0
  /\ fetched = <<>> /\ ips = <<>> /\ located = {} /\ answered = {}
  /\ toQuery = <<>> /\ migrated = Unchecked /\ memory = {}
  /\ cache = {} /\ public = [d \in {"network", "gateways"} |-> 0]
  /\ steady = TRUE /\ told = {}
-----------------------------------------------------------------------------
(***************************************************************************)
(* The world.                                                              *)
(***************************************************************************)
Move ==
  /\ moves < MaxMoves
  /\ registry' \in Orders \ {registry}
  /\ moves' = moves + 1
  /\ steady' = FALSE
  /\ UNCHANGED <<attested, pc, runs, cursor, attempt, found, check, cache, public, told>>

\* A migration is permanent.
Attest ==
  /\ \E w \in Migrating \ attested : attested' = attested \cup {w}
  /\ UNCHANGED <<registry, moves, pc, runs, cursor, attempt, found, check, cache, public, history>>
-----------------------------------------------------------------------------
(***************************************************************************)
(* From the run log to the gateways.                                       *)
(***************************************************************************)
\* openRunLog: without a database the run goes on, and leaves no row.
Start ==
  /\ pc = "idle" /\ Len(runs) < MaxRuns
  /\ pc' = "fetch"
  /\ \E status \in {"running", "none"} : runs' = Append(runs, status)
  /\ steady' = TRUE
  /\ UNCHANGED <<world, cursor, attempt, found, check, cache, public, told>>

PageAt(first) == SubSeq(registry, first, Min({first + PageSize - 1, Len(registry)}))

\* Where in the list those are that are analyzed.
IsAnalyzed(g) == Registered[g].joined
ToAnalyze == {i \in DOMAIN fetched : IsAnalyzed(fetched[i])}

\* The next page begins after the gateway the page before ended with, where that is now.
FetchPage ==
  /\ pc = "fetch"
  /\ LET first == IF cursor = None THEN 1 ELSE 1 + CHOOSE i \in DOMAIN registry : registry[i] = cursor
         hasMore == first + PageSize <= Len(registry)
     IN  /\ fetched' = fetched \o PageAt(first)
         /\ cursor' = IF hasMore THEN Last(PageAt(first)) ELSE None
         /\ pc' = IF hasMore THEN "fetch" ELSE "resolve"
  /\ attempt' = 0
  /\ UNCHANGED <<world, runs, ips, located, answered, check, cache, public, history>>

\* Mutant of RetryPage: from the first page again.
RetryPageFromStart ==
  /\ pc = "fetch" /\ attempt < PageRetries
  /\ attempt' = attempt + 1
  /\ cursor' = None
  /\ UNCHANGED <<world, pc, runs, found, check, cache, public, history>>

\* Mutant of RetryPage: without end.
RetryPageForever ==
  /\ pc = "fetch" /\ attempt < PageRetries
  /\ UNCHANGED vars

RetryPage ==
  /\ pc = "fetch" /\ attempt < PageRetries
  /\ attempt' = attempt + 1
  /\ UNCHANGED <<world, pc, runs, cursor, found, check, cache, public, history>>

FetchFails ==
  /\ pc = "fetch" /\ attempt = PageRetries
  /\ pc' = "fail"
  /\ UNCHANGED <<world, runs, cursor, attempt, found, check, cache, public, history>>
-----------------------------------------------------------------------------
(***************************************************************************)
(* What is found out about them.  None of this fails the run.              *)
(***************************************************************************)
\* resolveGatewayIps never rejects; a name listed twice is resolved twice.
Resolve ==
  /\ pc = "resolve"
  /\ pc' = "locate"
  /\ ips' \in {f \in [ToAnalyze -> DOMAIN Range24 \cup {None}] :
                 \A i \in ToAnalyze : f[i] \in Addresses[Registered[fetched[i]].fqdn]}
  /\ UNCHANGED <<world, runs, cursor, attempt, fetched, located, answered, check, cache, public,
                 history>>

Locate ==
  /\ pc = "locate"
  /\ pc' = "ask"
  /\ \E success \in Lookups : located' = success \cap Range(ips)
  /\ UNCHANGED <<world, runs, cursor, attempt, fetched, ips, answered, check, cache, public,
                 history>>

\* parallelFingerprintFetch: names that did not resolve are asked too, and fail.
Ask ==
  /\ pc = "ask"
  /\ pc' \in {"load", "analyze"}   \* SKIP_MIGRATION_CHECK
  /\ \E success \in Answering :
       answered' = success \cap {Registered[fetched[i]].fqdn : i \in {j \in ToAnalyze : ips[j] # None}}
  /\ UNCHANGED <<world, runs, cursor, attempt, fetched, ips, located, check, cache, public,
                 history>>

\* An answer that breaks off after its header settles nothing, and all wait for it; a
\* process that has nothing else to wait for ends by itself then, as in Crash.
Cut ==
  /\ \/ pc = "locate" /\ Lookups # {{}}
     \/ pc = "ask" /\ Answering # {{}}
  /\ Range(ips) \ {None} # {}
  /\ pc' = "held"
  /\ UNCHANGED <<world, runs, cursor, attempt, found, check, cache, public, history>>
-----------------------------------------------------------------------------
(***************************************************************************)
(* checkMigrationStatus.                                                   *)
(***************************************************************************)
OfWallet(g) == Registered[g].wallet
Listed == {OfWallet(fetched[i]) : i \in ToAnalyze}
Cached == IF cache = Torn THEN {} ELSE cache

\* Mutant of LoadCache: only what this run is about is kept.
LoadCacheOfThisRun ==
  /\ pc = "load"
  /\ memory' = Cached \cap Listed
  /\ migrated' = Cached \cap Listed
  /\ toQuery' = SetToSeq(Listed \ Cached)
  /\ pc' = IF Listed \subseteq Cached THEN "analyze" ELSE "query"
  /\ UNCHANGED <<world, runs, cursor, attempt, found, cache, public, history>>

\* A cache that does not parse is an empty one.  With nothing to ask it is not saved.
LoadCache ==
  /\ pc = "load"
  /\ memory' = Cached
  /\ migrated' = Cached \cap Listed
  /\ toQuery' = SetToSeq(Listed \ Cached)
  /\ pc' = IF Listed \subseteq Cached THEN "analyze" ELSE "query"
  /\ UNCHANGED <<world, runs, cursor, attempt, found, cache, public, history>>

\* The index answers late or not at all: who is not found, or in a batch that fails, is not
\* migrated for this run, and not remembered.
QueryBatch ==
  /\ pc = "query"
  /\ LET n == Min({BatchSize, Len(toQuery)})
         batch == ToSet(SubSeq(toQuery, 1, n))
     IN  /\ \E migrations \in SUBSET (batch \cap attested) :
              /\ memory' = memory \cup migrations
              /\ migrated' = migrated \cup migrations
         /\ toQuery' = SubSeq(toQuery, n + 1, Len(toQuery))
         /\ pc' = IF n = Len(toQuery) THEN "save" ELSE "query"
  /\ UNCHANGED <<world, runs, cursor, attempt, found, cache, public, history>>

SaveCache ==
  /\ pc = "save"
  /\ cache' = memory
  /\ told' = told \cup migrated
  /\ pc' = "analyze"
  /\ UNCHANGED <<world, runs, cursor, attempt, found, check, public, steady>>

\* The file is written in place: what fails may leave the half of it, and the check
\* counts as not done.
SaveFails ==
  /\ pc = "save"
  /\ \/ UNCHANGED <<cache, told>>
     \/ cache' = Torn /\ told' = {}
  /\ migrated' = Unchecked
  /\ pc' = "analyze"
  /\ UNCHANGED <<world, runs, cursor, attempt, found, toQuery, memory, public, steady>>
-----------------------------------------------------------------------------
(***************************************************************************)
(* The rows that are analyzed, and the end of a run.                       *)
(***************************************************************************)
Nowhere == [city |-> None, country |-> None, isp |-> None, asn |-> None, spot |-> None,
            hosting |-> FALSE]

Rows ==
  Tabulated([i \in ToAnalyze |->
    LET g == Registered[fetched[i]]
    IN  [fqdn |-> g.fqdn, base |-> g.base, pattern |-> g.pattern, wallet |-> g.wallet,
         stake |-> g.stake, registered |-> g.registered,
         ip |-> ips[i],
         range |-> IF ips[i] = None THEN None ELSE Range24[ips[i]],
         place |-> IF ips[i] \in located THEN Place[ips[i]] ELSE Nowhere,
         print |-> IF g.fqdn \in answered THEN Fingerprint[g.fqdn] ELSE NoPrint,
         migrated |-> migrated # Unchecked /\ g.wallet \in migrated]])

\* What is computed and written to reports/ throws when a file cannot be written.
Analyze ==
  /\ pc = "analyze"
  /\ pc' \in {"publish", "fail"}
  /\ UNCHANGED <<world, runs, cursor, attempt, found, check, cache, public, history>>

\* publishDocuments; when the lock is not got in time nothing is published and nothing fails.
Publish ==
  /\ pc = "publish"
  /\ \/ public' = [d \in {"network", "gateways"} |-> Day]
     \/ UNCHANGED public
  /\ pc' = "finish"
  /\ UNCHANGED <<world, runs, cursor, attempt, found, check, cache, history>>

\* The documents are written one after the other.
Written ==
  {public, [public EXCEPT !.network = Day], [d \in {"network", "gateways"} |-> Day]}

\* Mutant of PublishFails: the error is not noticed.
PublishFailsUnnoticed ==
  /\ pc = "publish"
  /\ public' \in Written
  /\ pc' = "finish"
  /\ UNCHANGED <<world, runs, cursor, attempt, found, check, cache, history>>

PublishFails ==
  /\ pc = "publish"
  /\ public' \in Written
  /\ pc' = "fail"
  /\ UNCHANGED <<world, runs, cursor, attempt, found, check, cache, history>>

Forgotten ==
  /\ pc' = "idle"
  /\ cursor' = None /\ attempt' = 0
  /\ fetched' = <<>> /\ ips' = <<>> /\ located' = {} /\ answered' = {}
  /\ toQuery' = <<>> /\ migrated' = Unchecked /\ memory' = {}

Closed(status) ==
  IF runs[Day] = "none" THEN UNCHANGED runs ELSE runs' = [runs EXCEPT ![Day] = status]

FinishOk ==
  /\ pc = "finish"
  /\ Closed("ok")
  /\ Forgotten
  /\ UNCHANGED <<world, cache, public, history>>

\* A row that cannot be written is taken for a failed run, its documents published or not.
LogFails ==
  /\ pc = "finish" /\ runs[Day] # "none"
  /\ pc' = "fail"
  /\ UNCHANGED <<world, runs, cursor, attempt, found, check, cache, public, history>>

FinishFailed ==
  /\ pc = "fail"
  /\ Closed("failed") \/ UNCHANGED runs
  /\ Forgotten
  /\ UNCHANGED <<world, cache, public, history>>

\* The process is killed; its row stays.
Crash ==
  /\ pc # "idle"
  /\ IF pc = "publish" THEN public' \in Written ELSE UNCHANGED public
  /\ \/ UNCHANGED <<cache, told>>
     \/ pc = "save" /\ cache' = Torn /\ told' = {}
  /\ Forgotten
  /\ UNCHANGED <<world, runs, steady>>
-----------------------------------------------------------------------------
\* What the process does without a page from the network: a request that brings nothing
\* fails, a lookup fails, and the wait for the lock has a deadline.
Proceeds ==
  \/ RetryPage \/ FetchFails
  \/ Resolve \/ Locate \/ Ask
  \/ LoadCache \/ QueryBatch \/ SaveCache \/ SaveFails
  \/ Analyze \/ Publish \/ PublishFails
  \/ FinishOk \/ LogFails \/ FinishFailed

Next == Move \/ Attest \/ Start \/ FetchPage \/ Proceeds \/ Cut \/ Crash

Spec == Init /\ [][Next]_vars
FairSpec == Spec /\ WF_vars(Proceeds)
-----------------------------------------------------------------------------
(***************************************************************************)
(* Properties.                                                             *)
(***************************************************************************)
\* While the registry keeps its order the pages bring every gateway that joined once,
\* and no other, whatever is retried (gateway-fetcher.ts:36-87).
EveryGatewayIsFetchedOnce ==
  pc = "resolve" /\ steady =>
    /\ {fetched[i] : i \in ToAnalyze} = {g \in Gateways : IsAnalyzed(g)}
    /\ \A i, j \in ToAnalyze : fetched[i] = fetched[j] => i = j

\* The cache names wallets that migrated and no others, and none is forgotten that a run
\* reported and saved: a later run reports it again, also when nobody answers
\* ("a transient failure shouldn't poison the cache", migration-checker.ts:201-202).
\* Only a write that is cut short loses them, and then all.
MigrationsAreKept ==
  /\ cache # Torn => told \subseteq cache /\ cache \subseteq attested
  /\ pc = "analyze" /\ migrated # Unchecked => told \cap Listed \subseteq migrated

\* Clusters part the gateways that resolved: none is in two, each shows the size of its
\* own, and each cluster has one primary; a cluster by domain has one domain, and one by
\* address several domains and one address (analyzer.ts:478-586).
ClustersPartTheGateways ==
  pc = "analyze" =>
    LET results == Analyzed(Rows)
        clusters == Clusters(Rows)
    IN  /\ \A c \in clusters :
             /\ c.members = {i \in DOMAIN Rows : results[i].clusterId = c.id}
             /\ \A i \in c.members : results[i].clusterSize = Cardinality(c.members)
             /\ Cardinality({i \in c.members : results[i].isPrimary}) = 1
             /\ (Cardinality({Rows[i].base : i \in c.members}) = 1) <=> (c.id[1] = "domain")
        /\ Cardinality({c.id : c \in clusters}) = Cardinality(clusters)

\* What is said of the gateways that resolved does not depend on those that did not
\* ("Only include resolved gateways in stats for unbiased analysis", analyzer.ts:942):
\* without them the clusters, the scores and the notes are the same.
FailedNamesDoNotBias ==
  pc = "analyze" =>
    LET rows == Rows
        all == Analyzed(rows)
        without == Analyzed([i \in Resolved(rows) |-> rows[i]])
    IN  \A i \in Resolved(rows) : all[i] = without[i]

\* The two documents join: the gateways with the key of a cluster in network.json are
\* those the cluster lists (analyzer-constants.ts:1-14), unless a name is listed twice; as
\* many have a key as the totals say, and the clusters share out no more than the pool.
DocumentsJoin ==
  pc = "analyze" =>
    LET rows == Rows
        results == Analyzed(rows)
        summary == Summary(rows, results)
        KeyOf(i) == GatewayKey(rows, results, i)
    IN  /\ (\A i, j \in DOMAIN rows : rows[i].fqdn = rows[j].fqdn => i = j) =>
             \A c \in summary.clusters :
               c.members = {i \in DOMAIN rows : KeyOf(i) = ClusterKey(rows, results, c)}
        /\ summary.clusteredGateways = Cardinality({i \in DOMAIN rows : KeyOf(i) # <<>>})
        /\ summary.economicImpact.topCentralizedRewards <= summary.economicImpact.pool

\* Documents of two runs stand side by side only after a run that the log does not call
\* "ok" (index.ts:50-72): the later of the two broke off between them.
HalfPublishedIsLogged ==
  public.network # public.gateways => runs[Max({public.network, public.gateways})] # "ok"

\* Inductive.  What is remembered has migrated and holds what was cached, ...
CacheIsSound ==
  /\ memory \subseteq attested
  /\ migrated # Unchecked => migrated \subseteq memory
  /\ pc \in {"idle", "fetch", "resolve", "locate", "ask", "load"} => migrated = Unchecked
  /\ cache = Torn => told = {}
  /\ pc \in {"query", "save"} =>
       /\ cache # Torn => cache \subseteq memory
       /\ migrated # Unchecked
       /\ told \cap Listed \subseteq migrated

\* ... and a document that is ahead of the other is of a run that did not end well.
LogIsSound ==
  /\ Day \in Nat
  /\ public.gateways <= public.network /\ public.network <= Day
  /\ pc # "idle" => Day > 0 /\ runs[Day] \in {"running", "none"}
  /\ public.network # public.gateways /\ public.network = Day => pc \in {"idle", "fail"}
  /\ HalfPublishedIsLogged

\* The inductive invariant of the runs: types, the cache of the migrations and the log.
IInv ==
  /\ TypeOK
  /\ MigrationsAreKept
  /\ CacheIsSound
  /\ LogIsSound

\* A run ends, or waits for an answer that was cut.
RunSettles == pc = "fetch" ~> pc \in {"idle", "held"}
=============================================================================
