------------------------------ MODULE Capture ------------------------------
(***************************************************************************)
(* The capture daemon (src/capture/daemon.ts) over the observation store.  *)
(*                                                                         *)
(* A cycle is a chain of awaited reads, each answered at a slot of its     *)
(* own, followed by one IMMEDIATE transaction.  Every await is a step      *)
(* boundary: the chain moves, another daemon commits, or the process dies. *)
(* The transaction works on a copy of the store nobody else sees and       *)
(* publishes it at COMMIT.                                                 *)
(*                                                                         *)
(* Daemons has one element in the intended deployment.  The lock that      *)
(* keeps it so is another module; two elements are what a displaced lock   *)
(* holder, whose loop never looks at the lock again, amounts to.           *)
(*                                                                         *)
(* Time is left out: whether the hourly canary is due, and which poll_runs *)
(* rows are old enough to prune, are choices.                              *)
(***************************************************************************)
EXTENDS ObservationStore

CONSTANTS
  Daemons,
  Unattributable,  \* epochs whose signature history is too deep to walk
  MaxRuns,      \* bound: rows of poll_runs
  MaxFaults,    \* bound: failed calls, failed commits and process exits
  RowMayFail    \* bound: whether inserting a poll_runs row may fail in a run

ASSUME BoundsAreNat == MaxRuns \in Nat /\ MaxFaults \in Nat /\ RowMayFail \in BOOLEAN

VARIABLES
  obs,        \* [Keys -> Row or NoRow]: observations
  log,        \* [Keys -> Seq(Superseded)]: observation_revisions
  parked,     \* raw_unparsed: <<account, version>> pairs
  snapshots,  \* [Epochs -> Snapshot or NoRow]
  epochs,     \* [Epochs -> EpochRow or NoRow]
  runs,       \* poll_runs, in id order
  tx,         \* the open write transaction of the file, or NoTx
  pc,         \* [Daemons -> the await a daemon's cycle is at]
  mem,        \* [Daemons -> DaemonState]
  cyc,        \* [Daemons -> the locals of runCycle]
  resolving,  \* [Daemons -> epochs whose creator lookup is in flight]
  faults      \* how much went wrong so far

store == <<obs, log, parked, snapshots, epochs, runs>>
procs == <<pc, mem, cyc, resolving, faults>>
vars == <<chain, store, tx, procs>>

NoRun == 0      \* startPollRun failed, or no cycle is in flight
NoSlot == 0     \* a null context_slot; also lastContextSlot before any read

SustainedAfter == 3
Anomalies ==
  {"LAYOUT_DRIFT", "ZERO_ACCOUNTS", "ALL_ACCOUNTS_UNPARSED", "DUPLICATE_OBSERVER_KEYS"}
Statuses == {"running", "ok", "stale", "anomaly", "failed", "pruned"}
Run ==
  [status : Statuses,
   slot   : Slots \cup {NoSlot},
   error  : Anomalies \cup {"none", "failed", "SUSTAINED"}]

OpenRun == [status |-> "running", slot |-> NoSlot, error |-> "none"]

\* The locals of a cycle: its poll_runs row, the slot of its observation read,
\* the verdicts on that read, the epochs that need a registry snapshot, the
\* snapshots fetched so far, and the slot of its Epoch account read.
Fetched == [epoch : Epochs, snapshot : Snapshot]
Cycle ==
  [run   : 0..MaxRuns,
   slot  : Slots \cup {NoSlot},
   stale : BOOLEAN,
   drift : BOOLEAN,
   need  : SUBSET Epochs,
   got   : SUBSET Fetched,
   tally : Slots \cup {NoSlot}]

NoCycle ==
  [run |-> NoRun, slot |-> NoSlot, stale |-> FALSE, drift |-> FALSE,
   need |-> {}, got |-> {}, tally |-> NoSlot]

Memory == [lastSlot : Slots \cup {NoSlot}, failures : 0..SustainedAfter]
Fresh == [lastSlot |-> NoSlot, failures |-> 0]

Tx ==
  [owner : Daemons,
   obs   : [Keys -> Row \cup {NoRow}],
   log   : [Keys -> Seq(Superseded)],
   todo  : SUBSET Accounts]

ASSUME NoTxIsNoTx == NoTx \notin Tx

Phases == {"down", "idle", "read", "canary", "registry", "commit", "upsert"}

TypeOK ==
  /\ ChainTypeOK
  /\ obs \in [Keys -> Row \cup {NoRow}]
  /\ log \in [Keys -> Seq(Superseded)]
  /\ parked \subseteq Accounts \X Slots
  /\ snapshots \in [Epochs -> Snapshot \cup {NoRow}]
  /\ epochs \in [Epochs -> EpochRow \cup {NoRow}]
  /\ runs \in Seq(Run) /\ Len(runs) <= MaxRuns
  /\ tx \in Tx \cup {NoTx}
  /\ pc \in [Daemons -> Phases]
  /\ mem \in [Daemons -> Memory]
  /\ cyc \in [Daemons -> Cycle]
  /\ resolving \in [Daemons -> SUBSET Epochs]
  /\ faults \in 0..MaxFaults

Init ==
  /\ ChainInit
  /\ obs = [k \in Keys |-> NoRow]
  /\ log = [k \in Keys |-> << >>]
  /\ parked = {}
  /\ snapshots = [e \in Epochs |-> NoRow]
  /\ epochs = [e \in Epochs |-> NoRow]
  /\ runs = << >>
  /\ tx = NoTx
  /\ pc = [d \in Daemons |-> "down"]
  /\ mem = [d \in Daemons |-> Fresh]
  /\ cyc = [d \in Daemons |-> NoCycle]
  /\ resolving = [d \in Daemons |-> {}]
  /\ faults = 0
----------------------------------------------------------------------------
(* What one read amounts to.                                               *)

Decoded(s) == {a \in SizedRead(s) : <<a, chain[s].accounts[a]>> \notin Undecodable}

Unparsed(s) == SizedRead(s) \ Decoded(s)

EpochsRead(s) == {EpochOf[KeyOf[a]] : a \in Decoded(s)}

\* liveEpochIndex: the newest epoch among the decoded observations.
IsLive(s, e) == e \in EpochsRead(s) /\ \A f \in EpochsRead(s) : f <= e

\* Mutant of NeedsRegistry: the order of every epoch read is fetched again.
NeedsRegistryAlways(s, e) == e \in EpochsRead(s)

\* epochsNeedingRegistry, against the committed tables.
NeedsRegistry(s, e) ==
  /\ e \in EpochsRead(s)
  /\ \/ snapshots[e] = NoRow
     \/ IsLive(s, e) /\ ~snapshots[e].inEpoch

DuplicateKeys(s) ==
  \E a, b \in Decoded(s) : a # b /\ KeyOf[a] = KeyOf[b]

\* classifyCycle: the first condition that applies.
Verdict(c) ==
  CASE c.drift -> <<"anomaly", "LAYOUT_DRIFT">>
    [] ~c.drift /\ SizedRead(c.slot) = {} -> <<"anomaly", "ZERO_ACCOUNTS">>
    [] ~c.drift /\ SizedRead(c.slot) # {} /\ Decoded(c.slot) = {} ->
         <<"anomaly", "ALL_ACCOUNTS_UNPARSED">>
    [] ~c.drift /\ DuplicateKeys(c.slot) -> <<"anomaly", "DUPLICATE_OBSERVER_KEYS">>
    [] OTHER -> <<IF c.stale THEN "stale" ELSE "ok", "none">>

ClosedRun(c) == [status |-> Verdict(c)[1], slot |-> c.slot, error |-> Verdict(c)[2]]

\* Mutant of Finish: an INSERT.
FinishInserts(rows, id, row) == Append(rows, row)

\* finishPollRun: an UPDATE by id, of nothing when the cycle has no row.
Finish(rows, id, row) == IF id = NoRun THEN rows ELSE [rows EXCEPT ![id] = row]

\* Anything that goes wrong spends the budget of the run.
Faults(n) == faults + n <= MaxFaults /\ faults' = faults + n

Fault == Faults(1)
----------------------------------------------------------------------------
(* The process: main and seedState.                                        *)

\* The greatest slot in observations or poll_runs, NoSlot when there is none.
SlotsStored ==
  {obs[k].lastSlot : k \in {j \in Keys : obs[j] # NoRow}}
    \cup {runs[i].slot : i \in {j \in DOMAIN runs : runs[j].status # "pruned"}}

\* Mutant of IsSeed: both fields start at zero after every restart.
IsZero(s) == s = NoSlot

IsSeed(s) ==
  /\ s \in SlotsStored \cup {NoSlot}
  /\ \A t \in SlotsStored : t <= s

\* prunePollRuns: rows too old to keep, unless they are 'running'.
Prune(rows, n) ==
  [i \in DOMAIN rows |->
     IF i <= n /\ rows[i].status # "running"
     THEN [OpenRun EXCEPT !.status = "pruned"]
     ELSE rows[i]]

Start(d) ==
  /\ pc[d] = "down"
  /\ pc' = [pc EXCEPT ![d] = "idle"]
  /\ \E s \in Slots \cup {NoSlot} :
       IsSeed(s) /\ mem' = [mem EXCEPT ![d] = [lastSlot |-> s, failures |-> 0]]
  /\ \/ tx = NoTx /\ \E n \in 1..Len(runs) : runs' = Prune(runs, n)
     \/ UNCHANGED runs
  /\ UNCHANGED <<chain, obs, log, parked, snapshots, epochs, tx, cyc, resolving, faults>>

\* SIGTERM between cycles, or any abnormal exit: an open transaction is
\* rolled back, in-flight lookups and the DaemonState are gone.
Crash(d) ==
  /\ pc[d] # "down"
  /\ Fault
  /\ pc' = [pc EXCEPT ![d] = "down"]
  /\ mem' = [mem EXCEPT ![d] = Fresh]
  /\ cyc' = [cyc EXCEPT ![d] = NoCycle]
  /\ resolving' = [resolving EXCEPT ![d] = {}]
  /\ tx' = IF pc[d] = "upsert" THEN NoTx ELSE tx
  /\ UNCHANGED <<chain, store>>
----------------------------------------------------------------------------
(* runCycle.                                                               *)

\* startPollRun under safeWrite: the row, or null and the cycle goes on.
StartCycle(d) ==
  /\ pc[d] = "idle"
  /\ pc' = [pc EXCEPT ![d] = "read"]
  /\ \/ /\ tx = NoTx
        /\ Len(runs) < MaxRuns
        /\ runs' = Append(runs, OpenRun)
        /\ cyc' = [cyc EXCEPT ![d] = [NoCycle EXCEPT !.run = Len(runs) + 1]]
     \/ RowMayFail /\ UNCHANGED <<runs, cyc>>
  /\ UNCHANGED <<chain, obs, log, parked, snapshots, epochs, tx, mem, resolving, faults>>

\* fetchObservationAccounts answered at slot s: the read is judged and, unless
\* the canary is due first, the epochs that need a registry snapshot listed.
ReadObservations(d, s) ==
  /\ pc[d] = "read"
  /\ \E next \in {"canary", "registry"} :
       /\ pc' = [pc EXCEPT ![d] = next]
       /\ cyc' = [cyc EXCEPT ![d] = [@ EXCEPT
            !.slot = s,
            !.stale = s < mem[d].lastSlot,
            !.need = IF next = "registry" THEN {e \in Epochs : NeedsRegistry(s, e)}
                                          ELSE {}]]
  /\ UNCHANGED <<chain, store, tx, mem, resolving, faults>>

\* fetchDiscriminatorOnlyCount answered at slot t.
Canary(d, t) ==
  /\ pc[d] = "canary"
  /\ pc' = [pc EXCEPT ![d] = "registry"]
  /\ cyc' = [cyc EXCEPT ![d] = [@ EXCEPT
       !.drift = Cardinality(AnySizeRead(t)) > Cardinality(SizedRead(cyc[d].slot)),
       !.need = {e \in Epochs : NeedsRegistry(cyc[d].slot, e)}]]
  /\ UNCHANGED <<chain, store, tx, mem, resolving, faults>>

\* Mutant of SnapshotOf: the label fetchRegistrySlotOrder returns is kept.
SnapshotUnlabelled(s, e, t) == [order |-> chain[t].registry, inEpoch |-> FALSE]

SnapshotOf(s, e, t) == [order |-> chain[t].registry, inEpoch |-> IsLive(s, e)]

\* One fetchRegistrySlotOrder: the order of now, labelled with epoch e.
FetchRegistry(d, e, t) ==
  /\ pc[d] = "registry"
  /\ e \in cyc[d].need
  /\ cyc' = [cyc EXCEPT ![d] = [@ EXCEPT
       !.need = cyc[d].need \ {e},
       !.got = cyc[d].got \cup {[epoch |-> e, snapshot |-> SnapshotOf(cyc[d].slot, e, t)]}]]
  /\ UNCHANGED <<chain, store, tx, pc, mem, resolving, faults>>

\* It failed: retried by the next cycle that still reads the epoch.
FetchRegistryFails(d, e) ==
  /\ pc[d] = "registry"
  /\ e \in cyc[d].need
  /\ Fault
  /\ cyc' = [cyc EXCEPT ![d] = [@ EXCEPT !.need = cyc[d].need \ {e}]]
  /\ UNCHANGED <<chain, store, tx, pc, mem, resolving>>

\* fetchEpochAccounts answered at slot t; NoSlot stands for a call that failed
\* and for an answer with no account, which change nothing.  What follows the
\* await is synchronous: the creator lookup of one epoch takes off.
FetchEpochs(d, t) ==
  /\ pc[d] = "registry"
  /\ cyc[d].need = {}
  /\ t # NoSlot => EpochAccountsRead(t) # {}
  /\ pc' = [pc EXCEPT ![d] = "commit"]
  /\ cyc' = [cyc EXCEPT ![d] = [@ EXCEPT !.tally = t]]
  /\ resolving' = [resolving EXCEPT ![d] = @ \cup OldestUnattributed(epochs)]
  /\ UNCHANGED <<chain, store, tx, mem, faults>>

\* The cycle threw at an await: the catch clause.  Its own write may fail too, a
\* second fault, and then the row stays open.
CycleFails(d) ==
  /\ pc[d] \in {"read", "canary"}
  /\ LET n == IF mem[d].failures < SustainedAfter THEN mem[d].failures + 1
                                                  ELSE SustainedAfter
         row == [status |-> "failed", slot |-> NoSlot,
                 error |-> IF n = SustainedAfter THEN "SUSTAINED" ELSE "failed"]
     IN  /\ mem' = [mem EXCEPT ![d] = [@ EXCEPT !.failures = n]]
         /\ \/ tx = NoTx /\ runs' = Finish(runs, cyc[d].run, row) /\ Fault
            \/ UNCHANGED runs /\ Faults(2)
  /\ pc' = [pc EXCEPT ![d] = "idle"]
  /\ cyc' = [cyc EXCEPT ![d] = NoCycle]
  /\ UNCHANGED <<chain, obs, log, parked, snapshots, epochs, tx, resolving>>
----------------------------------------------------------------------------
(* The cycle's transaction.                                                *)

\* commit.immediate() waits for the file's write lock.
BeginCommit(d) ==
  /\ pc[d] = "commit"
  /\ tx = NoTx
  /\ pc' = [pc EXCEPT ![d] = "upsert"]
  /\ tx' = [owner |-> d, obs |-> obs, log |-> log, todo |-> Decoded(cyc[d].slot)]
  /\ UNCHANGED <<chain, store, mem, cyc, resolving, faults>>

\* upsertObservations, one record: the accounts come in the order of the RPC
\* response, which is any order.
UpsertObservation(d, a) ==
  /\ pc[d] = "upsert"
  /\ a \in tx.todo
  /\ LET k == KeyOf[a]
         s == cyc[d].slot
         v == chain[s].accounts[a]
     IN  tx' = [tx EXCEPT
           !.obs = [@ EXCEPT ![k] = Upserted(tx.obs[k], a, v, s)],
           !.log = [@ EXCEPT ![k] = Logged(tx.obs[k], tx.log[k], a, v, s)],
           !.todo = @ \ {a}]
  /\ UNCHANGED <<chain, store, procs>>

\* The state a cycle leaves behind when control returns to the loop.
CycleEnds(d, failures) ==
  /\ pc' = [pc EXCEPT ![d] = "idle"]
  /\ cyc' = [cyc EXCEPT ![d] = NoCycle]
  /\ mem' = [mem EXCEPT ![d] =
       [lastSlot |-> IF cyc[d].stale THEN @.lastSlot ELSE cyc[d].slot,
        failures |-> failures]]
  /\ UNCHANGED <<chain, resolving>>

\* The rest of the transaction, and COMMIT.  Epoch rows are stamped with the
\* slot of the observation read.
Commit(d) ==
  /\ pc[d] = "upsert"
  /\ tx.todo = {}
  /\ LET c == cyc[d]
         EpochsSeen == IF c.tally = NoSlot THEN {} ELSE EpochAccountsRead(c.tally)
     IN  /\ obs' = tx.obs
         /\ log' = tx.log
         /\ parked' = parked \cup {<<a, chain[c.slot].accounts[a]>> : a \in Unparsed(c.slot)}
         /\ snapshots' = [e \in Epochs |->
              IF \E g \in c.got : g.epoch = e
              THEN (CHOOSE g \in c.got : g.epoch = e).snapshot
              ELSE snapshots[e]]
         /\ epochs' = [e \in Epochs |->
              IF e \in EpochsSeen
              THEN EpochUpserted(epochs[e], chain[c.tally].tally[e], c.slot)
              ELSE epochs[e]]
         /\ runs' = Finish(runs, c.run, ClosedRun(c))
  /\ tx' = NoTx
  /\ CycleEnds(d, 0)
  /\ UNCHANGED faults

\* Mutant of CommitFails: the poll_runs row is closed outside the transaction.
CommitFailsAfterTheRow(d) ==
  /\ pc[d] \in {"commit", "upsert"}
  /\ Fault
  /\ tx' = IF pc[d] = "upsert" THEN NoTx ELSE tx
  /\ runs' = Finish(runs, cyc[d].run, ClosedRun(cyc[d]))
  /\ UNCHANGED <<obs, log, parked, snapshots, epochs>>
  /\ CycleEnds(d, 1)

\* A statement of the transaction failed, or the write lock never came: all of
\* it is rolled back, the poll_runs update with it, and the cycle ends.
CommitFails(d) ==
  /\ pc[d] \in {"commit", "upsert"}
  /\ Fault
  /\ tx' = IF pc[d] = "upsert" THEN NoTx ELSE tx
  /\ UNCHANGED store
  /\ CycleEnds(d, 1)
----------------------------------------------------------------------------
(* The creator lookup of an epoch, a detached promise: it cannot settle in  *)
(* the stretch from the last await of a cycle to its COMMIT.               *)

Synchronous(d) == pc[d] \in {"commit", "upsert"}

SetEpochCreator(d, e) ==
  /\ e \in resolving[d] \ Unattributable
  /\ ~Synchronous(d)
  /\ tx = NoTx
  /\ epochs' = [epochs EXCEPT ![e] = [@ EXCEPT !.creator = TRUE]]
  /\ resolving' = [resolving EXCEPT ![d] = @ \ {e}]
  /\ UNCHANGED <<chain, obs, log, parked, snapshots, runs, tx, pc, mem, cyc, faults>>

LookupFails(d, e) ==
  /\ e \in resolving[d]
  /\ ~Synchronous(d)
  /\ IF e \in Unattributable THEN UNCHANGED faults ELSE Fault
  /\ resolving' = [resolving EXCEPT ![d] = @ \ {e}]
  /\ UNCHANGED <<chain, store, tx, pc, mem, cyc>>
----------------------------------------------------------------------------
ChainMoved == ChainStep /\ UNCHANGED <<store, tx, procs>>

DaemonStep(d) ==
  \/ Start(d)
  \/ Crash(d)
  \/ StartCycle(d)
  \/ \E s \in 1..Len(chain) : ReadObservations(d, s)
  \/ \E t \in 1..Len(chain) : Canary(d, t)
  \/ \E e \in Epochs, t \in 1..Len(chain) : FetchRegistry(d, e, t)
  \/ \E e \in Epochs : FetchRegistryFails(d, e)
  \/ \E t \in 0..Len(chain) : FetchEpochs(d, t)
  \/ CycleFails(d)
  \/ BeginCommit(d)
  \/ \E a \in Accounts : UpsertObservation(d, a)
  \/ Commit(d)
  \/ CommitFails(d)
  \/ \E e \in Epochs : SetEpochCreator(d, e) \/ LookupFails(d, e)

Next == ChainMoved \/ \E d \in Daemons : DaemonStep(d)

Spec == Init /\ [][Next]_vars

\* The loop re-arms itself after every cycle, awaited calls return and the
\* supervisor restarts the process; faults are finite.  A replica that has
\* caught up answers again and again, among any number that have not.
Fairness ==
  \A d \in Daemons :
    /\ WF_vars(Start(d))
    /\ WF_vars(StartCycle(d))
    /\ SF_vars(ReadObservations(d, Len(chain)))
    /\ WF_vars(\E t \in 1..Len(chain) : Canary(d, t))
    /\ WF_vars(\E e \in Epochs, t \in 1..Len(chain) : FetchRegistry(d, e, t))
    /\ SF_vars(FetchEpochs(d, Len(chain)))
    /\ WF_vars(\E t \in 0..Len(chain) : FetchEpochs(d, t))
    /\ WF_vars(BeginCommit(d))
    /\ WF_vars(\E a \in Accounts : UpsertObservation(d, a))
    /\ WF_vars(Commit(d))
    /\ \A e \in Epochs : SF_vars(SetEpochCreator(d, e) \/ LookupFails(d, e))

FairSpec == Spec /\ Fairness
----------------------------------------------------------------------------
(* Properties.                                                             *)

\* An observation row is exactly what the chain held for its account at the
\* slot the row says it was last confirmed at: no path of upsertObservation
\* confirms contents the read did not carry.
RowIsOnChain(k, row) ==
  /\ KeyOf[row.account] = k
  /\ row.firstSlot <= row.lastSlot
  /\ row.lastSlot <= Len(chain)
  /\ row.version = chain[row.lastSlot].accounts[row.account]

RowIsChainAtLastSlot == \A k \in Keys : obs[k] # NoRow => RowIsOnChain(k, obs[k])

\* observation_revisions holds every earlier state of a row, once, in order:
\* the entries are numbered 1, 2, ... up to the row's own revision, and along
\* them and the row neither clock of the ordering guard goes back.
Supersedes(entry, account, version, slot) ==
  /\ <<entry.account, entry.version>> # <<account, version>>
  /\ SecondOf[entry.version] <= SecondOf[version]
  /\ entry.slot <= slot

LogIsWhole(row, entries) ==
  IF row = NoRow
  THEN entries = << >>
  ELSE /\ row.revision = Len(entries) + 1
       /\ \A i \in 1..Len(entries) : entries[i].revision = i
       /\ \A i \in 1..Len(entries) - 1 :
            Supersedes(entries[i], entries[i+1].account, entries[i+1].version, entries[i+1].slot)
       /\ Len(entries) > 0 =>
            Supersedes(entries[Len(entries)], row.account, row.version, row.lastSlot)

RevisionLogIsWhole == \A k \in Keys : LogIsWhole(obs[k], log[k])

\* "Cycle N completed can never be true without cycle N's data": for every
\* poll_runs row with a slot, each account of the read at that slot is in the
\* store, confirmed at that slot or a later one, or its bytes are parked.
SoleClaimant(a) == \A b \in Accounts : KeyOf[b] = KeyOf[a] => b = a

CompletedRunHasItsData ==
  \A i \in 1..Len(runs) : runs[i].slot # NoSlot =>
    LET s == runs[i].slot
    IN  /\ \A a \in Decoded(s) :
             /\ obs[KeyOf[a]] # NoRow
             /\ SoleClaimant(a) => obs[KeyOf[a]].lastSlot >= s
        /\ \A a \in Unparsed(s) : <<a, chain[s].accounts[a]>> \in parked

\* Runs recorded 'ok' read the chain at slots that never go back, across
\* restarts, pruning and failed commits: a lagging replica is never taken for
\* a caught-up one.
OkRunsInSlotOrder ==
  \A i, j \in 1..Len(runs) :
    i < j /\ runs[i].status = "ok" /\ runs[j].status = "ok" => runs[i].slot <= runs[j].slot

\* An authoritative slot order is never replaced: the order it had in its
\* epoch is gone for good.
AuthoritativeSnapshotIsFinal ==
  [][\A e \in Epochs :
       snapshots[e] # NoRow /\ snapshots[e].inEpoch => snapshots'[e] = snapshots[e]]_snapshots

\* The store keeps the promise of ObservationHistory: the states of a key are
\* its log followed by its row.
StateOf(r) == <<r.account, r.version>>

HistoryOf(row, entries) ==
  IF row = NoRow
  THEN << >>
  ELSE [i \in 1..Len(entries) + 1 |->
          IF i <= Len(entries) THEN StateOf(entries[i]) ELSE StateOf(row)]

SlotOf(row) == IF row = NoRow THEN NoSlot ELSE row.lastSlot

SecondOfState(state) == SecondOf[state[2]]

Store == INSTANCE ObservationHistory WITH
  Second    <- SecondOfState,
  history   <- [k \in Keys |-> HistoryOf(obs[k], log[k])],
  confirmed <- [k \in Keys |-> SlotOf(obs[k])]

StoreKeepsHistory == Store!Spec

\* Why the four invariants hold.  A cycle past its first await knows a slot of
\* the chain; the open transaction is that of the one daemon inside "upsert",
\* and its working copy satisfies the invariants of the tables it will become
\* and extends the history of the tables it started from.
CycleIsSound(d) ==
  /\ cyc[d].slot \in 0..Len(chain)
  /\ cyc[d].tally \in 0..Len(chain)
  /\ pc[d] \in {"canary", "registry", "commit", "upsert"} => cyc[d].slot # NoSlot
  /\ pc[d] = "upsert" <=> tx # NoTx /\ tx.owner = d
  /\ \A e \in resolving[d] : epochs[e] # NoRow

RowIsExtended(k) ==
  /\ Store!Extends(HistoryOf(obs[k], log[k]), HistoryOf(tx.obs[k], tx.log[k]))
  /\ SlotOf(obs[k]) <= SlotOf(tx.obs[k])

TxIsSound ==
  tx # NoTx =>
    /\ tx.todo \subseteq Decoded(cyc[tx.owner].slot)
    /\ \A k \in Keys :
         /\ tx.obs[k] # NoRow => RowIsOnChain(k, tx.obs[k])
         /\ LogIsWhole(tx.obs[k], tx.log[k])
         /\ RowIsExtended(k)

IInv ==
  /\ TypeOK
  /\ \A d \in Daemons : CycleIsSound(d)
  /\ TxIsSound
  /\ RowIsChainAtLastSlot
  /\ RevisionLogIsWhole

\* Never miss an epoch: an observation that stays on chain, decodable and alone
\* in its key, ends up stored in its newest version and stays so.
Capturable(a) ==
  /\ a \in Decoded(Len(chain))
  /\ SoleClaimant(a)

StoredAsIs(a) ==
  /\ obs[KeyOf[a]] # NoRow
  /\ obs[KeyOf[a]].version = Tip.accounts[a]

EveryObservationIsCaptured ==
  \A a \in Accounts : <>[]Capturable(a) => <>[]StoredAsIs(a)

\* While its observations stay on chain and no newer epoch is observed, an epoch
\* ends up with an authoritative slot order, failed fetches notwithstanding.
EveryLiveEpochGetsItsOrder ==
  \A e \in Epochs :
    <>[]IsLive(Len(chain), e) => <>[](snapshots[e] # NoRow /\ snapshots[e].inEpoch)

\* One epoch is looked up per cycle, the oldest that lacks its creator
\* (resolveEpochCreators), so one whose history is out of reach stays at the head
\* and holds back every epoch after it.
HeldBack(e) == \E f \in Unattributable : f < e /\ epochs[f] # NoRow

\* It holds back no other: a recorded epoch that no such epoch precedes gets the
\* wallet that created it, and keeps it, although its first lookup fails, the row
\* is refreshed while it is looked up or the process dies, and whatever the lookups
\* of the epochs behind it come to.
EpochsAheadAreAttributed ==
  \A e \in Epochs \ Unattributable :
    <>[](epochs[e] # NoRow /\ ~HeldBack(e)) => <>[](epochs[e] # NoRow /\ epochs[e].creator)
----------------------------------------------------------------------------
(* What the comments and the documentation promise and the code does not   *)
(* keep.                                                                   *)

\* "An RPC node that has fallen behind must not overwrite a newer capture with
\* an older view of the same account" (upsertEpochs).
EpochRowNeverRegresses ==
  [][\A e \in Epochs :
       epochs[e] # NoRow => epochs'[e] # NoRow /\ epochs'[e].version >= epochs[e].version]_epochs

\* "A snapshot taken while its epoch is still live is authoritative; one taken
\* for an epoch that has already closed is stored with inEpoch: false"
\* (runCycle): an authoritative order is one the registry had in the epoch.
AuthoritativeOrderIsOfItsEpoch ==
  \A e \in Epochs : snapshots[e] # NoRow /\ snapshots[e].inEpoch =>
    \E s \in 1..Len(chain) : chain[s].live = e /\ chain[s].registry = snapshots[e].order

\* consecutiveFailures "counts anomaly AND failed" (operations.md): a cycle the
\* daemon judged failed is a failed run for the readers of poll_runs.
FailedCycleIsFailedRun ==
  \A d \in Daemons :
    pc[d] = "idle" /\ mem[d].failures > 0 => runs[Len(runs)].status = "failed"
=============================================================================
