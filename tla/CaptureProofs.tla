--------------------------- MODULE CaptureProofs ---------------------------
(***************************************************************************)
(* What module Capture keeps for any number of accounts, epochs, daemons   *)
(* and faults: the invariant IInv is inductive, and with it every step of  *)
(* the daemons is a step of ObservationHistory.                            *)
(***************************************************************************)
EXTENDS Capture, TLAPS

(***************************************************************************)
(* One row.                                                                *)
(***************************************************************************)

\* The three ways a row comes out, without the CASE.
LEMMA UpsertedCases ==
  ASSUME NEW row, NEW a, NEW v, NEW s
  PROVE  /\ row = NoRow => Upserted(row, a, v, s) = New(a, v, s)
         /\ row # NoRow /\ ~Changed(row, a, v) =>
              Upserted(row, a, v, s) = [row EXCEPT !.lastSlot = Later(@, s)]
         /\ Revises(row, a, v, s) => Upserted(row, a, v, s) = Revised(row, a, v, s)
         /\ row # NoRow /\ Changed(row, a, v) /\ ~Revises(row, a, v, s) =>
              Upserted(row, a, v, s) = row
BY DEF Upserted, Revises

\* A record of upsertObservations leaves a row of the table, with its log.
LEMMA UpsertedType ==
  ASSUME NEW row \in Row \cup {NoRow}, NEW entries \in Seq(Superseded),
         NEW a \in Accounts, NEW v \in Slots, NEW s \in Slots
  PROVE  /\ Upserted(row, a, v, s) \in Row
         /\ Logged(row, entries, a, v, s) \in Seq(Superseded)
<1>1. CASE row = NoRow
  BY <1>1 DEF Upserted, Logged, Revises, New, Row
<1>2. CASE row # NoRow
  <2>1. row \in Row
    BY <1>2
  <2>2. Upserted(row, a, v, s) \in Row
    <3>1. [row EXCEPT !.lastSlot = Later(@, s)] \in Row
      BY <2>1 DEF Row, Later
    <3>2. Revised(row, a, v, s) \in Row
      BY <2>1 DEF Row, Revised
    <3>3. QED BY <1>2, <2>1, <3>1, <3>2, UpsertedCases
  <2>3. [account |-> row.account, version |-> row.version,
         revision |-> row.revision, slot |-> s] \in Superseded
    BY <2>1 DEF Row, Superseded
  <2>4. Logged(row, entries, a, v, s) \in Seq(Superseded)
    BY <2>3 DEF Logged
  <2>5. QED BY <2>2, <2>4
<1>3. QED BY <1>1, <1>2

\* The row that comes out is what the chain held where it says it was read.
LEMMA UpsertedIsOnChain ==
  ASSUME ChainTypeOK, NEW k \in Keys, NEW row \in Row \cup {NoRow},
         row # NoRow => RowIsOnChain(k, row),
         NEW a \in Accounts, KeyOf[a] = k, NEW s \in 1..Len(chain),
         chain[s].accounts[a] \in Slots
  PROVE  RowIsOnChain(k, Upserted(row, a, chain[s].accounts[a], s))
<1> DEFINE v == chain[s].accounts[a]
<1>0. Len(chain) \in Nat
  BY DEF ChainTypeOK, Slots
<1>1. CASE row = NoRow
  <2>1. Upserted(row, a, v, s) = New(a, v, s)
    BY <1>1, UpsertedCases
  <2>2. QED BY <1>0, <2>1 DEF New, RowIsOnChain, Slots
<1>2. CASE row # NoRow /\ ~Changed(row, a, v)
  <2>1. Upserted(row, a, v, s) = [row EXCEPT !.lastSlot = Later(@, s)]
    BY <1>2 DEF Upserted, Revises
  <2>2. row \in Row /\ RowIsOnChain(k, row) /\ row.account = a /\ row.version = v
    BY <1>2 DEF Changed
  <2>3. QED BY <1>0, <2>1, <2>2 DEF Row, RowIsOnChain, Later, Slots
<1>3. CASE row # NoRow /\ Changed(row, a, v) /\ Revises(row, a, v, s)
  <2>1. Upserted(row, a, v, s) = Revised(row, a, v, s)
    BY <1>3 DEF Upserted
  <2>2. row \in Row /\ RowIsOnChain(k, row) /\ row.lastSlot <= s
    BY <1>3 DEF Revises, Stale, Row, Slots
  <2>3. QED BY <1>0, <2>1, <2>2 DEF Row, Revised, RowIsOnChain, Slots
<1>4. CASE row # NoRow /\ Changed(row, a, v) /\ ~Revises(row, a, v, s)
  BY <1>4 DEF Upserted
<1>5. QED BY <1>1, <1>2, <1>3, <1>4
\* A revision is logged, and nothing else is.
LEMMA LogStaysWhole ==
  ASSUME NEW row \in Row \cup {NoRow}, NEW entries \in Seq(Superseded),
         LogIsWhole(row, entries),
         NEW a \in Accounts, NEW v \in Slots, NEW s \in Slots
  PROVE  LogIsWhole(Upserted(row, a, v, s), Logged(row, entries, a, v, s))
<1> DEFINE new == Upserted(row, a, v, s)
           n == Len(entries)
<1>0. /\ Row \cap {NoRow} = {}
      /\ SecondOf \in [Slots -> Nat]
      /\ n \in Nat
  BY NoRowIsNoRow, SecondsFollowSlots
<1>1. CASE row = NoRow
  <2>1. new = New(a, v, s) /\ new # NoRow
    BY <1>0, <1>1, UpsertedCases, UpsertedType
  <2>2. entries = << >> /\ Logged(row, entries, a, v, s) = entries
    BY <1>1 DEF LogIsWhole, Logged, Revises
  <2>3. QED BY <2>1, <2>2 DEF LogIsWhole, New
<1>2. CASE row # NoRow /\ ~Changed(row, a, v)
  <2>1. new = [row EXCEPT !.lastSlot = Later(@, s)] /\ new # NoRow
    BY <1>0, <1>2, UpsertedCases, UpsertedType
  <2>2. Logged(row, entries, a, v, s) = entries
    BY <1>2 DEF Logged, Revises
  <2>3. row \in Row
    BY <1>2
  <2>4. /\ new.account = row.account /\ new.version = row.version
        /\ new.revision = row.revision
        /\ new.lastSlot \in Slots /\ row.lastSlot <= new.lastSlot
    BY <2>1, <2>3 DEF Row, Later, Slots
  <2>5. n > 0 => Supersedes(entries[n], new.account, new.version, new.lastSlot)
    <3>1. n > 0 => entries[n] \in Superseded
      BY <1>0
    <3>2. n > 0 => Supersedes(entries[n], row.account, row.version, row.lastSlot)
      BY <1>2 DEF LogIsWhole
    <3>3. QED BY <2>3, <2>4, <3>1, <3>2 DEF Supersedes, Superseded, Row, Slots
  <2>6. QED BY <1>2, <2>1, <2>2, <2>4, <2>5 DEF LogIsWhole
<1>3. CASE Revises(row, a, v, s)
  <2> DEFINE entry == [account |-> row.account, version |-> row.version,
                       revision |-> row.revision, slot |-> s]
             longer == Append(entries, entry)
  <2>1. row # NoRow /\ row \in Row /\ Changed(row, a, v) /\ ~Stale(row, v, s)
    BY <1>3 DEF Revises
  <2>2. new = Revised(row, a, v, s) /\ new # NoRow
    BY <1>0, <1>3, UpsertedCases, UpsertedType
  <2>3. Logged(row, entries, a, v, s) = longer
    BY <1>3 DEF Logged
  <2>4. /\ entry \in Superseded
        /\ longer \in Seq(Superseded)
        /\ Len(longer) = n + 1
        /\ longer[n + 1] = entry
        /\ \A i \in 1..n : longer[i] = entries[i]
    BY <2>1 DEF Row, Superseded
  <2>5. new.revision = Len(longer) + 1
    BY <2>1, <2>2, <2>4 DEF LogIsWhole, Revised
  <2>6. \A i \in 1..n + 1 : longer[i].revision = i
    BY <1>0, <2>1, <2>4 DEF LogIsWhole
  <2>7. ASSUME NEW i \in 1..n
        PROVE  Supersedes(longer[i], longer[i+1].account, longer[i+1].version, longer[i+1].slot)
    <3>1. CASE i < n
      BY <1>0, <2>1, <2>4, <3>1 DEF LogIsWhole
    <3>2. CASE i = n
      <4>1. Supersedes(entries[n], row.account, row.version, row.lastSlot)
        BY <1>0, <2>1, <3>2 DEF LogIsWhole
      <4>2. entries[n] \in Superseded
        BY <3>2
      <4>3. row.lastSlot <= s
        BY <2>1 DEF Stale, Row, Slots
      <4>4. QED BY <2>1, <2>4, <3>2, <4>1, <4>2, <4>3 DEF Supersedes, Superseded, Row, Slots
    <3>3. QED BY <1>0, <3>1, <3>2
  <2>8. Supersedes(entry, new.account, new.version, new.lastSlot)
    <3>1. /\ new.account = a /\ new.version = v /\ new.lastSlot = s
          /\ entry.account = row.account /\ entry.version = row.version
          /\ entry.slot = s
      BY <2>2 DEF Revised
    <3>2. row.account # a \/ row.version # v
      BY <2>1 DEF Changed
    <3>3. SecondOf[row.version] <= SecondOf[v]
      BY <1>0, <2>1 DEF Stale, Row, Slots
    <3>4. QED BY <3>1, <3>2, <3>3 DEF Supersedes, Slots
  <2>9. QED BY <1>0, <2>2, <2>3, <2>4, <2>5, <2>6, <2>7, <2>8 DEF LogIsWhole
<1>4. CASE row # NoRow /\ Changed(row, a, v) /\ ~Revises(row, a, v, s)
  BY <1>4, UpsertedCases DEF Logged
<1>5. QED BY <1>1, <1>2, <1>3, <1>4 DEF Revises

\* The history of a key is extended by a record, in order.
LEMMA HistoryIsExtended ==
  ASSUME NEW row \in Row \cup {NoRow}, NEW entries \in Seq(Superseded),
         LogIsWhole(row, entries),
         NEW a \in Accounts, NEW v \in Slots, NEW s \in Slots
  PROVE  /\ Store!Extends(HistoryOf(row, entries),
                          HistoryOf(Upserted(row, a, v, s), Logged(row, entries, a, v, s)))
         /\ SlotOf(row) <= SlotOf(Upserted(row, a, v, s))
<1> DEFINE new == Upserted(row, a, v, s)
           longer == Logged(row, entries, a, v, s)
           n == Len(entries)
<1>0. /\ n \in Nat
      /\ new \in Row /\ new # NoRow
  BY NoRowIsNoRow, UpsertedType
<1>1. CASE row = NoRow
  BY <1>0, <1>1 DEF HistoryOf, Store!Extends, SlotOf, NoSlot, Row, Slots, LogIsWhole
<1>2. CASE row # NoRow /\ ~Revises(row, a, v, s)
  <2>1. longer = entries
    BY <1>2 DEF Logged
  <2>2. row \in Row
    BY <1>2
  <2>3. StateOf(new) = StateOf(row) /\ row.lastSlot <= new.lastSlot
    BY <1>2, <2>2, UpsertedCases DEF StateOf, Row, Later, Slots
  <2>4. QED BY <1>0, <1>2, <2>1, <2>3 DEF HistoryOf, Store!Extends, SlotOf
<1>3. CASE Revises(row, a, v, s)
  <2>1. row # NoRow /\ row \in Row /\ row.lastSlot <= new.lastSlot
    BY <1>3, UpsertedCases DEF Revises, Stale, Revised, Row, Slots
  <2>2. /\ Len(longer) = n + 1
        /\ StateOf(longer[n + 1]) = StateOf(row)
        /\ \A i \in 1..n : longer[i] = entries[i]
    BY <1>3, <2>1 DEF Logged, StateOf, Superseded, Row
  <2>3. QED BY <1>0, <2>1, <2>2 DEF HistoryOf, Store!Extends, SlotOf
<1>4. QED BY <1>1, <1>2, <1>3

\* The history of a whole log is in the chain's order.
LEMMA HistoryIsOrdered ==
  ASSUME NEW row \in Row \cup {NoRow}, NEW entries \in Seq(Superseded),
         LogIsWhole(row, entries)
  PROVE  Store!Ordered(HistoryOf(row, entries))
<1> DEFINE h == HistoryOf(row, entries)
           n == Len(entries)
<1>1. CASE row = NoRow
  BY <1>1 DEF HistoryOf, Store!Ordered
<1>2. CASE row # NoRow
  <2>1. n \in Nat /\ Len(h) = n + 1
    BY <1>2 DEF HistoryOf
  <2>2. ASSUME NEW i \in 1..n
        PROVE  h[i] # h[i+1] /\ SecondOfState(h[i]) <= SecondOfState(h[i+1])
    <3>1. h[i] = <<entries[i].account, entries[i].version>>
      BY <1>2, <2>1 DEF HistoryOf, StateOf
    <3>2. CASE i < n
      <4>1. h[i+1] = <<entries[i+1].account, entries[i+1].version>>
        BY <1>2, <2>1, <3>2 DEF HistoryOf, StateOf
      <4>2. Supersedes(entries[i], entries[i+1].account, entries[i+1].version, entries[i+1].slot)
        BY <1>2, <2>1, <3>2 DEF LogIsWhole
      <4>3. QED BY <3>1, <4>1, <4>2 DEF Supersedes, SecondOfState
    <3>3. CASE i = n
      <4>1. h[i+1] = <<row.account, row.version>>
        BY <1>2, <2>1, <3>3 DEF HistoryOf, StateOf
      <4>2. Supersedes(entries[i], row.account, row.version, row.lastSlot)
        BY <1>2, <2>1, <3>3 DEF LogIsWhole
      <4>3. QED BY <3>1, <4>1, <4>2 DEF Supersedes, SecondOfState
    <3>4. QED BY <2>1, <3>2, <3>3
  <2>3. QED BY <2>1, <2>2 DEF Store!Ordered
<1>3. QED BY <1>1, <1>2

\* Histories that extend one another make a chain.
LEMMA ExtendsIsTransitive ==
  ASSUME NEW f, NEW g, NEW h, Len(f) \in Nat, Len(g) \in Nat, Len(h) \in Nat,
         Store!Extends(f, g), Store!Extends(g, h)
  PROVE  Store!Extends(f, h)
BY DEF Store!Extends

(***************************************************************************)
(* The chain.                                                              *)
(***************************************************************************)

\* A slot is appended; the ones before it stay.
LEMMA ChainOnlyGrows ==
  ASSUME ChainTypeOK, ChainStep
  PROVE  /\ ChainTypeOK'
         /\ Len(chain') = Len(chain) + 1
         /\ \A s \in 1..Len(chain) : chain'[s] = chain[s]
<1>1. /\ Tip \in SlotState /\ NewSlot \in Slots /\ Len(chain) \in Nat
      /\ chain \in Seq(SlotState)
  BY DEF ChainTypeOK, ChainStep, Tip, Slots
<1>2. \E st \in SlotState : chain' = Append(chain, st)
  <2>1. ASSUME NEW a \in Accounts, Submit(a)
        PROVE  \E st \in SlotState : chain' = Append(chain, st)
    BY <1>1, <2>1 DEF Submit, SlotState
  <2>2. ASSUME NEW a \in Accounts, Close(a)
        PROVE  \E st \in SlotState : chain' = Append(chain, st)
    BY <1>1, <2>2 DEF Close, SlotState
  <2>3. CASE NextEpoch
    BY <1>1, <2>3 DEF NextEpoch, SlotState
  <2>4. CASE GatewayMoves
    BY <1>1, <2>4 DEF GatewayMoves, SlotState
  <2>5. ASSUME NEW e \in Epochs, Tally(e)
        PROVE  \E st \in SlotState : chain' = Append(chain, st)
    BY <1>1, <2>5 DEF Tally, SlotState
  <2>6. QED BY <2>1, <2>2, <2>3, <2>4, <2>5 DEF ChainStep
<1>3. PICK st \in SlotState : chain' = Append(chain, st)
  BY <1>2
<1>4. QED BY <1>1, <1>3 DEF ChainTypeOK, NewSlot

LEMMA ChainStarts == ChainInit => ChainTypeOK
<1> SUFFICES ASSUME ChainInit PROVE ChainTypeOK
  OBVIOUS
<1>1. 1 \in Slots
  BY MaxSlotIsPositive DEF Slots
<1>2. PICK e \in Epochs :
        chain = << [live     |-> e,
                    accounts |-> [a \in Accounts |-> IF a \in StartsWith THEN 1 ELSE Absent],
                    registry |-> 1,
                    tally    |-> [f \in Epochs |-> IF f \in StartsWith THEN 1 ELSE Absent]] >>
  BY DEF ChainInit
<1>3. PICK st \in SlotState : chain = <<st>>
  BY <1>1, <1>2 DEF SlotState
<1>4. QED BY <1>1, <1>3 DEF ChainTypeOK

\* What the reads of one slot return.
LEMMA ReadsAreOfTheChain ==
  ASSUME ChainTypeOK, NEW s \in 1..Len(chain)
  PROVE  /\ s \in Slots
         /\ Decoded(s) \subseteq Accounts
         /\ SizedRead(s) \subseteq Accounts
         /\ \A a \in SizedRead(s) : chain[s].accounts[a] \in Slots
         /\ chain[s].registry \in Slots
         /\ \A e \in EpochAccountsRead(s) : chain[s].tally[e] \in Slots
<1>1. chain[s] \in SlotState /\ s \in Slots
  BY MaxSlotIsPositive DEF ChainTypeOK, Slots
<1>2. QED BY <1>1 DEF Decoded, SizedRead, EpochAccountsRead, SlotState


(***************************************************************************)
(* Frames.                                                                 *)
(***************************************************************************)

\* A step that writes neither the chain nor the two tables, and at most rolls
\* the open transaction back, keeps what the invariant says of them.
LEMMA TablesUntouched ==
  ASSUME IInv, UNCHANGED <<chain, obs, log>>,
         \/ tx' = NoTx
         \/ tx' = tx /\ (tx # NoTx => cyc'[tx.owner].slot = cyc[tx.owner].slot)
  PROVE  TxIsSound' /\ RowIsChainAtLastSlot' /\ RevisionLogIsWhole'
<1>1. RowIsChainAtLastSlot'
  BY DEF IInv, RowIsChainAtLastSlot, RowIsOnChain
<1>2. RevisionLogIsWhole'
  BY DEF IInv, RevisionLogIsWhole
<1>3. TxIsSound'
  <2>1. CASE tx' = NoTx
    BY <2>1 DEF TxIsSound
  <2>2. CASE tx' = tx /\ (tx # NoTx => cyc'[tx.owner].slot = cyc[tx.owner].slot)
    BY <2>2 DEF IInv, TxIsSound, RowIsOnChain, RowIsExtended, Decoded, SizedRead
  <2>3. QED BY <2>1, <2>2
<1>4. QED BY <1>1, <1>2, <1>3

\* A step of daemon d leaves the other daemons' cycles alone.
LEMMA OthersAreSound ==
  ASSUME IInv, NEW d \in Daemons, UNCHANGED chain,
         \A o \in Daemons \ {d} :
           /\ pc'[o] = pc[o] /\ cyc'[o] = cyc[o] /\ resolving'[o] = resolving[o]
           /\ tx' # NoTx /\ tx'.owner = o <=> tx # NoTx /\ tx.owner = o,
         \A e \in Epochs : epochs[e] # NoRow => epochs'[e] # NoRow,
         CycleIsSound(d)'
  PROVE  \A o \in Daemons : CycleIsSound(o)'
<1> SUFFICES ASSUME NEW o \in Daemons, o # d PROVE CycleIsSound(o)'
  OBVIOUS
<1>1. CycleIsSound(o) /\ resolving[o] \subseteq Epochs
  BY DEF IInv, TypeOK
<1>2. QED BY <1>1 DEF CycleIsSound

\* The ways a cycle's locals are edited.
LEMMA CycleEdits ==
  ASSUME NEW c \in Cycle
  PROVE  /\ \A run \in 0..MaxRuns : [c EXCEPT !.run = run] \in Cycle
         /\ \A s \in Slots, stale \in BOOLEAN, need \in SUBSET Epochs :
              [c EXCEPT !.slot = s, !.stale = stale, !.need = need] \in Cycle
         /\ \A drift \in BOOLEAN, need \in SUBSET Epochs :
              [c EXCEPT !.drift = drift, !.need = need] \in Cycle
         /\ \A need \in SUBSET Epochs, got \in SUBSET Fetched :
              [c EXCEPT !.need = need, !.got = got] \in Cycle
         /\ \A need \in SUBSET Epochs : [c EXCEPT !.need = need] \in Cycle
         /\ \A t \in Slots \cup {NoSlot} : [c EXCEPT !.tally = t] \in Cycle
<1>1. ASSUME NEW run \in 0..MaxRuns PROVE [c EXCEPT !.run = run] \in Cycle
  BY DEF Cycle
<1>2. ASSUME NEW s \in Slots, NEW stale \in BOOLEAN, NEW need \in SUBSET Epochs
      PROVE  [c EXCEPT !.slot = s, !.stale = stale, !.need = need] \in Cycle
  BY DEF Cycle
<1>3. ASSUME NEW drift \in BOOLEAN, NEW need \in SUBSET Epochs
      PROVE  [c EXCEPT !.drift = drift, !.need = need] \in Cycle
  BY DEF Cycle
<1>4. ASSUME NEW need \in SUBSET Epochs, NEW got \in SUBSET Fetched
      PROVE  [c EXCEPT !.need = need, !.got = got] \in Cycle
  BY DEF Cycle
<1>5. ASSUME NEW need \in SUBSET Epochs PROVE [c EXCEPT !.need = need] \in Cycle
  BY DEF Cycle
<1>6. ASSUME NEW t \in Slots \cup {NoSlot} PROVE [c EXCEPT !.tally = t] \in Cycle
  BY DEF Cycle
<1>7. QED BY <1>1, <1>2, <1>3, <1>4, <1>5, <1>6

(***************************************************************************)
(* The process and the reads.                                              *)
(***************************************************************************)

LEMMA StartKeeps ==
  ASSUME IInv, NEW d \in Daemons, Start(d)
  PROVE  IInv'
<1>1. TypeOK'
  <2>1. runs' \in Seq(Run) /\ Len(runs') <= MaxRuns
    <3>1. ASSUME NEW n \in 1..Len(runs)
          PROVE  Prune(runs, n) \in Seq(Run) /\ Len(Prune(runs, n)) = Len(runs)
      <4>1. [OpenRun EXCEPT !.status = "pruned"] \in Run
        BY DEF OpenRun, Run, Statuses, NoSlot
      <4>2. runs \in Seq(Run)
        BY DEF IInv, TypeOK
      <4>3. Prune(runs, n) \in [1..Len(runs) -> Run]
        BY <4>1, <4>2 DEF Prune
      <4>4. QED BY <4>2, <4>3
    <3>2. QED BY <3>1 DEF Start, IInv, TypeOK
  <2>2. mem' \in [Daemons -> Memory]
    BY DEF Start, IInv, TypeOK, Memory, SustainedAfter
  <2>3. QED BY <2>1, <2>2 DEF Start, IInv, TypeOK, Phases, ChainTypeOK
<1>2. CycleIsSound(d)'
  BY DEF Start, IInv, TypeOK, CycleIsSound
<1>3. \A o \in Daemons : CycleIsSound(o)'
  BY <1>2, OthersAreSound DEF Start, IInv, TypeOK
<1>4. QED BY <1>1, <1>3, TablesUntouched DEF Start, IInv

LEMMA CrashKeeps ==
  ASSUME IInv, NEW d \in Daemons, Crash(d)
  PROVE  IInv'
<1>1. TypeOK'
  <2>1. NoCycle \in Cycle /\ Fresh \in Memory
    BY BoundsAreNat DEF NoCycle, Cycle, Fresh, Memory, NoRun, NoSlot, SustainedAfter
  <2>2. faults' \in 0..MaxFaults
    BY BoundsAreNat DEF Crash, Fault, Faults, IInv, TypeOK
  <2>3. QED BY <2>1, <2>2 DEF Crash, store, IInv, TypeOK, Phases, ChainTypeOK
<1>2. CycleIsSound(d)'
  BY DEF Crash, store, IInv, TypeOK, CycleIsSound, NoCycle, NoSlot, ChainTypeOK, Slots
<1>3. \A o \in Daemons : CycleIsSound(o)'
  BY <1>2, OthersAreSound DEF Crash, store, IInv, TypeOK, CycleIsSound
<1>4. \/ tx' = NoTx
      \/ tx' = tx /\ (tx # NoTx => cyc'[tx.owner].slot = cyc[tx.owner].slot)
  BY DEF Crash, IInv, TypeOK, CycleIsSound, Tx
<1>5. QED BY <1>1, <1>3, <1>4, TablesUntouched DEF Crash, store, IInv

LEMMA StartCycleKeeps ==
  ASSUME IInv, NEW d \in Daemons, StartCycle(d)
  PROVE  IInv'
<1>1. TypeOK'
  <2>1. CASE runs' = Append(runs, OpenRun) /\ Len(runs) < MaxRuns
             /\ cyc' = [cyc EXCEPT ![d] = [NoCycle EXCEPT !.run = Len(runs) + 1]]
    <3>1. OpenRun \in Run
      BY DEF OpenRun, Run, Statuses, NoSlot
    <3>2. [NoCycle EXCEPT !.run = Len(runs) + 1] \in Cycle
      <4>1. NoCycle \in Cycle /\ Len(runs) + 1 \in 0..MaxRuns
        BY <2>1, BoundsAreNat DEF IInv, TypeOK, NoCycle, Cycle, NoSlot, NoRun
      <4>2. QED BY <4>1 DEF Cycle
    <3>3. runs' \in Seq(Run) /\ Len(runs') <= MaxRuns
      BY <2>1, <3>1, BoundsAreNat DEF IInv, TypeOK
    <3>4. QED BY <2>1, <3>2, <3>3 DEF StartCycle, IInv, TypeOK, Phases, ChainTypeOK
  <2>2. CASE UNCHANGED <<runs, cyc>>
    BY <2>2 DEF StartCycle, IInv, TypeOK, Phases, ChainTypeOK
  <2>3. QED BY <2>1, <2>2 DEF StartCycle
<1>2. CycleIsSound(d)'
  <2>1. pc'[d] = "read" /\ (cyc'[d] = cyc[d] \/ cyc'[d] = [NoCycle EXCEPT !.run = Len(runs) + 1])
    BY DEF StartCycle, IInv, TypeOK
  <2>2. cyc'[d].slot \in 0..Len(chain) /\ cyc'[d].tally \in 0..Len(chain)
    <3>1. cyc[d].slot \in 0..Len(chain) /\ cyc[d].tally \in 0..Len(chain)
      BY DEF IInv, CycleIsSound
    <3>2. NoCycle.slot = 0 /\ NoCycle.tally = 0 /\ Len(chain) \in Nat
      BY DEF NoCycle, NoSlot, IInv, TypeOK, ChainTypeOK, Slots
    <3>3. [NoCycle EXCEPT !.run = Len(runs) + 1].slot = NoCycle.slot
          /\ [NoCycle EXCEPT !.run = Len(runs) + 1].tally = NoCycle.tally
      BY DEF NoCycle
    <3>4. CASE cyc'[d] = cyc[d]
      BY <3>1, <3>4
    <3>5. CASE cyc'[d] = [NoCycle EXCEPT !.run = Len(runs) + 1]
      BY <3>2, <3>3, <3>5
    <3>6. QED BY <2>1, <3>4, <3>5
  <2>3. QED BY <2>1, <2>2 DEF StartCycle, IInv, TypeOK, CycleIsSound
<1>3. \A o \in Daemons : CycleIsSound(o)'
  BY <1>2, OthersAreSound DEF StartCycle, IInv, TypeOK
<1>4. tx' = tx /\ (tx # NoTx => cyc'[tx.owner].slot = cyc[tx.owner].slot)
  BY DEF StartCycle, IInv, TypeOK, CycleIsSound, Tx
<1>5. QED BY <1>1, <1>3, <1>4, TablesUntouched DEF StartCycle, IInv

LEMMA ReadObservationsKeeps ==
  ASSUME IInv, NEW d \in Daemons, NEW s \in 1..Len(chain), ReadObservations(d, s)
  PROVE  IInv'
<1>1. TypeOK'
  <2>1. s \in Slots
    BY ReadsAreOfTheChain DEF IInv, TypeOK
  <2>2. PICK next \in {"canary", "registry"} :
          cyc' = [cyc EXCEPT ![d] = [@ EXCEPT
            !.slot = s,
            !.stale = s < mem[d].lastSlot,
            !.need = IF next = "registry" THEN {e \in Epochs : NeedsRegistry(s, e)}
                                          ELSE {}]]
    BY DEF ReadObservations
  <2> DEFINE stale == s < mem[d].lastSlot
             need == IF next = "registry" THEN {e \in Epochs : NeedsRegistry(s, e)}
                                          ELSE {}
             edited == [cyc[d] EXCEPT !.slot = s, !.stale = stale, !.need = need]
  <2>3. cyc' \in [Daemons -> Cycle]
    <3>1. cyc \in [Daemons -> Cycle] /\ cyc' = [cyc EXCEPT ![d] = edited]
      BY <2>2 DEF IInv, TypeOK
    <3>2. stale \in BOOLEAN /\ need \in SUBSET Epochs
      OBVIOUS
    <3> HIDE DEF stale, need
    <3>3. edited \in Cycle
      BY <2>1, <3>1, <3>2, CycleEdits
    <3> HIDE DEF edited
    <3>4. QED BY <3>1, <3>3
  <2>4. QED BY <2>3 DEF ReadObservations, store, IInv, TypeOK, Phases, ChainTypeOK
<1>2. CycleIsSound(d)'
  BY DEF ReadObservations, store, IInv, TypeOK, CycleIsSound, NoSlot, Cycle, ChainTypeOK
<1>3. \A o \in Daemons : CycleIsSound(o)'
  BY <1>2, OthersAreSound DEF ReadObservations, store, IInv, TypeOK
<1>4. tx' = tx /\ (tx # NoTx => cyc'[tx.owner].slot = cyc[tx.owner].slot)
  BY DEF ReadObservations, store, IInv, TypeOK, CycleIsSound, Tx
<1>5. QED BY <1>1, <1>3, <1>4, TablesUntouched DEF ReadObservations, store, IInv

LEMMA CanaryKeeps ==
  ASSUME IInv, NEW d \in Daemons, NEW t \in 1..Len(chain), Canary(d, t)
  PROVE  IInv'
<1>1. TypeOK'
  <2> DEFINE drift == Cardinality(AnySizeRead(t)) > Cardinality(SizedRead(cyc[d].slot))
             need == {e \in Epochs : NeedsRegistry(cyc[d].slot, e)}
             edited == [cyc[d] EXCEPT !.drift = drift, !.need = need]
  <2>2. cyc' \in [Daemons -> Cycle]
    <3>1. cyc \in [Daemons -> Cycle] /\ cyc' = [cyc EXCEPT ![d] = edited]
      BY DEF Canary, IInv, TypeOK
    <3>2. drift \in BOOLEAN /\ need \in SUBSET Epochs
      OBVIOUS
    <3> HIDE DEF drift, need
    <3>3. edited \in Cycle
      BY <3>1, <3>2, CycleEdits
    <3> HIDE DEF edited
    <3>4. QED BY <3>1, <3>3
  <2>3. QED BY <2>2 DEF Canary, store, IInv, TypeOK, Phases, ChainTypeOK
<1>2. CycleIsSound(d)'
  BY DEF Canary, store, IInv, TypeOK, CycleIsSound, NoSlot, Cycle, ChainTypeOK
<1>3. \A o \in Daemons : CycleIsSound(o)'
  BY <1>2, OthersAreSound DEF Canary, store, IInv, TypeOK
<1>4. tx' = tx /\ (tx # NoTx => cyc'[tx.owner].slot = cyc[tx.owner].slot)
  BY DEF Canary, store, IInv, TypeOK, CycleIsSound, Tx
<1>5. QED BY <1>1, <1>3, <1>4, TablesUntouched DEF Canary, store, IInv

LEMMA FetchRegistryKeeps ==
  ASSUME IInv, NEW d \in Daemons, NEW e \in Epochs, NEW t \in 1..Len(chain),
         FetchRegistry(d, e, t)
  PROVE  IInv'
<1>1. TypeOK'
  <2>1. SnapshotOf(cyc[d].slot, e, t) \in Snapshot
    BY ReadsAreOfTheChain DEF IInv, TypeOK, SnapshotOf, IsLive, Snapshot
  <2> DEFINE need == cyc[d].need \ {e}
             got == cyc[d].got \cup {[epoch |-> e, snapshot |-> SnapshotOf(cyc[d].slot, e, t)]}
             edited == [cyc[d] EXCEPT !.need = need, !.got = got]
  <2>3. cyc' \in [Daemons -> Cycle]
    <3>1. cyc \in [Daemons -> Cycle] /\ cyc' = [cyc EXCEPT ![d] = edited]
      BY DEF FetchRegistry, IInv, TypeOK
    <3>2. need \in SUBSET Epochs /\ got \in SUBSET Fetched
      BY <2>1, <3>1 DEF Fetched, Cycle
    <3> HIDE DEF need, got
    <3>3. edited \in Cycle
      BY <3>1, <3>2, CycleEdits
    <3> HIDE DEF edited
    <3>4. QED BY <3>1, <3>3
  <2>4. QED BY <2>3 DEF FetchRegistry, store, IInv, TypeOK, Phases, ChainTypeOK
<1>2. CycleIsSound(d)'
  BY DEF FetchRegistry, store, IInv, TypeOK, CycleIsSound, NoSlot, Cycle, ChainTypeOK
<1>3. \A o \in Daemons : CycleIsSound(o)'
  BY <1>2, OthersAreSound DEF FetchRegistry, store, IInv, TypeOK
<1>4. tx' = tx /\ (tx # NoTx => cyc'[tx.owner].slot = cyc[tx.owner].slot)
  BY DEF FetchRegistry, store, IInv, TypeOK, CycleIsSound, Tx
<1>5. QED BY <1>1, <1>3, <1>4, TablesUntouched DEF FetchRegistry, store, IInv

LEMMA FetchRegistryFailsKeeps ==
  ASSUME IInv, NEW d \in Daemons, NEW e \in Epochs, FetchRegistryFails(d, e)
  PROVE  IInv'
<1>1. TypeOK'
  <2>1. cyc' \in [Daemons -> Cycle]
    <3>1. cyc[d] \in Cycle /\ cyc[d].need \ {e} \in SUBSET Epochs
      BY DEF IInv, TypeOK, Cycle
    <3>2. [cyc[d] EXCEPT !.need = cyc[d].need \ {e}] \in Cycle
      BY <3>1, CycleEdits
    <3>3. QED BY <3>2 DEF FetchRegistryFails, IInv, TypeOK
  <2>2. faults' \in 0..MaxFaults
    BY BoundsAreNat DEF FetchRegistryFails, Fault, Faults, IInv, TypeOK
  <2>3. QED BY <2>1, <2>2 DEF FetchRegistryFails, store, IInv, TypeOK, Phases, ChainTypeOK
<1>2. CycleIsSound(d)'
  BY DEF FetchRegistryFails, store, IInv, TypeOK, CycleIsSound, NoSlot, Cycle, ChainTypeOK
<1>3. \A o \in Daemons : CycleIsSound(o)'
  BY <1>2, OthersAreSound DEF FetchRegistryFails, store, IInv, TypeOK
<1>4. tx' = tx /\ (tx # NoTx => cyc'[tx.owner].slot = cyc[tx.owner].slot)
  BY DEF FetchRegistryFails, store, IInv, TypeOK, CycleIsSound, Tx
<1>5. QED BY <1>1, <1>3, <1>4, TablesUntouched DEF FetchRegistryFails, store, IInv

\* A creator lookup takes off for an epoch of the table only.
LEMMA FetchEpochsKeeps ==
  ASSUME IInv, NEW d \in Daemons, NEW t \in 0..Len(chain), FetchEpochs(d, t)
  PROVE  IInv'
<1>0. t \in Slots \cup {NoSlot} /\ OldestUnattributed(epochs) \subseteq Epochs
  BY ReadsAreOfTheChain DEF IInv, TypeOK, NoSlot, OldestUnattributed
<1>1. TypeOK'
  <2>1. cyc' \in [Daemons -> Cycle]
    <3>1. [cyc[d] EXCEPT !.tally = t] \in Cycle
      BY <1>0, CycleEdits DEF IInv, TypeOK
    <3>2. QED BY <3>1 DEF FetchEpochs, IInv, TypeOK
  <2>2. resolving' \in [Daemons -> SUBSET Epochs]
    BY <1>0 DEF FetchEpochs, IInv, TypeOK
  <2>3. QED BY <2>1, <2>2 DEF FetchEpochs, store, IInv, TypeOK, Phases, ChainTypeOK
<1>2. CycleIsSound(d)'
  <2>1. /\ cyc'[d].slot = cyc[d].slot /\ cyc'[d].tally = t
        /\ pc[d] = "registry" /\ pc'[d] = "commit" /\ tx' = tx
        /\ resolving'[d] = resolving[d] \cup OldestUnattributed(epochs)
        /\ epochs' = epochs /\ chain' = chain
    BY DEF FetchEpochs, store, IInv, TypeOK, Cycle
  <2>2. \A e \in OldestUnattributed(epochs) : epochs[e] # NoRow
    BY DEF OldestUnattributed
  <2>3. QED BY <2>1, <2>2 DEF IInv, CycleIsSound
<1>3. \A o \in Daemons : CycleIsSound(o)'
  BY <1>2, OthersAreSound DEF FetchEpochs, store, IInv, TypeOK
<1>4. tx' = tx /\ (tx # NoTx => cyc'[tx.owner].slot = cyc[tx.owner].slot)
  BY DEF FetchEpochs, store, IInv, TypeOK, CycleIsSound, Tx
<1>5. QED BY <1>1, <1>3, <1>4, TablesUntouched DEF FetchEpochs, store, IInv

\* Closing a row keeps the table's length.
LEMMA FinishType ==
  ASSUME NEW rows \in Seq(Run), NEW id \in Nat, NEW row \in Run
  PROVE  Finish(rows, id, row) \in Seq(Run) /\ Len(Finish(rows, id, row)) = Len(rows)
<1>1. [rows EXCEPT ![id] = row] \in [1..Len(rows) -> Run]
  <2>1. rows \in [1..Len(rows) -> Run]
    OBVIOUS
  <2>2. QED BY <2>1
<1>2. [rows EXCEPT ![id] = row] \in Seq(Run) /\ Len([rows EXCEPT ![id] = row]) = Len(rows)
  BY <1>1
<1>3. QED BY <1>2 DEF Finish

LEMMA CycleFailsKeeps ==
  ASSUME IInv, NEW d \in Daemons, CycleFails(d)
  PROVE  IInv'
<1> DEFINE n == IF mem[d].failures < SustainedAfter THEN mem[d].failures + 1
                                                    ELSE SustainedAfter
           row == [status |-> "failed", slot |-> NoSlot,
                   error |-> IF n = SustainedAfter THEN "SUSTAINED" ELSE "failed"]
<1>0. NoCycle \in Cycle
  BY BoundsAreNat DEF NoCycle, Cycle, NoRun, NoSlot
<1>1. TypeOK'
  <2>1. mem' \in [Daemons -> Memory]
    <3>1. mem[d] \in Memory /\ n \in 0..SustainedAfter
      BY DEF IInv, TypeOK, Memory, SustainedAfter
    <3>2. mem' = [mem EXCEPT ![d] = [@ EXCEPT !.failures = n]]
      BY DEF CycleFails
    <3> HIDE DEF n
    <3>3. [mem[d] EXCEPT !.failures = n] \in Memory
      BY <3>1 DEF Memory
    <3>4. QED BY <3>2, <3>3 DEF IInv, TypeOK
  <2>2. runs' \in Seq(Run) /\ Len(runs') <= MaxRuns
    <3>1. runs' = runs \/ runs' = Finish(runs, cyc[d].run, row)
      BY DEF CycleFails
    <3>2. row \in Run
      BY DEF Run, Statuses, NoSlot, Anomalies
    <3> HIDE DEF row
    <3>3. QED BY <3>1, <3>2, FinishType DEF IInv, TypeOK, Cycle
  <2>3. faults' \in 0..MaxFaults
    BY BoundsAreNat DEF CycleFails, Fault, Faults, IInv, TypeOK
  <2>4. QED BY <1>0, <2>1, <2>2, <2>3 DEF CycleFails, IInv, TypeOK, Phases, ChainTypeOK
<1>2. CycleIsSound(d)'
  BY DEF CycleFails, IInv, TypeOK, CycleIsSound, NoCycle, NoSlot, ChainTypeOK, Slots
<1>3. \A o \in Daemons : CycleIsSound(o)'
  BY <1>2, OthersAreSound DEF CycleFails, store, IInv, TypeOK
<1>4. tx' = tx /\ (tx # NoTx => cyc'[tx.owner].slot = cyc[tx.owner].slot)
  BY DEF CycleFails, store, IInv, TypeOK, CycleIsSound, Tx
<1>5. QED BY <1>1, <1>3, <1>4, TablesUntouched DEF CycleFails, store, IInv

(***************************************************************************)
(* The transaction.                                                        *)
(***************************************************************************)

\* Every table extends itself.
LEMMA ExtendsItself ==
  ASSUME NEW h, Len(h) \in Nat
  PROVE  Store!Extends(h, h)
BY DEF Store!Extends

LEMMA HistoryHasLength ==
  ASSUME NEW row, NEW entries \in Seq(Superseded)
  PROVE  Len(HistoryOf(row, entries)) \in Nat
BY DEF HistoryOf

\* The working copy starts as the tables.
LEMMA BeginCommitKeeps ==
  ASSUME IInv, NEW d \in Daemons, BeginCommit(d)
  PROVE  IInv'
<1>0. /\ tx = NoTx /\ pc[d] = "commit" /\ cyc[d].slot \in 1..Len(chain)
      /\ tx' = [owner |-> d, obs |-> obs, log |-> log, todo |-> Decoded(cyc[d].slot)]
      /\ chain' = chain /\ obs' = obs /\ log' = log /\ cyc' = cyc /\ epochs' = epochs
      /\ resolving' = resolving /\ pc' = [pc EXCEPT ![d] = "upsert"]
  BY DEF BeginCommit, store, IInv, TypeOK, CycleIsSound, NoSlot, ChainTypeOK, Slots
<1>1. tx' \in Tx /\ tx' # NoTx
  <2>1. Decoded(cyc[d].slot) \subseteq Accounts
    BY <1>0, ReadsAreOfTheChain DEF IInv, TypeOK
  <2>2. tx' \in Tx
    BY <1>0, <2>1 DEF IInv, TypeOK, Tx
  <2>3. QED BY <2>2, NoTxIsNoTx
<1>2. TypeOK'
  BY <1>1 DEF BeginCommit, store, IInv, TypeOK, Phases, ChainTypeOK
<1>3. CycleIsSound(d)'
  BY <1>0, <1>1 DEF IInv, TypeOK, CycleIsSound, ChainTypeOK
<1>4. \A o \in Daemons : CycleIsSound(o)'
  <2>1. \A o \in Daemons \ {d} :
          /\ pc'[o] = pc[o] /\ cyc'[o] = cyc[o] /\ resolving'[o] = resolving[o]
          /\ tx' # NoTx /\ tx'.owner = o <=> tx # NoTx /\ tx.owner = o
    BY <1>0, <1>1 DEF IInv, TypeOK
  <2>2. QED BY <1>0, <1>3, <2>1, OthersAreSound
<1>5. RowIsChainAtLastSlot' /\ RevisionLogIsWhole'
  BY <1>0 DEF IInv, RowIsChainAtLastSlot, RowIsOnChain, RevisionLogIsWhole
<1>6. TxIsSound'
  <2>1. tx'.owner = d /\ tx'.obs = obs /\ tx'.log = log /\ tx'.todo = Decoded(cyc[d].slot)
    BY <1>0
  <2>2. (tx.todo \subseteq Decoded(cyc[tx.owner].slot))'
    BY <1>0, <2>1 DEF Decoded, SizedRead
  <2>3. ASSUME NEW k \in Keys
        PROVE  /\ tx'.obs[k] # NoRow => RowIsOnChain(k, tx.obs[k])'
               /\ LogIsWhole(tx'.obs[k], tx'.log[k])
               /\ RowIsExtended(k)'
    <3>1. tx'.obs[k] # NoRow => RowIsOnChain(k, tx.obs[k])'
      BY <1>0, <2>1 DEF IInv, RowIsChainAtLastSlot, RowIsOnChain
    <3>2. LogIsWhole(tx'.obs[k], tx'.log[k])
      BY <2>1 DEF IInv, RevisionLogIsWhole
    <3>3. obs[k] \in Row \cup {NoRow} /\ log[k] \in Seq(Superseded)
      BY DEF IInv, TypeOK
    <3>4. Store!Extends(HistoryOf(obs[k], log[k]), HistoryOf(obs[k], log[k]))
      BY <3>3, HistoryHasLength, ExtendsItself
    <3>5. SlotOf(obs[k]) <= SlotOf(obs[k])
      BY <3>3 DEF SlotOf, NoSlot, Row, Slots
    <3>6. QED BY <1>0, <2>1, <3>1, <3>2, <3>4, <3>5 DEF RowIsExtended
  <2>4. QED BY <1>1, <2>2, <2>3 DEF TxIsSound, LogIsWhole, Supersedes
<1>7. QED BY <1>2, <1>4, <1>5, <1>6 DEF IInv

\* One record: the row and the log of its key move on, the rest stay.
LEMMA UpsertObservationKeeps ==
  ASSUME IInv, NEW d \in Daemons, NEW a \in Accounts, UpsertObservation(d, a)
  PROVE  IInv'
<1> DEFINE k == KeyOf[a]
           s == cyc[d].slot
           v == chain[s].accounts[a]
           row == Upserted(tx.obs[k], a, v, s)
           entries == Logged(tx.obs[k], tx.log[k], a, v, s)
<1>0. /\ pc[d] = "upsert" /\ tx # NoTx /\ tx.owner = d /\ tx \in Tx
      /\ s \in 1..Len(chain) /\ a \in tx.todo /\ a \in Decoded(s) /\ k \in Keys
      /\ ChainTypeOK
  BY KeyOfType DEF UpsertObservation, IInv, TypeOK, CycleIsSound, TxIsSound, NoSlot, ChainTypeOK, Slots
<1>1. /\ s \in Slots /\ v \in Slots
      /\ tx.obs[k] \in Row \cup {NoRow} /\ tx.log[k] \in Seq(Superseded)
      /\ tx.obs[k] # NoRow => RowIsOnChain(k, tx.obs[k])
      /\ LogIsWhole(tx.obs[k], tx.log[k])
      /\ RowIsExtended(k)
  BY <1>0, ReadsAreOfTheChain DEF IInv, TxIsSound, Tx, Decoded
<1>2. /\ tx' = [tx EXCEPT !.obs = [tx.obs EXCEPT ![k] = row],
                         !.log = [tx.log EXCEPT ![k] = entries],
                         !.todo = tx.todo \ {a}]
      /\ UNCHANGED <<chain, store, procs>>
  BY DEF UpsertObservation
<1>3. row \in Row /\ entries \in Seq(Superseded)
  BY <1>1, UpsertedType
<1>4. RowIsOnChain(k, row)
  BY <1>0, <1>1, UpsertedIsOnChain
<1>5. LogIsWhole(row, entries)
  BY <1>1, LogStaysWhole
<1>6. /\ Store!Extends(HistoryOf(obs[k], log[k]), HistoryOf(row, entries))
      /\ SlotOf(obs[k]) <= SlotOf(row)
  <2>1. /\ Store!Extends(HistoryOf(tx.obs[k], tx.log[k]), HistoryOf(row, entries))
        /\ SlotOf(tx.obs[k]) <= SlotOf(row)
    BY <1>1, HistoryIsExtended
  <2> HIDE DEF row, entries
  <2>2. /\ obs[k] \in Row \cup {NoRow} /\ log[k] \in Seq(Superseded)
        /\ SlotOf(obs[k]) \in Nat /\ SlotOf(tx.obs[k]) \in Nat /\ SlotOf(row) \in Nat
    <3>1. \A x \in Row \cup {NoRow} : SlotOf(x) \in Nat
      BY DEF SlotOf, NoSlot, Row, Slots
    <3>2. obs[k] \in Row \cup {NoRow} /\ log[k] \in Seq(Superseded)
      BY <1>0 DEF IInv, TypeOK
    <3>3. QED BY <1>1, <1>3, <3>1, <3>2
  <2>3. Store!Extends(HistoryOf(obs[k], log[k]), HistoryOf(row, entries))
    BY <1>1, <1>3, <2>1, <2>2, HistoryHasLength, ExtendsIsTransitive DEF RowIsExtended
  <2>4. QED BY <1>1, <2>1, <2>2, <2>3 DEF RowIsExtended
<1> HIDE DEF row, entries, v
<1>7. /\ tx' \in Tx /\ tx' # NoTx /\ tx'.owner = d /\ tx'.todo \subseteq tx.todo
      /\ tx'.obs = [tx.obs EXCEPT ![k] = row] /\ tx'.log = [tx.log EXCEPT ![k] = entries]
  <2>1. tx' \in Tx
    BY <1>0, <1>2, <1>3 DEF Tx
  <2>2. QED BY <1>0, <1>2, <2>1, NoTxIsNoTx DEF Tx
<1>8. TypeOK'
  BY <1>2, <1>7 DEF store, procs, IInv, TypeOK, ChainTypeOK
<1>9. \A o \in Daemons : CycleIsSound(o)'
  BY <1>0, <1>2, <1>7 DEF store, procs, IInv, CycleIsSound
<1>10. RowIsChainAtLastSlot' /\ RevisionLogIsWhole'
  BY <1>2 DEF store, IInv, RowIsChainAtLastSlot, RowIsOnChain, RevisionLogIsWhole
<1>11. TxIsSound'
  <2>1. (tx.todo \subseteq Decoded(cyc[tx.owner].slot))'
    BY <1>0, <1>2, <1>7 DEF procs, IInv, TxIsSound, Decoded, SizedRead
  <2>2. ASSUME NEW j \in Keys
        PROVE  (/\ tx.obs[j] # NoRow => RowIsOnChain(j, tx.obs[j])
                /\ LogIsWhole(tx.obs[j], tx.log[j])
                /\ RowIsExtended(j))'
    <3>1. tx.obs \in [Keys -> Row \cup {NoRow}] /\ tx.log \in [Keys -> Seq(Superseded)]
      BY <1>0 DEF Tx
    <3>2. CASE j = k
      BY <1>2, <1>4, <1>5, <1>6, <1>7, <3>1, <3>2
         DEF store, RowIsOnChain, RowIsExtended
    <3>3. CASE j # k
      <4>1. tx'.obs[j] = tx.obs[j] /\ tx'.log[j] = tx.log[j]
        BY <1>7, <3>1, <3>3
      <4>2. QED BY <1>0, <1>2, <4>1
            DEF store, IInv, TxIsSound, RowIsOnChain, RowIsExtended
    <3>4. QED BY <3>2, <3>3
  <2>3. QED BY <2>1, <2>2 DEF TxIsSound
<1>12. QED BY <1>8, <1>9, <1>10, <1>11 DEF IInv

\* What a cycle leaves behind.
LEMMA CycleEndsType ==
  ASSUME IInv, NEW d \in Daemons, NEW n \in {0, 1}, CycleEnds(d, n)
  PROVE  /\ pc' \in [Daemons -> Phases] /\ cyc' \in [Daemons -> Cycle]
         /\ mem' \in [Daemons -> Memory] /\ ChainTypeOK' /\ resolving' = resolving
<1>1. NoCycle \in Cycle
  BY BoundsAreNat DEF NoCycle, Cycle, NoRun, NoSlot
<1>2. [lastSlot |-> IF cyc[d].stale THEN mem[d].lastSlot ELSE cyc[d].slot, failures |-> n]
        \in Memory
  BY DEF IInv, TypeOK, Cycle, Memory, SustainedAfter
<1>3. QED BY <1>1, <1>2 DEF CycleEnds, IInv, TypeOK, Phases, ChainTypeOK

LEMMA ClosedRunType ==
  ASSUME NEW c \in Cycle
  PROVE  ClosedRun(c) \in Run
<1>1. \E status \in Statuses, error \in Anomalies \cup {"none"} : Verdict(c) = <<status, error>>
  BY DEF Verdict, Statuses, Anomalies
<1>2. PICK status \in Statuses, error \in Anomalies \cup {"none"} : Verdict(c) = <<status, error>>
  BY <1>1
<1>3. c.slot \in Slots \cup {NoSlot}
  BY DEF Cycle
<1>4. QED BY <1>2, <1>3 DEF ClosedRun, Run

\* COMMIT makes the working copy the tables.
LEMMA CommitKeeps ==
  ASSUME IInv, NEW d \in Daemons, Commit(d)
  PROVE  IInv'
<1> DEFINE c == cyc[d]
           EpochsSeen == IF c.tally = NoSlot THEN {} ELSE EpochAccountsRead(c.tally)
<1>0. /\ tx # NoTx /\ tx \in Tx /\ pc[d] = "upsert" /\ tx.owner = d
      /\ c \in Cycle /\ c.slot \in 1..Len(chain) /\ c.tally \in 0..Len(chain) /\ ChainTypeOK
      /\ obs' = tx.obs /\ log' = tx.log /\ tx' = NoTx /\ chain' = chain
  BY DEF Commit, CycleEnds, IInv, TypeOK, CycleIsSound, NoSlot, ChainTypeOK, Slots
<1>a. ASSUME NEW e \in EpochsSeen
      PROVE  EpochUpserted(epochs[e], chain[c.tally].tally[e], c.slot) \in EpochRow
  <2>1. e \in Epochs /\ c.tally \in 1..Len(chain)
    BY <1>0 DEF EpochAccountsRead, NoSlot
  <2>2. chain[c.tally].tally[e] \in Slots /\ c.slot \in Slots
    BY <1>0, <1>a, <2>1, ReadsAreOfTheChain DEF NoSlot
  <2>3. epochs[e] \in EpochRow \cup {NoRow}
    BY <2>1 DEF IInv, TypeOK
  <2>4. QED BY <2>2, <2>3 DEF EpochUpserted, NewEpoch, EpochRow
<1>1. TypeOK'
  <2>1. obs' \in [Keys -> Row \cup {NoRow}] /\ log' \in [Keys -> Seq(Superseded)]
    BY <1>0 DEF Tx
  <2>2. parked' \subseteq Accounts \X Slots
    <3>1. {<<a, chain[c.slot].accounts[a]>> : a \in Unparsed(c.slot)} \subseteq Accounts \X Slots
      BY <1>0, ReadsAreOfTheChain DEF Unparsed
    <3>2. QED BY <3>1 DEF Commit, IInv, TypeOK
  <2>3. snapshots' \in [Epochs -> Snapshot \cup {NoRow}]
    <3>1. ASSUME NEW e \in Epochs, \E g \in c.got : g.epoch = e
          PROVE  (CHOOSE g \in c.got : g.epoch = e).snapshot \in Snapshot
      BY <1>0, <3>1 DEF Cycle, Fetched
    <3>2. QED BY <3>1 DEF Commit, IInv, TypeOK
  <2>4. epochs' \in [Epochs -> EpochRow \cup {NoRow}]
    <3>1. epochs' = [e \in Epochs |->
              IF e \in EpochsSeen
              THEN EpochUpserted(epochs[e], chain[c.tally].tally[e], c.slot)
              ELSE epochs[e]]
      BY DEF Commit
    <3> HIDE DEF EpochsSeen
    <3>2. QED BY <1>a, <3>1 DEF IInv, TypeOK
  <2>5. runs' \in Seq(Run) /\ Len(runs') <= MaxRuns
    <3>1. runs' = Finish(runs, c.run, ClosedRun(c))
      BY DEF Commit
    <3>2. c.run \in Nat /\ ClosedRun(c) \in Run
      BY <1>0, ClosedRunType DEF Cycle
    <3> HIDE DEF c
    <3>3. QED BY <3>1, <3>2, FinishType DEF IInv, TypeOK
  <2>6. CycleEnds(d, 0) /\ faults' = faults
    BY DEF Commit
  <2>7. QED BY <1>0, <2>1, <2>2, <2>3, <2>4, <2>5, <2>6, CycleEndsType DEF IInv, TypeOK
<1>2. \A e \in Epochs : epochs[e] # NoRow => epochs'[e] # NoRow
  BY <1>a, NoRowIsNoRow DEF Commit
<1>3. CycleIsSound(d)'
  BY <1>0, <1>2 DEF Commit, CycleEnds, IInv, TypeOK, CycleIsSound, NoCycle, NoSlot, ChainTypeOK, Slots
<1>4. \A o \in Daemons : CycleIsSound(o)'
  BY <1>0, <1>2, <1>3, OthersAreSound DEF Commit, CycleEnds, IInv, TypeOK
<1>5. RowIsChainAtLastSlot' /\ RevisionLogIsWhole'
  BY <1>0 DEF IInv, TxIsSound, RowIsChainAtLastSlot, RowIsOnChain, RevisionLogIsWhole
<1>6. TxIsSound'
  BY <1>0 DEF TxIsSound
<1>7. QED BY <1>1, <1>4, <1>5, <1>6 DEF IInv

LEMMA CommitFailsKeeps ==
  ASSUME IInv, NEW d \in Daemons, CommitFails(d)
  PROVE  IInv'
<1>0. CycleEnds(d, 1) /\ UNCHANGED store /\ Fault
  BY DEF CommitFails
<1>1. TypeOK'
  <2>1. faults' \in 0..MaxFaults
    BY <1>0, BoundsAreNat DEF Fault, Faults, IInv, TypeOK
  <2>2. tx' \in Tx \cup {NoTx}
    BY DEF CommitFails, IInv, TypeOK
  <2>3. QED BY <1>0, <2>1, <2>2, CycleEndsType DEF store, IInv, TypeOK
<1>2. CycleIsSound(d)'
  BY <1>0 DEF CommitFails, CycleEnds, store, IInv, TypeOK, CycleIsSound, NoCycle, NoSlot, ChainTypeOK, Slots
<1>3. \A o \in Daemons : CycleIsSound(o)'
  BY <1>0, <1>2, OthersAreSound DEF CommitFails, CycleEnds, store, IInv, TypeOK, CycleIsSound
<1>4. \/ tx' = NoTx
      \/ tx' = tx /\ (tx # NoTx => cyc'[tx.owner].slot = cyc[tx.owner].slot)
  BY <1>0 DEF CommitFails, CycleEnds, IInv, TypeOK, CycleIsSound, Tx
<1>5. QED BY <1>0, <1>1, <1>3, <1>4, TablesUntouched DEF CycleEnds, store, IInv

(***************************************************************************)
(* The detached lookups and the chain.                                     *)
(***************************************************************************)

LEMMA SetEpochCreatorKeeps ==
  ASSUME IInv, NEW d \in Daemons, NEW e \in Epochs, SetEpochCreator(d, e)
  PROVE  IInv'
<1>0. epochs[e] \in EpochRow
  BY DEF SetEpochCreator, IInv, TypeOK, CycleIsSound
<1>a. [epochs[e] EXCEPT !.creator = TRUE] \in EpochRow
  BY <1>0 DEF EpochRow
<1>b. epochs' \in [Epochs -> EpochRow \cup {NoRow}]
      /\ \A f \in Epochs : epochs[f] # NoRow => epochs'[f] # NoRow
  BY <1>a, NoRowIsNoRow DEF SetEpochCreator, IInv, TypeOK
<1>1. TypeOK'
  BY <1>b DEF SetEpochCreator, IInv, TypeOK, Phases, ChainTypeOK
<1>2. CycleIsSound(d)'
  BY <1>b DEF SetEpochCreator, IInv, TypeOK, CycleIsSound
<1>3. \A o \in Daemons : CycleIsSound(o)'
  BY <1>b, <1>2, OthersAreSound DEF SetEpochCreator, IInv, TypeOK
<1>4. tx' = tx /\ (tx # NoTx => cyc'[tx.owner].slot = cyc[tx.owner].slot)
  BY DEF SetEpochCreator
<1>5. QED BY <1>1, <1>3, <1>4, TablesUntouched DEF SetEpochCreator, IInv

LEMMA LookupFailsKeeps ==
  ASSUME IInv, NEW d \in Daemons, NEW e \in Epochs, LookupFails(d, e)
  PROVE  IInv'
<1>1. TypeOK'
  <2>1. faults' \in 0..MaxFaults
    BY BoundsAreNat DEF LookupFails, Fault, Faults, IInv, TypeOK
  <2>2. QED BY <2>1 DEF LookupFails, store, IInv, TypeOK, Phases, ChainTypeOK
<1>2. CycleIsSound(d)'
  BY DEF LookupFails, store, IInv, TypeOK, CycleIsSound
<1>3. \A o \in Daemons : CycleIsSound(o)'
  BY <1>2, OthersAreSound DEF LookupFails, store, IInv, TypeOK
<1>4. tx' = tx /\ (tx # NoTx => cyc'[tx.owner].slot = cyc[tx.owner].slot)
  BY DEF LookupFails, store, IInv, TypeOK, CycleIsSound, Tx
<1>5. QED BY <1>1, <1>3, <1>4, TablesUntouched DEF LookupFails, store, IInv

\* The chain moves: what was read of it stays true.
LEMMA ChainMovedKeeps ==
  ASSUME IInv, ChainMoved
  PROVE  IInv'
<1>0. /\ ChainTypeOK' /\ Len(chain') = Len(chain) + 1 /\ Len(chain) \in Nat
      /\ \A s \in 1..Len(chain) : chain'[s] = chain[s]
      /\ UNCHANGED <<store, tx, procs>>
  BY ChainOnlyGrows DEF ChainMoved, IInv, TypeOK, ChainTypeOK, Slots
<1>1. TypeOK'
  BY <1>0 DEF store, procs, IInv, TypeOK
<1>2. \A d \in Daemons : CycleIsSound(d)'
  BY <1>0 DEF store, procs, IInv, CycleIsSound
<1>3. ASSUME NEW k \in Keys, NEW row \in Row, RowIsOnChain(k, row)
      PROVE  /\ KeyOf[row.account] = k
             /\ row.firstSlot <= row.lastSlot
             /\ row.lastSlot <= Len(chain')
             /\ row.version = chain'[row.lastSlot].accounts[row.account]
  BY <1>0, <1>3 DEF RowIsOnChain, Row, Slots
<1>4. RowIsChainAtLastSlot'
  <2>1. ASSUME NEW k \in Keys, obs[k] # NoRow PROVE RowIsOnChain(k, obs[k])'
    <3>1. obs[k] \in Row /\ RowIsOnChain(k, obs[k]) /\ obs' = obs
      BY <1>0, <2>1 DEF store, IInv, TypeOK, RowIsChainAtLastSlot
    <3>2. QED BY <1>3, <3>1 DEF RowIsOnChain
  <2>2. QED BY <1>0, <2>1 DEF store, RowIsChainAtLastSlot
<1>5. RevisionLogIsWhole'
  BY <1>0 DEF store, IInv, RevisionLogIsWhole
<1>6. TxIsSound'
  <2>1. CASE tx = NoTx
    BY <1>0, <2>1 DEF TxIsSound
  <2>2. CASE tx # NoTx
    <3>1. tx \in Tx /\ cyc[tx.owner].slot \in 1..Len(chain)
      BY <1>0, <2>2 DEF IInv, TypeOK, CycleIsSound, Tx, NoSlot
    <3>2. Decoded(cyc[tx.owner].slot)' = Decoded(cyc[tx.owner].slot)
      BY <1>0, <3>1 DEF procs, Decoded, SizedRead
    <3>3. ASSUME NEW k \in Keys, tx.obs[k] # NoRow PROVE RowIsOnChain(k, tx.obs[k])'
      <4>1. tx.obs[k] \in Row /\ RowIsOnChain(k, tx.obs[k]) /\ tx' = tx
        BY <1>0, <2>2, <3>1, <3>3 DEF IInv, TxIsSound, Tx
      <4>2. QED BY <1>3, <4>1 DEF RowIsOnChain
    <3>4. QED BY <1>0, <2>2, <3>2, <3>3 DEF store, procs, IInv, TxIsSound, RowIsExtended
  <2>3. QED BY <2>1, <2>2
<1>7. QED BY <1>1, <1>2, <1>4, <1>5, <1>6 DEF IInv

(***************************************************************************)
(* The invariant.                                                          *)
(***************************************************************************)

LEMMA InitIInv == Init => IInv
<1> SUFFICES ASSUME Init PROVE IInv
  OBVIOUS
<1>1. ChainTypeOK /\ Len(chain) \in Nat
  BY ChainStarts DEF Init, ChainTypeOK, Slots
<1>2. TypeOK
  <2>1. NoCycle \in Cycle /\ Fresh \in Memory
    BY BoundsAreNat DEF NoCycle, Cycle, Fresh, Memory, NoRun, NoSlot, SustainedAfter
  <2>2. runs \in Seq(Run) /\ Len(runs) <= MaxRuns /\ faults \in 0..MaxFaults
    BY BoundsAreNat DEF Init
  <2>3. QED BY <1>1, <2>1, <2>2 DEF Init, TypeOK, Phases
<1>3. \A d \in Daemons : CycleIsSound(d)
  BY <1>1 DEF Init, CycleIsSound, NoCycle, NoSlot
<1>4. TxIsSound /\ RowIsChainAtLastSlot /\ RevisionLogIsWhole
  BY DEF Init, TxIsSound, RowIsChainAtLastSlot, RevisionLogIsWhole, LogIsWhole
<1>5. QED BY <1>2, <1>3, <1>4 DEF IInv

LEMMA NextIInv == IInv /\ [Next]_vars => IInv'
<1> SUFFICES ASSUME IInv, [Next]_vars PROVE IInv'
  OBVIOUS
<1>1. CASE ChainMoved
  BY <1>1, ChainMovedKeeps
<1>2. ASSUME NEW d \in Daemons, DaemonStep(d) PROVE IInv'
  <2>1. CASE Start(d)
    BY <2>1, StartKeeps
  <2>2. CASE Crash(d)
    BY <2>2, CrashKeeps
  <2>3. CASE StartCycle(d)
    BY <2>3, StartCycleKeeps
  <2>4. ASSUME NEW s \in 1..Len(chain), ReadObservations(d, s) PROVE IInv'
    BY <2>4, ReadObservationsKeeps
  <2>5. ASSUME NEW t \in 1..Len(chain), Canary(d, t) PROVE IInv'
    BY <2>5, CanaryKeeps
  <2>6. ASSUME NEW e \in Epochs, NEW t \in 1..Len(chain), FetchRegistry(d, e, t) PROVE IInv'
    BY <2>6, FetchRegistryKeeps
  <2>7. ASSUME NEW e \in Epochs, FetchRegistryFails(d, e) PROVE IInv'
    BY <2>7, FetchRegistryFailsKeeps
  <2>8. ASSUME NEW t \in 0..Len(chain), FetchEpochs(d, t) PROVE IInv'
    BY <2>8, FetchEpochsKeeps
  <2>9. CASE CycleFails(d)
    BY <2>9, CycleFailsKeeps
  <2>10. CASE BeginCommit(d)
    BY <2>10, BeginCommitKeeps
  <2>11. ASSUME NEW a \in Accounts, UpsertObservation(d, a) PROVE IInv'
    BY <2>11, UpsertObservationKeeps
  <2>12. CASE Commit(d)
    BY <2>12, CommitKeeps
  <2>13. CASE CommitFails(d)
    BY <2>13, CommitFailsKeeps
  <2>14. ASSUME NEW e \in Epochs, SetEpochCreator(d, e) PROVE IInv'
    BY <2>14, SetEpochCreatorKeeps
  <2>15. ASSUME NEW e \in Epochs, LookupFails(d, e) PROVE IInv'
    BY <2>15, LookupFailsKeeps
  <2>16. QED BY <1>2, <2>1, <2>2, <2>3, <2>4, <2>5, <2>6, <2>7, <2>8, <2>9, <2>10,
                <2>11, <2>12, <2>13, <2>14, <2>15 DEF DaemonStep
<1>3. CASE UNCHANGED vars
  <2>1. UNCHANGED <<chain, store, tx, procs>>
    BY <1>3 DEF vars
  <2>2. TypeOK'
    BY <2>1 DEF store, procs, IInv, TypeOK, ChainTypeOK
  <2>3. \A d \in Daemons : CycleIsSound(d)'
    BY <2>1 DEF store, procs, IInv, CycleIsSound
  <2>4. QED BY <2>1, <2>2, <2>3, TablesUntouched DEF store, procs, IInv
<1>4. QED BY <1>1, <1>2, <1>3 DEF Next

\* In every reachable state, of any instance, the invariant holds: whatever the
\* replicas answer, whichever writes fail and wherever a daemon dies.
THEOREM Invariance == Spec => []IInv
BY InitIInv, NextIInv, PTL DEF Spec

\* The tables, the transaction and the locals of the daemons have their types.
THEOREM TypeCorrect == Spec => []TypeOK
<1>1. IInv => TypeOK
  BY DEF IInv
<1>2. QED BY <1>1, Invariance, PTL

\* No path of upsertObservation stores or confirms contents that the chain did
\* not hold for that account at the slot the row carries.
THEOREM RowsAreOfTheChain == Spec => []RowIsChainAtLastSlot
<1>1. IInv => RowIsChainAtLastSlot
  BY DEF IInv
<1>2. QED BY <1>1, Invariance, PTL

\* observation_revisions has every superseded state of a row, once, in order.
THEOREM RevisionsAreWhole == Spec => []RevisionLogIsWhole
<1>1. IInv => RevisionLogIsWhole
  BY DEF IInv
<1>2. QED BY <1>1, Invariance, PTL

(***************************************************************************)
(* The refinement.                                                         *)
(***************************************************************************)

\* Only a COMMIT writes the two tables.
LEMMA OnlyCommitWrites ==
  ASSUME [Next]_vars
  PROVE  UNCHANGED <<obs, log>> \/ \E d \in Daemons : Commit(d)
<1>1. CASE UNCHANGED vars
  BY <1>1 DEF vars, store
<1>2. CASE ChainMoved
  BY <1>2 DEF ChainMoved, store
<1>3. ASSUME NEW d \in Daemons, DaemonStep(d), ~Commit(d)
      PROVE  UNCHANGED <<obs, log>>
  BY <1>3 DEF DaemonStep, Start, Crash, StartCycle, ReadObservations, Canary, FetchRegistry,
              FetchRegistryFails, FetchEpochs, CycleFails, BeginCommit, UpsertObservation,
              CommitFails, SetEpochCreator, LookupFails, store
<1>4. QED BY <1>1, <1>2, <1>3 DEF Next

\* A COMMIT advances every key, in order; any other step stutters.
LEMMA StepRefines ==
  ASSUME IInv, IInv', [Next]_vars
  PROVE  [Store!Next]_<<[k \in Keys |-> HistoryOf(obs[k], log[k])], [k \in Keys |-> SlotOf(obs[k])]>>
<1>1. CASE UNCHANGED <<obs, log>>
  BY <1>1
<1>2. ASSUME NEW d \in Daemons, Commit(d) PROVE Store!Next
  <2>1. tx # NoTx /\ obs' = tx.obs /\ log' = tx.log
    BY <1>2 DEF Commit, IInv, CycleIsSound
  <2>2. ASSUME NEW k \in Keys
        PROVE  /\ Store!Extends(HistoryOf(obs[k], log[k]), HistoryOf(obs'[k], log'[k]))
               /\ Store!Ordered(HistoryOf(obs'[k], log'[k]))
               /\ SlotOf(obs[k]) <= SlotOf(obs'[k])
    <3>1. RowIsExtended(k)
      BY <2>1 DEF IInv, TxIsSound
    <3>2. /\ obs'[k] \in Row \cup {NoRow} /\ log'[k] \in Seq(Superseded)
          /\ LogIsWhole(obs'[k], log'[k])
      BY DEF IInv, TypeOK, RevisionLogIsWhole
    <3>3. Store!Ordered(HistoryOf(obs'[k], log'[k]))
      BY <3>2, HistoryIsOrdered
    <3>4. QED BY <2>1, <3>1, <3>3 DEF RowIsExtended
  <2>3. ASSUME NEW k \in Keys PROVE Store!Advance(k)
    <3>1. SlotOf(obs[k]) \in Nat /\ SlotOf(obs'[k]) \in Nat
      BY DEF IInv, TypeOK, SlotOf, NoSlot, Row, Slots
    <3>2. QED BY <2>2, <3>1 DEF Store!Advance
  <2>4. QED BY <2>3 DEF Store!Next
<1>3. QED BY <1>1, <1>2, OnlyCommitWrites

LEMMA InitRefines == Init => Store!Init
BY DEF Init, Store!Init, HistoryOf, SlotOf, NoSlot

\* The daemons implement the append-only history: for every key the states ever
\* stored only grow, in the chain's order, and the confirmed slot never goes back.
THEOREM CaptureKeepsHistory == Spec => StoreKeepsHistory
<1>1. Spec => Store!Init /\ [][Store!Next]_<<[k \in Keys |-> HistoryOf(obs[k], log[k])],
                                          [k \in Keys |-> SlotOf(obs[k])]>>
  BY InitRefines, StepRefines, Invariance, PTL DEF Spec
<1>2. QED BY <1>1, PTL DEF StoreKeepsHistory, Store!Spec

(***************************************************************************)
(* A completed run has its data.                                           *)
(***************************************************************************)

\* The versions of an account are slots that wrote it, and along the chain they only
\* advance, whatever closes in between.
VersionsAdvance ==
  \A a \in Accounts, s \in 1..Len(chain) :
    /\ chain[s].accounts[a] <= s
    /\ \A t \in 1..s :
         chain[s].accounts[a] # Absent => chain[t].accounts[a] <= chain[s].accounts[a]

\* What a record of the read at slot s leaves of account a in a table of rows.
IsConfirmed(rows, a, s) ==
  /\ rows[KeyOf[a]] # NoRow
  /\ SoleClaimant(a) => rows[KeyOf[a]].lastSlot >= s

\* The records of the open transaction that are done are in its working copy.
WorkIsDone ==
  tx # NoTx =>
    \A a \in Decoded(cyc[tx.owner].slot) \ tx.todo : IsConfirmed(tx.obs, a, cyc[tx.owner].slot)

\* The store has what the read at slot s carried.
HasData(s) ==
  /\ s \in 1..Len(chain)
  /\ \A a \in Decoded(s) : IsConfirmed(obs, a, s)
  /\ \A a \in Unparsed(s) : <<a, chain[s].accounts[a]>> \in parked

DataInv ==
  /\ VersionsAdvance
  /\ WorkIsDone
  /\ \A i \in 1..Len(runs) : runs[i].slot # NoSlot => HasData(runs[i].slot)

\* The account that a step of the chain writes gets the new slot for its version.
LEMMA NewSlotVersions ==
  ASSUME ChainTypeOK, ChainStep
  PROVE  \A a \in Accounts :
           chain'[NewSlot].accounts[a] \in {Tip.accounts[a], NewSlot, Absent}
<1>1. /\ Tip \in SlotState /\ NewSlot \in Slots /\ Len(chain) \in Nat
      /\ chain \in Seq(SlotState) /\ NewSlot = Len(chain) + 1
  BY DEF ChainTypeOK, ChainStep, Tip, Slots, NewSlot
<1>2. ASSUME NEW st \in SlotState, chain' = Append(chain, st),
             \A a \in Accounts : st.accounts[a] \in {Tip.accounts[a], NewSlot, Absent}
      PROVE  \A a \in Accounts :
               chain'[NewSlot].accounts[a] \in {Tip.accounts[a], NewSlot, Absent}
  BY <1>1, <1>2
<1>3. ASSUME NEW st \in SlotState, chain' = Append(chain, st), st.accounts = Tip.accounts
      PROVE  \A a \in Accounts :
               chain'[NewSlot].accounts[a] \in {Tip.accounts[a], NewSlot, Absent}
  BY <1>2, <1>3
<1>4. ASSUME NEW b \in Accounts, Submit(b)
      PROVE  \A a \in Accounts :
               chain'[NewSlot].accounts[a] \in {Tip.accounts[a], NewSlot, Absent}
  <2> DEFINE st == [Tip EXCEPT !.accounts = [@ EXCEPT ![b] = NewSlot]]
  <2>1. st \in SlotState /\ chain' = Append(chain, st)
    BY <1>1, <1>4 DEF Submit, SlotState
  <2>2. \A a \in Accounts : st.accounts[a] \in {Tip.accounts[a], NewSlot, Absent}
    BY <1>1 DEF SlotState
  <2> HIDE DEF st
  <2>3. QED BY <1>2, <2>1, <2>2
<1>5. ASSUME NEW b \in Accounts, Close(b)
      PROVE  \A a \in Accounts :
               chain'[NewSlot].accounts[a] \in {Tip.accounts[a], NewSlot, Absent}
  <2> DEFINE st == [Tip EXCEPT !.accounts = [@ EXCEPT ![b] = Absent]]
  <2>1. st \in SlotState /\ chain' = Append(chain, st)
    BY <1>1, <1>5 DEF Close, SlotState
  <2>2. \A a \in Accounts : st.accounts[a] \in {Tip.accounts[a], NewSlot, Absent}
    BY <1>1 DEF SlotState
  <2> HIDE DEF st
  <2>3. QED BY <1>2, <2>1, <2>2
<1>6. CASE NextEpoch
  <2>1. [Tip EXCEPT !.live = @ + 1] \in SlotState
    BY <1>1, <1>6 DEF NextEpoch, SlotState
  <2>2. QED BY <1>1, <1>3, <1>6, <2>1 DEF NextEpoch, SlotState
<1>7. CASE GatewayMoves
  <2>1. [Tip EXCEPT !.registry = NewSlot] \in SlotState
    BY <1>1 DEF SlotState
  <2>2. QED BY <1>1, <1>3, <1>7, <2>1 DEF GatewayMoves, SlotState
<1>8. ASSUME NEW e \in Epochs, Tally(e)
      PROVE  \A a \in Accounts :
               chain'[NewSlot].accounts[a] \in {Tip.accounts[a], NewSlot, Absent}
  <2>1. [Tip EXCEPT !.tally = [@ EXCEPT ![e] = NewSlot]] \in SlotState
    BY <1>1 DEF SlotState
  <2>2. QED BY <1>1, <1>3, <1>8, <2>1 DEF Tally, SlotState
<1>9. QED BY <1>4, <1>5, <1>6, <1>7, <1>8 DEF ChainStep

LEMMA VersionsKeepAdvancing ==
  ASSUME ChainTypeOK, VersionsAdvance, ChainStep
  PROVE  VersionsAdvance'
<1> DEFINE n == Len(chain)
<1>1. /\ ChainTypeOK' /\ n \in Nat \ {0} /\ Len(chain') = n + 1 /\ NewSlot = n + 1
      /\ \A s \in 1..n : chain'[s] = chain[s]
  BY ChainOnlyGrows DEF ChainTypeOK, Slots, NewSlot
<1>2. \A a \in Accounts : /\ \A s \in 1..n : chain[s].accounts[a] \in Nat
                          /\ \A s \in 1..n + 1 : chain'[s].accounts[a] \in Nat
  <2>1. /\ \A s \in 1..n : chain[s] \in SlotState
        /\ \A s \in 1..n + 1 : chain'[s] \in SlotState
    BY <1>1 DEF ChainTypeOK
  <2>2. \A st \in SlotState, a \in Accounts : st.accounts[a] \in Nat
    BY MaxSlotIsPositive DEF SlotState, Slots, Absent
  <2>3. QED BY <2>1, <2>2
<1>3. ASSUME NEW a \in Accounts, NEW s \in 1..n + 1
      PROVE  /\ chain'[s].accounts[a] <= s
             /\ \A t \in 1..s :
                  chain'[s].accounts[a] # Absent => chain'[t].accounts[a] <= chain'[s].accounts[a]
  <2>1. CASE s \in 1..n
    BY <1>1, <2>1 DEF VersionsAdvance
  <2>2. CASE s = n + 1
    <3>1. chain'[s].accounts[a] \in {chain[n].accounts[a], n + 1, 0}
      BY <1>1, <2>2, NewSlotVersions DEF Tip, Absent
    <3>2. \A t \in 1..n : chain[t].accounts[a] <= t
      BY DEF VersionsAdvance
    <3>3. chain[n].accounts[a] # 0 => \A t \in 1..n : chain[t].accounts[a] <= chain[n].accounts[a]
      BY <1>1 DEF VersionsAdvance, Absent
    <3>4. chain'[s].accounts[a] <= s
      BY <1>1, <1>2, <2>2, <3>1, <3>2
    <3>5. ASSUME NEW t \in 1..n, chain'[s].accounts[a] # 0
          PROVE  chain'[t].accounts[a] <= chain'[s].accounts[a]
      <4>1. chain'[t] = chain[t] /\ chain[t].accounts[a] <= t /\ chain[t].accounts[a] \in Nat
        BY <1>1, <1>2, <3>2
      <4>2. QED BY <1>1, <3>1, <3>3, <3>5, <4>1
    <3>6. QED BY <1>1, <1>2, <2>2, <3>4, <3>5 DEF Absent
  <2>3. QED BY <1>1, <2>1, <2>2
<1>4. QED BY <1>1, <1>3 DEF VersionsAdvance

LEMMA VersionsStart == ChainInit => VersionsAdvance
<1> SUFFICES ASSUME ChainInit PROVE VersionsAdvance
  OBVIOUS
<1>1. PICK e \in Epochs :
        chain = << [live     |-> e,
                    accounts |-> [a \in Accounts |-> IF a \in StartsWith THEN 1 ELSE Absent],
                    registry |-> 1,
                    tally    |-> [f \in Epochs |-> IF f \in StartsWith THEN 1 ELSE Absent]] >>
  BY DEF ChainInit
<1>2. Len(chain) = 1 /\ \A a \in Accounts : chain[1].accounts[a] \in {0, 1}
  BY <1>1 DEF Absent
<1>3. QED BY <1>2 DEF VersionsAdvance, Absent

\* A record confirms its account: a row that is fresher than the read was written by a
\* later read, and no clock tells a read of one account from an older one.
LEMMA RecordConfirms ==
  ASSUME ChainTypeOK, VersionsAdvance,
         NEW a \in Accounts, NEW k \in Keys, k = KeyOf[a],
         NEW row \in Row \cup {NoRow}, row # NoRow => RowIsOnChain(k, row),
         NEW s \in 1..Len(chain), chain[s].accounts[a] \in Slots
  PROVE  /\ Upserted(row, a, chain[s].accounts[a], s) # NoRow
         /\ SoleClaimant(a) => Upserted(row, a, chain[s].accounts[a], s).lastSlot >= s
<1> DEFINE v == chain[s].accounts[a]
           new == Upserted(row, a, v, s)
<1>0. Len(chain) \in Nat /\ s \in Slots /\ v \in Slots
  BY ReadsAreOfTheChain DEF ChainTypeOK, Slots
<1>1. new \in Row /\ new # NoRow
  <2>1. << >> \in Seq(Superseded)
    OBVIOUS
  <2>2. new \in Row
    BY <1>0, <2>1, UpsertedType
  <2>3. QED BY <2>2, NoRowIsNoRow
<1>2. ASSUME SoleClaimant(a) PROVE new.lastSlot >= s
  <2>1. CASE row = NoRow
    BY <1>0, <2>1, UpsertedCases DEF New, Slots
  <2>2. CASE row # NoRow /\ ~Changed(row, a, v)
    <3>1. new = [row EXCEPT !.lastSlot = Later(@, s)]
      BY <2>2, UpsertedCases
    <3>2. row \in Row
      BY <2>2
    <3>3. QED BY <1>0, <3>1, <3>2 DEF Row, Later, Slots
  <2>3. CASE Revises(row, a, v, s)
    BY <1>0, <2>3, UpsertedCases DEF Revised, Slots
  <2>4. CASE row # NoRow /\ Changed(row, a, v) /\ ~Revises(row, a, v, s)
    <3>1. new = row /\ row \in Row /\ Stale(row, v, s) /\ RowIsOnChain(k, row)
      BY <2>4, UpsertedCases DEF Revises
    <3>2. row.account = a
      BY <1>2, <3>1 DEF RowIsOnChain, SoleClaimant, Row
    <3>3. ASSUME ~(s < row.lastSlot) PROVE FALSE
      <4>1. SecondOf[v] < SecondOf[row.version]
        BY <3>1, <3>3 DEF Stale
      <4>2. row.lastSlot \in 1..s /\ row.version = chain[row.lastSlot].accounts[a]
        BY <1>0, <3>1, <3>2, <3>3 DEF RowIsOnChain, Row, Slots
      <4>3. row.version <= v
        BY <1>0, <4>2 DEF VersionsAdvance, Absent, Slots
      <4>4. row.version \in Slots
        BY <3>1 DEF Row
      <4>5. SecondOf[row.version] <= SecondOf[v] /\ SecondOf[row.version] \in Nat /\ SecondOf[v] \in Nat
        BY <1>0, <4>3, <4>4, SecondsFollowSlots
      <4>6. QED BY <4>1, <4>5
    <3>4. QED BY <1>0, <3>1, <3>3 DEF Row, Slots
  <2>5. QED BY <2>1, <2>2, <2>3, <2>4 DEF Revises
<1>3. QED BY <1>1, <1>2

\* The open transaction is that of the daemon inside "upsert".
LEMMA OwnerUpserts ==
  ASSUME IInv, tx # NoTx
  PROVE  tx \in Tx /\ tx.owner \in Daemons /\ pc[tx.owner] = "upsert"
<1>1. tx \in Tx /\ tx.owner \in Daemons
  BY DEF IInv, TypeOK, Tx
<1>2. QED BY <1>1 DEF IInv, CycleIsSound

\* A step that leaves the chain, the rows and the parked bytes alone, at most rolls the
\* open transaction back and gives no run a slot, loses no data.
LEMMA DataUntouched ==
  ASSUME DataInv, UNCHANGED <<chain, obs, parked>>,
         \/ tx' = NoTx
         \/ tx' = tx /\ (tx # NoTx => cyc'[tx.owner].slot = cyc[tx.owner].slot),
         \A i \in 1..Len(runs') :
           \/ runs'[i].slot = NoSlot
           \/ i \in 1..Len(runs) /\ runs'[i].slot = runs[i].slot
  PROVE  DataInv'
<1>1. VersionsAdvance'
  BY DEF DataInv, VersionsAdvance
<1>2. WorkIsDone'
  BY DEF DataInv, WorkIsDone, IsConfirmed, Decoded, SizedRead
<1>3. \A s : HasData(s) => HasData(s)'
  BY DEF HasData, IsConfirmed, Decoded, Unparsed, SizedRead
<1>4. QED BY <1>1, <1>2, <1>3 DEF DataInv

\* The steps outside the transaction.
LEMMA ReadsKeepData ==
  ASSUME IInv, DataInv, NEW d \in Daemons,
         \/ Start(d)
         \/ Crash(d)
         \/ StartCycle(d)
         \/ \E s \in 1..Len(chain) : ReadObservations(d, s)
         \/ \E t \in 1..Len(chain) : Canary(d, t)
         \/ \E e \in Epochs, t \in 1..Len(chain) : FetchRegistry(d, e, t)
         \/ \E e \in Epochs : FetchRegistryFails(d, e)
         \/ \E t \in 0..Len(chain) : FetchEpochs(d, t)
         \/ CycleFails(d)
         \/ CommitFails(d)
         \/ \E e \in Epochs : SetEpochCreator(d, e) \/ LookupFails(d, e)
  PROVE  DataInv'
<1>1. /\ runs \in Seq(Run) /\ Len(runs) \in Nat
      /\ cyc \in [Daemons -> Cycle] /\ pc \in [Daemons -> Phases]
  BY DEF IInv, TypeOK
<1>2. tx # NoTx => tx.owner \in Daemons /\ pc[tx.owner] = "upsert"
  BY OwnerUpserts
<1>3. CASE Start(d)
  <2>1. UNCHANGED <<chain, obs, parked, tx, cyc>>
    BY <1>3 DEF Start
  <2>2. ASSUME NEW n \in 1..Len(runs), runs' = Prune(runs, n)
        PROVE  /\ Len(runs') = Len(runs)
               /\ \A i \in 1..Len(runs) : runs'[i].slot \in {NoSlot, runs[i].slot}
    BY <1>1, <2>2 DEF Prune, OpenRun
  <2>3. \A i \in 1..Len(runs') :
           \/ runs'[i].slot = NoSlot
           \/ i \in 1..Len(runs) /\ runs'[i].slot = runs[i].slot
    BY <1>3, <2>2 DEF Start
  <2>4. QED BY <2>1, <2>3, DataUntouched
<1>4. CASE Crash(d)
  <2>1. UNCHANGED <<chain, obs, parked, runs>>
    BY <1>4 DEF Crash, store
  <2>2. \/ tx' = NoTx
        \/ tx' = tx /\ (tx # NoTx => cyc'[tx.owner].slot = cyc[tx.owner].slot)
    BY <1>1, <1>2, <1>4 DEF Crash
  <2>3. QED BY <2>1, <2>2, DataUntouched
<1>5. CASE StartCycle(d)
  <2>1. UNCHANGED <<chain, obs, parked, tx>> /\ pc[d] = "idle"
    BY <1>5 DEF StartCycle
  <2>2. tx # NoTx => cyc'[tx.owner].slot = cyc[tx.owner].slot
    BY <1>1, <1>2, <1>5 DEF StartCycle
  <2>3. \A i \in 1..Len(runs') :
           \/ runs'[i].slot = NoSlot
           \/ i \in 1..Len(runs) /\ runs'[i].slot = runs[i].slot
    BY <1>1, <1>5 DEF StartCycle, OpenRun
  <2>4. QED BY <2>1, <2>2, <2>3, DataUntouched
<1>6. ASSUME UNCHANGED <<chain, obs, parked, runs, tx>>,
             tx # NoTx => cyc'[tx.owner].slot = cyc[tx.owner].slot
      PROVE  DataInv'
  BY <1>6, DataUntouched
<1>7. ASSUME NEW s \in 1..Len(chain), ReadObservations(d, s) PROVE DataInv'
  BY <1>1, <1>2, <1>6, <1>7 DEF ReadObservations, store
<1>8. ASSUME NEW t \in 1..Len(chain), Canary(d, t) PROVE DataInv'
  BY <1>1, <1>2, <1>6, <1>8 DEF Canary, store
<1>9. ASSUME NEW e \in Epochs, NEW t \in 1..Len(chain), FetchRegistry(d, e, t) PROVE DataInv'
  BY <1>1, <1>2, <1>6, <1>9 DEF FetchRegistry, store
<1>10. ASSUME NEW e \in Epochs, FetchRegistryFails(d, e) PROVE DataInv'
  BY <1>1, <1>2, <1>6, <1>10 DEF FetchRegistryFails, store
<1>11. ASSUME NEW t \in 0..Len(chain), FetchEpochs(d, t) PROVE DataInv'
  BY <1>1, <1>2, <1>6, <1>11 DEF FetchEpochs, store
<1>12. CASE CycleFails(d)
  <2>1. UNCHANGED <<chain, obs, parked, tx>>
    BY <1>12 DEF CycleFails
  <2>2. tx # NoTx => cyc'[tx.owner].slot = cyc[tx.owner].slot
    BY <1>1, <1>2, <1>12 DEF CycleFails
  <2>3. \A i \in 1..Len(runs') :
           \/ runs'[i].slot = NoSlot
           \/ i \in 1..Len(runs) /\ runs'[i].slot = runs[i].slot
    <3>1. CASE UNCHANGED runs
      BY <3>1
    <3>2. CASE ~UNCHANGED runs
      <4>1. PICK w \in {"SUSTAINED", "failed"} :
              runs' = Finish(runs, cyc[d].run, [status |-> "failed", slot |-> NoSlot, error |-> w])
        BY <1>12, <3>2 DEF CycleFails
      <4>2. \A i \in 1..Len(runs') :
              \/ runs'[i].slot = NoSlot
              \/ i \in 1..Len(runs) /\ runs'[i].slot = runs[i].slot
        <5> DEFINE row == [status |-> "failed", slot |-> NoSlot, error |-> w]
        <5>1. row \in Run /\ row.slot = NoSlot /\ cyc[d].run \in Nat
          BY <1>1, BoundsAreNat DEF Run, Statuses, NoSlot, Anomalies, Cycle
        <5> HIDE DEF row
        <5>2. Len(runs') = Len(runs)
          BY <1>1, <4>1, <5>1, FinishType DEF row
        <5>3. runs' = runs \/ runs' = [runs EXCEPT ![cyc[d].run] = row]
          BY <4>1 DEF Finish, row
        <5>4. ASSUME NEW i \in 1..Len(runs) PROVE runs'[i] = row \/ runs'[i] = runs[i]
          BY <1>1, <5>3
        <5>5. QED BY <5>1, <5>2, <5>4
      <4>3. QED BY <4>2
    <3>3. QED BY <3>1, <3>2
  <2>4. QED BY <2>1, <2>2, <2>3, DataUntouched
<1>13. CASE CommitFails(d)
  <2>1. UNCHANGED <<chain, obs, parked, runs>>
    BY <1>13 DEF CommitFails, CycleEnds, store
  <2>2. \/ tx' = NoTx
        \/ tx' = tx /\ (tx # NoTx => cyc'[tx.owner].slot = cyc[tx.owner].slot)
    BY <1>1, <1>2, <1>13 DEF CommitFails, CycleEnds
  <2>3. QED BY <2>1, <2>2, DataUntouched
<1>14. ASSUME NEW e \in Epochs, SetEpochCreator(d, e) \/ LookupFails(d, e) PROVE DataInv'
  BY <1>6, <1>14 DEF SetEpochCreator, LookupFails, store
<1>15. QED BY <1>3, <1>4, <1>5, <1>7, <1>8, <1>9, <1>10, <1>11, <1>12, <1>13, <1>14

\* The transaction has done none of its records when it opens.
LEMMA BeginCommitKeepsData ==
  ASSUME IInv, DataInv, NEW d \in Daemons, BeginCommit(d)
  PROVE  DataInv'
<1>1. UNCHANGED <<chain, obs, parked, runs, cyc>>
  BY DEF BeginCommit, store
<1>2. tx' = [owner |-> d, obs |-> obs, log |-> log, todo |-> Decoded(cyc[d].slot)]
  BY DEF BeginCommit
<1>3. WorkIsDone'
  BY <1>1, <1>2 DEF WorkIsDone, Decoded, SizedRead
<1>4. VersionsAdvance' /\ \A s : HasData(s) => HasData(s)'
  BY <1>1 DEF DataInv, VersionsAdvance, HasData, IsConfirmed, Decoded, Unparsed, SizedRead
<1>5. QED BY <1>1, <1>3, <1>4 DEF DataInv

\* A record confirms its account and unconfirms none.
LEMMA UpsertKeepsData ==
  ASSUME IInv, DataInv, NEW d \in Daemons, NEW a \in Accounts, UpsertObservation(d, a)
  PROVE  DataInv'
<1> DEFINE k == KeyOf[a]
           s == cyc[d].slot
           v == chain[s].accounts[a]
           row == tx.obs[k]
           new == Upserted(row, a, v, s)
<1>1. UNCHANGED <<chain, obs, parked, runs, cyc>>
  BY DEF UpsertObservation, store, procs
<1>2. tx # NoTx /\ tx.owner = d /\ tx \in Tx /\ s \in 1..Len(chain) /\ a \in Decoded(s)
  BY OwnerUpserts, a \in tx.todo DEF UpsertObservation, IInv, CycleIsSound, TxIsSound, NoSlot, TypeOK,
     ChainTypeOK, Slots
<1>3. k \in Keys /\ tx.obs \in [Keys -> Row \cup {NoRow}] /\ v \in Slots /\ ChainTypeOK
      /\ s \in Slots /\ tx.log \in [Keys -> Seq(Superseded)]
  BY <1>2, KeyOfType, ReadsAreOfTheChain DEF Tx, IInv, TypeOK, Decoded
<1>4. /\ tx'.owner = d /\ tx'.todo = tx.todo \ {a} /\ tx' # NoTx
      /\ tx'.obs = [tx.obs EXCEPT ![k] = new]
  <2>1. tx' = [tx EXCEPT !.obs = [@ EXCEPT ![k] = new],
                         !.log = [@ EXCEPT ![k] = Logged(row, tx.log[k], a, v, s)],
                         !.todo = @ \ {a}]
    BY DEF UpsertObservation
  <2>2. new \in Row /\ Logged(row, tx.log[k], a, v, s) \in Seq(Superseded)
    BY <1>3, UpsertedType
  <2>3. tx' \in Tx
    BY <1>2, <2>1, <2>2 DEF Tx
  <2>4. QED BY <1>2, <2>1, <2>3, NoTxIsNoTx DEF Tx
<1>5. /\ new # NoRow
      /\ SoleClaimant(a) => new.lastSlot >= s
      /\ new \in Row
      /\ row # NoRow => row \in Row /\ row.lastSlot <= new.lastSlot
  <2>1. row \in Row \cup {NoRow} /\ (row # NoRow => RowIsOnChain(k, row)) /\ LogIsWhole(row, tx.log[k])
    BY <1>2, <1>3 DEF IInv, TxIsSound
  <2>2. new # NoRow /\ (SoleClaimant(a) => new.lastSlot >= s)
    BY <1>2, <1>3, <2>1, RecordConfirms DEF DataInv
  <2>3. new \in Row /\ SlotOf(row) <= SlotOf(new)
    <3> DEFINE entries == tx.log[k]
    <3>1. entries \in Seq(Superseded) /\ LogIsWhole(row, entries) /\ row \in Row \cup {NoRow}
      BY <1>3, <2>1
    <3> HIDE DEF row, entries, v, s, k
    <3>2. Upserted(row, a, v, s) \in Row /\ SlotOf(row) <= SlotOf(Upserted(row, a, v, s))
      BY <1>3, <3>1, UpsertedType, HistoryIsExtended
    <3>3. QED BY <3>2 DEF row, v, s, k
  <2>4. QED BY <2>1, <2>2, <2>3 DEF SlotOf
<1>6. ASSUME NEW b \in Decoded(s) \ tx'.todo PROVE IsConfirmed(tx'.obs, b, s)
  <2>1. b \in Accounts /\ KeyOf[b] \in Keys
    BY KeyOfType DEF Decoded, SizedRead
  <2>2. CASE KeyOf[b] # k
    <3>1. IsConfirmed(tx.obs, b, s)
      BY <1>2, <1>4, <1>6, <2>2 DEF DataInv, WorkIsDone
    <3>2. QED BY <1>3, <1>4, <2>1, <2>2, <3>1 DEF IsConfirmed
  <2>3. CASE KeyOf[b] = k /\ b = a
    BY <1>3, <1>4, <1>5, <2>3 DEF IsConfirmed
  <2>4. CASE KeyOf[b] = k /\ b # a
    BY <1>3, <1>4, <1>5, <2>1, <2>4 DEF IsConfirmed, SoleClaimant
  <2>5. QED BY <2>2, <2>3, <2>4
<1>7. WorkIsDone'
  BY <1>1, <1>2, <1>4, <1>6 DEF WorkIsDone, Decoded, SizedRead, IsConfirmed
<1>8. VersionsAdvance' /\ \A t : HasData(t) => HasData(t)'
  BY <1>1 DEF DataInv, VersionsAdvance, HasData, IsConfirmed, Decoded, Unparsed, SizedRead
<1>9. QED BY <1>1, <1>7, <1>8 DEF DataInv

\* COMMIT: the run that is closed has the data of its own read, those before it keep theirs.
LEMMA CommitKeepsData ==
  ASSUME IInv, IInv', DataInv, NEW d \in Daemons, Commit(d)
  PROVE  DataInv'
<1> DEFINE c == cyc[d]
<1>1. /\ chain' = chain /\ tx' = NoTx /\ obs' = tx.obs /\ tx.todo = {} /\ pc[d] = "upsert"
      /\ parked' = parked \cup {<<a, chain[c.slot].accounts[a]>> : a \in Unparsed(c.slot)}
      /\ runs' = Finish(runs, c.run, ClosedRun(c))
  BY DEF Commit, CycleEnds
<1>2. /\ tx # NoTx /\ tx.owner = d /\ tx \in Tx /\ c.slot \in 1..Len(chain) /\ c \in Cycle
      /\ runs \in Seq(Run) /\ obs \in [Keys -> Row \cup {NoRow}]
      /\ tx.obs \in [Keys -> Row \cup {NoRow}]
  BY <1>1, OwnerUpserts DEF IInv, CycleIsSound, NoSlot, TypeOK, ChainTypeOK, Slots, Tx
<1>3. VersionsAdvance' /\ WorkIsDone'
  BY <1>1 DEF DataInv, VersionsAdvance, WorkIsDone
<1>4. ASSUME NEW s, s = c.slot PROVE HasData(s)'
  <2>1. \A a \in Decoded(s) : IsConfirmed(tx.obs, a, s)
    BY <1>1, <1>2, <1>4 DEF DataInv, WorkIsDone
  <2>2. Decoded(s)' = Decoded(s) /\ Unparsed(s)' = Unparsed(s)
    BY <1>1 DEF Decoded, Unparsed, SizedRead
  <2>3. QED BY <1>1, <1>2, <1>4, <2>1, <2>2 DEF HasData, IsConfirmed
<1>5. ASSUME NEW s, HasData(s) PROVE HasData(s)'
  <2>1. ASSUME NEW a \in Decoded(s) PROVE IsConfirmed(tx.obs, a, s)
    <3>1. KeyOf[a] \in Keys /\ IsConfirmed(obs, a, s) /\ s \in Nat
      BY <1>5, KeyOfType DEF HasData, Decoded, SizedRead
    <3>2. RowIsExtended(KeyOf[a])
      BY <1>2, <3>1 DEF IInv, TxIsSound
    <3>3. SlotOf(obs[KeyOf[a]]) <= SlotOf(tx.obs[KeyOf[a]]) /\ obs[KeyOf[a]] \in Row
      BY <1>2, <3>1, <3>2 DEF RowIsExtended, IsConfirmed
    <3>4. tx.obs[KeyOf[a]] \in Row /\ tx.obs[KeyOf[a]] # NoRow
      BY <1>2, <3>1, <3>3 DEF SlotOf, NoSlot, Row, Slots, IsConfirmed
    <3>5. QED BY <3>1, <3>3, <3>4 DEF SlotOf, IsConfirmed, Row, Slots
  <2>2. QED BY <1>1, <1>5, <2>1 DEF HasData, IsConfirmed, Decoded, Unparsed, SizedRead
<1>6. ASSUME NEW i \in 1..Len(runs'), NEW s, s = runs'[i].slot, s # NoSlot PROVE HasData(s)'
  <2>1. \/ runs'[i] = ClosedRun(c)
        \/ i \in 1..Len(runs) /\ runs'[i] = runs[i]
    BY <1>1, <1>2, <1>6 DEF Finish, NoRun, Cycle
  <2>2. CASE runs'[i] = ClosedRun(c)
    BY <1>4, <1>6, <2>2 DEF ClosedRun
  <2>3. CASE i \in 1..Len(runs) /\ runs'[i] = runs[i]
    BY <1>5, <1>6, <2>3 DEF DataInv
  <2>4. QED BY <2>1, <2>2, <2>3
<1>7. QED BY <1>3, <1>6 DEF DataInv

\* The chain moves on: what it held at the slots of the runs stays.
LEMMA ChainMovedKeepsData ==
  ASSUME IInv, DataInv, ChainMoved
  PROVE  DataInv'
<1>1. UNCHANGED <<obs, parked, runs, tx, cyc>> /\ ChainStep /\ ChainTypeOK
  BY DEF ChainMoved, store, procs, IInv, TypeOK
<1>2. Len(chain) \in Nat /\ Len(chain') = Len(chain) + 1 /\ \A s \in 1..Len(chain) : chain'[s] = chain[s]
  BY <1>1, ChainOnlyGrows DEF ChainTypeOK, Slots
<1>3. VersionsAdvance'
  BY <1>1, VersionsKeepAdvancing DEF DataInv
<1>4. \A s \in 1..Len(chain) : HasData(s) => HasData(s)'
  BY <1>1, <1>2 DEF HasData, IsConfirmed, Decoded, Unparsed, SizedRead
<1>5. WorkIsDone'
  <2>1. CASE tx = NoTx
    BY <1>1, <2>1 DEF WorkIsDone
  <2>2. CASE tx # NoTx
    <3>1. cyc[tx.owner].slot \in 1..Len(chain)
      BY <2>2, OwnerUpserts DEF IInv, CycleIsSound, NoSlot, TypeOK, ChainTypeOK, Slots
    <3>2. QED BY <1>1, <1>2, <3>1 DEF DataInv, WorkIsDone, IsConfirmed, Decoded, SizedRead
  <2>3. QED BY <2>1, <2>2
<1>6. QED BY <1>1, <1>3, <1>4, <1>5 DEF DataInv, HasData

LEMMA DataStep == IInv /\ IInv' /\ DataInv /\ [Next]_vars => DataInv'
<1> SUFFICES ASSUME IInv, IInv', DataInv, [Next]_vars PROVE DataInv'
  OBVIOUS
<1>1. CASE UNCHANGED vars
  BY <1>1, DataUntouched DEF vars, store, procs
<1>2. CASE ChainMoved
  BY <1>2, ChainMovedKeepsData
<1>3. ASSUME NEW d \in Daemons, DaemonStep(d) PROVE DataInv'
  BY <1>3, ReadsKeepData, BeginCommitKeepsData, UpsertKeepsData, CommitKeepsData DEF DaemonStep
<1>4. QED BY <1>1, <1>2, <1>3 DEF Next

\* "Cycle N completed can never be true without cycle N's data", whatever fails, however
\* the cycles of any number of daemons interleave and wherever their replicas stand.
THEOREM CompletedRunsHaveTheirData == Spec => []CompletedRunHasItsData
<1>1. Init => DataInv
  <2>1. Init => VersionsAdvance
    BY VersionsStart DEF Init
  <2>2. QED BY <2>1 DEF Init, DataInv, WorkIsDone
<1>2. DataInv => CompletedRunHasItsData
  BY DEF DataInv, CompletedRunHasItsData, HasData, IsConfirmed
<1>3. QED BY <1>1, <1>2, DataStep, Invariance, PTL DEF Spec

(***************************************************************************)
(* What holds of the one daemon the lock is there for.  Two of them, the   *)
(* one started before the other's COMMIT, break both properties: each      *)
(* seeds its last slot and lists the epochs it needs from tables the other *)
(* has yet to write.                                                       *)
(***************************************************************************)

OneDaemon == \A d, e \in Daemons : d = e

\* The run of a cycle is the newest and open; lastSlot is past every 'ok' run; what the
\* cycle is about to fetch has no authoritative order yet.
OrderOf(d) ==
  LET c == cyc[d]
  IN  /\ pc[d] \in {"down", "idle"} => c = NoCycle
      /\ c.run # NoRun => c.run = Len(runs) /\ runs[c.run].status = "running"
      /\ pc[d] # "down" =>
           \A i \in 1..Len(runs) : runs[i].status = "ok" => runs[i].slot <= mem[d].lastSlot
      /\ pc[d] \in {"canary", "registry", "commit", "upsert"} =>
           c.stale = (c.slot < mem[d].lastSlot)
      /\ \A e \in c.need \cup {g.epoch : g \in c.got} :
           snapshots[e] # NoRow => ~snapshots[e].inEpoch

OrderInv ==
  /\ \A d \in Daemons : OrderOf(d)
  /\ OkRunsInSlotOrder

\* The locals of a daemon, typed.
LEMMA LocalsType ==
  ASSUME IInv, NEW d \in Daemons
  PROVE  /\ pc[d] \in Phases /\ cyc[d] \in Cycle /\ mem[d] \in Memory
         /\ cyc[d].slot \in Nat /\ cyc[d].run \in Nat /\ mem[d].lastSlot \in Nat
         /\ DOMAIN pc = Daemons /\ DOMAIN cyc = Daemons /\ DOMAIN mem = Daemons
         /\ runs \in Seq(Run) /\ Len(runs) \in Nat
         /\ \A i \in 1..Len(runs) : runs[i] \in Run /\ runs[i].slot \in Nat
<1>1. /\ pc \in [Daemons -> Phases] /\ cyc \in [Daemons -> Cycle] /\ mem \in [Daemons -> Memory]
      /\ runs \in Seq(Run)
  BY DEF IInv, TypeOK
<1>2. Slots \cup {NoSlot} \subseteq Nat
  BY MaxSlotIsPositive DEF Slots, NoSlot
<1>3. pc[d] \in Phases /\ cyc[d] \in Cycle /\ mem[d] \in Memory
      /\ DOMAIN pc = Daemons /\ DOMAIN cyc = Daemons /\ DOMAIN mem = Daemons
  BY <1>1
<1>4. cyc[d].slot \in Nat /\ cyc[d].run \in Nat /\ mem[d].lastSlot \in Nat
  BY <1>2, <1>3, BoundsAreNat DEF Cycle, Memory
<1>5. Len(runs) \in Nat /\ \A i \in 1..Len(runs) : runs[i] \in Run
  BY <1>1
<1>6. \A r \in Run : r.slot \in Nat
  BY <1>2 DEF Run
<1>7. QED BY <1>1, <1>3, <1>4, <1>5, <1>6

\* A step that leaves the runs and the snapshots alone, and the cycle in order.
LEMMA OrderUntouched ==
  ASSUME OneDaemon, NEW d \in Daemons, OrderInv, UNCHANGED <<runs, snapshots>>, OrderOf(d)'
  PROVE  OrderInv'
BY DEF OneDaemon, OrderInv, OkRunsInSlotOrder

LEMMA StartKeepsOrder ==
  ASSUME OneDaemon, IInv, OrderInv, NEW d \in Daemons, Start(d)
  PROVE  OrderInv'
<1>1. /\ cyc[d] = NoCycle /\ UNCHANGED <<cyc, snapshots>> /\ pc[d] = "down"
      /\ pc' = [pc EXCEPT ![d] = "idle"]
  BY DEF Start, OrderInv, OrderOf
<1>2. PICK s \in Slots \cup {NoSlot} :
        IsSeed(s) /\ mem' = [mem EXCEPT ![d] = [lastSlot |-> s, failures |-> 0]]
  BY DEF Start
<1>3. /\ Len(runs') = Len(runs) /\ Len(runs) \in Nat
      /\ \A i \in 1..Len(runs) : runs'[i] = runs[i] \/ runs'[i].status = "pruned"
  <2>1. runs \in Seq(Run) /\ Len(runs) \in Nat
    BY LocalsType
  <2>2. ASSUME NEW n \in 1..Len(runs), runs' = Prune(runs, n)
        PROVE  /\ Len(runs') = Len(runs)
               /\ \A i \in 1..Len(runs) : runs'[i] = runs[i] \/ runs'[i].status = "pruned"
    BY <2>1, <2>2 DEF Prune, OpenRun
  <2>3. QED BY <2>1, <2>2 DEF Start
<1>4. \A i \in 1..Len(runs') : runs'[i].status = "ok" => runs'[i].slot <= s
  <2>1. ASSUME NEW i \in 1..Len(runs), runs[i].status = "ok" PROVE runs[i].slot <= s
    BY <1>2, <2>1, i \in DOMAIN runs, LocalsType DEF IsSeed, SlotsStored
  <2>2. QED BY <1>3, <2>1
<1>5. OrderOf(d)'
  BY <1>1, <1>2, <1>4, LocalsType DEF OrderOf, NoCycle
<1>6. OkRunsInSlotOrder'
  BY <1>3 DEF OrderInv, OkRunsInSlotOrder
<1>7. QED BY <1>5, <1>6 DEF OneDaemon, OrderInv

LEMMA CrashKeepsOrder ==
  ASSUME OneDaemon, IInv, OrderInv, NEW d \in Daemons, Crash(d)
  PROVE  OrderInv'
<1>1. /\ cyc'[d] = NoCycle /\ pc'[d] = "down" /\ UNCHANGED <<runs, snapshots>>
  BY LocalsType DEF Crash, store
<1>2. OrderOf(d)'
  BY <1>1 DEF OrderOf, NoCycle
<1>3. QED BY <1>1, <1>2, OrderUntouched

LEMMA StartCycleKeepsOrder ==
  ASSUME OneDaemon, IInv, OrderInv, NEW d \in Daemons, StartCycle(d)
  PROVE  OrderInv'
<1>1. /\ cyc[d] = NoCycle /\ UNCHANGED <<mem, snapshots>> /\ pc[d] = "idle" /\ pc'[d] = "read"
  BY LocalsType DEF StartCycle, OrderInv, OrderOf
<1>2. CASE UNCHANGED <<runs, cyc>>
  <2>1. OrderOf(d)'
    BY <1>1, <1>2 DEF OrderInv, OrderOf, NoCycle
  <2>2. QED BY <1>1, <1>2, <2>1, OrderUntouched
<1>3. CASE runs' = Append(runs, OpenRun)
           /\ cyc' = [cyc EXCEPT ![d] = [NoCycle EXCEPT !.run = Len(runs) + 1]]
  <2>1. /\ Len(runs') = Len(runs) + 1 /\ runs'[Len(runs) + 1].status = "running"
        /\ \A i \in 1..Len(runs) : runs'[i] = runs[i]
    BY <1>3, LocalsType DEF OpenRun
  <2>2. cyc'[d] = [NoCycle EXCEPT !.run = Len(runs) + 1]
    BY <1>3, LocalsType
  <2>3. OrderOf(d)'
    BY <1>1, <2>1, <2>2, LocalsType DEF OrderInv, OrderOf, NoCycle
  <2>4. OkRunsInSlotOrder'
    BY <2>1, LocalsType DEF OrderInv, OkRunsInSlotOrder
  <2>5. QED BY <2>3, <2>4 DEF OneDaemon, OrderInv
<1>4. QED BY <1>2, <1>3 DEF StartCycle

LEMMA ReadKeepsOrder ==
  ASSUME OneDaemon, IInv, OrderInv, NEW d \in Daemons, NEW s \in 1..Len(chain),
         ReadObservations(d, s)
  PROVE  OrderInv'
<1>1. UNCHANGED <<runs, snapshots, mem>> /\ pc[d] = "read"
  BY DEF ReadObservations, store
<1>2. PICK next \in {"canary", "registry"} :
        /\ pc' = [pc EXCEPT ![d] = next]
        /\ cyc' = [cyc EXCEPT ![d] = [@ EXCEPT
             !.slot = s,
             !.stale = s < mem[d].lastSlot,
             !.need = IF next = "registry" THEN {e \in Epochs : NeedsRegistry(s, e)}
                                           ELSE {}]]
  BY DEF ReadObservations
<1>3. /\ cyc'[d].run = cyc[d].run /\ cyc'[d].slot = s /\ cyc'[d].got = cyc[d].got
      /\ cyc'[d].stale = (s < mem[d].lastSlot) /\ pc'[d] = next
      /\ \A e \in cyc'[d].need : NeedsRegistry(s, e)
  BY <1>2, LocalsType DEF Cycle
<1>4. OrderOf(d)'
  BY <1>1, <1>3 DEF OrderInv, OrderOf, NeedsRegistry
<1>5. QED BY <1>1, <1>4, OrderUntouched

LEMMA CanaryKeepsOrder ==
  ASSUME OneDaemon, IInv, OrderInv, NEW d \in Daemons, NEW t \in 1..Len(chain), Canary(d, t)
  PROVE  OrderInv'
<1>1. UNCHANGED <<runs, snapshots, mem>> /\ pc[d] = "canary" /\ pc'[d] = "registry"
  BY LocalsType DEF Canary, store
<1>2. /\ cyc'[d].run = cyc[d].run /\ cyc'[d].slot = cyc[d].slot /\ cyc'[d].got = cyc[d].got
      /\ cyc'[d].stale = cyc[d].stale
      /\ \A e \in cyc'[d].need : NeedsRegistry(cyc[d].slot, e)
  BY LocalsType DEF Canary, Cycle
<1>3. OrderOf(d)'
  BY <1>1, <1>2 DEF OrderInv, OrderOf, NeedsRegistry
<1>4. QED BY <1>1, <1>3, OrderUntouched

LEMMA RegistryKeepsOrder ==
  ASSUME OneDaemon, IInv, OrderInv, NEW d \in Daemons,
         \/ \E e \in Epochs, t \in 1..Len(chain) : FetchRegistry(d, e, t)
         \/ \E e \in Epochs : FetchRegistryFails(d, e)
         \/ \E t \in 0..Len(chain) : FetchEpochs(d, t)
  PROVE  OrderInv'
<1>1. UNCHANGED <<runs, snapshots, mem>> /\ pc[d] = "registry"
  BY DEF FetchRegistry, FetchRegistryFails, FetchEpochs, store
<1>2. /\ cyc'[d].run = cyc[d].run /\ cyc'[d].slot = cyc[d].slot /\ cyc'[d].stale = cyc[d].stale
      /\ pc'[d] \in {"registry", "commit"}
  <2>1. ASSUME NEW e \in Epochs, NEW t \in 1..Len(chain), FetchRegistry(d, e, t)
        PROVE  <1>2!:
    BY <1>1, <2>1, LocalsType DEF FetchRegistry, Cycle
  <2>2. ASSUME NEW e \in Epochs, FetchRegistryFails(d, e)
        PROVE  <1>2!:
    BY <1>1, <2>2, LocalsType DEF FetchRegistryFails, Cycle
  <2>3. ASSUME NEW t \in 0..Len(chain), FetchEpochs(d, t)
        PROVE  <1>2!:
    BY <1>1, <2>3, LocalsType DEF FetchEpochs, Cycle
  <2>4. QED BY <2>1, <2>2, <2>3
<1>3. /\ cyc'[d].need \subseteq cyc[d].need
      /\ \A g \in cyc'[d].got : g \in cyc[d].got \/ g.epoch \in cyc[d].need
  <2>1. ASSUME NEW e \in Epochs, NEW t \in 1..Len(chain), FetchRegistry(d, e, t)
        PROVE  <1>3!:
    <3>1. /\ e \in cyc[d].need
          /\ cyc'[d].need = cyc[d].need \ {e}
          /\ cyc'[d].got = cyc[d].got \cup
               {[epoch |-> e, snapshot |-> SnapshotOf(cyc[d].slot, e, t)]}
      BY <2>1, LocalsType DEF FetchRegistry, Cycle
    <3>2. QED BY <3>1
  <2>2. ASSUME NEW e \in Epochs, FetchRegistryFails(d, e)
        PROVE  <1>3!:
    BY <2>2, LocalsType DEF FetchRegistryFails, Cycle
  <2>3. ASSUME NEW t \in 0..Len(chain), FetchEpochs(d, t)
        PROVE  <1>3!:
    BY <2>3, LocalsType DEF FetchEpochs, Cycle
  <2>4. QED BY <2>1, <2>2, <2>3
<1>4. OrderOf(d)'
  BY <1>1, <1>2, <1>3 DEF OrderInv, OrderOf
<1>5. QED BY <1>1, <1>4, OrderUntouched

LEMMA CycleFailsKeepsOrder ==
  ASSUME OneDaemon, IInv, OrderInv, NEW d \in Daemons, CycleFails(d)
  PROVE  OrderInv'
<1>1. /\ cyc'[d] = NoCycle /\ pc'[d] = "idle" /\ UNCHANGED snapshots
      /\ pc[d] # "down" /\ mem'[d].lastSlot = mem[d].lastSlot
  BY LocalsType DEF CycleFails, Memory
<1>2. /\ Len(runs') = Len(runs)
      /\ \A i \in 1..Len(runs) : runs'[i] = runs[i] \/ runs'[i].status = "failed"
  <2>1. CASE UNCHANGED runs
    BY <2>1
  <2>2. CASE ~UNCHANGED runs
    <3>1. PICK w \in {"SUSTAINED", "failed"} :
            runs' = Finish(runs, cyc[d].run, [status |-> "failed", slot |-> NoSlot, error |-> w])
      BY <2>2 DEF CycleFails
    <3> DEFINE row == [status |-> "failed", slot |-> NoSlot, error |-> w]
    <3>2. row \in Run /\ row.status = "failed"
      BY DEF Run, Statuses, NoSlot, Anomalies
    <3> HIDE DEF row
    <3>3. Len(runs') = Len(runs)
      BY <3>1, <3>2, FinishType, LocalsType DEF row
    <3>4. runs' = runs \/ runs' = [runs EXCEPT ![cyc[d].run] = row]
      BY <3>1 DEF Finish, row
    <3>5. ASSUME NEW i \in 1..Len(runs) PROVE runs'[i] = row \/ runs'[i] = runs[i]
      BY <3>4, LocalsType
    <3>6. QED BY <3>2, <3>3, <3>5
  <2>3. QED BY <2>1, <2>2
<1>3. OrderOf(d)'
  BY <1>1, <1>2 DEF OrderInv, OrderOf, NoCycle
<1>4. OkRunsInSlotOrder'
  BY <1>2 DEF OrderInv, OkRunsInSlotOrder
<1>5. QED BY <1>3, <1>4 DEF OneDaemon, OrderInv

LEMMA BeginCommitKeepsOrder ==
  ASSUME OneDaemon, IInv, OrderInv, NEW d \in Daemons,
         BeginCommit(d) \/ \E a \in Accounts : UpsertObservation(d, a)
  PROVE  OrderInv'
<1>1. UNCHANGED <<runs, snapshots, mem, cyc>> /\ pc[d] \in {"commit", "upsert"} /\ pc'[d] = "upsert"
  BY LocalsType DEF BeginCommit, UpsertObservation, store, procs
<1>2. OrderOf(d)'
  BY <1>1 DEF OrderInv, OrderOf
<1>3. QED BY <1>1, <1>2, OrderUntouched

\* The last slot a cycle leaves behind is no older than the one it found.
LEMMA LastSlotAdvances ==
  ASSUME OneDaemon, IInv, OrderInv, NEW d \in Daemons, NEW n, CycleEnds(d, n),
         pc[d] \in {"commit", "upsert"}
  PROVE  /\ mem[d].lastSlot <= mem'[d].lastSlot
         /\ ~cyc[d].stale => mem[d].lastSlot <= cyc[d].slot /\ mem'[d].lastSlot = cyc[d].slot
         /\ cyc'[d] = NoCycle /\ pc'[d] = "idle"
<1>1. cyc[d].stale = (cyc[d].slot < mem[d].lastSlot)
  BY DEF OrderInv, OrderOf
<1>2. mem'[d].lastSlot = IF cyc[d].stale THEN mem[d].lastSlot ELSE cyc[d].slot
  BY LocalsType DEF CycleEnds
<1>3. cyc'[d] = NoCycle /\ pc'[d] = "idle"
  BY LocalsType DEF CycleEnds
<1>4. cyc[d].slot \in Nat /\ mem[d].lastSlot \in Nat
  BY LocalsType
<1>5. CASE cyc[d].slot < mem[d].lastSlot
  <2>1. cyc[d].stale
    BY <1>1, <1>5
  <2>2. QED BY <1>2, <1>3, <1>4, <2>1
<1>6. CASE ~(cyc[d].slot < mem[d].lastSlot)
  <2>1. ~cyc[d].stale
    BY <1>1, <1>6
  <2>2. QED BY <1>2, <1>3, <1>4, <1>6, <2>1
<1>7. QED BY <1>5, <1>6

LEMMA CommitKeepsOrder ==
  ASSUME OneDaemon, IInv, OrderInv, NEW d \in Daemons, Commit(d)
  PROVE  OrderInv'
<1> DEFINE c == cyc[d]
           row == ClosedRun(c)
<1>1. /\ mem[d].lastSlot <= mem'[d].lastSlot
      /\ ~c.stale => mem[d].lastSlot <= c.slot /\ mem'[d].lastSlot = c.slot
      /\ cyc'[d] = NoCycle /\ pc'[d] = "idle" /\ pc[d] = "upsert" /\ mem'[d].lastSlot \in Nat
  <2>1. pc[d] = "upsert" /\ CycleEnds(d, 0)
    BY DEF Commit
  <2>2. mem'[d].lastSlot \in Nat
    BY <2>1, LocalsType DEF CycleEnds
  <2>3. QED BY <2>1, <2>2, LastSlotAdvances
<1>2. row.slot = c.slot /\ (row.status = "ok" => ~c.stale)
  BY DEF ClosedRun, Verdict
<1>3. runs' = Finish(runs, c.run, row)
  BY DEF Commit
<1>4. \A i \in 1..Len(runs) : runs[i].status = "ok" => runs[i].slot <= mem[d].lastSlot
  BY <1>1 DEF OrderInv, OrderOf
<1> HIDE DEF row
<1>5. CASE c.run = NoRun
  <2>1. runs' = runs
    BY <1>3, <1>5 DEF Finish
  <2>2. OrderOf(d)'
    BY <1>1, <1>4, <2>1, LocalsType DEF OrderOf, NoCycle
  <2>3. QED BY <2>1, <2>2 DEF OneDaemon, OrderInv, OkRunsInSlotOrder
<1>6. CASE c.run # NoRun
  <2>1. /\ c.run = Len(runs) /\ Len(runs) \in Nat \ {0}
        /\ runs' = [runs EXCEPT ![Len(runs)] = row] /\ runs \in Seq(Run)
    BY <1>3, <1>6, LocalsType DEF OrderInv, OrderOf, Finish, NoRun
  <2>2. /\ Len(runs') = Len(runs) /\ runs'[Len(runs)] = row
        /\ \A i \in 1..Len(runs) : i # Len(runs) => runs'[i] = runs[i]
    BY <2>1, LocalsType
  <2>3. OrderOf(d)'
    <3>1. ASSUME NEW i \in 1..Len(runs), runs'[i].status = "ok"
          PROVE  runs'[i].slot <= mem'[d].lastSlot
      <4>1. CASE i = Len(runs)
        BY <1>1, <1>2, <2>2, <3>1, <4>1
      <4>2. CASE i # Len(runs)
        <5>1. runs'[i] = runs[i] /\ runs[i].slot <= mem[d].lastSlot
          BY <1>4, <2>1, <2>2, <3>1, <4>2
        <5>2. QED BY <1>1, <5>1, LocalsType
      <4>3. QED BY <4>1, <4>2
    <3>2. QED BY <1>1, <2>2, <3>1 DEF OrderOf, NoCycle
  <2>4. OkRunsInSlotOrder'
    <3>1. ASSUME NEW i \in 1..Len(runs), NEW j \in 1..Len(runs), i < j,
                 runs'[i].status = "ok", runs'[j].status = "ok"
          PROVE  runs'[i].slot <= runs'[j].slot
      <4>0. i # Len(runs)
        BY <2>1, <3>1
      <4>1. runs'[i] = runs[i] /\ runs[i].slot <= mem[d].lastSlot
        BY <1>4, <2>2, <3>1, <4>0
      <4>2. CASE j = Len(runs)
        BY <1>1, <1>2, <2>2, <3>1, <4>1, <4>2, LocalsType
      <4>3. CASE j # Len(runs)
        <5>1. runs'[j] = runs[j]
          BY <2>1, <2>2, <4>3
        <5>2. QED BY <3>1, <4>1, <5>1 DEF OrderInv, OkRunsInSlotOrder
      <4>4. QED BY <4>2, <4>3
    <3>2. QED BY <2>2, <3>1 DEF OkRunsInSlotOrder
  <2>5. QED BY <2>3, <2>4 DEF OneDaemon, OrderInv
<1>7. QED BY <1>5, <1>6

LEMMA CommitFailsKeepsOrder ==
  ASSUME OneDaemon, IInv, OrderInv, NEW d \in Daemons, CommitFails(d)
  PROVE  OrderInv'
<1>1. /\ mem[d].lastSlot <= mem'[d].lastSlot /\ mem'[d].lastSlot \in Nat
      /\ cyc'[d] = NoCycle /\ pc'[d] = "idle" /\ pc[d] # "down" /\ UNCHANGED <<runs, snapshots>>
  <2>1. pc[d] \in {"commit", "upsert"} /\ CycleEnds(d, 1) /\ UNCHANGED <<runs, snapshots>>
    BY DEF CommitFails, store
  <2>2. mem'[d].lastSlot \in Nat
    BY <2>1, LocalsType DEF CycleEnds
  <2>3. QED BY <2>1, <2>2, LastSlotAdvances
<1>2. \A i \in 1..Len(runs) : runs[i].status = "ok" => runs[i].slot <= mem'[d].lastSlot
  BY <1>1, LocalsType DEF OrderInv, OrderOf
<1>3. OrderOf(d)'
  BY <1>1, <1>2 DEF OrderOf, NoCycle
<1>4. QED BY <1>1, <1>3, OrderUntouched

LEMMA OrderStep == OneDaemon /\ IInv /\ OrderInv /\ [Next]_vars => OrderInv'
<1> SUFFICES ASSUME OneDaemon, IInv, OrderInv, [Next]_vars PROVE OrderInv'
  OBVIOUS
<1>1. CASE UNCHANGED <<runs, snapshots, pc, cyc, mem>>
  BY <1>1 DEF OrderInv, OrderOf, OkRunsInSlotOrder
<1>2. CASE ChainMoved
  BY <1>1, <1>2 DEF ChainMoved, store, procs
<1>3. ASSUME NEW d \in Daemons, DaemonStep(d) PROVE OrderInv'
  <2>1. ASSUME NEW e \in Epochs, SetEpochCreator(d, e) \/ LookupFails(d, e) PROVE OrderInv'
    BY <1>1, <2>1 DEF SetEpochCreator, LookupFails, store
  <2>2. QED BY <1>3, <2>1, StartKeepsOrder, CrashKeepsOrder, StartCycleKeepsOrder, ReadKeepsOrder,
               CanaryKeepsOrder, RegistryKeepsOrder, CycleFailsKeepsOrder, BeginCommitKeepsOrder,
               CommitKeepsOrder, CommitFailsKeepsOrder DEF DaemonStep
<1>4. CASE UNCHANGED vars
  BY <1>1, <1>4 DEF vars, store, procs
<1>5. QED BY <1>2, <1>3, <1>4 DEF Next

LEMMA InitOrder == Init => OrderInv
BY DEF Init, OrderInv, OrderOf, OkRunsInSlotOrder, NoCycle

\* The daemon the lock leaves running never records as 'ok' a read that is older than an
\* 'ok' one before it, whatever crashes, failed commits and pruned runs lie in between.
THEOREM OkRunsAreInSlotOrder ==
  ASSUME OneDaemon PROVE Spec => []OkRunsInSlotOrder
<1>1. OrderInv => OkRunsInSlotOrder
  BY DEF OrderInv
<1>2. IInv /\ OrderInv /\ [Next]_vars => OrderInv'
  BY OrderStep
<1>3. QED BY <1>1, <1>2, InitOrder, Invariance, PTL DEF Spec

\* COMMIT is the only step that writes snapshots, and the epochs it writes had no
\* authoritative order when the cycle asked for theirs.
LEMMA SnapshotStep ==
  ASSUME IInv, OrderInv, [Next]_vars
  PROVE  [\A e \in Epochs :
            snapshots[e] # NoRow /\ snapshots[e].inEpoch => snapshots'[e] = snapshots[e]]_snapshots
<1>1. CASE UNCHANGED snapshots
  BY <1>1
<1>2. ASSUME NEW d \in Daemons, Commit(d), NEW e \in Epochs,
             snapshots[e] # NoRow, snapshots[e].inEpoch
      PROVE  snapshots'[e] = snapshots[e]
  BY <1>2 DEF Commit, OrderInv, OrderOf
<1>3. UNCHANGED snapshots \/ \E d \in Daemons : Commit(d)
  <2>1. ASSUME NEW d \in Daemons, DaemonStep(d), ~Commit(d) PROVE UNCHANGED snapshots
    BY <2>1 DEF DaemonStep, Start, Crash, StartCycle, ReadObservations, Canary, FetchRegistry,
                FetchRegistryFails, FetchEpochs, CycleFails, BeginCommit, UpsertObservation,
                CommitFails, SetEpochCreator, LookupFails, store
  <2>2. QED BY <2>1 DEF Next, ChainMoved, vars, store
<1>4. QED BY <1>1, <1>2, <1>3

\* Once an epoch has an authoritative slot order, the daemon never replaces it.
THEOREM AuthoritativeOrderStays ==
  ASSUME OneDaemon PROVE Spec => AuthoritativeSnapshotIsFinal
<1>1. IInv /\ OrderInv /\ [Next]_vars => OrderInv'
  BY OrderStep
<1>2. QED BY <1>1, InitOrder, SnapshotStep, Invariance, PTL DEF Spec, AuthoritativeSnapshotIsFinal
=============================================================================
