-------------------------- MODULE ObservationStore --------------------------
(***************************************************************************)
(* The tables of data/observations.sqlite the capture daemon writes, and   *)
(* what src/db/repo-write.ts does to one row of each.  The operators are   *)
(* functions of the row: which rows a cycle touches, and in which          *)
(* transaction, is module Capture.                                         *)
(*                                                                         *)
(* The contents of an observation (gateway_results, gateway_count,         *)
(* report_tx_id, submitted_at) are abstracted to the version of the        *)
(* account they were read from.  Wall-clock columns (first_seen_at,        *)
(* last_seen_at, captured_at) decide nothing and are left out.             *)
(***************************************************************************)
EXTENDS SolanaChain, FiniteSets

CONSTANTS
  NoRow,   \* an observation, registry snapshot or epoch the store lacks
  NoTx     \* no write transaction is open

\* observations: one row per key.
Row ==
  [account  : Accounts,
   version  : Slots,
   revision : Nat \ {0},
   firstSlot : Slots,
   lastSlot  : Slots]

\* observation_revisions: the superseded states of a row, oldest first.
Superseded ==
  [account : Accounts, version : Slots, revision : Nat \ {0}, slot : Slots]

\* registry_snapshots with its registry_slots.
Snapshot == [order : Slots, inEpoch : BOOLEAN]

\* epochs; creator says whether created_by is known.
EpochRow == [version : Slots, slot : Slots, creator : BOOLEAN]

ASSUME NoRowIsNoRow == NoRow \notin Row \cup Snapshot \cup EpochRow

Later(s, t) == IF s >= t THEN s ELSE t
----------------------------------------------------------------------------
(* upsertObservation: the row and its log after a record, the version v of *)
(* account a, was read at slot s.                                          *)

Changed(row, a, v) == row.account # a \/ row.version # v

\* Mutants of Stale: the read's clock forgotten; a chain clock that must advance.
StaleBySecondOnly(row, v, s) == SecondOf[v] < SecondOf[row.version]

StaleInSameSecond(row, v, s) == SecondOf[v] <= SecondOf[row.version] \/ s < row.lastSlot

\* Either clock going backwards: the chain's (submitted_at) or the read's.
Stale(row, v, s) == SecondOf[v] < SecondOf[row.version] \/ s < row.lastSlot

Revises(row, a, v, s) == row # NoRow /\ Changed(row, a, v) /\ ~Stale(row, v, s)

New(a, v, s) ==
  [account |-> a, version |-> v, revision |-> 1, firstSlot |-> s, lastSlot |-> s]

Revised(row, a, v, s) ==
  [account |-> a, version |-> v, revision |-> row.revision + 1,
   firstSlot |-> row.firstSlot, lastSlot |-> s]

\* Mutant of Upserted: a confirmation without the MAX.
ConfirmsBackwards(row, a, v, s) ==
  CASE row = NoRow -> New(a, v, s)
    [] row # NoRow /\ ~Changed(row, a, v) -> [row EXCEPT !.lastSlot = s]
    [] Revises(row, a, v, s) -> Revised(row, a, v, s)
    [] OTHER -> row

Upserted(row, a, v, s) ==
  CASE row = NoRow -> New(a, v, s)
    [] row # NoRow /\ ~Changed(row, a, v) -> [row EXCEPT !.lastSlot = Later(@, s)]
    [] Revises(row, a, v, s) -> Revised(row, a, v, s)
    [] OTHER -> row

\* insertRevision, under the row's revision number.
Logged(row, log, a, v, s) ==
  IF Revises(row, a, v, s)
  THEN Append(log, [account |-> row.account, version |-> row.version,
                    revision |-> row.revision, slot |-> s])
  ELSE log
----------------------------------------------------------------------------
(* insertRegistrySlots (INSERT OR REPLACE) and upsertEpochs, one epoch.    *)

NewEpoch(v, s) == [version |-> v, slot |-> s, creator |-> FALSE]

EpochUpserted(row, v, s) ==
  CASE row = NoRow -> NewEpoch(v, s)
    [] row # NoRow /\ s >= row.slot -> [row EXCEPT !.version = v, !.slot = s]
    [] OTHER -> row

\* Mutant of OldestUnattributed: ORDER BY epoch_index DESC.
NewestUnattributed(table) ==
  LET missing == {e \in Epochs : table[e] # NoRow /\ ~table[e].creator}
  IN  {e \in missing : \A f \in missing : f <= e}

\* epochsMissingCreator(db, 1): the oldest epoch with no creator.
OldestUnattributed(table) ==
  LET missing == {e \in Epochs : table[e] # NoRow /\ ~table[e].creator}
  IN  {e \in missing : \A f \in missing : e <= f}
=============================================================================
