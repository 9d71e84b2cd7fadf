---------------------------- MODULE SolanaChain ----------------------------
(***************************************************************************)
(* The chain the capture daemon reads, as far as the daemon can see it.    *)
(* Nothing of it is in the repository: it is modelled from what            *)
(* src/capture/rpc.ts asks for and what its callers assume of the answers. *)
(*                                                                         *)
(* `chain` is the history of the chain, one state per slot.  A read names  *)
(* the slot it was answered at (the RPC context slot) and returns the      *)
(* state of that slot: RPC providers balance the load over replicas, so    *)
(* any slot up to the newest may answer.                                   *)
(*                                                                         *)
(* The bytes of an account are abstracted to the slot that wrote them, its *)
(* version: two writes of one account are never the same bytes.            *)
(***************************************************************************)
EXTENDS Naturals, Sequences

CONSTANTS
  Accounts,     \* pubkeys of Observation accounts
  Keys,         \* the (epoch_index, observer) pairs
  KeyOf,        \* [Accounts -> Keys]: the identity an account's bytes claim
  Epochs,       \* epoch indexes
  EpochOf,      \* [Keys -> Epochs]
  SecondOf,     \* [Slots -> Nat]: the chain's clock, in seconds, at a slot
  Undecodable,  \* states <<account, version>> whose bytes the decoder refuses
  Oversized,    \* states <<account, version>> of another account size
  MaxSlot,      \* bound: the length of the chain's history
  StartsWith,   \* bound: the Observation accounts, and the epochs whose Epoch
                \* accounts, are on chain in the first slot
  ChainMoves    \* bound: what slots may do in a run

Slots == 1..MaxSlot

AllMoves == {"submit", "close", "epoch", "gateway", "tally"}

ASSUME MaxSlotIsPositive == MaxSlot \in Nat \ {0}
ASSUME EpochsAreNat == Epochs \subseteq Nat /\ Epochs # {}
ASSUME KeyOfType == KeyOf \in [Accounts -> Keys]
ASSUME EpochOfType == EpochOf \in [Keys -> Epochs]
ASSUME SecondsFollowSlots ==
  /\ SecondOf \in [Slots -> Nat]
  /\ \A s, t \in Slots : s <= t => SecondOf[s] <= SecondOf[t]
ASSUME MovesType == ChainMoves \subseteq AllMoves /\ StartsWith \subseteq Accounts \cup Epochs

VARIABLE chain

Absent == 0     \* the version of an account that is not on chain

\* What one slot holds: the live epoch, the version of every Observation
\* account, of the gateway registry and of every Epoch account.
SlotState ==
  [live     : Epochs,
   accounts : [Accounts -> Slots \cup {Absent}],
   registry : Slots,
   tally    : [Epochs -> Slots \cup {Absent}]]

ChainTypeOK == chain \in Seq(SlotState) /\ Len(chain) \in Slots

\* The chain the daemon starts on: the accounts of StartsWith, in an epoch no
\* older than theirs.
ChainInit ==
  \E e \in Epochs :
    /\ \A a \in Accounts \cap StartsWith : EpochOf[KeyOf[a]] <= e
    /\ \A f \in Epochs \cap StartsWith : f <= e
    /\ chain = << [live     |-> e,
                   accounts |-> [a \in Accounts |-> IF a \in StartsWith THEN 1 ELSE Absent],
                   registry |-> 1,
                   tally    |-> [f \in Epochs |-> IF f \in StartsWith THEN 1 ELSE Absent]] >>

Tip == chain[Len(chain)]

NewSlot == Len(chain) + 1

\* A slot in which an observer writes its observation account.  Only the live
\* epoch takes observations; an observer may write again.
Submit(a) ==
  /\ "submit" \in ChainMoves
  /\ Tip.live = EpochOf[KeyOf[a]]
  /\ chain' = Append(chain, [Tip EXCEPT !.accounts = [@ EXCEPT ![a] = NewSlot]])

\* close_observation is permissionless once the epoch is over.
Close(a) ==
  /\ "close" \in ChainMoves
  /\ Tip.accounts[a] # Absent
  /\ Tip.live > EpochOf[KeyOf[a]]
  /\ chain' = Append(chain, [Tip EXCEPT !.accounts = [@ EXCEPT ![a] = Absent]])

NextEpoch ==
  /\ "epoch" \in ChainMoves
  /\ Tip.live + 1 \in Epochs
  /\ chain' = Append(chain, [Tip EXCEPT !.live = @ + 1])

\* A gateway joins or leaves: the registry's slot order changes.
GatewayMoves ==
  /\ "gateway" \in ChainMoves
  /\ chain' = Append(chain, [Tip EXCEPT !.registry = NewSlot])

\* The Epoch account is created, and its tally advances.
Tally(e) ==
  /\ "tally" \in ChainMoves
  /\ e <= Tip.live
  /\ chain' = Append(chain, [Tip EXCEPT !.tally = [@ EXCEPT ![e] = NewSlot]])

ChainStep ==
  /\ NewSlot \in Slots
  /\ \/ \E a \in Accounts : Submit(a) \/ Close(a)
     \/ NextEpoch
     \/ GatewayMoves
     \/ \E e \in Epochs : Tally(e)

----------------------------------------------------------------------------
(* What a read answered at slot s sees.                                    *)

\* getProgramAccounts with the size and discriminator filters.
SizedRead(s) ==
  {a \in Accounts : /\ chain[s].accounts[a] # Absent
                    /\ <<a, chain[s].accounts[a]>> \notin Oversized}

\* getProgramAccounts with the discriminator alone.
AnySizeRead(s) == {a \in Accounts : chain[s].accounts[a] # Absent}

\* getProgramAccounts on the Epoch accounts.
EpochAccountsRead(s) == {e \in Epochs : chain[s].tally[e] # Absent}
=============================================================================
