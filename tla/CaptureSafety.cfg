SPECIFICATION Spec
CONSTANTS
  a1 = a1
  a2 = a2
  a3 = a3
  d1 = d1
  d2 = d2
  Accounts <- MCAccounts
  Keys <- MCKeys
  KeyOf <- MCKeyOf
  Epochs <- MCEpochs
  EpochOf <- MCEpochOf
  SecondOf <- MCSecondOf
  Undecodable <- MCUndecodable
  Oversized <- MCOversized
  MaxSlot = 3
  StartsWith = {a1}
  ChainMoves = {"submit", "epoch", "close", "gateway", "tally"}
  NoRow = NoRow
  NoTx = NoTx
  Daemons = {d1}
  MaxRuns = 3
  MaxFaults = 1
  RowMayFail = FALSE
  Unattributable = {}
INVARIANT IInv CompletedRunHasItsData OkRunsInSlotOrder
PROPERTY StoreKeepsHistory AuthoritativeSnapshotIsFinal
CHECK_DEADLOCK FALSE
