SPECIFICATION Spec
CONSTANTS
  a1 = a1
  a2 = a2
  a3 = a3
  d1 = d1
  d2 = d2
  Accounts <- TwoAccounts
  Keys <- MCKeys
  KeyOf <- TwoKeyOf
  Epochs <- MCEpochs
  EpochOf <- MCEpochOf
  SecondOf <- MCSecondOf
  Undecodable = {}
  Oversized = {}
  MaxSlot = 3
  StartsWith = {a1}
  ChainMoves = {"submit", "epoch", "gateway"}
  NoRow = NoRow
  NoTx = NoTx
  Daemons = {d1}
  MaxRuns = 1
  MaxFaults = 0
  RowMayFail = FALSE
  Unattributable = {}
INVARIANT AuthoritativeOrderIsOfItsEpoch
CHECK_DEADLOCK FALSE
