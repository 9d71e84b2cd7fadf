SPECIFICATION Spec
CONSTANTS
  a1 = a1
  a2 = a2
  a3 = a3
  d1 = d1
  d2 = d2
  Accounts <- TwoAccounts
  Keys <- MCKeys
  KeyOf <- TwoKeyOf
  Epochs <- MCEpochs
  EpochOf <- MCEpochOf
  SecondOf <- MCSecondOf
  Undecodable = {}
  Oversized = {}
  MaxSlot = 2
  StartsWith = {a1}
  ChainMoves = {"submit"}
  NoRow = NoRow
  NoTx = NoTx
  Daemons = {d1}
  MaxRuns = 2
  MaxFaults = 1
  RowMayFail = FALSE
  Unattributable = {}
INVARIANT FailedCycleIsFailedRun
CHECK_DEADLOCK FALSE
