SPECIFICATION Spec
CONSTANTS
  a1 = a1
  a2 = a2
  a3 = a3
  d1 = d1
  d2 = d2
  Accounts <- TwoAccounts
  Keys <- MCKeys
  KeyOf <- TwoKeyOf
  Epochs <- MCEpochs
  EpochOf <- MCEpochOf
  SecondOf <- MCSecondOf
  Undecodable = {}
  Oversized = {}
  MaxSlot = 2
  StartsWith = {1}
  ChainMoves = {"tally"}
  NoRow = NoRow
  NoTx = NoTx
  Daemons = {d1}
  MaxRuns = 2
  MaxFaults = 0
  RowMayFail = FALSE
  Unattributable = {}
PROPERTY EpochRowNeverRegresses
CHECK_DEADLOCK FALSE
