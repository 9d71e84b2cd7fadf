SPECIFICATION FairSpec
CONSTANTS
  a1 = a1
  a2 = a2
  a3 = a3
  d1 = d1
  d2 = d2
  Accounts <- TwoAccounts
  Keys <- LateKeys
  KeyOf <- LateKeyOf
  Epochs <- FourEpochs
  EpochOf <- LateEpochOf
  SecondOf <- MCSecondOf
  Undecodable = {}
  Oversized = {}
  MaxSlot = 3
  StartsWith = {a1, 1, 2, 3}
  ChainMoves = {"submit", "epoch"}
  NoRow = NoRow
  NoTx = NoTx
  Daemons = {d1}
  MaxRuns = 0
  MaxFaults = 1
  RowMayFail = TRUE
  Unattributable = {2}
PROPERTIES EveryObservationIsCaptured EveryLiveEpochGetsItsOrder EpochsAheadAreAttributed
CHECK_DEADLOCK FALSE
