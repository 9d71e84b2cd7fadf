SPECIFICATION FairSpec
CONSTANTS
  AllEpochs = AllEpochs
  NoFact = NoFact
  CoSubmissionWindow = 60
  SharedAsnMinObservers = 2
  PersistentMinEpochs = 2
  CompositeMinKinds = 2
  MinCluster = 1
  Broken = {"unmatched_observer"}
  Epochs = {1, 2, 3}
  Observers = {1, 2, 3, 4}
  Starts <- MCStarts
  Submissions <- MCSubmissions
  Rosters <- MCRosters
  DefaultThreshold <- MCDefaultThreshold
  MinEpochs = 1
  WindowEpochs = 2
  MaxObservations = 5
  MaxCalibrations = 1
  MaxWrites = 2
  FeedEpochs = 1
INVARIANTS IInv ResultsAreGroupedRight DocumentsAddUp PolarityDoesNotMatter
PROPERTIES FirstSeenIsKept IndependentPairsDoNotFire FindingsCatchUp
CHECK_DEADLOCK FALSE
