CONSTANTS
  Configs <- MCConfigs
  Errors <- MCErrors
  Scores <- MCScores
  NoResult = NoResult
  MaxUpdates = 3
  MaxEpochs = 2
SPECIFICATION Spec
INVARIANT BestResultSaved
