CONSTANTS
  Configs <- MCConfigs
  Errors <- MCErrors
  Scores <- MCScores
  NoResult = NoResult
  MaxUpdates = 3
  MaxEpochs = 2
SPECIFICATION Spec
INVARIANTS TypeOK SavedIsBest ValidatedWhenDue AbandonedWhenHopeless StopsForAReason
PROPERTY TrainingEnds
