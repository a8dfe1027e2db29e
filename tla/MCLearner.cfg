CONSTANTS
  Controllers <- MCControllers
  OutputCount <- MCOutputCount
  CtrlDefaults <- MCCtrlDefaults
  Features <- MCFeatures
  Training = TRUE
  NetInputCount = 1
  NetOutputCount = 1
  UnitCount <- MCUnitCount
  Connections <- MCConnections
  Cells <- MCCells
  SelfConnGater <- MCSelfConnGater
  GatedConns <- MCGatedConns
  MinMaxes <- MCMinMaxes
  NoteEvents <- MCNoteEvents
  Changed <- MCChanged
  CtrlValues <- MCCtrlValues
  NoNote = NoNote
  ZeroEachEpoch = FALSE
  ZeroValidation = {TRUE}
  ZeroOnReset = {TRUE, FALSE}
  MaxSequences = 2
  MaxUpdates = 2
SPECIFICATION Spec
INVARIANTS TypeOK FeaturesTrue ResetForgets ZeroForgets TargetsReachable
CHECK_DEADLOCK FALSE
