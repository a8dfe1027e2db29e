CONSTANTS
  Examples <- MCExamples
  CtrlCount = 2
  Period = 3
  Repetitions = {1}
  Paddings <- MCPaddings
  Configs <- MCConfigs
  TempoUnit = 6
  MaxPasses = 2
SPECIFICATION Spec
INVARIANTS TypeOK ExamplesApart UpdatesWithinPeriod NotesPresentedAtOnce TargetsUpToDate
PROPERTY PassesEnd
