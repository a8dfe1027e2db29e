CONSTANTS
  r1 = r1
  t1 = t1
  t2 = t2
  p1 = p1
  s1 = s1
  s2 = s2
  NoStamp = NoStamp
  Recorders = {r1}
  Trainers = {t1, t2}
  Performers = {p1}
  Stamps = {s1, s2}
  Parts <- MCParts
SYMMETRY MCSymmetry
SPECIFICATION Spec
INVARIANTS FreshDirectoryRace ReadsWhatWasSaved PerformsWholeResults
PROPERTY PastKept
CHECK_DEADLOCK FALSE
